# FireSim in TLA+

FireSim simulates an iptables firewall that Shorewall compiled. It reads the network
(`ifconfig` output), the ruleset and a description of the traffic to send, writes a script
for the Click modular router, and lets Click push the packets through the element graph the
script describes. The report says which packets the firewall accepted, rejected or dropped,
whether that was expected, and which rules no packet used.

This directory holds the specification of the parts in which that can go wrong without
anyone noticing: the connection tracking and address translation, the order in which packets
meet tables and translations, the patterns a rule's conditions become, the element graph that
stands for the chains, the way from a verdict to the report, the checks on the traffic to
send, and the files one start of the program leaves to the next. Paths are
relative to the repository (`src/...`); `simulation/` is short for
`src/progs-src/simulation/`, `local/` for `src/libs/Click/elements/local/`.

## 1. The system

### Components

| component | state | operations | interacts with |
|---|---|---|---|
| `Main`, `util/Util` | **the output folder**, log files | check arguments and files, empty the output folder, parse, generate, run Click and report `numRuns` times | calls everything below |
| `ScriptResolver`, `ShorewallParser` | **`script_resolved.txt`**; the text of the ruleset | run the shell parts one by one, cut the file at its markers into filter, nat, mangle | `ChainParser`, `RuleParser` fill one `Table` each |
| `Table`, `Chain`, `Rule` | chains by name, a policy for some, rules in order | `get`, `addRule`, `printClick*` | `ClickGenerator` prints each table once per place in the script |
| `conditions/*`, `ConditionFactory` | one condition per iptables option | `parse` walks the option tokens, `print` writes a Click pattern | owned by `Rule` |
| `NetworkParser`, `NetworkLayout` | interfaces with MAC and IP address | `isInternal`, `isInput`, `isOutput`, `getMacAddress`, `printMasqueradeSwitch` | `ConfigParser`, `ClickGenerator` |
| `ConfigParser` | the traffic block being read | one handler per element, checks at the end of a block, `printClickTraffic` | `NetworkLayout` |
| `ClickGenerator` | none | prints the script: traffic types, tables, verdict elements, driver | all of the above |
| `StateMachine` | **static** `_stateEntryList`; annotation 17 of the packet | `push`, `doNat` | every instance shares the list; `StaticNat` calls `doNat` |
| `StaticNat` | direction, address, port | `push` | `StateMachine::doNat` |
| `BacktrackPainter`, `Backtracker` | a vector of elements in the AGGREGATE annotation | push the element behind a jump, pop it | the chains' elements |
| `StaticCounter` | three **static** maps, rule text to count | `push`, handler `unused` | driver reads the handler at the end |
| `CopyBuffer`, `InfoPainter`, `InfoPrinter`, output `Switch` | a slot for one copy, an EXTRA_PACKETS annotation, a global output number | store or emit the copy, mark, print | the verdict elements ACCEPT, REJECT, DROP |
| `Statistics` | **`statistics.txt`**, the dumps and texts of the run | run Click, subtract the counters from each other, remove the dumps that nothing was written to | `Main` |

Data flows in one direction, parsers to generator to script. What happens afterwards is
driven by Click: a packet source pushes a packet, `push` is a plain call, and the call returns
when the packet has been killed, counted or discarded. There are no threads and no timers
inside the graph, and no message can be lost. Sources take turns between packets, never
within one. So the difficulty of this code is in **long sequences of packets through state that
is shared**, and in what outlives a start:

* the entry list is written by one packet and read by others, of the same connection or not,
  in another part of the script, with other addresses than those the entry was opened with;
* annotations are the only thing that a packet remembers of where it has been, and they are
  carried from table to table;
* counters are global and keyed by text;
* a packet and its copy share bytes and, through annotations, vectors that are freed by hand;
* the same chain is printed once for each place that uses its table;
* each condition of a rule prints itself, without knowing what is printed beside it;
* `script_resolved.txt`, `statistics.txt` and `bogus.txt` lie in the working directory between
  the step that writes and the step that removes them. A start that ends in between leaves them
  to the next one, and what Click returns is not looked at.

### What makes each component correct

* *Connection tracking.* One entry per connection, whatever translation does to it; the answer
  to a packet is recognised by the addresses the packet left with; translations are stable
  over the life of a connection and undone on the way back; a packet without rules is not
  changed by anything.
* *Traffic types.* Each kind of traffic meets the tables in the order netfilter has, and the
  translation stages in opposite order on the way back.
* *Conditions.* The options of a rule are kept, each with its own "!"; the patterns printed for
  them let through exactly the packets the conditions ask for; only what is unsupported is
  refused.
* *Element graph.* Rules are met in order, a rule's target is taken exactly when its conditions
  hold, a chain returns to the rule behind the one that jumped to it, in the table it was
  called in, every packet leaves, and the report of unused rules is exact.
* *Report.* Each packet that was sent is counted under exactly one outcome; the copy that is
  judged is that of the packet which came back; what is reported lost was lost.
* *Traffic blocks.* What passes the parser's checks can be printed, and is the kind of traffic
  the block says.
* *Starts.* The rules simulated are those of the folder, the numbers reported and the files in
  the output folder are those of this start's Click, and every start ends.

The hazards, each with its line and the properties aimed at it, are in `PROJECT.json`.

## 2. Modules

```
StateMachine --------> TrafficTypes ------> MCTrafficTypes, MCSharedTuples
     |                      |
     +-> MCStateMachine     +-> TrafficTypesProofs (uses StateMachineProofs)
     +-> StateMachineProofs

RuleTables --> IptablesWalk  (abstract)
     |              ^ refinement mapping
     +--------> ChainWalk ----> MCChainWalk, ChainWalkProofs

Report -----------------------> MCReport, ReportProofs

ConfigTraffic ----------------> MCConfigTraffic, ConfigTrafficProofs

Conditions -------------------> MCConditions, ConditionsProofs

FireSim ----------------------> MCFireSim, FireSimProofs

InductionLemmas --------------> ReportProofs, ConfigTrafficProofs, ConditionsProofs
```

`Report` stands around the first two: what TrafficTypes and ChainWalk decide about a packet is
open in it. `ConfigTraffic` comes before: it says which packets there can be. `Conditions`
looks into one rule of ChainWalk, where a condition is no more than a set of packets and a kind.
`FireSim` is the program around all of them; what the parsers make of their input, and what the
packets of a run meet, is open in it.

### StateMachine

| specification | code |
|---|---|
| `stateEntryList` | `StateMachine::_stateEntryList` (statemachine.hh), one record per `StateEntry` |
| `packet` | the `WritablePacket` the two elements are called with: protocol, tuple, ICMP type |
| `state` | annotation 17 |
| `Push` | `StateMachine::push`: `PushTransport` is the TCP and UDP branch, `PushIcmpQuery`, `PushIcmpReply`, `PushIcmpError` the three ICMP ones, `PushUnsupported` the `kill` |
| `StaticNat` | `StaticNat::push` and `StateMachine::doNat`; `NewMapping` is the part with an address or port, `PresentMapping` the part without |
| `Leave` | the packet's call has returned |

A loop in the code that breaks at its first hit becomes the set of hits and its least index.
`doNat` has a branch per direction and stage. They follow one pattern, which the module
makes visible: a connection from client to server has three tuples on its way
(`addr`, `AfterDnat`, `Mirror(replyAddr)`), and every branch compares the header with the
tuple before its stage and writes the tuple after it (`OriginatorBefore`, `OriginatorAfter`,
`ReplyBefore`, `ReplyAfter`). The one branch that departs from the pattern is
`RelatedReplyAfter`, see the finding below. Dropped: checksums, the ICMP code (stored, never
read), logging.

The module leaves the order of calls open: any `StaticNat`, with any address and port, may be
called for the packet at any time. `EntriesDistinct` and the types hold even then.

### TrafficTypes

Composes `StateMachine` with the traffic types of `ClickGenerator::printTrafficTypes` and
`NetworkLayout::printTrafficSwitch`. `where` is the part of the script the packet is in: the
nat tables of OutputTraffic (`output`, `outPostrouting`), ArrivingTraffic (`prerouting`) and
ForwardTraffic (`postrouting`), InputTraffic (`input`) and the ACCEPT element. `MeetNatRule` is
one DNAT or SNAT rule of the chain (a NEW packet meets them in order, and goes on after a hit,
as the script does), `Pass...` the end of the nat table for a NEW packet and the `StaticNat`
beside it for any other. What mangle and filter decide is a nondeterministic `Discard`
between any two steps. `Traffic` is sent in any order and number.

Three histories make the properties sayable: `arrived`, the packet in flight as it was sent;
`witness`, one accepted packet (any one: the choice is open at every `Accept`) as it came and
as it left; `clash`, whether two connections ever shared a tuple. The entry list identifies
connections by their tuples alone, so it cannot keep apart connections whose tuples meet; the
properties about translation are claimed for runs without a clash, and two violation runs show
what happens with one. Without nat rules they are claimed for all runs.

### RuleTables, IptablesWalk, ChainWalk

`RuleTables` says what the parsers produce (`RuleTable`, assumed of every ruleset: the code
asserts that the chain a rule jumps to exists) and which chains a packet is shown, in what
order (`Routes`). A condition is the set of packets (header and state) that satisfy it,
together with its kind, because the kind decides which Click classifier it becomes.

`IptablesWalk` is the abstract specification: the walk of a packet through chains as iptables
documents it, restricted to what FireSim claims to support (unsupported conditions are taken
for true; translation targets go on with the next rule). Its state is a chain, a rule and the
calls to return to.

`ChainWalk` is what `Chain::printClickClassifiers` and `printClickSimulation` generate, one
element's `push` per step:

| specification | code |
|---|---|
| `at` | the element; `part` "rule" and "B" are the first and second classifier of a rule, "counter" its StaticCounter, "target" what follows, "bt" the Backtracker |
| `TakeIgnored`, `TakeUnconditional`, `IPClassifier`, `Classifier`, `PaintSwitch` | the `if` cascade of `printClickSimulation` over `Rule::needs...` |
| `TargetReturn`, `TargetMasquerade`, `TargetNat`, `TargetFinal`, `TargetChain` | the target switch (four copies in the code) |
| `EndOfChain` | the element past the last rule: policy or Backtracker |
| `stack` | the vector behind the AGGREGATE annotation; `TargetChain` and `TargetMasquerade` are `BacktrackPainter::push`, `Backtracker` is `Backtracker::push` |
| `counters`, `ReadUnused` | the static maps of `StaticCounter` and its handler, read by the driver |
| `pass`, `route` | which table element of the script the packet is in; `Exit` is the script's `[0]output` |

ACCEPT in a user chain leaves the table with the frames of the callers still on the vector.
The model keeps them there, as the code does; `base` (history) is the height at which a table
was entered.

A rule that has a state beside a low-level condition is printed without the state; ChainWalk
has it so (`Classifier`), and `Conditions` says what it means for the packets.

`PrintableAssumption` excludes rulesets for which an assertion in the generator fails: no
script exists for them.

### Conditions

One rule, from its text to the Click elements in front of its target.

| specification | code |
|---|---|
| `text`, `it`, `conditions` | the token vector, the iterator and the result of `ConditionFactory::parse` |
| `ParseOption` | a turn of that loop: `NamePlace`, `BangFollows` and `ValuesAfter` are where it looks for "!", the name and the parameters; `NrOfParameters` is `_parameterMap` |
| `ConditionOf`, `KeepsNot` | `parseCondition` and the constructors, some of which have no reverse |
| `ChooseElements` | the `needs...` functions of `Rule` as `Chain::printClickClassifiers` asks them |
| `PrintIP`, `PrintLow`, `PrintSwitch` | the loops of `Rule::printClickIPClassifier`, `printClickClassifier` and `getAllowedStates` |
| `Printed` | `print()` of each condition class |
| `Juxtapose`, `Matched` | Click's pattern grammar (external): tests side by side hold together and bind tighter than "or" |

A test of a pattern (dst port 80, not syn) is the set of packets it holds of, a pattern the
sequence of its alternatives. `Satisfied` is what a condition asks for, `Printed` what the class
prints for it. The rules are those iptables-restore accepts: each option has its parameters.
`Unlisted` stands for an interface that the layout does not have, such as the wildcard ppp+: `print()`
of the interface conditions asks `NetworkLayout::getMacAddress` for it, which asserts
(NetworkLayout.cpp:57).
The words of a test (how TOS and TTL values or ICMP type names are written) are abstracted.

### FireSim

`main`, from one start to the next, with the files that outlive it.

| specification | code |
|---|---|
| `Start` | `main` up to the parsers, the emptying of the output folder included |
| `ParseText`, `RunScript`, ..., `RemoveResolved` | `ShorewallParser::parseTable` for the three tables, and `ScriptResolver::resolve` for the shell parts: opening `script_resolved.txt`, the shell's output, reading it and removing it |
| `Generate` | the click script is written |
| `ClickStarts`, `FaultyPacket`, `LastPause`, `PrintLine`, `PrintUnused` | Click: ToDump makes its files, InfoPrinter adds to the texts, the DriverManager prints seven lines and the unused rules |
| `ClickRefuses`, `ClickDies` | the other ways Click ends. `Statistics` compares what it returns with -1 only |
| `OpenStatistics`, ..., `CheckUnused` | `Statistics::getUserReport` behind the call of Click |
| `Abort`, `ScriptFails`, `Kill` | `exit` in a parser, `exit` behind a failing script, the end of the process at any step |

The histories count: `cut`, the starts that ended with `script_resolved.txt` in use; `garbled`,
the starts that simulated other rules than their folder has; `unread`, those that ended with
their own `statistics.txt` on disk; `reread`, those that ended while they read the one of an
earlier Click, and left it there; `stale`, the reports of another Click's numbers. A kill
takes the shell and Click with it, and no two starts run at the same time. A file is a sequence
of cells: `exec 3<>` overwrites from the front and leaves the tail. The newline `resolve` adds
to each line is dropped. A line that is missing in `statistics.txt` leaves an uninitialised
integer, so any number is read (`Positive`).

### Report

The script around the firewall. `place` is the element that handles the packet next.

| specification | code |
|---|---|
| `Send`, `Stop` | a traffic block's source, TCPIPSend, InfiniteSource or FromDump with `STOP true`, behind EtherEncap and Paint (`ConfigParser::printClickTraffic`) |
| `Copy`, `Feedback`, `slot` | `CopyBuffer::push` with port 0 and port 1, `_packet` |
| `Input`, `InfoPainter`, `LastPainter` | `inputCounter` with the InfoPainter behind it; those of the tables; the one behind `copy[1]` |
| `heap` | the vectors made by `InfoPainter::push` and `BacktrackPainter::push`, live until the `delete` of `CopyBuffer::push` and `InfoPrinter::push`; annotations are indices in it, 0 is none |
| `shared` | packet and copy share their bytes (`clone`); `StaticNat` ends that (`uniqueify`) |
| `Lose` | a packet that does not come back: `kill` in `StateMachine::push`, `masq` without a matching output |
| `Judge` | CheckPaint, the Counter behind its output, and the Script that writes `output.switch` |
| `WriteFaulty`, `DiscardCorrect` | the Switch with InfoPrinter and ToDump behind it; output -1 discards |
| `PrintCounters` | the DriverManager after its pauses |
| `getUserReport` | `Statistics::getUserReport`, which also removes the dumps that nothing was written to |

A packet's contents are its number, its colour and whether it was translated. The walk of the
tables may add texts, translate, attach a vector of BacktrackPainters, lose the packet or reach
any verdict; ChainWalk and TrafficTypes say which. The texts in `heap` are what the trace files
say. Behind `Feedback`, `slot` and `packet` are one object in the code; they are equal in the
model. The report of unused rules is in ChainWalk. `log` is a history. The annotations hold
pointers in 32 bits, and the painters assert that pointers have that size (infopainter.cc:56,
backtrackpainter.cc:44): the model is that of a build where they have. It is about runs with text files: in those of -t InfoPrinter has
no name to write to, and `FireSim` has that they leave none.

### ConfigTraffic

From `network_layout.xml` and `config.xml` to packet sources.

| specification | code |
|---|---|
| `layout`, `AddInterface` | `NetworkLayout::_content` and the loop of `NetworkParser::parse` |
| `getMacIPMappings`, `find`, `isInternal`, `isOutput`, `isInput`, `hasInterface` | the functions of these names |
| `StartBlock`, `Element`, `EndBlock` | a turn of the outer loop of `ConfigParser::parse`: `new ConfigContent()` with its defaults, one element (`SourceIP`, ..., `SetFlag`, `ClearFlag`), the checks |
| `AddressesAccepted` | the four cases INTERN, OUTPUT, INPUT, FORWARD |
| `ToCheck`, `CheckDump`, `JudgeDump` | `checkDump`: its script (`Bogus`, `WrongMac`), of which Click appends the count to `bogus.txt`, and the first line of that file, which decides |
| `PrintSource` | a turn of the loop of `printClickTraffic`: the frame and the sum of the flags |
| `phase` | how far the program is, or how it ended: `exited` with a message, `aborted` by an assertion, `crashed` behind the end of a vector |
| `Masquerade`, `OutputOf`, `NumberOf` | `printMasqueradeSwitch`: the outputs of the classifier `masq`, and the StaticNats the second loop numbers; the address a frame gets |
| `Erased` | the loop of `TcpFlags` that takes SYN out of the vector, iterating over it |
| `bogus`, `by` | the first line of `bogus.txt`, and whether this start's Click wrote it |
| `Rerun` | the next start of the program, after the end of the last one or a kill at any step |

Between `CheckDump` and `JudgeDump` Click has ended and the file is there: a start that is killed then
leaves its line to the next, whose Click appends behind it. The histories count: `borrowed`, the blocks
whose dump passed on an earlier start's line; `lent`, how many there were in all; `unremoved`, the
starts that ended with a 0 of their own in the file. Click writes its line whole or, if it fails, not at all, and a
kill takes Click with it. Where the last address of the mapping is 0.0.0.0, the masquerade
classifier ends in ", " (NetworkLayout.cpp:153); what Click makes of the empty pattern is not modelled.

Names and MAC addresses are numbers because their order matters: `std::map` iterates in it, and
of two interfaces with one MAC address the last one's address stays. `UShort` and `Short` are
the conversions of `atoi`'s int to the members. An XML element that is refused for its text is
`Refuse`. `asked` is a history of each block: the flags its elements ask for, and whether one was
asked for that was in the vector already (the printer adds the bits up, so twice SYN is RST).

The order of elements in a block is free, as in the file. `EraseSyn` is the loop that erases
from the vector it iterates over; where it steps over the end, the model says `crashed`, the
likeliest of the outcomes of what is undefined.

## 3. What is checked

Every passing run lists its properties in its `.cfg`; every property is listed in
`PROJECT.json` with a changed form of the specification (a plausible bug) under which TLC finds
it violated. The operators marked "Mutant" in the modules are those forms.

| run | question | bounds |
|---|---|---|
| `state_machine` | In any order of calls, are entries well formed and distinct? | 2 hosts, 1 port, TCP, ICMP with a query, its reply and an error, an unsupported protocol, at most 2 entries. 130 461 states. |
| `traffic_types` | Do answers come back, translations last, errors follow their connection? | client `c`, firewall `f`, server `s`; 2 ports; four nat tables (none; DNAT; DNAT and SNAT, by port and for all; OUTPUT DNAT with SNAT); ICMP answers and errors from the queried side; 2 entries. 1 173 219 states. |
| `chain_walk` | Does the element graph walk the chains? | three rulesets that together hold every kind of classifier and target, chains that call chains, chains left by ACCEPT, RETURN and their end, one text in two rules; 2 headers by 4 states, 3 packets. 126 055 states. |
| `conditions` | Are a rule's conditions what its classifiers test? | rules of at most three phrases (an option with the -m that loads its match) in every order iptables accepts, each option plain and with its "!" before or after its name; a value of one, two and (a range) joined tests; packets that differ in what the options test; an interface that is not in the layout. 84 095 states. |
| `config_traffic` | What do the checks on traffic blocks guarantee, and what do they leave to the next start? | two interface names, with distinct MAC addresses, a common one or none; two local addresses and a foreign one; four dumps; starts killed at any step, checks whose Click is not started or fails. `OneBlock`: one block with at most one element beside addresses, interfaces and protocol, at most two flags, no `bogus.txt` of an earlier start. `DumpsOnly`: two blocks of a dump and its interfaces, any `bogus.txt`, at most two counts borrowed and two left behind. 1 633 411 states. |
| `report` | Are the files and the report right, whatever happens to packets? | two blocks of 2 and 1 packets with policies ACCEPT and DROP, one text of the tables a packet. 168 229 states. |
| `firesim` | What does one start of the program leave to the next? | a folder with two shell parts beside plain text and one with a single shorter script; three starts, at most two Clicks in each, at most two kills, failing scripts or dying Clicks. 2 006 984 states. |

*Why the bounds are enough.* Two entries suffice for the searches: a property about a
connection is violated by one other entry that is taken for it, and the search takes the first
hit. Two ports and three hosts give each stage of the translation something to change and
something to leave alone. A walk depends on one packet, and counters on whether they are 0, so
three packets suffice to have a rule used, unused and used by another of the same text. The
stack reaches depth 3 within a table, and frames of an earlier table lie below. `NoClash` ends
a run with nat rules once two connections share a tuple, since the properties say nothing from
there on; with the empty nat table such runs go on. A traffic block starts from a new
`ConfigContent` and is checked against the layout alone, so one block a run shows what its
elements can do. What starts leave to each other is the first line of `bogus.txt`, which
only a dump looks at: `DumpsOnly` has the starts that find one. A pattern depends on the order of a rule's
conditions only through its neighbours, so three phrases have every class between any two.
Three starts are enough for a start to leave a file, a second one to pass it by and a third to
read it; two faults let a file be left on top of another one. In Report nothing of a packet
remains but the counters, the slot and the switch: a packet behind another one of its block,
and one of another block, meet all that can be left.

*Properties.*

* `EntriesDistinct`: no two entries for one connection. `doNat` rewrites `replyAddr` between two
  packets, and `push` searches by it.
* `ReplyRecognised`, `TranslationStable`, `RoundTrip`, `EstablishedStays`: the answer to what
  left is ESTABLISHED; a connection's packets all leave alike; its answers return to the
  addresses it was opened with; it does not become NEW again. They relate what different
  `StaticNat` elements, in different places, do to different packets.
  `RoundTrip` claims the answer's source only where a POSTROUTING chain is passed: what arrives
  for the firewall itself meets no source stage, in the script as in netfilter.
* `Transparent`, `NatFreeReply`: without nat rules nothing is changed and answers are found,
  whatever other entries there are.
* `RelatedFollows`: an ICMP error is RELATED to the connection it is about; from the originator's
  side it leaves with the connection's hosts, from the other it reaches the originator. The
  search is by hosts, so it is claimed while no two connections have hosts in common. The second half leaves
  out errors from one address of the firewall to another (`BetweenOwn`): they meet nat OUTPUT and
  POSTROUTING and then PREROUTING, where the source that `RelatedReplyAfter` wrote can make them
  look like the originator's. With LocalIP = {f, g} and a connection from f to itself that is translated to g, the
  error from g to g ends at g. The run has one local address, so nothing is left out there.
* `CallsNested`, `BacktracksHere`: the vector on a packet is the calls it has yet to return from,
  and the Backtracker always finds one of the table the packet is in.
* `WalksIptables`: refinement of `IptablesWalk`. The mapping counts the painter, `masq` and the
  Backtracker behind a MASQUERADE as part of one step.
* `UnusedExact`: the report of unused rules against a history of the rules taken.
* `Leaves`: every packet leaves the graph.
* `FilesExact`: the dumps and traces hold the faulty packets, as sent, in order, with their own
  texts. It relates the switch, the slot, the sharing of bytes and the life of the vectors.
* `NoDangling`: no annotation of a packet in the script points to a freed vector.
* `LostExact`: the sums of the report against the history of what became of each packet.
* `Reported`: the run ends with a report, whatever packets are lost.
* `FramesTrue`, `DumpsTrue`: rules look at the frame to tell the interface, the traffic switch at
  the addresses; after the checks the two agree for the firewall's own addresses. `DumpsTrue` is claimed
  of the dumps that passed on the count of their own start's Click. Both
  are claimed for layouts with distinct MAC addresses, because `getMacIPMappings` loses
  interfaces otherwise; and of a dump's packet only the destination's interface is claimed,
  because the test of the source reads the destination's offset.
* `LentOnce`: a dump that passed on an earlier start's count, so that nobody looked at it, costs a start
  that was killed between Click's 0 and the removal of `bogus.txt`. A refused dump's count lets none
  through.
* `FlagsAsAsked`: the flags of the packets are those the block asks for, unless a flag is asked
  for that is there already. It relates the default SYN, the loop that erases from the vector it
  iterates over, and the sum of the bits the printer makes of it.
* `MasqueradedByIn`: the two loops of the masquerade switch number the same interfaces alike, so a
  frame gets the address of the interface it comes in by, or is killed where that has none. That
  it is not the interface it leaves by is what offset 0 of the frame means; ChainWalk has the
  place of the switch in a table and the loss.
* `PrintedIfComplete`: the assertions of the printer fail for a block without a protocol, or
  without the interface of the side that the checks do not look at (OUTPUT traffic without an
  in-interface, INPUT traffic without an out-interface), and for no other.
* `OptionsKept`: the token walk gives back the options of the rule, whatever stands between them;
  the one exception is a "!" behind --syn (`TakesNextNot`).
* `RefusedForCause`: the generator gives up on a rule only for what it does not support: an option,
  a "!" or an address type that it does not know, a state beside a condition that is not low-level, and an
  interface that is not in the layout.
* `NothingMissed`, `NothingAdded`: the patterns against the conditions, packet by packet. The
  exceptions are named: several flags reversed, alternatives beside another condition, a state
  beside a low-level condition.
* `GarbledOnce`, `StaleOnce`: a file that a start left behind misleads at most one later start;
  `statistics.txt` one more for each start that is killed while it reads another's, because only the
  end of the report removes it.
* `OutputOfThisStart`: no file in the output folder is of an earlier start, and no text holds the
  packets of two Clicks, though InfoPrinter appends and -t runs Click several times.
* `EvidenceKept`: the report removes the dumps of verdicts that no packet met against its policy,
  and no others, also when Click died while it printed.
* `Ends`: every start ends, whatever Click and the scripts do.

*Fairness.* `push` is a synchronous call: an element that has a packet passes it on before
anything else happens. `Leaves` assumes weak fairness of `Push`, the steps of elements that
hold a packet, and of nothing else: no packet need be sent and the report need not be read.
`Report` assumes it of `Push`, of each source, and of the driver's two last steps: Click's
scheduler gives every task its turn, and `Statistics` runs when Click has ended. A source is
only ready between two packets, but since every source has a finite number of packets, weak
fairness of each is enough.
`FireSim` assumes weak fairness of the program's own steps together (`Parse \/ Click \/ Report`):
it is one thread that waits for what it calls. Kills and failures need not happen. That Click's
part ends is not assumed but follows from `Report`'s `Reported` and ChainWalk's `Leaves` for the
packets in it.
`Next` of `ChainWalk` has an explicit stuttering step once the report is read (`Stopped`), that of `Report` one after the report (`Done`), and
`ConfigTraffic` starts again, so TLC's deadlock check stays on in their runs: no element
is ever without a next step. It is off for `Conditions`, whose last state is the printed rule,
and for `FireSim`, which stops after its last start.

## 4. Findings

Five runs are expected to fail; each shows a disagreement between the code and what a comment,
an assertion or a header says.

* `related_reply`: an ICMP error from the server's side leaves the firewall with the client's
  own address as its source (statemachine.cc:311).
* `shared_port`: two clients with one source port behind one SNAT address get one reply tuple;
  the first takes the answers of both (statemachine.cc:234). In the run both clients' packets leave before
  the server answers, which does nothing but answer; no table drops a packet. The answer to
  the second client arrives at the first.
* `return_at_top`: RETURN in a built-in chain reaches the Backtracker, whose assertion fails
  (Chain.cpp:140, backtracker.cc:42).
* `or_in_rule`: `-p 17 --dports 135,445 -d A` becomes `ip proto 17 dst port 135 or 445 dst host A`,
  which packets to port 135 of any host meet (DstPortsCondition.h:44).
* `leftover`: what a killed start left in `script_resolved.txt` is read behind the next script's
  shorter output (ScriptResolver.cpp:28).

Met on the way, and in the models as they are:

* ICMP entries are kept by type but translated by address pair; the answer to a second kind of
  query between the same hosts is INVALID (statemachine.cc:211).
* A state beside an interface or ICMP type is left out of the pattern (Chain.cpp:135).
* The reverse of several TCP flags is printed flag by flag (TcpFlagsCondition.h:43); a "!" behind
  --syn is taken from the option that follows (ConditionFactory.cpp:210); address types, --state
  and --ctorigdst drop their reverse; --protocol has a parameter count but no class, and is
  refused.
* A refused dump leaves `bogus.txt` behind, whose first line makes every later start refuse its
  dumps (ConfigParser.cpp:530). A start killed between Click's 0 and the removal (line 536) leaves a
  file that lets the next dump pass, whatever it holds (line 528).
* -i or -o of an interface that `network_layout.xml` does not list ends the generator at an assertion
  (NetworkLayout.cpp:57).
* `<SYN>1</SYN>` is added to the SYN that is there by default and sent as RST
  (ConfigParser.cpp:174, 368); `<SYN>0</SYN>` as the only flag steps over the end of a vector.
* MASQUERADE takes the address of the interface a packet enters by, because its classifier reads
  the frame's destination (NetworkLayout.cpp:149).
* The cases in which `PrintedIfComplete` lets the printer abort; layouts with a common MAC address
  (`config/pats/network_layout.xml` has one), where FramesTrue fails.

Read and not in a model: a chain with rules that nothing jumps to ends in an output that leads
nowhere (Chain.cpp:73; no packet gets there); ports and ICMP codes are cut to 16 bits
(ConfigParser.cpp:143; `UShort` and `Short` have it, no property forbids it); a negative number of
packets is a source without a limit (ConfigParser.cpp:255); the message about unused rules is
printed for a file the run did not write when Click died before it (Statistics.cpp:102).

## 5. What is proved

For every value of the constants, checked by TLAPS:

* **StateMachineProofs**: `SMSpec => []SMTypeOK` and `SMSpec => []EntriesDistinct`. From
  the assumptions on the constants only. `EntriesDistinct` is inductive together with
  `SMTypeOK` (`SMInv`), for two different reasons: `push` appends an entry only where its
  search, by `addr` or by the query's addresses and type, came out empty (`TrackedKeeps`), and
  `doNat` changes only `replyAddr` and `gotReply`, which distinctness does not mention
  (`AmendedKeeps`). The ICMP search compares no ports, so there it takes the type invariant:
  ICMP entries have none.
* **TrafficTypesProofs**: `Spec => SMSpec` (every step of the script is a step of the open
  specification or a stutter), hence `Spec => []EntriesDistinct` there; `Spec => []TypeOK`;
  `Spec => []Transparent` and `Spec => []NatFreeReply`. The last two need the invariant `FreeInv`:
  without nat rules every TCP or UDP entry's `replyAddr` is the mirror of its `addr`, so all
  three tuples of a connection are one, and a packet accepted earlier still has its entry.
  With nat rules, `ReplyRecognised`, `EstablishedStays`, `TranslationStable` and `RoundTrip`, for any
  nat tables, addresses and traffic under `EffectiveRules` (each rule changes what it matches, and
  gives a port for TCP and UDP only; `MCTrafficTypes` evaluates it on its tables). The assumption is
  needed: a rule that matches and changes nothing leaves the packet to the next rule, but has
  already reset the mapping of a connection that has one, and a packet dropped between the two
  leaves it so. The invariant (`NatInv`) ties the three places a mapping is in. `Stage`: a NEW
  packet is where the first rules that match take it, `Final` at the end. `Follows`: its
  entry's `replyAddr` is as far as the packet, or as an earlier packet with the header got; so a
  rule met again rewrites what is there (`ToTwice`). `Carried`: an ESTABLISHED packet has the tuple
  of its entry that belongs to its place in the script, whose two StaticNats take it to the next
  (`PassEstablished`). `Disjoint`, which the histories watch as `~clash`, makes each search find that entry
  and no other (`SharedTuple`, `OneWay`). Two packets of a connection are compared through the
  entry they share (`Remembered`). How a packet is classified is decided on arrival, so that the
  first two properties are inductive beside `NatInv`; the other two follow.
  `RelatedFollows` under the same assumption. The error is tied to a TCP or UDP entry by its hosts
  alone (`FollowsError`): `Forth` and `Back` say which tuple of the entry it has at each place, up to ports.
  `ErrorTakes` says that each StaticNat finds that entry and no other, because the list cannot change
  while an error is in flight; `ForthNext` and `BackNext` take it through the StaticNats, of which a
  packet of the firewall to itself meets a third. Where one pair of hosts is before the stage in both
  directions the originator's branch comes first, and its result serves the other direction as well,
  but for `BetweenOwn`. `OpenerFinds` ties what was accepted to what its entry says now.
* **ChainWalkProofs**: `TypeOK`, `CallsNested` and `BacktracksHere` under `AllRegular`: each
  built-in chain has a policy, no user chain has one, nothing jumps to a built-in chain, no
  built-in chain does RETURN. The first three are what iptables-save output guarantees, the
  last is what the program needs (finding `return_at_top` shows why). `BacktracksHere` is not
  inductive: it rests on `Placed` (a packet is at an element of a chain of its table, and at the
  Backtracker only from a user chain) and on `CallsNested`: the chain of the deepest frame is
  the one the packet entered the table by, which is built in, so a packet in a user chain has a
  frame above `base`. `UnusedExact` needs none of this: a counter is 0 as long as no rule of its text
  was taken (`CountInv`), for any ruleset.
  `Spec => WalksIptables` (`ImplementsIptables`) is proved under `AllRegular` and `AllTested` (no rule has a
  state beside a low-level condition: those are printed without the state, and the theorem is
  false of them). The invariant is `Earned`: whoever is at a counter or a target, or at `masq`, is
  there by a rule that applies to the packet, and whoever is at the Backtracker by a RETURN that
  does or by the end of its chain. `SatisfiedByKinds` and `StateAlone` say that the classifiers
  of a rule test all its conditions between them; `CallsPush` and `CallsPop` turn the painters' frames
  into the calls of the abstract walk, and `NoCallsAtEntry` says that a built-in chain's policy
  decides with no call left.
* **ReportProofs**: `TypeOK` and `NoDangling` of Report, for any blocks, policies, numbers of
  packets and texts. Neither is inductive: `IInv` adds `Vectors`, what each place knows of the
  annotations. CopyBuffer is handed a packet without vectors and its copy stays so until
  `Feedback`; behind `inputCounter` a packet has a live vector of texts, different from that of
  its BacktrackPainters, so that freeing the second leaves the first; behind `Feedback` packet
  and slot are one and have no second vector. Each action has a lemma; what happens to the heap
  is said once, in `Allocated`, `Freed`, `Written` and `Painted`.
  `FilesExact` and `LostExact`, under the same, come from `FullInv`: what CopyBuffer holds is the packet
  as sent, and behind `Feedback` the newest entry of the log is the packet in flight, with the texts its
  vector has now and the switch set to the file it belongs in (`Recorded`). A file is then the wrong
  packets of its verdict without the one still `Pending`: at position n the packet that is the n-th of
  them (`Filed`). `Counted` says of every counter how many entries of the log it stands for, and what the
  packet in flight is yet to be counted by; `Ended` that nothing is counted after the last packet,
  without which the report would subtract counters of different moments.
* **ConditionsProofs**: `TypeOK` (the walk never leaves the rule, `WalkInside`), `NothingMissed` and
  `NothingAdded`, for any packets, rules, flags and broadcast addresses. The invariant says what a
  pattern under construction matches in terms of the conditions passed so far (`PatternInv`): what
  is wanted of them is never missed, and if each prints one alternative, nothing else is matched.
  `SideBySide` is what Click's grammar makes of two patterns, `PrintedMeets` compares what a class
  prints with what it asks for; it is where the exceptions come from.
  `OptionsKept` and `RefusedForCause` are about the walk over the tokens, for rules of complete options
  (`RulesAssumption`: each with its values). `Ends` says at which token each option ends, `OptionTokens`
  which tokens it has; `WalkInv` that the walk stands at such an end and has made one
  condition of each option before it and nothing else (`Kept`). That it gets from one end to the next is
  `OptionRead`, for all three places of a "!"; the rule is left out that `TakesNextNot` names,
  where the walk passes the end by one. Refusal is in the same invariant, because an option is refused
  where it is read.
* **ConfigTrafficProofs**: `FramesTrue`, `DumpsTrue`, `LentOnce`, `PrintedIfComplete` and `MasqueradedByIn`, for any
  names, addresses, dumps and numbers of blocks and starts. The invariant (`IInv`) has what the checks at the end of a
  block leave true of it (`Checked`), which survives because the layout is read before the first
  block (`LayoutFirst`); that a printed source has the frame of its block and interfaces of
  the layout (`SourcesPrinted`); and at which block an assertion failed (`AbortedAt`). `DumpsTrue` and `LentOnce` rest on `VInv`: a 0 that this start's Click wrote is
  about the block being judged, which has a dump to check (`Judging`), and a 0 of an earlier start is one that is counted in `unremoved`
  and not in `lent` yet.
  These say nothing of TCP flags. `TypeOK` and `FlagsAsAsked` do, with an invariant of their own (`FInv`): the
  loop that erases from the vector it iterates over leaves a vector of flags, and where no flag was
  asked for twice, each one asked for once (`AsAsked`). What a loop leaves is a recursive function
  of where it stands; it is defined there because each turn has less to go (`Left`, `LoopDefined`), and its result is
  found by induction over that. The printed number is the sum of the flags' bits (`SumAlong`).
* **FireSimProofs**: `TypeOK`, `StaleOnce`, `GarbledOnce`, `OutputOfThisStart` and `EvidenceKept`, for
  any folders, bytes and numbers of starts, Clicks and faults. `Where` ties the parser's position
  to the files. The counting properties need their balance: `Counted`, `stale` reports are paid for
  by `unread` files and by the starts that left them once more (`reread`), a file on disk being one that is not paid for yet; `Owed`, the same of
  `garbled`, with the fact that what has been parsed so far is the folder's text unless the file
  found at the start was another start's. `Numbered` bounds the Clicks in the output folder, `Held`
  says which dumps are there at each point of a Click and its report.

* **InductionLemmas**: what ReportProofs, ConditionsProofs and ConfigTrafficProofs need of
  numbers and sequences. The library's induction
  theorems take the formula as an operator, which the provers cannot instantiate; `Induction` and
  `SetInduction` have it as the set of numbers, or of finite sets, it holds of, and follow
  from well-foundedness. From them: sums over finite sets and their change in one place (`AddsUp`,
  `Fold`, `SumOver`, `OneMoreAt`), folds along a sequence (`SumAlong`), loops as recursive functions with
  a measure (`Looped`), and where the parts of `FlattenSeq` lie in the whole (`Flattened`).

*Only model-checked*: the three liveness properties `Leaves`, `Reported` and `Ends`: liveness under
fairness, and anything with ENABLED, is out of the provers' reach. Every other property of a run that
passes is the subject of a theorem above. RECURSIVE operators are not reasoned about; there
are none in the modules with theorems. Some theorems
assume of rulesets what the code needs of them, `AllRegular` and `AllTested` of ChainWalk and
`EffectiveRules` of TrafficTypes; MCChainWalk and MCTrafficTypes evaluate these on their instances.

## 6. What is not modelled, and the plan

The order is that of importance: first what decides about packets, then what reports about
them, then what reads the input.

1. *Done*: `StateMachine`, `TrafficTypes`, `ChainWalk` with its abstract `IptablesWalk`, the
   proofs of their invariants.
2. *Done*: `Report` and the proof of `TypeOK` and `NoDangling`; `ConfigTraffic` with the masquerade
   switch, and the proof of what its checks guarantee.
3. *Done*: `Conditions`, the token walk and the patterns; `FireSim`, the program over its starts;
   their proofs.
   The proof that ChainWalk implements IptablesWalk.
4. *Done*: the proof that the two translations fit together, for lists without shared tuples, and that
   errors follow their connection; that files and counters tell what the log does; that the walk over the
   tokens keeps the options; what the loop over the flags leaves.
5. `ShorewallParser`'s walk over the sections of the file: `FireSim` has the order of the parts, not
   how they are found.

Not modelled of the components that are: a rule with an ignorable condition and low-level ones
alone, whose IPClassifier pattern is empty and which Click refuses; how TOS, TTL and ICMP type
values are written; the names of `IcmpType`; two starts at the same time in one directory; a shell or a Click that
outlives the program that started it; a line of `bogus.txt` or `statistics.txt` that is written in part.

Not planned: Click itself (a library; its `push` is taken as a call), the text that is parsed
and printed except where a property is about it, the checks of the command line and logging
(`Main`, `Util`), what the shell parts of a ruleset compute, build files and demo configurations.
