------------------------------ MODULE ChainWalk ------------------------------
(***************************************************************************)
(* The element graph that Chain.printClickClassifiers and                  *)
(* Chain.printClickSimulation write for the rules of a table, with the     *)
(* Click elements a packet meets in it: BacktrackPainter pushes the        *)
(* element behind a jump on a vector in the packet's annotation,           *)
(* Backtracker pops it, StaticCounter counts the packets a rule applied    *)
(* to.  One step is one element's push.                                    *)
(***************************************************************************)
EXTENDS RuleTables

CONSTANTS
    MaxPackets,   \* bound on the packets the traffic blocks send
    Running       \* the report of unused rules is not printed yet
ASSUME MaxPacketsAssumption == MaxPackets \in Nat

VARIABLES
    ruleset,   \* the ruleset that was parsed
    route,     \* the table elements on the packet's way
    pass,      \* the one it is in
    packet,
    at,        \* the element about to handle it
    stack,     \* the vector of elements in its AGGREGATE annotation
    counters,  \* StaticCounter's counts by table and text of a rule
    unused,    \* what the handler "unused" printed, or Running
    sent,      \* packets sent
    verdict,   \* of the last packet that left
    base,      \* history: height of the stack when it entered this table element
    applied    \* history: the rules whose target was taken

vars == <<ruleset, route, pass, packet, at, stack, counters, unused, sent, verdict, base, applied>>

-----------------------------------------------------------------------------
(* Rule.cpp: which elements a rule needs.                                  *)

NeedsIPClassifier(r) == Kinds(r) \cap {"ip", "ignorable"} # {}
\* Mutant: only a rule without other conditions gets a Classifier.
NeedsClassifierAlone(r) == Kinds(r) = {"low"}
NeedsClassifier(r)   == "low" \in Kinds(r)
NeedsPaintSwitch(r)  ==
    r.conditions # <<>> /\ ~NeedsIPClassifier(r) /\ ~NeedsClassifier(r)

\* StateCondition.print and getAllowedStates assert that a state stands alone, but a
\* Classifier is printed without it.
Printable(r) ==
    \/ Ignored(r)
    \/ "state" \in Kinds(r) => Len(r.conditions) = 1 \/ Kinds(r) = {"state", "low"}

RulesOf(n, t) == UNION {{<<c, i>> : i \in DOMAIN RuleSets[n][t][c].rules} :
                            c \in DOMAIN RuleSets[n][t]}
RuleAt(n, t, k) == RuleSets[n][t][k[1]].rules[k[2]]

ASSUME PrintableAssumption ==
    \A n \in DOMAIN RuleSets : \A t \in Table : \A k \in RulesOf(n, t) :
        Printable(RuleAt(n, t, k))

\* One counter for all rules of a table with one text.
Counted(n) == UNION {{<<t, RuleAt(n, t, k).text>> :
                        k \in {x \in RulesOf(n, t) : ~Ignored(RuleAt(n, t, x))}} : t \in Table}

-----------------------------------------------------------------------------
(* Elements.  part is "rule" for the classifier of a rule (one past the    *)
(* last for the end of the chain), "B" for its second one, "counter",      *)
(* "target" for what follows its counter, "bt" for the Backtracker.        *)

Part     == {"rule", "B", "counter", "target", "bt"}
Element(c, i) == [chain |-> c, rule |-> i, part |-> "rule"]
Nowhere  == Element(NoPolicy, 0)
\* Mutant: the painter's NEXT is the rule after the next.
BehindNext  == [pass |-> pass, chain |-> at.chain, rule |-> at.rule + 2]
Behind   == [pass |-> pass, chain |-> at.chain, rule |-> at.rule + 1]

TableHere == RuleSets[ruleset][route[pass].table]
ChainHere == TableHere[at.chain]
RuleHere  == ChainHere.rules[at.rule]

In(part)  == packet # NoPacket /\ at.chain # MasqChain /\ at.part = part
AtRule    == In("rule") /\ at.rule \in DOMAIN ChainHere.rules
AtTarget  == In("target")

kept == <<ruleset, counters, unused, sent, applied>>   \* nothing of the packet's
OnlyMoves == UNCHANGED <<kept, route, pass, packet, stack, verdict, base>>
Goto(part) == at' = [at EXCEPT !.part = part]
NextRule   == at' = Element(at.chain, at.rule + 1)
\* Mutants: all tables count in one map; policies are not printed.
CountedFilter == LET k == <<"filter", RuleHere.text>>
                 IN IF k \in DOMAIN counters THEN k ELSE <<route[pass].table, RuleHere.text>>
EndBacktracksAlways == TRUE
CountedHere == <<route[pass].table, RuleHere.text>>
EndBacktracks == ChainHere.policy = NoPolicy
\* Mutant: output 1 of a classifier leads back to its rule.
BranchBack(hit, part) == at' = IF hit THEN [at EXCEPT !.part = part]
                                      ELSE Element(at.chain, at.rule)
Branch(hit, part) == IF hit THEN Goto(part) ELSE NextRule

\* Jumps to a chain, and the chains packets are sent to, print their end element.
Used(c) == c \in BuiltIn \/ \E d \in DOMAIN TableHere : \E i \in DOMAIN TableHere[d].rules :
                               TableHere[d].rules[i].target = c

-----------------------------------------------------------------------------
\* The script pushes a packet to the first table of its way, unmarked.
Receive(p, rt) ==
    /\ packet = NoPacket /\ unused = Running /\ sent < MaxPackets
    /\ packet' = p /\ route' = rt /\ pass' = 1
    /\ at' = Element(rt[1].chain, 1)
    /\ stack' = <<>> /\ base' = 0
    /\ sent' = sent + 1
    /\ UNCHANGED <<ruleset, counters, unused, verdict, applied>>

\* ACCEPT -> Null -> [0]output of a table leads to the next one with the stack as it is.
Exit(v) ==
    \/ /\ v = "ACCEPT" /\ pass < Len(route)
       /\ pass' = pass + 1
       /\ at' = Element(route[pass + 1].chain, 1)
       /\ base' = Len(stack)
       /\ UNCHANGED <<packet, route, stack, verdict>>
    \/ /\ v # "ACCEPT" \/ pass = Len(route)
       /\ packet' = NoPacket /\ verdict' = v
       /\ route' = <<>> /\ pass' = 0 /\ at' = Nowhere
       /\ stack' = <<>> /\ base' = 0

TakeIgnored ==
    /\ AtRule /\ Ignored(RuleHere)
    /\ NextRule
    /\ OnlyMoves

TakeUnconditional ==
    /\ AtRule /\ ~Ignored(RuleHere) /\ RuleHere.conditions = <<>>
    /\ Goto("counter")
    /\ OnlyMoves

\* A second classifier "B" follows where the rule has LowLevelConditions too.
IPClassifier ==
    /\ AtRule /\ ~Ignored(RuleHere) /\ NeedsIPClassifier(RuleHere)
    /\ Branch(Holds(RuleHere, "ip", packet), IF NeedsClassifier(RuleHere) THEN "B" ELSE "counter")
    /\ OnlyMoves

Classifier ==
    /\ \/ AtRule /\ ~Ignored(RuleHere) /\ ~NeedsIPClassifier(RuleHere) /\ NeedsClassifier(RuleHere)
       \/ In("B")
    /\ Branch(Holds(RuleHere, "low", packet), "counter")
    /\ OnlyMoves

\* An output for each state, by annotation 17.
PaintSwitch ==
    /\ AtRule /\ ~Ignored(RuleHere) /\ NeedsPaintSwitch(RuleHere)
    /\ Branch(Holds(RuleHere, "state", packet), "counter")
    /\ OnlyMoves

StaticCounter ==
    /\ In("counter")
    /\ counters' = [counters EXCEPT ![CountedHere] = @ + 1]
    /\ Goto("target")
    /\ applied' = applied \cup {<<route[pass].table, at.chain, at.rule>>}
    /\ UNCHANGED <<ruleset, route, pass, packet, stack, unused, sent, verdict, base>>

TargetReturn ==
    /\ AtTarget /\ RuleHere.target = "RETURN"
    /\ Goto("bt")
    /\ OnlyMoves

\* BacktrackPainter(next) -> masq.
TargetMasquerade ==
    /\ AtTarget /\ RuleHere.target = "MASQUERADE"
    /\ stack' = Append(stack, Behind)
    /\ at' = Element(MasqChain, 1)
    /\ UNCHANGED <<kept, route, pass, packet, verdict, base>>

\* StaticNat (modelled in StateMachine), then the next rule.
TargetNat ==
    /\ AtTarget /\ RuleHere.target \in {"SNAT", "DNAT"}
    /\ \E h \in Header : packet' = [packet EXCEPT !.header = h]
    /\ NextRule
    /\ UNCHANGED <<kept, route, pass, stack, verdict, base>>

TargetFinal ==
    /\ AtTarget /\ RuleHere.target \in Final
    /\ Exit(RuleHere.target)
    /\ UNCHANGED kept

\* BacktrackPainter(next) -> the first element of the chain.
TargetChain ==
    /\ AtTarget /\ RuleHere.target \notin Final \cup Special
    /\ stack' = Append(stack, Behind)
    /\ at' = Element(RuleHere.target, 1)
    /\ UNCHANGED <<kept, route, pass, packet, verdict, base>>

EndOfChain ==
    /\ In("rule") /\ at.rule = Len(ChainHere.rules) + 1
    /\ Used(at.chain)
    /\ \/ /\ EndBacktracks
          /\ Goto("bt")
          /\ UNCHANGED <<route, pass, packet, stack, verdict, base>>
       \/ /\ ~EndBacktracks
          /\ Exit(ChainHere.policy)
    /\ UNCHANGED kept

\* masq: the StaticNat of the interface with the frame's address, then the Backtracker.
Masquerade ==
    /\ packet # NoPacket /\ at = Element(MasqChain, 1)
    /\ \E h \in Header : packet' = [packet EXCEPT !.header = h]
    /\ Goto("bt")
    /\ UNCHANGED <<kept, route, pass, stack, verdict, base>>

\* The Classifier masq has no output for other addresses: it kills the packet.
MasqueradeUnknown ==
    /\ packet # NoPacket /\ at = Element(MasqChain, 1)
    /\ packet' = NoPacket /\ verdict' = "LOST"
    /\ route' = <<>> /\ pass' = 0 /\ at' = Nowhere /\ stack' = <<>> /\ base' = 0
    /\ UNCHANGED kept

\* The element on top of the stack takes over, in whatever table element it is; the
\* assertion that there is a stack ends the simulation.
Backtracker ==
    /\ packet # NoPacket /\ at.part = "bt"
    /\ stack # <<>>
    /\ LET next == stack[Len(stack)]
       IN /\ at' = Element(next.chain, next.rule)
          /\ pass' = next.pass
    /\ stack' = SubSeq(stack, 1, Len(stack) - 1)
    /\ UNCHANGED <<kept, route, packet, verdict, base>>

\* DriverManager, when the traffic blocks are done, reads rulesPassedCounter.unused.
ReadUnused ==
    /\ packet = NoPacket /\ unused = Running
    /\ unused' = {k \in DOMAIN counters : counters[k] = 0}
    /\ UNCHANGED <<ruleset, route, pass, packet, at, stack, counters, sent, verdict, base, applied>>

Stopped == unused # Running /\ UNCHANGED vars

Init ==
    /\ ruleset \in DOMAIN RuleSets
    /\ packet = NoPacket /\ verdict = "NONE"
    /\ route = <<>> /\ pass = 0 /\ at = Nowhere
    /\ stack = <<>> /\ base = 0
    /\ counters = [k \in Counted(ruleset) |-> 0]
    /\ unused = Running /\ sent = 0 /\ applied = {}

Push ==
    \/ TakeIgnored \/ TakeUnconditional \/ IPClassifier \/ Classifier \/ PaintSwitch
    \/ StaticCounter
    \/ TargetReturn \/ TargetMasquerade \/ TargetNat \/ TargetFinal \/ TargetChain
    \/ EndOfChain \/ Masquerade \/ MasqueradeUnknown \/ Backtracker

Next ==
    \/ \E p \in Packet : \E rt \in Routes(p.state) : Receive(p, rt)
    \/ Push
    \/ ReadUnused \/ Stopped

\* push is a call: an element that got a packet does not stop before it is passed on.
Spec == Init /\ [][Next]_vars /\ WF_vars(Push)

-----------------------------------------------------------------------------
(* Properties.                                                             *)

\* iptables itself keeps the policies to the built-in chains and jumps away from them; the
\* rest is what the program needs: each has a policy, and none does RETURN.
EntryRegular(tb) ==
    \A c \in DOMAIN tb :
        /\ (c \in BuiltIn) = (tb[c].policy # NoPolicy)
        /\ \A i \in DOMAIN tb[c].rules :
              /\ tb[c].rules[i].target \notin BuiltIn
              /\ c \in BuiltIn => tb[c].rules[i].target # "RETURN"

\* Chain.printClickSimulation leaves a state beside a low-level condition out.
EntryTested(tb) ==
    \A c \in DOMAIN tb : \A i \in DOMAIN tb[c].rules :
        Ignored(tb[c].rules[i]) \/ Kinds(tb[c].rules[i]) # {"state", "low"}

Frame == [pass : Nat, chain : Name, rule : Nat]

TypeOK ==
    /\ ruleset \in DOMAIN RuleSets
    /\ packet \in Packet \cup {NoPacket}
    /\ packet = NoPacket => route = <<>> /\ stack = <<>>
    /\ packet # NoPacket => route \in Routes(packet.state) /\ pass \in DOMAIN route
    /\ at \in [chain : Name, rule : Nat, part : Part]
    /\ stack \in Seq(Frame)
    /\ base \in 0 .. Len(stack)
    /\ counters \in [Counted(ruleset) -> Nat]
    /\ unused = Running \/ unused \in SUBSET Counted(ruleset)
    /\ verdict \in Final \cup {"NONE", "LOST"}
    /\ sent \in 0 .. MaxPackets

\* stk above height b tells the way from the chain entry to the chain here, in table tb on
\* pass n: each frame is the element behind the rule that jumped to the next frame's chain.
Callee(stk, here, k) == IF k = Len(stk) THEN here ELSE stk[k + 1].chain
CalledBy(target) == IF target = "MASQUERADE" THEN MasqChain ELSE target
Nested(tb, n, entry, stk, b, here) ==
    /\ Callee(stk, here, b) = entry
    /\ \A k \in b + 1 .. Len(stk) :
         /\ stk[k].pass = n
         /\ stk[k].chain \in DOMAIN tb
         /\ stk[k].rule - 1 \in DOMAIN tb[stk[k].chain].rules
         /\ Callee(stk, here, k) = CalledBy(tb[stk[k].chain].rules[stk[k].rule - 1].target)

\* Whatever chains a packet was in, its stack is the calls it has yet to return from.
CallsNested ==
    packet # NoPacket =>
        Nested(TableHere, pass, route[pass].chain, stack, base, at.chain)

\* The Backtracker finds an element of the table the packet is in, never one a chain left
\* behind by ACCEPT or nothing at all.
BacktracksHere == packet # NoPacket /\ at.part = "bt" => Len(stack) > base

\* "assert(p->anno_u32(AGGREGATE_ANNO_OFFSET) != 0)" in Backtracker.push.
BacktrackAsserted == packet # NoPacket /\ at.part = "bt" => stack # <<>>

\* The report of unused rules names exactly the rules no packet's walk took, those of one
\* text together.
UnusedExact ==
    unused # Running =>
        unused = {k \in Counted(ruleset) :
                    \A x \in applied : <<x[1], RuleAt(ruleset, x[1], <<x[2], x[3]>>).text>> # k}

\* Every packet leaves the element graph.
Leaves == packet # NoPacket ~> packet = NoPacket

\* The walk through the elements is the walk through the chains.
Mid == at.chain = MasqChain   \* between BacktrackPainter and Backtracker of a MASQUERADE
Top == stack[Len(stack)]
CallsSeen == [k \in 1 .. Len(stack) - base - (IF Mid THEN 1 ELSE 0) |->
                 [chain |-> stack[base + k].chain, rule |-> stack[base + k].rule]]

ChainSeen == IF Mid THEN Top.chain ELSE at.chain
RuleSeen  == IF ~Mid THEN at.rule ELSE IF at.part = "bt" THEN Top.rule ELSE Top.rule - 1

Iptables == INSTANCE IptablesWalk WITH chain <- ChainSeen, rule <- RuleSeen, calls <- CallsSeen

WalksIptables == Iptables!WalkSpec

=============================================================================
