--------------------------- MODULE ChainWalkProofs ---------------------------
(***************************************************************************)
(* The stack of the element graph, for every ruleset whose built-in chains *)
(* have policies and do not RETURN.  That the Backtracker finds a frame of *)
(* its own table is not inductive: Placed adds where a packet may be, and  *)
(* CallsNested what the frames below it are.                               *)
(***************************************************************************)
EXTENDS ChainWalk, SequenceTheorems, TLAPS

AllRegular == \A n \in DOMAIN RuleSets : \A t \in Table : EntryRegular(RuleSets[n][t])

AtMasq == at.chain = MasqChain /\ at.rule = 1 /\ at.part \in {"rule", "bt"} /\ Len(stack) > base
InChain ==
    /\ at.chain \in DOMAIN TableHere
    /\ at.rule \in 1 .. Len(ChainHere.rules) + 1
    /\ at.part \in {"B", "counter", "target"} => at.rule \in DOMAIN ChainHere.rules
    /\ at.part = "bt" => at.chain \notin BuiltIn
Placed == packet # NoPacket => AtMasq \/ InChain

IInv == TypeOK /\ Placed /\ CallsNested

-----------------------------------------------------------------------------
(* Routes and tables.                                                      *)

EntryVisit == {v \in [table : Table, chain : BuiltIn] :
                  \A n \in DOMAIN RuleSets : v.chain \in DOMAIN RuleSets[n][v.table]}

\* Every route visits at least one chain, each of them built in and in its table.
LEMMA RouteType ==
    ASSUME NEW s \in State, NEW rt \in Routes(s)
    PROVE  rt \in Seq(EntryVisit) /\ Len(rt) >= 1
<1> DEFINE Stages == {r \in Seq(EntryVisit) : Len(r) >= 1}
<1>1. ASSUME NEW t \in Table, NEW c \in BuiltIn,
             \A n \in DOMAIN RuleSets : c \in DOMAIN RuleSets[n][t]
      PROVE  Visit(t, c) \in Stages
  <2>1. [chain |-> c, table |-> t] \in EntryVisit
    BY <1>1 DEF EntryVisit
  <2> QED BY <2>1 DEF Visit
<1>2. \A n \in DOMAIN RuleSets :
        /\ BuiltIn \subseteq DOMAIN RuleSets[n]["mangle"]
        /\ {"PREROUTING", "OUTPUT", "POSTROUTING"} \subseteq DOMAIN RuleSets[n]["nat"]
        /\ {"INPUT", "FORWARD", "OUTPUT"} \subseteq DOMAIN RuleSets[n]["filter"]
  <2> TAKE n \in DOMAIN RuleSets
  <2>1. {"mangle", "nat", "filter"} \subseteq Table
    BY DEF Table
  <2> QED BY <2>1, RuleSetsAssumption
<1>3. \A c \in BuiltIn : Visit("mangle", c) \in Stages
  <2> TAKE c \in BuiltIn
  <2>1. "mangle" \in Table
    BY DEF Table
  <2> QED BY <1>1, <1>2, <2>1
<1>4. \A c \in {"PREROUTING", "OUTPUT", "POSTROUTING"} : NatVisit(c, s) \in Seq(EntryVisit)
  <2> TAKE c \in {"PREROUTING", "OUTPUT", "POSTROUTING"}
  <2>1. "nat" \in Table /\ c \in BuiltIn
    BY DEF Table, BuiltIn
  <2>2. Visit("nat", c) \in Stages
    BY <1>1, <1>2, <2>1
  <2> QED BY <2>2 DEF NatVisit
<1>5. \A c \in {"INPUT", "FORWARD", "OUTPUT"} : Visit("filter", c) \in Stages
  <2> TAKE c \in {"INPUT", "FORWARD", "OUTPUT"}
  <2>1. "filter" \in Table /\ c \in BuiltIn
    BY DEF Table, BuiltIn
  <2> QED BY <1>1, <1>2, <2>1
<1>6. \A a \in Stages, b \in Seq(EntryVisit) : a \o b \in Stages
  OBVIOUS
<1> HIDE DEF Stages
<1>7. /\ "PREROUTING" \in BuiltIn /\ "INPUT" \in BuiltIn /\ "FORWARD" \in BuiltIn
      /\ "OUTPUT" \in BuiltIn /\ "POSTROUTING" \in BuiltIn
      /\ Stages \subseteq Seq(EntryVisit)
  BY DEF BuiltIn, Stages
<1>8. ForwardTraffic(s) \in Stages /\ InputTraffic \in Stages /\ OutputTraffic(s) \in Stages
  BY <1>3, <1>4, <1>5, <1>6, <1>7 DEF ForwardTraffic, InputTraffic, OutputTraffic
<1>9. ArrivingTraffic(s) \subseteq Stages
  BY <1>3, <1>4, <1>6, <1>7, <1>8 DEF ArrivingTraffic
<1>10. <<>> \in Seq(EntryVisit)
  OBVIOUS
<1>11. OutgoingTraffic(s) \subseteq Stages
  BY <1>6, <1>7, <1>8, <1>9, <1>10 DEF OutgoingTraffic
<1> QED BY <1>9, <1>11 DEF Routes, Stages

\* The table a packet is in, and the chain it entered it by.
LEMMA HereType ==
    ASSUME TypeOK, packet # NoPacket
    PROVE  /\ route \in Seq(EntryVisit) /\ pass \in 1 .. Len(route)
           /\ route[pass].table \in Table
           /\ route[pass].chain \in BuiltIn \cap DOMAIN TableHere
           /\ RuleTable(TableHere)
<1>1. packet \in Packet /\ route \in Routes(packet.state) /\ pass \in DOMAIN route
  BY DEF TypeOK
<1>2. packet.state \in State
  BY <1>1 DEF Packet
<1>3. route \in Seq(EntryVisit)
  BY <1>1, <1>2, RouteType
<1>4. route[pass] \in EntryVisit /\ pass \in 1 .. Len(route)
  BY <1>1, <1>3
<1>5. ruleset \in DOMAIN RuleSets
  BY DEF TypeOK
<1> QED BY <1>3, <1>4, <1>5, RuleSetsAssumption DEF EntryVisit, TableHere

\* A rule met in the graph belongs to its chain and leads to a target that exists.
LEMMA RuleType ==
    ASSUME TypeOK, packet # NoPacket, at.chain \in DOMAIN TableHere,
           at.rule \in DOMAIN ChainHere.rules
    PROVE  /\ ChainHere \in Chain /\ ChainHere.rules \in Seq(Rule)
           /\ RuleHere \in Rule
           /\ RuleHere.target \in Final \cup Special \cup DOMAIN TableHere
           /\ at.rule \in 1 .. Len(ChainHere.rules)
<1>1. RuleTable(TableHere)
  BY HereType
<1>2. ChainHere \in Chain
  BY <1>1 DEF RuleTable, ChainHere
<1>3. ChainHere.rules \in Seq(Rule)
  BY <1>2 DEF Chain
<1> QED BY <1>1, <1>2, <1>3 DEF RuleTable, ChainHere, RuleHere

-----------------------------------------------------------------------------
(* What the steps do to the stack.                                         *)

\* A new frame for the call of rule i of chain c.
LEMMA NestedPush ==
    ASSUME NEW tb, NEW n, NEW entry, NEW stk \in Seq(Frame), NEW b \in 0 .. Len(stk),
           NEW c \in DOMAIN tb, NEW i \in Nat, i \in DOMAIN tb[c].rules,
           NEW f \in Frame, f.pass = n, f.chain = c, f.rule = i + 1,
           Nested(tb, n, entry, stk, b, c)
    PROVE  Nested(tb, n, entry, Append(stk, f), b, CalledBy(tb[c].rules[i].target))
<1> DEFINE stk2   == Append(stk, f)
           m      == Len(stk)
           called == CalledBy(tb[c].rules[i].target)
<1>1. /\ m \in Nat /\ Len(stk2) = m + 1 /\ stk2[m + 1] = f
      /\ \A k \in 1 .. m : stk2[k] = stk[k]
  OBVIOUS
<1> HIDE DEF called
<1>2. \A k \in b .. m : Callee(stk2, called, k) = Callee(stk, c, k)
  <2> TAKE k \in b .. m
  <2>1. CASE k = m
    BY <1>1, <2>1 DEF Callee
  <2>2. CASE k # m
    BY <1>1, <2>2 DEF Callee
  <2> QED BY <2>1, <2>2
<1>3. Callee(stk2, called, m + 1) = called
  BY <1>1 DEF Callee
<1> HIDE DEF stk2
<1>4. ASSUME NEW k \in b + 1 .. m + 1
      PROVE  /\ stk2[k].pass = n
             /\ stk2[k].chain \in DOMAIN tb
             /\ stk2[k].rule - 1 \in DOMAIN tb[stk2[k].chain].rules
             /\ Callee(stk2, called, k)
                  = CalledBy(tb[stk2[k].chain].rules[stk2[k].rule - 1].target)
  <2>1. CASE k = m + 1
    <3>1. stk2[k] = f /\ f.rule - 1 = i
      BY <1>1, <2>1
    <3> QED BY <1>3, <2>1, <3>1 DEF called
  <2>2. CASE k # m + 1
    <3>1. k \in b + 1 .. m /\ k \in 1 .. m /\ k \in b .. m
      BY <1>1, <2>2
    <3> QED BY <1>1, <1>2, <3>1 DEF Nested
  <2> QED BY <2>1, <2>2
<1>5. Callee(stk2, called, b) = entry
  BY <1>1, <1>2 DEF Nested
<1> QED BY <1>1, <1>4, <1>5 DEF Nested, stk2, called

\* Without the innermost frame, the packet is in that frame's chain.
LEMMA NestedPop ==
    ASSUME NEW tb, NEW n, NEW entry, NEW stk \in Seq(Frame), NEW b \in Nat, b < Len(stk),
           NEW here, Nested(tb, n, entry, stk, b, here)
    PROVE  LET m   == Len(stk)
               top == stk[m]
           IN /\ Nested(tb, n, entry, SubSeq(stk, 1, m - 1), b, top.chain)
              /\ top \in Frame /\ top.pass = n /\ top.chain \in DOMAIN tb
              /\ top.rule - 1 \in DOMAIN tb[top.chain].rules
              /\ here = CalledBy(tb[top.chain].rules[top.rule - 1].target)
              /\ SubSeq(stk, 1, m - 1) \in Seq(Frame)
              /\ Len(SubSeq(stk, 1, m - 1)) = m - 1
<1> DEFINE m    == Len(stk)
           top  == stk[m]
           stk2 == SubSeq(stk, 1, m - 1)
<1>1. /\ m \in Nat \ {0} /\ m \in b + 1 .. m /\ top \in Frame
      /\ stk2 \in Seq(Frame) /\ Len(stk2) = m - 1
      /\ \A k \in 1 .. m - 1 : stk2[k] = stk[k]
  OBVIOUS
<1>2. /\ top.pass = n /\ top.chain \in DOMAIN tb
      /\ top.rule - 1 \in DOMAIN tb[top.chain].rules
      /\ Callee(stk, here, m) = CalledBy(tb[top.chain].rules[top.rule - 1].target)
  BY <1>1 DEF Nested
<1>3. here = CalledBy(tb[top.chain].rules[top.rule - 1].target)
  BY <1>2 DEF Callee
<1> HIDE DEF stk2
<1>4. \A k \in b .. m - 1 : Callee(stk2, top.chain, k) = Callee(stk, here, k)
  <2> TAKE k \in b .. m - 1
  <2>1. CASE k = m - 1
    BY <1>1, <2>1 DEF Callee
  <2>2. CASE k # m - 1
    BY <1>1, <2>2 DEF Callee
  <2> QED BY <2>1, <2>2
<1>5. \A k \in b + 1 .. m - 1 : k \in 1 .. m - 1 /\ k \in b + 1 .. m /\ k \in b .. m - 1
  BY <1>1
<1>6. Nested(tb, n, entry, stk2, b, top.chain)
  BY <1>1, <1>4, <1>5 DEF Nested
<1> QED BY <1>1, <1>2, <1>3, <1>6 DEF stk2

\* A packet that leaves the graph leaves nothing behind; one that enters the next table is
\* in a chain of that table's own.
LEMMA ExitKeeps ==
    ASSUME IInv, packet # NoPacket, NEW v \in Final, Exit(v), UNCHANGED kept
    PROVE  IInv'
<1>1. CASE v = "ACCEPT" /\ pass < Len(route)
  <2>1. /\ pass' = pass + 1 /\ at' = Element(route[pass + 1].chain, 1) /\ base' = Len(stack)
        /\ UNCHANGED <<packet, route, stack, verdict, ruleset, counters, unused, sent>>
    BY <1>1 DEF Exit, kept
  <2>2. route \in Seq(EntryVisit) /\ pass \in 1 .. Len(route)
    BY HereType DEF IInv
  <2>3. pass' \in 1 .. Len(route) /\ pass' \in DOMAIN route /\ route[pass'] \in EntryVisit
    BY <1>1, <2>1, <2>2
  <2>4. ruleset \in DOMAIN RuleSets /\ stack \in Seq(Frame)
    BY DEF IInv, TypeOK
  <2>5. Element(route[pass'].chain, 1) \in [chain : Name, rule : Nat, part : Part]
    BY <2>3, NameAssumption DEF Element, Part, EntryVisit
  <2>6. TypeOK'
    <3>1. packet \in Packet /\ pass' \in DOMAIN route /\ route \in Routes(packet.state)
      <4>1. TypeOK
        BY DEF IInv
      <4> QED BY <2>3, <4>1 DEF TypeOK
    <3>2. base' \in 0 .. Len(stack)
      BY <2>1, <2>4
    <3>3. at' \in [chain : Name, rule : Nat, part : Part]
      BY <2>1, <2>5
    <3>4. UNCHANGED <<packet, route, stack, verdict, ruleset, counters, unused, sent>>
      BY <2>1
    <3> QED BY <3>1, <3>2, <3>3, <3>4 DEF IInv, TypeOK
  <2>7. route[pass'].chain \in DOMAIN TableHere' /\ RuleTable(TableHere')
    BY <2>1, <2>3, <2>4, RuleSetsAssumption DEF EntryVisit, TableHere
  <2>8. at'.chain = route[pass'].chain /\ at'.rule = 1 /\ at'.part = "rule"
    BY <2>1 DEF Element
  <2>9. ChainHere' \in Chain
    BY <2>7, <2>8 DEF RuleTable, ChainHere
  <2>10. 1 \in 1 .. Len(ChainHere'.rules) + 1
    BY <2>9 DEF Chain
  <2>11. InChain'
    BY <2>7, <2>8, <2>10 DEF InChain
  <2>12. Len(stack) \in Nat
    BY <2>4
  <2>13. CallsNested'
    BY <2>1, <2>8, <2>12 DEF CallsNested, Nested, Callee
  <2> QED BY <2>6, <2>11, <2>13 DEF IInv, Placed
<1>2. CASE ~(v = "ACCEPT" /\ pass < Len(route))
  <2>1. /\ packet' = NoPacket /\ verdict' = v /\ route' = <<>> /\ at' = Nowhere
        /\ stack' = <<>> /\ base' = 0
        /\ UNCHANGED <<ruleset, counters, unused, sent>>
    BY <1>2 DEF Exit, kept
  <2>2. TypeOK'
    <3>1. Nowhere \in [chain : Name, rule : Nat, part : Part]
      BY NameAssumption DEF Nowhere, Element, Part
    <3>2. <<>> \in Seq(Frame) /\ 0 \in 0 .. Len(<<>>)
      OBVIOUS
    <3>3. UNCHANGED <<ruleset, counters, unused, sent>>
      BY <2>1
    <3>4. verdict' \in Final \cup {"NONE", "LOST"}
      BY <2>1
    <3> QED BY <2>1, <3>1, <3>2, <3>3, <3>4 DEF IInv, TypeOK
  <2> QED BY <2>1, <2>2 DEF IInv, Placed, CallsNested
<1> QED BY <1>1, <1>2

\* Steps to another element of the chain, with at most the packet's header and the counters
\* changed.
LEMMA MoveKeeps ==
    ASSUME IInv, packet # NoPacket, at.chain \in DOMAIN TableHere,
           packet' \in Packet, packet'.state = packet.state,
           UNCHANGED <<ruleset, route, pass, stack, unused, sent, verdict, base>>,
           counters' \in [Counted(ruleset) -> Nat],
           at'.chain = at.chain, at'.part \in Part, at'.rule \in Nat,
           at' = [chain |-> at'.chain, rule |-> at'.rule, part |-> at'.part],
           at'.rule \in 1 .. Len(ChainHere.rules) + 1,
           at'.part \in {"B", "counter", "target"} => at'.rule \in DOMAIN ChainHere.rules,
           at'.part = "bt" => at.chain \notin BuiltIn
    PROVE  IInv'
<1>1. TypeOK /\ CallsNested
  BY DEF IInv
<1>2. TableHere' = TableHere /\ ChainHere' = ChainHere
  BY DEF TableHere, ChainHere
<1>3. InChain'
  BY <1>2 DEF InChain
<1>4. CallsNested'
  BY <1>1, <1>2 DEF CallsNested
<1>5. at' \in [chain : Name, rule : Nat, part : Part]
  BY <1>1 DEF TypeOK
<1>6. TypeOK'
  <2>1. packet \in Packet /\ route \in Routes(packet.state) /\ pass \in DOMAIN route
    BY <1>1 DEF TypeOK
  <2>2. packet' # NoPacket
    BY NoPacketAssumption
  <2>3. Counted(ruleset)' = Counted(ruleset)
    OBVIOUS
  <2> QED BY <1>1, <1>5, <2>1, <2>2, <2>3 DEF TypeOK
<1> QED BY <1>3, <1>4, <1>6 DEF IInv, Placed

\* What IInv says of a packet in a chain.
LEMMA InChainFacts ==
    ASSUME IInv, packet # NoPacket, at.chain # MasqChain
    PROVE  /\ InChain /\ packet \in Packet /\ counters \in [Counted(ruleset) -> Nat]
           /\ at \in [chain : Name, rule : Nat, part : Part]
           /\ ChainHere \in Chain /\ Len(ChainHere.rules) \in Nat
           /\ DOMAIN ChainHere.rules = 1 .. Len(ChainHere.rules)
<1>1. InChain
  BY DEF IInv, Placed, AtMasq
<1>2. TypeOK
  BY DEF IInv
<1>3. RuleTable(TableHere)
  BY <1>2, HereType
<1>4. ChainHere \in Chain
  BY <1>1, <1>3 DEF InChain, RuleTable, ChainHere
<1>5. packet \in Packet /\ counters \in [Counted(ruleset) -> Nat]
      /\ at \in [chain : Name, rule : Nat, part : Part]
  BY <1>2 DEF TypeOK
<1>6. ChainHere.rules \in Seq(Rule)
  BY <1>4 DEF Chain
<1> QED BY <1>1, <1>4, <1>5, <1>6

\* The two ways a classifier leads on.
LEMMA BranchKeeps ==
    ASSUME IInv, packet # NoPacket, at.chain # MasqChain,
           at.rule \in DOMAIN ChainHere.rules,
           NEW hit \in BOOLEAN, NEW part \in {"B", "counter"}, Branch(hit, part), OnlyMoves
    PROVE  IInv'
<1>1. InChain /\ at \in [chain : Name, rule : Nat, part : Part]
      /\ at.rule \in 1 .. Len(ChainHere.rules) /\ Len(ChainHere.rules) \in Nat
  BY InChainFacts
<1>2. packet \in Packet /\ counters \in [Counted(ruleset) -> Nat]
  BY InChainFacts
<1>3. /\ UNCHANGED <<ruleset, route, pass, packet, stack, unused, sent, verdict, base, counters>>
  BY DEF OnlyMoves, kept
<1>4. at.chain \in DOMAIN TableHere
  BY <1>1 DEF InChain
<1>5. CASE hit
  <2>1. at' = [at EXCEPT !.part = part]
    BY <1>5 DEF Branch, Goto
  <2>2. /\ at'.chain = at.chain /\ at'.rule = at.rule /\ at'.part = part
        /\ at' = [chain |-> at'.chain, rule |-> at'.rule, part |-> at'.part]
    BY <1>1, <2>1
  <2>3. part \in Part /\ part # "bt"
    BY DEF Part
  <2> QED BY <1>1, <1>2, <1>3, <1>4, <2>2, <2>3, MoveKeeps
<1>6. CASE ~hit
  <2>1. at' = [chain |-> at.chain, rule |-> at.rule + 1, part |-> "rule"]
    BY <1>6 DEF Branch, NextRule, Element
  <2>2. "rule" \in Part
    BY DEF Part
  <2> QED BY <1>1, <1>2, <1>3, <1>4, <2>1, <2>2, MoveKeeps
<1> QED BY <1>5, <1>6

\* A BacktrackPainter before masq or before the first element of a chain.
LEMMA PaintKeeps ==
    ASSUME IInv, AtTarget, RuleHere.target \notin (Final \cup Special) \ {"MASQUERADE"},
           stack' = Append(stack, Behind), at' = Element(CalledBy(RuleHere.target), 1),
           UNCHANGED <<kept, route, pass, packet, verdict, base>>
    PROVE  IInv'
<1>1. packet # NoPacket /\ at.chain # MasqChain /\ at.part = "target"
  BY DEF AtTarget, In
<1>2. InChain /\ at \in [chain : Name, rule : Nat, part : Part]
  BY <1>1, InChainFacts
<1>3. TypeOK /\ CallsNested
  BY DEF IInv
<1>4. at.chain \in DOMAIN TableHere /\ at.rule \in DOMAIN ChainHere.rules
  BY <1>1, <1>2 DEF InChain
<1>5. /\ RuleHere.target \in Final \cup Special \cup DOMAIN TableHere
      /\ RuleHere \in Rule
  BY <1>1, <1>3, <1>4, RuleType
<1>6. /\ stack \in Seq(Frame) /\ base \in 0 .. Len(stack) /\ pass \in Nat
      /\ ruleset \in DOMAIN RuleSets
  BY <1>1, <1>3, HereType DEF TypeOK
<1>7. Behind \in Frame /\ Behind.pass = pass /\ Behind.chain = at.chain
      /\ Behind.rule = at.rule + 1
  BY <1>2, <1>6 DEF Behind, Frame
<1>8. Nested(TableHere, pass, route[pass].chain, stack, base, at.chain)
  BY <1>1, <1>3 DEF CallsNested
<1>9. RuleHere = TableHere[at.chain].rules[at.rule]
      /\ at.rule \in DOMAIN TableHere[at.chain].rules
  BY <1>4 DEF RuleHere, ChainHere
<1>10. Nested(TableHere, pass, route[pass].chain, Append(stack, Behind), base,
              CalledBy(RuleHere.target))
  <2> DEFINE f == Behind
             tb == TableHere
             entry == route[pass].chain
  <2>1. f \in Frame /\ f.pass = pass /\ f.chain = at.chain /\ f.rule = at.rule + 1
    BY <1>7
  <2>2. at.chain \in DOMAIN tb /\ at.rule \in Nat /\ at.rule \in DOMAIN tb[at.chain].rules
    BY <1>2, <1>4, <1>9
  <2>3. Nested(tb, pass, entry, stack, base, at.chain)
    BY <1>8
  <2> HIDE DEF f, tb, entry
  <2>4. Nested(tb, pass, entry, Append(stack, f), base, CalledBy(tb[at.chain].rules[at.rule].target))
    BY <1>6, <2>1, <2>2, <2>3, NestedPush
  <2> QED BY <1>9, <2>4 DEF f, tb, entry
<1>11. /\ UNCHANGED <<ruleset, route, pass, packet, unused, sent, verdict, base, counters>>
  BY DEF kept
<1>12. at'.chain = CalledBy(RuleHere.target) /\ at'.rule = 1 /\ at'.part = "rule"
       /\ at' = [chain |-> at'.chain, rule |-> at'.rule, part |-> at'.part]
  BY DEF Element
<1>13. TableHere' = TableHere
  BY <1>11 DEF TableHere
<1>14. CallsNested'
  BY <1>10, <1>11, <1>12, <1>13 DEF CallsNested
<1>15. stack' \in Seq(Frame) /\ Len(stack') = Len(stack) + 1 /\ Len(stack) \in Nat
  <2> DEFINE f == Behind
  <2>1. f \in Frame /\ stack' = Append(stack, f)
    BY <1>7
  <2> HIDE DEF f
  <2> QED BY <1>6, <2>1
<1>16. ASSUME at'.chain \in Name
       PROVE  TypeOK'
  <2>1. packet \in Packet /\ route \in Routes(packet.state) /\ pass \in DOMAIN route
    BY <1>1, <1>3 DEF TypeOK
  <2>2. at' \in [chain : Name, rule : Nat, part : Part]
    BY <1>12, <1>16 DEF Part
  <2>3. base \in 0 .. Len(stack')
    BY <1>6, <1>15
  <2>4. Counted(ruleset)' = Counted(ruleset)
    BY <1>11
  <2> QED BY <1>1, <1>3, <1>11, <1>15, <2>1, <2>2, <2>3, <2>4 DEF TypeOK
<1>17. CASE RuleHere.target = "MASQUERADE"
  <2>1. at'.chain = MasqChain
    BY <1>12, <1>17 DEF CalledBy
  <2>2. AtMasq'
    BY <1>6, <1>11, <1>12, <1>15, <2>1 DEF AtMasq
  <2>3. TypeOK'
    BY <1>16, <2>1, NameAssumption
  <2> QED BY <1>14, <2>2, <2>3 DEF IInv, Placed
<1>18. CASE RuleHere.target # "MASQUERADE"
  <2>1. at'.chain = RuleHere.target /\ at'.chain \in DOMAIN TableHere
    BY <1>5, <1>12, <1>18 DEF CalledBy
  <2>2. ChainHere' \in Chain
    BY <1>1, <1>3, <1>13, <2>1, HereType DEF RuleTable, ChainHere
  <2>3. 1 \in 1 .. Len(ChainHere'.rules) + 1
    BY <2>2 DEF Chain
  <2>4. InChain'
    BY <1>12, <1>13, <2>1, <2>3 DEF InChain
  <2>5. TypeOK'
    BY <1>5, <1>16, <2>1 DEF Rule
  <2> QED BY <1>14, <2>4, <2>5 DEF IInv, Placed
<1> QED BY <1>17, <1>18

\* A packet at the Backtracker has a call of this table to return from: the chain it came by
\* never gets there.
LEMMA Backtracks ==
    ASSUME IInv, packet # NoPacket, at.part = "bt"
    PROVE  Len(stack) > base
<1>1. TypeOK /\ CallsNested /\ (AtMasq \/ InChain)
  BY DEF IInv, Placed
<1>2. CASE AtMasq
  BY <1>2 DEF AtMasq
<1>3. CASE InChain
  <2>1. at.chain \notin BuiltIn /\ route[pass].chain \in BuiltIn
    BY <1>1, <1>3, HereType DEF InChain
  <2>2. Callee(stack, at.chain, base) = route[pass].chain
    BY <1>1 DEF CallsNested, Nested
  <2>3. base # Len(stack)
    BY <2>1, <2>2 DEF Callee
  <2>4. base \in 0 .. Len(stack) /\ Len(stack) \in Nat
    BY <1>1 DEF TypeOK
  <2> QED BY <2>3, <2>4
<1> QED BY <1>1, <1>2, <1>3

LEMMA BacktrackerKeeps ==
    ASSUME IInv, Backtracker
    PROVE  IInv'
<1>1. /\ packet # NoPacket /\ at.part = "bt"
      /\ UNCHANGED <<ruleset, route, packet, counters, unused, sent, verdict, base>>
  BY DEF Backtracker, kept
<1>2. TypeOK /\ CallsNested
  BY DEF IInv
<1>3. base < Len(stack) /\ base \in Nat /\ stack \in Seq(Frame) /\ ruleset \in DOMAIN RuleSets
  BY <1>1, <1>2, Backtracks DEF TypeOK
<1> DEFINE top   == stack[Len(stack)]
           entry == route[pass].chain
           tb    == TableHere
<1>4. Nested(tb, pass, entry, stack, base, at.chain)
  BY <1>1, <1>2 DEF CallsNested
<1>5. /\ at' = Element(top.chain, top.rule) /\ pass' = top.pass
      /\ stack' = SubSeq(stack, 1, Len(stack) - 1)
  BY DEF Backtracker
<1>6. RuleTable(tb)
  BY <1>1, <1>2, HereType
<1> HIDE DEF entry, tb
<1>7. /\ Nested(tb, pass, entry, stack', base, top.chain)
      /\ top \in Frame /\ top.pass = pass /\ top.chain \in DOMAIN tb
      /\ top.rule - 1 \in DOMAIN tb[top.chain].rules
      /\ stack' \in Seq(Frame) /\ Len(stack') = Len(stack) - 1
  BY <1>3, <1>4, <1>5, NestedPop
<1>8. pass' = pass /\ tb' = tb /\ entry' = entry
  BY <1>1, <1>5, <1>7 DEF tb, entry, TableHere
<1>9. at'.chain = top.chain /\ at'.rule = top.rule /\ at'.part = "rule"
      /\ at' = [chain |-> at'.chain, rule |-> at'.rule, part |-> at'.part]
  BY <1>5 DEF Element
<1>10. CallsNested'
  BY <1>1, <1>7, <1>8, <1>9 DEF CallsNested, tb, entry
<1>11. tb[top.chain] \in Chain
  BY <1>6, <1>7 DEF RuleTable
<1>12. top.rule \in 1 .. Len(tb[top.chain].rules) + 1
  <2>1. tb[top.chain].rules \in Seq(Rule)
    BY <1>11 DEF Chain
  <2>2. top.rule \in Nat
    BY <1>7 DEF Frame
  <2> QED BY <1>7, <2>1, <2>2
<1>13. InChain'
  BY <1>7, <1>8, <1>9, <1>12 DEF InChain, ChainHere, tb
<1>14. at' \in [chain : Name, rule : Nat, part : Part]
  BY <1>7, <1>9 DEF Frame, Part
<1>15. base \in 0 .. Len(stack')
  BY <1>3, <1>7
<1>16. TypeOK'
  BY <1>1, <1>2, <1>7, <1>8, <1>14, <1>15 DEF TypeOK
<1> QED BY <1>10, <1>13, <1>16 DEF IInv, Placed

LEMMA CounterKeeps ==
    ASSUME IInv, StaticCounter
    PROVE  IInv'
<1>1. /\ packet # NoPacket /\ at.chain # MasqChain /\ at.part = "counter"
      /\ counters' = [counters EXCEPT ![CountedHere] = @ + 1]
      /\ at' = [at EXCEPT !.part = "target"]
      /\ UNCHANGED <<ruleset, route, pass, packet, stack, unused, sent, verdict, base>>
  BY DEF StaticCounter, In, Goto
<1>2. /\ InChain /\ packet \in Packet /\ counters \in [Counted(ruleset) -> Nat]
      /\ at \in [chain : Name, rule : Nat, part : Part]
  BY <1>1, InChainFacts
<1>3. /\ at'.chain = at.chain /\ at'.rule = at.rule /\ at'.part = "target" /\ "target" \in Part
      /\ at' = [chain |-> at'.chain, rule |-> at'.rule, part |-> at'.part]
  BY <1>1, <1>2 DEF Part
<1>4. counters' \in [Counted(ruleset) -> Nat]
  <2>1. ASSUME NEW S, NEW f \in [S -> Nat], NEW x
        PROVE  [f EXCEPT ![x] = @ + 1] \in [S -> Nat]
    <3>1. CASE x \in S
      <4>1. f[x] + 1 \in Nat
        BY <3>1
      <4> QED BY <4>1
    <3>2. CASE x \notin S
      <4>1. [f EXCEPT ![x] = @ + 1] = f
        BY <3>2
      <4> QED BY <4>1
    <3> QED BY <3>1, <3>2
  <2> QED BY <1>1, <1>2, <2>1
<1>5. at.chain \in DOMAIN TableHere /\ at.rule \in DOMAIN ChainHere.rules
      /\ at.rule \in 1 .. Len(ChainHere.rules) + 1
  BY <1>1, <1>2 DEF InChain
<1> QED BY <1>1, <1>2, <1>3, <1>4, <1>5, MoveKeeps

\* RETURN stands in a chain that is jumped to.
LEMMA ReturnKeeps ==
    ASSUME IInv, TargetReturn, EntryRegular(TableHere)
    PROVE  IInv'
<1>1. /\ packet # NoPacket /\ at.chain # MasqChain /\ at.part = "target"
      /\ RuleHere.target = "RETURN" /\ at' = [at EXCEPT !.part = "bt"] /\ OnlyMoves
  BY DEF TargetReturn, AtTarget, In, Goto
<1>2. /\ InChain /\ packet \in Packet /\ counters \in [Counted(ruleset) -> Nat]
      /\ at \in [chain : Name, rule : Nat, part : Part]
  BY <1>1, InChainFacts
<1>3. at.chain \in DOMAIN TableHere /\ at.rule \in DOMAIN ChainHere.rules
      /\ at.rule \in 1 .. Len(ChainHere.rules) + 1
  BY <1>1, <1>2 DEF InChain
<1>4. at.chain \notin BuiltIn
  BY <1>1, <1>3 DEF EntryRegular, RuleHere, ChainHere
<1>5. /\ at'.chain = at.chain /\ at'.rule = at.rule /\ at'.part = "bt" /\ "bt" \in Part
      /\ at' = [chain |-> at'.chain, rule |-> at'.rule, part |-> at'.part]
  BY <1>1, <1>2 DEF Part
<1>6. UNCHANGED <<ruleset, route, pass, packet, stack, unused, sent, verdict, base, counters>>
  BY <1>1 DEF OnlyMoves, kept
<1> QED BY <1>1, <1>2, <1>3, <1>4, <1>5, <1>6, MoveKeeps

LEMMA NatKeeps ==
    ASSUME IInv, TargetNat
    PROVE  IInv'
<1>1. /\ packet # NoPacket /\ at.chain # MasqChain /\ at.part = "target"
      /\ at' = Element(at.chain, at.rule + 1)
      /\ UNCHANGED <<ruleset, counters, unused, sent, route, pass, stack, verdict, base>>
  BY DEF TargetNat, AtTarget, In, NextRule, kept
<1>2. /\ InChain /\ packet \in Packet /\ counters \in [Counted(ruleset) -> Nat]
      /\ at \in [chain : Name, rule : Nat, part : Part] /\ Len(ChainHere.rules) \in Nat
      /\ DOMAIN ChainHere.rules = 1 .. Len(ChainHere.rules)
  BY <1>1, InChainFacts
<1>3. packet' \in Packet /\ packet'.state = packet.state
  <2>1. PICK h \in Header : packet' = [packet EXCEPT !.header = h]
    BY DEF TargetNat
  <2> QED BY <1>2, <2>1 DEF Packet
<1>4. at.chain \in DOMAIN TableHere /\ at.rule \in 1 .. Len(ChainHere.rules)
  BY <1>1, <1>2 DEF InChain
<1>5. /\ at'.chain = at.chain /\ at'.rule = at.rule + 1 /\ at'.part = "rule" /\ "rule" \in Part
      /\ at' = [chain |-> at'.chain, rule |-> at'.rule, part |-> at'.part]
  BY <1>1 DEF Element, Part
<1>6. at'.rule \in Nat /\ at'.rule \in 1 .. Len(ChainHere.rules) + 1
  BY <1>2, <1>4, <1>5
<1> QED BY <1>1, <1>2, <1>3, <1>4, <1>5, <1>6, MoveKeeps

\* Only a chain without policy ends in a Backtracker, and built-in chains have one.
LEMMA EndKeeps ==
    ASSUME IInv, EndOfChain, EntryRegular(TableHere)
    PROVE  IInv'
<1>1. packet # NoPacket /\ at.chain # MasqChain /\ UNCHANGED kept
  BY DEF EndOfChain, In
<1>2. /\ InChain /\ packet \in Packet /\ counters \in [Counted(ruleset) -> Nat]
      /\ at \in [chain : Name, rule : Nat, part : Part] /\ ChainHere \in Chain
  BY <1>1, InChainFacts
<1>3. at.chain \in DOMAIN TableHere /\ at.rule \in 1 .. Len(ChainHere.rules) + 1
  BY <1>2 DEF InChain
<1>4. CASE EndBacktracks /\ Goto("bt") /\ UNCHANGED <<route, pass, packet, stack, verdict, base>>
  <2>1. at.chain \notin BuiltIn
    BY <1>3, <1>4 DEF EndBacktracks, EntryRegular, ChainHere
  <2>2. /\ at'.chain = at.chain /\ at'.rule = at.rule /\ at'.part = "bt" /\ "bt" \in Part
        /\ at' = [chain |-> at'.chain, rule |-> at'.rule, part |-> at'.part]
    BY <1>2, <1>4 DEF Goto, Part
  <2>3. UNCHANGED <<ruleset, route, pass, packet, stack, unused, sent, verdict, base, counters>>
    BY <1>1, <1>4 DEF kept
  <2> QED BY <1>1, <1>2, <1>3, <2>1, <2>2, <2>3, MoveKeeps
<1>5. CASE ~EndBacktracks /\ Exit(ChainHere.policy)
  <2>1. ChainHere.policy \in Final
    BY <1>2, <1>5 DEF EndBacktracks, Chain
  <2> QED BY <1>1, <1>5, <2>1, ExitKeeps
<1> QED BY <1>4, <1>5 DEF EndOfChain

LEMMA MasqueradeKeeps ==
    ASSUME IInv, Masquerade
    PROVE  IInv'
<1>1. /\ packet # NoPacket /\ at = Element(MasqChain, 1) /\ at' = [at EXCEPT !.part = "bt"]
      /\ UNCHANGED <<ruleset, counters, unused, sent, route, pass, stack, verdict, base>>
  BY DEF Masquerade, Goto, kept
<1>2. TypeOK /\ CallsNested
  BY DEF IInv
<1>3. at.chain = MasqChain /\ at.rule = 1
  BY <1>1 DEF Element
<1>4. Len(stack) > base
  <2>1. CASE AtMasq
    BY <2>1 DEF AtMasq
  <2>2. CASE InChain
    <3>1. MasqChain \in DOMAIN TableHere
      BY <1>3, <2>2 DEF InChain
    <3> QED BY <1>1, <1>2, <3>1, HereType DEF RuleTable
  <2> QED BY <1>1, <2>1, <2>2 DEF IInv, Placed
<1>5. /\ at'.chain = MasqChain /\ at'.rule = 1 /\ at'.part = "bt"
      /\ at' = [chain |-> MasqChain, rule |-> 1, part |-> "bt"]
  BY <1>1 DEF Element
<1>6. packet \in Packet /\ route \in Routes(packet.state) /\ pass \in DOMAIN route
  BY <1>1, <1>2 DEF TypeOK
<1>7. packet' \in Packet /\ packet'.state = packet.state
  <2>1. PICK h \in Header : packet' = [packet EXCEPT !.header = h]
    BY DEF Masquerade
  <2> QED BY <1>6, <2>1 DEF Packet
<1>8. packet' # NoPacket
  BY <1>7, NoPacketAssumption
<1>9. at' \in [chain : Name, rule : Nat, part : Part]
  BY <1>5, NameAssumption DEF Part
<1>10. TypeOK'
  <2>1. Counted(ruleset)' = Counted(ruleset)
    BY <1>1
  <2> QED BY <1>1, <1>2, <1>6, <1>7, <1>8, <1>9, <2>1 DEF TypeOK
<1>11. TableHere' = TableHere
  BY <1>1 DEF TableHere
<1>12. CallsNested'
  BY <1>1, <1>2, <1>3, <1>5, <1>11 DEF CallsNested
<1>13. AtMasq'
  BY <1>1, <1>4, <1>5 DEF AtMasq
<1> QED BY <1>10, <1>12, <1>13 DEF IInv, Placed

\* One step of an element.
LEMMA PushKeeps ==
    ASSUME AllRegular, IInv, Push
    PROVE  IInv'
<1>1. TypeOK /\ CallsNested /\ Placed
  BY DEF IInv
<1>2. ASSUME packet # NoPacket, at.chain # MasqChain
      PROVE  EntryRegular(TableHere)
  <2>1. ruleset \in DOMAIN RuleSets /\ route[pass].table \in Table
    BY <1>1, <1>2, HereType DEF TypeOK
  <2> QED BY <2>1 DEF AllRegular, TableHere
<1>4. CASE TakeIgnored
  <2>1. /\ packet # NoPacket /\ at.chain # MasqChain /\ at.rule \in DOMAIN ChainHere.rules
        /\ Branch(FALSE, "counter") /\ OnlyMoves
    BY <1>4 DEF TakeIgnored, AtRule, In, Branch
  <2> QED BY <2>1, BranchKeeps
<1>5. CASE TakeUnconditional
  <2>1. /\ packet # NoPacket /\ at.chain # MasqChain /\ at.rule \in DOMAIN ChainHere.rules
        /\ Branch(TRUE, "counter") /\ OnlyMoves
    BY <1>5 DEF TakeUnconditional, AtRule, In, Branch
  <2> QED BY <2>1, BranchKeeps
<1>6. CASE IPClassifier
  <2>1. /\ packet # NoPacket /\ at.chain # MasqChain /\ at.rule \in DOMAIN ChainHere.rules
        /\ OnlyMoves
        /\ \/ Branch(Holds(RuleHere, "ip", packet), "B")
           \/ Branch(Holds(RuleHere, "ip", packet), "counter")
    BY <1>6 DEF IPClassifier, AtRule, In
  <2>2. Holds(RuleHere, "ip", packet) \in BOOLEAN
    BY DEF Holds
  <2> QED BY <2>1, <2>2, BranchKeeps
<1>7. CASE Classifier
  <2>1. packet # NoPacket /\ at.chain # MasqChain
    BY <1>7 DEF Classifier, AtRule, In
  <2>2. at.rule \in DOMAIN ChainHere.rules
    BY <1>7, <2>1, InChainFacts DEF Classifier, AtRule, In, InChain
  <2>3. Branch(Holds(RuleHere, "low", packet), "counter") /\ OnlyMoves
    BY <1>7 DEF Classifier
  <2>4. Holds(RuleHere, "low", packet) \in BOOLEAN
    BY DEF Holds
  <2> QED BY <2>1, <2>2, <2>3, <2>4, BranchKeeps
<1>8. CASE PaintSwitch
  <2>1. /\ packet # NoPacket /\ at.chain # MasqChain /\ at.rule \in DOMAIN ChainHere.rules
        /\ Branch(Holds(RuleHere, "state", packet), "counter") /\ OnlyMoves
    BY <1>8 DEF PaintSwitch, AtRule, In
  <2>2. Holds(RuleHere, "state", packet) \in BOOLEAN
    BY DEF Holds
  <2> QED BY <2>1, <2>2, BranchKeeps
<1>9. CASE StaticCounter
  BY <1>9, CounterKeeps
<1>10. CASE TargetReturn
  BY <1>2, <1>10, ReturnKeeps DEF TargetReturn, AtTarget, In
<1>11. CASE TargetMasquerade
  <2>1. /\ AtTarget /\ RuleHere.target = "MASQUERADE"
        /\ stack' = Append(stack, Behind) /\ at' = Element(MasqChain, 1)
        /\ UNCHANGED <<kept, route, pass, packet, verdict, base>>
    BY <1>11 DEF TargetMasquerade
  <2>2. CalledBy(RuleHere.target) = MasqChain
    BY <2>1 DEF CalledBy
  <2> QED BY <2>1, <2>2, PaintKeeps
<1>12. CASE TargetNat
  BY <1>12, NatKeeps
<1>13. CASE TargetFinal
  <2>1. packet # NoPacket /\ RuleHere.target \in Final /\ Exit(RuleHere.target) /\ UNCHANGED kept
    BY <1>13 DEF TargetFinal, AtTarget, In
  <2> QED BY <2>1, ExitKeeps
<1>14. CASE TargetChain
  <2>1. /\ AtTarget /\ RuleHere.target \notin Final \cup Special
        /\ stack' = Append(stack, Behind) /\ at' = Element(RuleHere.target, 1)
        /\ UNCHANGED <<kept, route, pass, packet, verdict, base>>
    BY <1>14 DEF TargetChain
  <2>2. CalledBy(RuleHere.target) = RuleHere.target
    BY <2>1 DEF CalledBy, Special
  <2> QED BY <2>1, <2>2, PaintKeeps
<1>15. CASE EndOfChain
  BY <1>2, <1>15, EndKeeps DEF EndOfChain, In
<1>16. CASE Masquerade
  BY <1>16, MasqueradeKeeps
<1>17. CASE MasqueradeUnknown
  <2>1. /\ packet # NoPacket /\ packet' = NoPacket /\ verdict' = "LOST"
        /\ route' = <<>> /\ at' = Nowhere /\ stack' = <<>> /\ base' = 0
        /\ UNCHANGED <<ruleset, counters, unused, sent>>
    BY <1>17 DEF MasqueradeUnknown, kept
  <2>2. Nowhere \in [chain : Name, rule : Nat, part : Part]
    BY NameAssumption DEF Nowhere, Element, Part
  <2>3. <<>> \in Seq(Frame) /\ 0 \in 0 .. Len(<<>>)
    OBVIOUS
  <2>4. TypeOK'
    BY <1>1, <2>1, <2>2, <2>3 DEF TypeOK
  <2> QED BY <2>1, <2>4 DEF IInv, Placed, CallsNested
<1>18. CASE Backtracker
  BY <1>18, BacktrackerKeeps
<1> QED BY <1>4, <1>5, <1>6, <1>7, <1>8, <1>9, <1>10, <1>11, <1>12, <1>13, <1>14, <1>15, <1>16,
           <1>17, <1>18 DEF Push

-----------------------------------------------------------------------------
(* The invariant and what it says.                                         *)

LEMMA IInvInit ==
    ASSUME Init
    PROVE  IInv
<1>1. <<>> \in Seq(Frame) /\ 0 \in 0 .. Len(<<>>)
  OBVIOUS
<1>2. Nowhere \in [chain : Name, rule : Nat, part : Part]
  BY NameAssumption DEF Nowhere, Element, Part
<1>3. sent \in 0 .. MaxPackets
  BY MaxPacketsAssumption DEF Init
<1>4. counters \in [Counted(ruleset) -> Nat]
  BY DEF Init
<1>5. TypeOK
  BY <1>1, <1>2, <1>3, <1>4 DEF Init, TypeOK
<1> QED BY <1>5 DEF Init, IInv, Placed, CallsNested

\* A packet that enters the graph has no calls to return from.
LEMMA ReceiveKeeps ==
    ASSUME IInv, NEW p \in Packet, NEW rt \in Routes(p.state), Receive(p, rt)
    PROVE  IInv'
<1>1. /\ packet' = p /\ route' = rt /\ pass' = 1 /\ at' = Element(rt[1].chain, 1)
      /\ stack' = <<>> /\ base' = 0 /\ sent < MaxPackets /\ sent' = sent + 1
      /\ UNCHANGED <<ruleset, counters, unused, verdict>>
  BY DEF Receive
<1>2. p.state \in State
  BY DEF Packet
<1>3. rt \in Seq(EntryVisit) /\ Len(rt) >= 1
  BY <1>2, RouteType
<1>4. rt[1] \in EntryVisit /\ 1 \in DOMAIN rt
  BY <1>3
<1>5. TypeOK
  BY DEF IInv
<1>6. Element(rt[1].chain, 1) \in [chain : Name, rule : Nat, part : Part]
  BY <1>4, NameAssumption DEF Element, Part, EntryVisit
<1>7. TypeOK'
  <2>1. <<>> \in Seq(Frame) /\ 0 \in 0 .. Len(<<>>)
    OBVIOUS
  <2>2. sent' \in 0 .. MaxPackets
    BY <1>1, <1>5, MaxPacketsAssumption DEF TypeOK
  <2>3. Counted(ruleset)' = Counted(ruleset)
    BY <1>1
  <2>4. p # NoPacket
    BY NoPacketAssumption
  <2> QED BY <1>1, <1>4, <1>5, <1>6, <2>1, <2>2, <2>3, <2>4 DEF TypeOK
<1>8. at'.chain = rt[1].chain /\ at'.rule = 1 /\ at'.part = "rule"
  BY <1>1 DEF Element
<1>9. rt[1].chain \in DOMAIN TableHere' /\ RuleTable(TableHere')
  BY <1>1, <1>4, <1>5, RuleSetsAssumption DEF TypeOK, EntryVisit, TableHere
<1>10. ChainHere' \in Chain
  BY <1>8, <1>9 DEF RuleTable, ChainHere
<1>11. 1 \in 1 .. Len(ChainHere'.rules) + 1
  BY <1>10 DEF Chain
<1>12. InChain'
  BY <1>8, <1>9, <1>11 DEF InChain
<1>13. CallsNested'
  <2>1. Callee(<<>>, rt[1].chain, 0) = rt[1].chain
    BY DEF Callee
  <2>2. \A k \in 0 + 1 .. Len(<<>>) : FALSE
    OBVIOUS
  <2> QED BY <1>1, <1>8, <2>1, <2>2 DEF CallsNested, Nested
<1> QED BY <1>7, <1>12, <1>13 DEF IInv, Placed

LEMMA IInvNext ==
    ASSUME AllRegular, IInv, [Next]_vars
    PROVE  IInv'
<1>1. ASSUME NEW p \in Packet, NEW rt \in Routes(p.state), Receive(p, rt)
      PROVE  IInv'
  BY <1>1, ReceiveKeeps
<1>2. CASE Push
  BY <1>2, PushKeeps
<1>3. CASE ReadUnused
  <2>1. /\ packet = NoPacket
        /\ unused' = {k \in DOMAIN counters : counters[k] = 0}
        /\ UNCHANGED <<ruleset, route, pass, packet, at, stack, counters, sent, verdict, base>>
    BY <1>3 DEF ReadUnused
  <2>2. TypeOK
    BY DEF IInv
  <2>3. counters \in [Counted(ruleset) -> Nat]
    BY <2>2 DEF TypeOK
  <2>4. unused' \in SUBSET Counted(ruleset)
    BY <2>1, <2>3
  <2>5. Counted(ruleset)' = Counted(ruleset)
    BY <2>1
  <2>6. TypeOK'
    BY <2>1, <2>2, <2>4, <2>5 DEF TypeOK
  <2> QED BY <2>1, <2>6 DEF IInv, Placed, CallsNested
<1>4. CASE UNCHANGED vars
  <2>1. TypeOK' = TypeOK
    BY <1>4 DEF vars, TypeOK
  <2>2. Placed' = Placed
    BY <1>4 DEF vars, Placed, AtMasq, InChain, ChainHere, TableHere
  <2>3. CallsNested' = CallsNested
    BY <1>4 DEF vars, CallsNested, TableHere
  <2> QED BY <2>1, <2>2, <2>3 DEF IInv
<1> QED BY <1>1, <1>2, <1>3, <1>4 DEF Next, Stopped

THEOREM Invariance == AllRegular => (Spec => []IInv)
<1> SUFFICES ASSUME AllRegular
             PROVE  Spec => []IInv
  OBVIOUS
<1>1. Init => IInv
  BY IInvInit
<1>2. IInv /\ [Next]_vars => IInv'
  BY IInvNext
<1> QED BY <1>1, <1>2, PTL DEF Spec

\* Whatever the ruleset, the way of a packet stays within its chains.
THEOREM TypeCorrect == AllRegular => (Spec => []TypeOK)
<1>1. IInv => TypeOK
  BY DEF IInv
<1> QED BY <1>1, Invariance, PTL

\* The stack in a packet's annotation is, for every ruleset, the calls it is in.
THEOREM StaysNested == AllRegular => (Spec => []CallsNested)
<1>1. IInv => CallsNested
  BY DEF IInv
<1> QED BY <1>1, Invariance, PTL

\* A RETURN or the end of a user chain always finds the frame of its own call.
THEOREM AlwaysBacktracksHere == AllRegular => (Spec => []BacktracksHere)
<1>1. IInv => BacktracksHere
  BY Backtracks DEF BacktracksHere
<1> QED BY <1>1, Invariance, PTL

-----------------------------------------------------------------------------
(* The report of unused rules, for every ruleset, regular or not.          *)

CountedAs(x) == <<x[1], RuleAt(ruleset, x[1], <<x[2], x[3]>>).text>>

\* A count is 0 exactly as long as no rule of its text was taken, and the report, once
\* read, stays the last word: no packet is in the graph, and none comes.
CountInv ==
    /\ counters \in [Counted(ruleset) -> Nat]
    /\ \A k \in Counted(ruleset) : counters[k] = 0 <=> \A x \in applied : CountedAs(x) # k
    /\ unused # Running =>
          packet = NoPacket /\ unused = {k \in Counted(ruleset) : counters[k] = 0}

LEMMA CountInit == Init => CountInv
  BY DEF Init, CountInv

\* A rule's own counter and no other; a rule not counted belongs to no text.
LEMMA CountStatic ==
    ASSUME CountInv, StaticCounter
    PROVE  CountInv'
<1> DEFINE new == <<route[pass].table, at.chain, at.rule>>
           S   == Counted(ruleset)
<1>1. /\ counters' = [counters EXCEPT ![CountedHere] = @ + 1]
      /\ applied' = applied \cup {new}
      /\ ruleset' = ruleset /\ unused' = unused /\ packet' = packet /\ packet # NoPacket
  BY DEF StaticCounter, In
<1>2. CountedAs(new) = CountedHere
  BY DEF CountedAs, CountedHere, RuleAt, RuleHere, ChainHere, TableHere
<1>3. S' = S /\ (\A x : CountedAs(x)' = CountedAs(x))
  BY <1>1 DEF CountedAs
<1> HIDE DEF new, S
<1>4. counters \in [S -> Nat] /\ unused = Running
  BY <1>1 DEF CountInv, S
<1>5. /\ counters' \in [S -> Nat]
      /\ \A k \in S : counters'[k] = IF k = CountedHere THEN counters[k] + 1 ELSE counters[k]
  <2>1. CASE CountedHere \in S
    BY <1>1, <1>4, <2>1
  <2>2. CASE CountedHere \notin S
    <3>1. counters' = counters
      BY <1>1, <1>4, <2>2
    <3> QED BY <1>4, <2>2, <3>1
  <2> QED BY <2>1, <2>2
<1>6. ASSUME NEW k \in S
      PROVE  counters'[k] = 0 <=> \A x \in applied' : CountedAs(x) # k
  <2>1. CASE k = CountedHere
    <3>1. counters[k] \in Nat
      BY <1>4
    <3>2. counters'[k] # 0
      BY <1>5, <2>1, <3>1
    <3> QED BY <1>1, <1>2, <2>1, <3>2
  <2>2. CASE k # CountedHere
    <3>1. counters'[k] = counters[k]
      BY <1>5, <2>2
    <3>2. counters[k] = 0 <=> \A x \in applied : CountedAs(x) # k
      BY DEF CountInv, S
    <3> QED BY <1>1, <1>2, <2>2, <3>1, <3>2
  <2> QED BY <2>1, <2>2
<1> QED BY <1>1, <1>3, <1>4, <1>5, <1>6 DEF CountInv, S

\* All other steps of an element leave the counters alone.
LEMMA CountElsewhere ==
    ASSUME Push, ~StaticCounter
    PROVE  packet # NoPacket /\ UNCHANGED <<ruleset, counters, applied, unused>>
<1>1. CASE TakeIgnored \/ TakeUnconditional \/ IPClassifier \/ Classifier \/ PaintSwitch
  BY <1>1 DEF TakeIgnored, TakeUnconditional, IPClassifier, Classifier, PaintSwitch, AtRule, In,
     OnlyMoves, kept
<1>2. CASE TargetReturn \/ TargetMasquerade \/ TargetNat \/ TargetFinal \/ TargetChain
  BY <1>2 DEF TargetReturn, TargetMasquerade, TargetNat, TargetFinal, TargetChain, AtTarget, In,
     OnlyMoves, kept
<1>3. CASE EndOfChain \/ Masquerade \/ MasqueradeUnknown \/ Backtracker
  BY <1>3 DEF EndOfChain, Masquerade, MasqueradeUnknown, Backtracker, In, kept
<1> QED BY <1>1, <1>2, <1>3 DEF Push

LEMMA CountNext ==
    ASSUME CountInv, [Next]_vars
    PROVE  CountInv'
<1>1. ASSUME UNCHANGED <<ruleset, counters, applied>>
      PROVE  /\ Counted(ruleset)' = Counted(ruleset)
             /\ \A x : CountedAs(x)' = CountedAs(x)
             /\ counters' \in [Counted(ruleset) -> Nat]
             /\ \A k \in Counted(ruleset) :
                   counters'[k] = 0 <=> \A x \in applied' : CountedAs(x)' # k
  BY <1>1 DEF CountInv, CountedAs
<1>2. ASSUME NEW p \in Packet, NEW rt \in Routes(p.state), Receive(p, rt)
      PROVE  CountInv'
  BY <1>1, <1>2 DEF Receive, CountInv
<1>3. CASE StaticCounter
  BY <1>3, CountStatic
<1>4. CASE Push /\ ~StaticCounter
  BY <1>1, <1>4, CountElsewhere DEF CountInv
<1>5. CASE ReadUnused
  <2>1. /\ packet' = NoPacket /\ UNCHANGED <<ruleset, counters, applied>>
        /\ unused' = {k \in DOMAIN counters : counters[k] = 0}
    BY <1>5 DEF ReadUnused
  <2>2. DOMAIN counters = Counted(ruleset)
    BY DEF CountInv
  <2> QED BY <1>1, <2>1, <2>2 DEF CountInv
<1>6. CASE UNCHANGED vars
  BY <1>1, <1>6 DEF vars, CountInv
<1> QED BY <1>2, <1>3, <1>4, <1>5, <1>6 DEF Next, Stopped

\* The report of unused rules names exactly those no packet took, whatever the ruleset.
THEOREM ReportsUnused == Spec => []UnusedExact
<1>1. CountInv => UnusedExact
  BY DEF CountInv, CountedAs, UnusedExact
<1> QED BY <1>1, CountInit, CountNext, PTL DEF Spec

-----------------------------------------------------------------------------
(***************************************************************************)
(* The element graph implements the walk through the chains, for every     *)
(* regular ruleset without a rule of a state and an interface.  What makes *)
(* it so is Earned: an element behind a classifier is reached only by      *)
(* packets its rule applies to.                                            *)
(***************************************************************************)

AllTested == \A n \in DOMAIN RuleSets : \A t \in Table : EntryTested(RuleSets[n][t])

Met(c, i) ==
    /\ i \in DOMAIN TableHere[c].rules
    /\ ~Ignored(TableHere[c].rules[i])
    /\ Iptables!Satisfied(TableHere[c].rules[i])

\* Half way through a rule with two classifiers.
HalfMet(r) ==
    ~Ignored(r) /\ "low" \in Kinds(r) /\ "state" \notin Kinds(r) /\ Holds(r, "ip", packet)

EarnedInChain ==
    /\ at.part = "B" => HalfMet(RuleHere)
    /\ at.part \in {"counter", "target"} => Met(at.chain, at.rule)
    /\ at.part = "bt" => \/ at.rule = Len(ChainHere.rules) + 1
                         \/ Met(at.chain, at.rule) /\ RuleHere.target = "RETURN"
EarnedAtMasq ==
    at.part = "rule" =>
        /\ Met(Top.chain, Top.rule - 1)
        /\ TableHere[Top.chain].rules[Top.rule - 1].target = "MASQUERADE"
Earned == packet # NoPacket => IF Mid THEN EarnedAtMasq ELSE EarnedInChain

Steps == Iptables!WalkNext \/ UNCHANGED Iptables!walk

-----------------------------------------------------------------------------
(* Conditions and classifiers.                                             *)

\* A rule that is printed has a state alone or none.
LEMMA StateAlone ==
    ASSUME AllTested, TypeOK, packet # NoPacket, at.chain \in DOMAIN TableHere,
           at.rule \in DOMAIN ChainHere.rules, ~Ignored(RuleHere), "state" \in Kinds(RuleHere)
    PROVE  Kinds(RuleHere) = {"state"}
<1>1. ruleset \in DOMAIN RuleSets /\ route[pass].table \in Table
  BY HereType DEF TypeOK
<1> DEFINE t == route[pass].table
           k == <<at.chain, at.rule>>
<1>2. k \in RulesOf(ruleset, t) /\ RuleAt(ruleset, t, k) = RuleHere
  BY DEF RulesOf, RuleAt, RuleHere, ChainHere, TableHere
<1>3. Printable(RuleHere)
  BY <1>1, <1>2, PrintableAssumption
<1>4. Kinds(RuleHere) # {"state", "low"}
  BY <1>1 DEF AllTested, EntryTested, RuleHere, ChainHere, TableHere
<1>5. Len(RuleHere.conditions) = 1 /\ RuleHere.conditions \in Seq(Condition)
  BY <1>3, <1>4, RuleType DEF Printable, Rule
<1>6. DOMAIN RuleHere.conditions = {1}
  BY <1>5
<1> QED BY <1>6 DEF Kinds

\* All kinds of conditions but the ignorable ones tested: the rule is satisfied.
LEMMA SatisfiedByKinds ==
    ASSUME NEW r \in Rule
    PROVE  Iptables!Satisfied(r) <=>
               Holds(r, "ip", packet) /\ Holds(r, "low", packet) /\ Holds(r, "state", packet)
<1>1. r.conditions \in Seq(Condition)
  BY DEF Rule
<1>2. \A i \in DOMAIN r.conditions : r.conditions[i] \in Condition
  BY <1>1
<1>3. \A i \in DOMAIN r.conditions : r.conditions[i].kind \in {"ip", "low", "state", "ignorable"}
  BY <1>2 DEF Condition
<1> QED BY <1>3 DEF Iptables!Satisfied, Holds

LEMMA NoneOfKind ==
    ASSUME NEW r, NEW kind, kind \notin Kinds(r)
    PROVE  Holds(r, kind, packet)
BY DEF Kinds, Holds

-----------------------------------------------------------------------------
(* What the abstract walk sees.                                            *)

\* It is over the same rules, routes and packets.
LEMMA SameTables ==
    /\ Iptables!Final = Final /\ Iptables!Special = Special /\ Iptables!NoPolicy = NoPolicy
    /\ Iptables!Packet = Packet
    /\ \A s : Iptables!Routes(s) = Routes(s)
    /\ \A r : Iptables!Ignored(r) <=> Ignored(r)
<1>1. \A t, c : Iptables!Visit(t, c) = Visit(t, c)
  BY DEF Iptables!Visit, Visit
<1>2. \A c, s : Iptables!NatVisit(c, s) = NatVisit(c, s)
  BY <1>1 DEF Iptables!NatVisit, NatVisit
<1>3. \A s : /\ Iptables!ForwardTraffic(s) = ForwardTraffic(s)
             /\ Iptables!InputTraffic = InputTraffic
             /\ Iptables!OutputTraffic(s) = OutputTraffic(s)
  BY <1>1, <1>2 DEF Iptables!ForwardTraffic, ForwardTraffic, Iptables!InputTraffic, InputTraffic,
     Iptables!OutputTraffic, OutputTraffic
<1>4. \A s : Iptables!ArrivingTraffic(s) = ArrivingTraffic(s)
  BY <1>1, <1>2, <1>3 DEF Iptables!ArrivingTraffic, ArrivingTraffic
<1>5. \A s : Iptables!OutgoingTraffic(s) = OutgoingTraffic(s)
  BY <1>3, <1>4 DEF Iptables!OutgoingTraffic, OutgoingTraffic
<1>6. \A s : Iptables!Routes(s) = Routes(s)
  BY <1>4, <1>5 DEF Iptables!Routes, Routes
<1>7. \A r : Iptables!Ignored(r) <=> Ignored(r)
  BY DEF Iptables!Ignored, Ignored, Iptables!Kinds, Kinds
<1>8. Iptables!Packet = Packet
  BY DEF Iptables!Packet, Packet, Iptables!State, State
<1> QED BY <1>6, <1>7, <1>8 DEF Iptables!Final, Final, Iptables!Special, Special,
           Iptables!NoPolicy, NoPolicy

CallsIn(stk, b, n) == [k \in 1 .. n |-> [chain |-> stk[b + k].chain, rule |-> stk[b + k].rule]]

LEMMA SeenInChain ==
    ASSUME ~Mid
    PROVE  ChainSeen = at.chain /\ RuleSeen = at.rule /\ CallsSeen = CallsIn(stack, base, Len(stack) - base - 0)
BY DEF ChainSeen, RuleSeen, CallsSeen, CallsIn

LEMMA SeenAtMasq ==
    ASSUME Mid
    PROVE  /\ ChainSeen = Top.chain
           /\ RuleSeen = IF at.part = "bt" THEN Top.rule ELSE Top.rule - 1
           /\ CallsSeen = CallsIn(stack, base, Len(stack) - base - 1)
BY DEF ChainSeen, RuleSeen, CallsSeen, CallsIn

LEMMA NoCalls == \A stk, b : CallsIn(stk, b, 0) = <<>>
BY DEF CallsIn

\* A packet in a chain is, to the abstract walk, at the rule the element belongs to.
LEMMA HereSeen ==
    ASSUME IInv, packet # NoPacket, ~Mid
    PROVE  /\ Iptables!Here = ChainHere /\ Iptables!This = RuleHere
           /\ at.rule \in Nat /\ Len(ChainHere.rules) \in Nat
           /\ at.rule \in DOMAIN ChainHere.rules =>
                 Iptables!AtRule /\ RuleHere \in Rule /\ at.rule <= Len(ChainHere.rules)
           /\ Met(at.chain, at.rule) => Iptables!Applies
           /\ at.rule \in DOMAIN ChainHere.rules /\ ~Met(at.chain, at.rule) =>
                 Iptables!AtRule /\ ~Iptables!Applies
<1>1. /\ InChain /\ at.rule \in Nat /\ Len(ChainHere.rules) \in Nat
      /\ DOMAIN ChainHere.rules = 1 .. Len(ChainHere.rules)
  BY InChainFacts DEF Mid
<1>2. Iptables!Here = ChainHere /\ Iptables!This = RuleHere
  BY SeenInChain DEF Iptables!Here, Iptables!This, ChainHere, TableHere, RuleHere
<1>3. ASSUME at.rule \in DOMAIN ChainHere.rules
      PROVE  Iptables!AtRule /\ RuleHere \in Rule /\ at.rule <= Len(ChainHere.rules)
  <2>1. TypeOK /\ at.chain \in DOMAIN TableHere
    BY <1>1 DEF IInv, InChain
  <2>2. RuleHere \in Rule
    BY <1>3, <2>1, RuleType
  <2>3. at.rule <= Len(ChainHere.rules)
    BY <1>1, <1>3
  <2> QED BY <1>2, <2>2, <2>3, SeenInChain DEF Iptables!AtRule
<1>4. Met(at.chain, at.rule) <=>
        at.rule \in DOMAIN ChainHere.rules /\ ~Ignored(RuleHere) /\ Iptables!Satisfied(RuleHere)
  BY DEF Met, ChainHere, RuleHere
<1> QED BY <1>1, <1>2, <1>3, <1>4, SameTables DEF Iptables!Applies

-----------------------------------------------------------------------------
(* The steps within a chain.                                               *)

LEMMA MetStays ==
    ASSUME UNCHANGED <<ruleset, route, pass, packet>>
    PROVE  /\ TableHere' = TableHere
           /\ \A c, i : Met(c, i)' <=> Met(c, i)
           /\ \A r : HalfMet(r)' <=> HalfMet(r)
BY DEF Met, TableHere, Iptables!Satisfied, HalfMet, Holds

\* A step from element to element of one chain.
LEMMA MoveSeen ==
    ASSUME ~Mid, at'.chain = at.chain, UNCHANGED <<stack, base>>
    PROVE  /\ ~Mid' /\ ChainSeen = at.chain /\ ChainSeen' = at.chain
           /\ RuleSeen = at.rule /\ RuleSeen' = at'.rule /\ CallsSeen' = CallsSeen
<1>1. ~Mid'
  BY DEF Mid
<1>2. CallsSeen' = CallsSeen
  BY <1>1 DEF CallsSeen
<1>3. ChainSeen' = at'.chain /\ RuleSeen' = at'.rule
  BY <1>1 DEF ChainSeen, RuleSeen
<1> QED BY <1>1, <1>2, <1>3, SeenInChain

\* A step within a rule is none of the abstract walk.
LEMMA WithinRule ==
    ASSUME ~Mid, at'.chain = at.chain, at'.rule = at.rule,
           UNCHANGED <<ruleset, route, pass, packet, stack, base, verdict>>
    PROVE  UNCHANGED Iptables!walk
BY MoveSeen DEF Iptables!walk

\* One output of a classifier leads on in the rule, the other one past it.
LEMMA BranchSteps ==
    ASSUME IInv, packet # NoPacket, ~Mid, at.rule \in DOMAIN ChainHere.rules,
           NEW hit \in BOOLEAN, NEW part \in {"B", "counter"}, Branch(hit, part), OnlyMoves,
           ~hit => ~Met(at.chain, at.rule),
           hit /\ part = "B" => HalfMet(RuleHere),
           hit /\ part = "counter" => Met(at.chain, at.rule)
    PROVE  Steps /\ Earned'
<1>1. /\ UNCHANGED <<ruleset, route, pass, packet, stack, verdict, base>>
      /\ at \in [chain : Name, rule : Nat, part : Part]
  BY InChainFacts DEF OnlyMoves, kept, Mid
<1>2. CASE hit
  <2>1. at'.chain = at.chain /\ at'.rule = at.rule /\ at'.part = part
    BY <1>1, <1>2 DEF Branch, Goto
  <2>2. UNCHANGED Iptables!walk
    BY <1>1, <2>1, WithinRule
  <2>3. ~Mid' /\ RuleHere' = RuleHere
    BY <1>1, <2>1 DEF Mid, RuleHere, ChainHere, TableHere
  <2>4. EarnedInChain'
    BY <1>1, <1>2, <2>1, <2>3, MetStays DEF EarnedInChain
  <2> QED BY <2>2, <2>3, <2>4 DEF Steps, Earned
<1>3. CASE ~hit
  <2>1. at'.chain = at.chain /\ at'.rule = at.rule + 1 /\ at'.part = "rule"
    BY <1>3 DEF Branch, NextRule, Element
  <2>2. Iptables!AtRule /\ ~Iptables!Applies
    BY <1>3, HereSeen
  <2>3. /\ ~Mid' /\ ChainSeen' = ChainSeen /\ RuleSeen' = RuleSeen + 1 /\ CallsSeen' = CallsSeen
    BY <1>1, <2>1, MoveSeen
  <2>4. Iptables!Skip
    BY <1>1, <2>2, <2>3 DEF Iptables!Skip, Iptables!At
  <2>5. EarnedInChain'
    BY <2>1 DEF EarnedInChain
  <2> QED BY <2>3, <2>4, <2>5 DEF Steps, Earned, Iptables!WalkNext
<1> QED BY <1>2, <1>3

\* What the classifiers test between them.
LEMMA ClassifierSteps ==
    ASSUME AllTested, IInv, Earned,
           TakeIgnored \/ TakeUnconditional \/ IPClassifier \/ Classifier \/ PaintSwitch
    PROVE  Steps /\ Earned'
<1>1. packet # NoPacket /\ ~Mid /\ OnlyMoves /\ at.part \in {"rule", "B"}
  BY DEF TakeIgnored, TakeUnconditional, IPClassifier, Classifier, PaintSwitch, AtRule, In, Mid
<1>2. InChain /\ EarnedInChain
  BY <1>1, InChainFacts DEF Earned, Mid
<1>3. at.rule \in DOMAIN ChainHere.rules
  BY <1>2 DEF TakeIgnored, TakeUnconditional, IPClassifier, Classifier, PaintSwitch, AtRule, In,
     InChain
<1>4. RuleHere \in Rule
  BY <1>1, <1>3, HereSeen
<1>5. Met(at.chain, at.rule) <=>
        /\ ~Ignored(RuleHere)
        /\ Holds(RuleHere, "ip", packet) /\ Holds(RuleHere, "low", packet)
        /\ Holds(RuleHere, "state", packet)
  BY <1>3, <1>4, SatisfiedByKinds DEF Met, ChainHere, RuleHere
<1>6. ~Ignored(RuleHere) /\ "state" \in Kinds(RuleHere) => Kinds(RuleHere) = {"state"}
  BY <1>1, <1>2, <1>3, StateAlone DEF IInv, InChain
<1>7. \A kind : kind \notin Kinds(RuleHere) => Holds(RuleHere, kind, packet)
  BY NoneOfKind
<1>8. \A kind : Holds(RuleHere, kind, packet) \in BOOLEAN
  BY DEF Holds
<1>9. CASE TakeIgnored
  <2>1. Branch(FALSE, "counter") /\ ~Met(at.chain, at.rule)
    BY <1>5, <1>9 DEF TakeIgnored, Branch
  <2> QED BY <1>1, <1>3, <2>1, BranchSteps
<1>10. CASE TakeUnconditional
  <2>1. Branch(TRUE, "counter") /\ ~Ignored(RuleHere) /\ RuleHere.conditions = <<>>
    BY <1>10 DEF TakeUnconditional, Branch
  <2>2. Kinds(RuleHere) = {}
    BY <2>1 DEF Kinds
  <2>3. Met(at.chain, at.rule)
    BY <1>5, <1>7, <2>1, <2>2
  <2> QED BY <1>1, <1>3, <2>1, <2>3, BranchSteps
<1>11. CASE IPClassifier
  <2> DEFINE part == IF NeedsClassifier(RuleHere) THEN "B" ELSE "counter"
             hit  == Holds(RuleHere, "ip", packet)
  <2>1. /\ ~Ignored(RuleHere) /\ Kinds(RuleHere) \cap {"ip", "ignorable"} # {}
        /\ Branch(hit, part)
    BY <1>11 DEF IPClassifier, NeedsIPClassifier
  <2>2. "state" \notin Kinds(RuleHere)
    BY <1>6, <2>1
  <2>3. part = IF "low" \in Kinds(RuleHere) THEN "B" ELSE "counter"
    BY DEF NeedsClassifier
  <2>4. hit /\ part = "B" => HalfMet(RuleHere)
    BY <2>1, <2>2, <2>3 DEF HalfMet
  <2>5. hit /\ part = "counter" => Met(at.chain, at.rule)
    BY <1>5, <1>7, <2>1, <2>2, <2>3
  <2>6. ~hit => ~Met(at.chain, at.rule)
    BY <1>5
  <2>7. hit \in BOOLEAN /\ part \in {"B", "counter"}
    BY <1>8
  <2> HIDE DEF part, hit
  <2> QED BY <1>1, <1>3, <2>1, <2>4, <2>5, <2>6, <2>7, BranchSteps
<1>12. CASE Classifier
  <2> DEFINE hit == Holds(RuleHere, "low", packet)
  <2>1. /\ ~Ignored(RuleHere) /\ Branch(hit, "counter")
        /\ "state" \notin Kinds(RuleHere) /\ Holds(RuleHere, "ip", packet)
    <3>1. CASE In("B")
      BY <1>2, <1>12, <3>1 DEF Classifier, EarnedInChain, HalfMet, In
    <3>2. CASE ~In("B")
      <4>1. /\ ~Ignored(RuleHere) /\ Branch(hit, "counter")
            /\ "ip" \notin Kinds(RuleHere) /\ "low" \in Kinds(RuleHere)
        BY <1>12, <3>2 DEF Classifier, NeedsIPClassifier, NeedsClassifier
      <4> QED BY <1>6, <1>7, <4>1
    <3> QED BY <3>1, <3>2
  <2>2. hit <=> Met(at.chain, at.rule)
    BY <1>5, <1>7, <2>1
  <2>3. hit \in BOOLEAN
    BY <1>8
  <2> HIDE DEF hit
  <2> QED BY <1>1, <1>3, <2>1, <2>2, <2>3, BranchSteps
<1>13. CASE PaintSwitch
  <2> DEFINE hit == Holds(RuleHere, "state", packet)
  <2>1. /\ ~Ignored(RuleHere) /\ Branch(hit, "counter")
        /\ "ip" \notin Kinds(RuleHere) /\ "low" \notin Kinds(RuleHere)
    BY <1>13 DEF PaintSwitch, NeedsPaintSwitch, NeedsIPClassifier, NeedsClassifier
  <2>2. hit <=> Met(at.chain, at.rule)
    BY <1>5, <1>7, <2>1
  <2>3. hit \in BOOLEAN
    BY <1>8
  <2> HIDE DEF hit
  <2> QED BY <1>1, <1>3, <2>1, <2>2, <2>3, BranchSteps
<1> QED BY <1>9, <1>10, <1>11, <1>12, <1>13

\* The counter, RETURN's way to the Backtracker, and a chain's end on its way there.
LEMMA CounterSteps ==
    ASSUME IInv, Earned, StaticCounter
    PROVE  Steps /\ Earned'
<1>1. /\ packet # NoPacket /\ ~Mid /\ at.part = "counter"
      /\ at' = [at EXCEPT !.part = "target"]
      /\ UNCHANGED <<ruleset, route, pass, packet, stack, verdict, base>>
  BY DEF StaticCounter, In, Goto, Mid
<1>2. at \in [chain : Name, rule : Nat, part : Part] /\ EarnedInChain
  BY <1>1, InChainFacts DEF Earned, Mid
<1>3. at'.chain = at.chain /\ at'.rule = at.rule /\ at'.part = "target"
  BY <1>1, <1>2
<1>4. UNCHANGED Iptables!walk
  BY <1>1, <1>3, WithinRule
<1>5. ~Mid' /\ EarnedInChain'
  BY <1>1, <1>2, <1>3, MetStays DEF Mid, EarnedInChain
<1> QED BY <1>4, <1>5 DEF Steps, Earned

LEMMA ToBacktracker ==
    ASSUME IInv, Earned, packet # NoPacket, ~Mid, Goto("bt"),
           UNCHANGED <<ruleset, route, pass, packet, stack, verdict, base>>,
           \/ at.rule = Len(ChainHere.rules) + 1
           \/ at.part = "target" /\ RuleHere.target = "RETURN"
    PROVE  Steps /\ Earned'
<1>1. at \in [chain : Name, rule : Nat, part : Part] /\ EarnedInChain
  BY InChainFacts DEF Earned, Mid
<1>2. at'.chain = at.chain /\ at'.rule = at.rule /\ at'.part = "bt"
  BY <1>1 DEF Goto
<1>3. UNCHANGED Iptables!walk
  BY <1>2, WithinRule
<1>4. ~Mid' /\ RuleHere' = RuleHere /\ ChainHere' = ChainHere
  BY <1>2 DEF Mid, RuleHere, ChainHere, TableHere
<1>5. EarnedInChain'
  BY <1>1, <1>2, <1>4, MetStays DEF EarnedInChain
<1> QED BY <1>3, <1>4, <1>5 DEF Steps, Earned

-----------------------------------------------------------------------------
(* The steps from chain to chain: the calls are the stack above base.      *)

Call == [chain : Name, rule : Nat]
CallOf(f) == [chain |-> f.chain, rule |-> f.rule]

LEMMA CallsType ==
    ASSUME NEW stk \in Seq(Frame), NEW b \in Nat, NEW n \in Nat, b + n <= Len(stk)
    PROVE  /\ CallsIn(stk, b, n) \in Seq(Call) /\ Len(CallsIn(stk, b, n)) = n
           /\ \A k \in 1 .. n : CallsIn(stk, b, n)[k] = CallOf(stk[b + k])
<1> DEFINE calls == CallsIn(stk, b, n)
<1>1. calls = [k \in 1 .. n |-> CallOf(stk[b + k])]
  BY DEF CallsIn, CallOf
<1>2. ASSUME NEW k \in 1 .. n
      PROVE  CallOf(stk[b + k]) \in Call
  <2>1. b + k \in 1 .. Len(stk)
    OBVIOUS
  <2>2. stk[b + k] \in Frame
    BY <2>1
  <2> QED BY <2>2 DEF Frame, Call, CallOf
<1> HIDE DEF calls
<1>3. calls \in [1 .. n -> Call]
  BY <1>1, <1>2
<1>4. calls \in Seq(Call)
  BY <1>3, SeqDef
<1>5. Len(calls) = n
  BY <1>3, <1>4
<1> QED BY <1>1, <1>4, <1>5 DEF calls

LEMMA CallsPush ==
    ASSUME NEW stk \in Seq(Frame), NEW b \in 0 .. Len(stk), NEW f \in Frame
    PROVE  LET n == Len(stk) - b
           IN /\ CallsIn(Append(stk, f), b, n + 1) = Append(CallsIn(stk, b, n), CallOf(f))
              /\ CallsIn(Append(stk, f), b, n) = CallsIn(stk, b, n)
<1> DEFINE n    == Len(stk) - b
           new  == Append(stk, f)
           old  == CallsIn(stk, b, n)
           more == CallsIn(new, b, n + 1)
           app  == Append(old, CallOf(f))
<1>1. n \in Nat /\ n + 1 \in Nat /\ Len(stk) \in Nat /\ b \in Nat /\ b + n = Len(stk)
  OBVIOUS
<1>2. /\ new \in Seq(Frame) /\ Len(new) = Len(stk) + 1
      /\ new[Len(stk) + 1] = f /\ \A k \in 1 .. Len(stk) : new[k] = stk[k]
  OBVIOUS
<1> HIDE DEF new, n
<1>3. \A k \in 1 .. n : new[b + k] = stk[b + k]
  <2>1. \A k \in 1 .. n : b + k \in 1 .. Len(stk)
    BY <1>1
  <2> QED BY <1>2, <2>1
<1>4. b + (n + 1) = Len(stk) + 1
  BY <1>1
<1>5. CallsIn(new, b, n) = old
  BY <1>3 DEF CallsIn
<1>6. /\ old \in Seq(Call) /\ Len(old) = n
      /\ \A k \in 1 .. n : old[k] = CallOf(stk[b + k])
  <2>1. b + n <= Len(stk)
    BY <1>1
  <2> QED BY <1>1, <2>1, CallsType
<1>7. /\ more \in Seq(Call) /\ Len(more) = n + 1
      /\ \A k \in 1 .. n + 1 : more[k] = CallOf(new[b + k])
  <2>1. b + (n + 1) <= Len(new)
    BY <1>1, <1>2
  <2> QED BY <1>1, <1>2, <2>1, CallsType
<1>8. CallOf(f) \in Call
  BY DEF CallOf, Call, Frame
<1> HIDE DEF old, more
<1>9. /\ app \in Seq(Call) /\ Len(app) = n + 1
      /\ app[n + 1] = CallOf(f) /\ \A k \in 1 .. n : app[k] = old[k]
  BY <1>6, <1>8, AppendProperties
<1> HIDE DEF app
<1>10. \A k \in 1 .. n + 1 : more[k] = app[k]
  <2> TAKE k \in 1 .. n + 1
  <2>1. CASE k = n + 1
    BY <1>2, <1>4, <1>7, <1>9, <2>1
  <2>2. CASE k # n + 1
    <3>1. k \in 1 .. n
      BY <1>1, <2>2
    <3> QED BY <1>3, <1>6, <1>7, <1>9, <3>1
  <2> QED BY <2>1, <2>2
<1>11. more = app
  BY <1>7, <1>9, <1>10, SeqEqual
<1> QED BY <1>5, <1>11 DEF n, new, old, more, app

LEMMA CallsPop ==
    ASSUME NEW stk \in Seq(Frame), NEW b \in Nat, b < Len(stk)
    PROVE  LET n     == Len(stk) - b
               calls == CallsIn(stk, b, n)
           IN /\ CallsIn(SubSeq(stk, 1, Len(stk) - 1), b, n - 1) = CallsIn(stk, b, n - 1)
              /\ calls # <<>> /\ Len(calls) = n
              /\ calls[n] = CallOf(stk[Len(stk)])
              /\ SubSeq(calls, 1, n - 1) = CallsIn(stk, b, n - 1)
<1> DEFINE n     == Len(stk) - b
           calls == CallsIn(stk, b, n)
           fewer == CallsIn(stk, b, n - 1)
           less  == SubSeq(stk, 1, Len(stk) - 1)
           sub   == SubSeq(calls, 1, n - 1)
<1>1. n \in Nat \ {0} /\ n - 1 \in Nat /\ Len(stk) \in Nat /\ b + n = Len(stk) /\ b + (n - 1) <= Len(stk)
  OBVIOUS
<1>2. \A k \in 1 .. Len(stk) - 1 : less[k] = stk[k]
  OBVIOUS
<1> HIDE DEF less, n
<1>3. \A k \in 1 .. n - 1 : b + k \in 1 .. Len(stk) - 1 /\ k \in 1 .. n
  BY <1>1
<1>4. CallsIn(less, b, n - 1) = fewer
  BY <1>2, <1>3 DEF CallsIn
<1>5. /\ calls \in Seq(Call) /\ Len(calls) = n
      /\ \A k \in 1 .. n : calls[k] = CallOf(stk[b + k])
  <2>1. n \in Nat /\ b + n <= Len(stk)
    BY <1>1
  <2> QED BY <2>1, CallsType
<1>6. /\ fewer \in Seq(Call) /\ Len(fewer) = n - 1
      /\ \A k \in 1 .. n - 1 : fewer[k] = CallOf(stk[b + k])
  <2> DEFINE m == n - 1
  <2>1. m \in Nat /\ b + m <= Len(stk)
    BY <1>1
  <2> HIDE DEF m
  <2>2. /\ CallsIn(stk, b, m) \in Seq(Call) /\ Len(CallsIn(stk, b, m)) = m
        /\ \A k \in 1 .. m : CallsIn(stk, b, m)[k] = CallOf(stk[b + k])
    BY <2>1, CallsType
  <2> QED BY <2>2 DEF m
<1> HIDE DEF calls, fewer
<1>7. calls # <<>> /\ calls[n] = CallOf(stk[Len(stk)])
  BY <1>1, <1>5
<1>8. /\ sub \in Seq(Call) /\ Len(sub) = n - 1
      /\ \A k \in 1 .. n - 1 : sub[k] = calls[k]
  BY <1>1, <1>5
<1> HIDE DEF sub
<1>9. \A k \in 1 .. n - 1 : sub[k] = fewer[k]
  BY <1>3, <1>5, <1>6, <1>8
<1>10. sub = fewer
  BY <1>6, <1>8, <1>9, SeqEqual
<1> QED BY <1>4, <1>5, <1>7, <1>10 DEF n, calls, fewer, less, sub

-----------------------------------------------------------------------------
\* A packet that leaves a table, by a rule or by its chain's policy.
LEMMA ExitSteps ==
    ASSUME IInv, packet # NoPacket, NEW v \in Final, Exit(v), UNCHANGED kept
    PROVE  Iptables!Decide(v) /\ Earned'
<1>1. /\ route \in Seq(EntryVisit) /\ pass \in 1 .. Len(route) /\ Len(stack) \in Nat
  BY HereType DEF IInv, TypeOK
<1>2. CASE v = "ACCEPT" /\ pass < Len(route)
  <2>1. /\ pass' = pass + 1 /\ at' = Element(route[pass + 1].chain, 1) /\ base' = Len(stack)
        /\ UNCHANGED <<ruleset, packet, route, stack, verdict>>
    BY <1>2 DEF Exit, kept
  <2>2. pass + 1 \in 1 .. Len(route)
    BY <1>1, <1>2
  <2>3. route[pass + 1] \in EntryVisit
    BY <1>1, <2>2
  <2>4. route[pass + 1].chain \in BuiltIn
    BY <2>3 DEF EntryVisit
  <2>5. /\ at'.chain = route[pass + 1].chain /\ at'.rule = 1 /\ at'.part = "rule"
    BY <2>1 DEF Element
  <2>6. ~Mid'
    BY <2>4, <2>5, MasqAssumption DEF Mid
  <2>7. ChainSeen' = route[pass + 1].chain /\ RuleSeen' = 1
    BY <2>5, <2>6 DEF ChainSeen, RuleSeen
  <2>8. CallsSeen' = <<>>
    <3>1. Len(stack)' - base' - 0 = 0
      BY <1>1, <2>1
    <3>2. CallsSeen' = CallsIn(stack', base', Len(stack)' - base' - 0)
      BY <2>6 DEF CallsSeen, CallsIn
    <3> QED BY <3>1, <3>2, NoCalls
  <2>9. Iptables!Decide(v)
    BY <1>2, <2>1, <2>7, <2>8 DEF Iptables!Decide, Iptables!At
  <2>10. Earned'
    BY <2>5, <2>6 DEF Earned, EarnedInChain
  <2> QED BY <2>9, <2>10
<1>3. CASE ~(v = "ACCEPT" /\ pass < Len(route))
  <2>1. /\ packet' = NoPacket /\ verdict' = v /\ route' = <<>> /\ pass' = 0 /\ at' = Nowhere
        /\ stack' = <<>> /\ base' = 0 /\ ruleset' = ruleset
    BY <1>3 DEF Exit, kept
  <2>2. ~Mid' /\ at'.chain = NoPolicy /\ at'.rule = 0
    BY <2>1, MasqAssumption DEF Mid, Nowhere, Element
  <2>3. ChainSeen' = NoPolicy /\ RuleSeen' = 0
    BY <2>2 DEF ChainSeen, RuleSeen
  <2>4. CallsSeen' = <<>>
    <3>1. Len(stack)' - base' - 0 = 0
      BY <2>1
    <3>2. CallsSeen' = CallsIn(stack', base', Len(stack)' - base' - 0)
      BY <2>2 DEF CallsSeen, CallsIn
    <3> QED BY <3>1, <3>2, NoCalls
  <2>5. v # "ACCEPT" \/ pass = Len(route)
    BY <1>1, <1>3
  <2>6. Iptables!Decide(v)
    BY <2>1, <2>3, <2>4, <2>5, SameTables DEF Iptables!Decide, Iptables!At
  <2> QED BY <2>1, <2>6 DEF Earned
<1> QED BY <1>2, <1>3

LEMMA FinalSteps ==
    ASSUME IInv, Earned, TargetFinal
    PROVE  Steps /\ Earned'
<1>1. /\ packet # NoPacket /\ ~Mid /\ at.part = "target" /\ RuleHere.target \in Final
      /\ Exit(RuleHere.target) /\ UNCHANGED kept
  BY DEF TargetFinal, AtTarget, In, Mid
<1>2. Met(at.chain, at.rule)
  BY <1>1 DEF Earned, EarnedInChain
<1>3. Iptables!Decide(RuleHere.target) /\ Earned'
  BY <1>1, ExitSteps
<1>4. Iptables!Verdict
  BY <1>1, <1>2, <1>3, HereSeen, SameTables DEF Iptables!Verdict
<1> QED BY <1>3, <1>4 DEF Steps, Iptables!WalkNext

\* In a chain that nothing jumps to there are no calls.
LEMMA NoCallsAtEntry ==
    ASSUME IInv, packet # NoPacket, EntryRegular(TableHere), at.chain \in BuiltIn
    PROVE  Len(stack) - base - 0 = 0
<1>1. TypeOK /\ CallsNested
  BY DEF IInv
<1>2. stack \in Seq(Frame) /\ base \in 0 .. Len(stack) /\ base \in Nat
  BY <1>1 DEF TypeOK
<1>3. ASSUME base < Len(stack)
      PROVE  FALSE
  <2> DEFINE tb    == TableHere
             entry == route[pass].chain
             top   == stack[Len(stack)]
  <2>1. Nested(tb, pass, entry, stack, base, at.chain)
    BY <1>1 DEF CallsNested
  <2> HIDE DEF tb, entry
  <2>2. /\ top.chain \in DOMAIN tb /\ top.rule - 1 \in DOMAIN tb[top.chain].rules
        /\ at.chain = CalledBy(tb[top.chain].rules[top.rule - 1].target)
    BY <1>2, <1>3, <2>1, NestedPop
  <2>3. tb[top.chain].rules[top.rule - 1].target \notin BuiltIn
    BY <2>2 DEF EntryRegular, tb
  <2> QED BY <2>2, <2>3, MasqAssumption DEF CalledBy
<1> QED BY <1>2, <1>3

LEMMA EndSteps ==
    ASSUME IInv, Earned, EndOfChain, EntryRegular(TableHere)
    PROVE  Steps /\ Earned'
<1>1. /\ packet # NoPacket /\ ~Mid /\ at.rule = Len(ChainHere.rules) + 1 /\ UNCHANGED kept
  BY DEF EndOfChain, In, Mid
<1>2. InChain /\ ChainHere \in Chain
  BY <1>1, InChainFacts DEF Mid
<1>3. CASE EndBacktracks /\ Goto("bt") /\ UNCHANGED <<route, pass, packet, stack, verdict, base>>
  BY <1>1, <1>3, ToBacktracker DEF kept
<1>4. CASE ~EndBacktracks /\ Exit(ChainHere.policy)
  <2>1. ChainHere.policy \in Final /\ at.chain \in BuiltIn
    BY <1>2, <1>4 DEF EndBacktracks, Chain, EntryRegular, InChain, ChainHere
  <2>2. CallsSeen = <<>>
    BY <1>1, <2>1, NoCallsAtEntry, NoCalls, SeenInChain
  <2>3. Iptables!Decide(ChainHere.policy) /\ Earned'
    BY <1>1, <1>4, <2>1, ExitSteps
  <2>4. Iptables!Return
    BY <1>1, <2>2, <2>3, HereSeen, SeenInChain DEF Iptables!Return
  <2> QED BY <2>3, <2>4 DEF Steps, Iptables!WalkNext
<1> QED BY <1>3, <1>4 DEF EndOfChain

\* StaticNat hands the packet on to the next rule.
LEMMA NatSteps ==
    ASSUME IInv, Earned, TargetNat
    PROVE  Steps /\ Earned'
<1>1. /\ packet # NoPacket /\ ~Mid /\ at.part = "target" /\ RuleHere.target \in {"SNAT", "DNAT"}
      /\ at' = Element(at.chain, at.rule + 1)
      /\ UNCHANGED <<ruleset, route, pass, stack, verdict, base>>
  BY DEF TargetNat, AtTarget, In, NextRule, kept, Mid
<1>2. Met(at.chain, at.rule)
  BY <1>1 DEF Earned, EarnedInChain
<1>3. at'.chain = at.chain /\ at'.rule = at.rule + 1 /\ at'.part = "rule"
  BY <1>1 DEF Element
<1>4. ~Mid' /\ ChainSeen' = ChainSeen /\ RuleSeen' = RuleSeen + 1 /\ CallsSeen' = CallsSeen
  BY <1>1, <1>3, MoveSeen
<1>5. Iptables!Applies /\ Iptables!This = RuleHere
  BY <1>1, <1>2, HereSeen
<1>6. \E h \in Header : packet' = [packet EXCEPT !.header = h]
  BY DEF TargetNat
<1>7. Iptables!Translate
  BY <1>1, <1>4, <1>5, <1>6 DEF Iptables!Translate, Iptables!At
<1>8. Earned'
  BY <1>3, <1>4 DEF Earned, EarnedInChain
<1> QED BY <1>7, <1>8 DEF Steps, Iptables!WalkNext

-----------------------------------------------------------------------------
(* BacktrackPainter, masq and the Backtracker.                             *)

\* A painter's frame is the call of the rule it stands behind.
LEMMA PaintSeen ==
    ASSUME IInv, packet # NoPacket, ~Mid, stack' = Append(stack, Behind), UNCHANGED base
    PROVE  /\ CallsIn(stack', base', Len(stack') - base' - 0)
                = Append(CallsSeen, [chain |-> at.chain, rule |-> at.rule + 1])
           /\ CallsIn(stack', base', Len(stack') - base' - 1) = CallsSeen
           /\ Top' = Behind
<1>1. /\ stack \in Seq(Frame) /\ base \in 0 .. Len(stack) /\ pass \in Nat
      /\ at \in [chain : Name, rule : Nat, part : Part]
  BY HereType DEF IInv, TypeOK
<1> DEFINE f == Behind
<1>2. f \in Frame /\ CallOf(f) = [chain |-> at.chain, rule |-> at.rule + 1]
  BY <1>1 DEF Behind, Frame, CallOf
<1>3. stack' = Append(stack, f)
  OBVIOUS
<1> HIDE DEF f
<1>4. Len(stack') = Len(stack) + 1 /\ stack'[Len(stack')] = f
  BY <1>1, <1>2, <1>3
<1>5. /\ Len(stack') - base' - 0 = (Len(stack) - base) + 1
      /\ Len(stack') - base' - 1 = Len(stack) - base
      /\ Len(stack) - base - 0 = Len(stack) - base
  BY <1>1, <1>4
<1>6. /\ CallsIn(stack', base, (Len(stack) - base) + 1)
           = Append(CallsIn(stack, base, Len(stack) - base), CallOf(f))
      /\ CallsIn(stack', base, Len(stack) - base) = CallsIn(stack, base, Len(stack) - base)
  BY <1>1, <1>2, <1>3, CallsPush
<1>7. CallsSeen = CallsIn(stack, base, Len(stack) - base)
  BY <1>5, SeenInChain
<1>8. Top' = f
  BY <1>4 DEF Top
<1> QED BY <1>2, <1>5, <1>6, <1>7, <1>8 DEF f

LEMMA ChainSteps ==
    ASSUME IInv, Earned, TargetChain
    PROVE  Steps /\ Earned'
<1>1. /\ packet # NoPacket /\ ~Mid /\ at.part = "target"
      /\ RuleHere.target \notin Final \cup Special
      /\ stack' = Append(stack, Behind) /\ at' = Element(RuleHere.target, 1)
      /\ UNCHANGED <<ruleset, route, pass, packet, verdict, base>>
  BY DEF TargetChain, AtTarget, In, kept, Mid
<1>2. Met(at.chain, at.rule) /\ InChain
  BY <1>1, InChainFacts DEF Earned, EarnedInChain, Mid
<1>3. RuleHere.target \in DOMAIN TableHere
  BY <1>1, <1>2, RuleType DEF IInv, InChain
<1>4. RuleHere.target # MasqChain
  BY <1>1, <1>3, HereType DEF RuleTable, IInv
<1>5. /\ at'.chain = RuleHere.target /\ at'.rule = 1 /\ at'.part = "rule"
  BY <1>1 DEF Element
<1>6. ~Mid'
  BY <1>4, <1>5 DEF Mid
<1>7. ChainSeen' = RuleHere.target /\ RuleSeen' = 1
  BY <1>5, <1>6 DEF ChainSeen, RuleSeen
<1>8. CallsSeen' = CallsIn(stack', base', Len(stack') - base' - 0)
  BY <1>6 DEF CallsSeen, CallsIn
<1>9. CallsSeen' = Append(CallsSeen, [chain |-> ChainSeen, rule |-> RuleSeen + 1])
  BY <1>1, <1>8, PaintSeen, SeenInChain
<1>10. Iptables!Applies /\ Iptables!This = RuleHere
  BY <1>1, <1>2, HereSeen
<1>11. Iptables!Jump
  BY <1>1, <1>7, <1>9, <1>10, SameTables DEF Iptables!Jump, Iptables!At
<1>12. Earned'
  BY <1>5, <1>6 DEF Earned, EarnedInChain
<1> QED BY <1>11, <1>12 DEF Steps, Iptables!WalkNext

\* The painter before masq is no step of the walk: it is still at the rule.
LEMMA PaintMasqSteps ==
    ASSUME IInv, Earned, TargetMasquerade
    PROVE  Steps /\ Earned'
<1>1. /\ packet # NoPacket /\ ~Mid /\ at.part = "target" /\ RuleHere.target = "MASQUERADE"
      /\ stack' = Append(stack, Behind) /\ at' = Element(MasqChain, 1)
      /\ UNCHANGED <<ruleset, route, pass, packet, verdict, base>>
  BY DEF TargetMasquerade, AtTarget, In, kept, Mid
<1>2. Met(at.chain, at.rule) /\ at.rule \in Nat
  BY <1>1, HereSeen DEF Earned, EarnedInChain
<1>3. Mid' /\ at'.part = "rule"
  BY <1>1 DEF Mid, Element
<1>4. Top' = Behind
  BY <1>1, PaintSeen
<1>5. Top'.chain = at.chain /\ Top'.rule - 1 = at.rule
  BY <1>2, <1>4 DEF Behind
<1>6. ChainSeen' = at.chain /\ RuleSeen' = at.rule
  BY <1>3, <1>5 DEF ChainSeen, RuleSeen
<1>7. CallsSeen' = CallsIn(stack', base', Len(stack') - base' - 1)
  BY <1>3 DEF CallsSeen, CallsIn
<1>8. UNCHANGED Iptables!walk
  BY <1>1, <1>6, <1>7, PaintSeen, SeenInChain DEF Iptables!walk
<1>9. TableHere' = TableHere /\ \A c, i : Met(c, i)' <=> Met(c, i)
  BY <1>1, MetStays
<1>10. TableHere[at.chain].rules[at.rule].target = "MASQUERADE"
  BY <1>1 DEF RuleHere, ChainHere
<1>11. EarnedAtMasq'
  BY <1>2, <1>5, <1>9, <1>10 DEF EarnedAtMasq
<1> QED BY <1>3, <1>8, <1>11 DEF Steps, Earned

\* What the abstract walk sees of a packet at masq: the MASQUERADE rule that sent it there.
LEMMA MasqSeen ==
    ASSUME IInv, packet # NoPacket, Mid
    PROVE  /\ Len(stack) > base /\ base \in Nat /\ stack \in Seq(Frame)
           /\ Top \in Frame /\ Top.chain \in DOMAIN TableHere /\ Top.pass = pass
           /\ RuleTable(TableHere)
           /\ at.part \in {"rule", "bt"}
<1>1. TypeOK /\ CallsNested /\ RuleTable(TableHere)
  BY HereType DEF IInv
<1>2. AtMasq
  <2>1. MasqChain \notin DOMAIN TableHere
    BY <1>1 DEF RuleTable
  <2> QED BY <2>1 DEF IInv, Placed, InChain, Mid
<1>3. Len(stack) > base /\ base \in Nat /\ stack \in Seq(Frame)
  BY <1>1, <1>2 DEF AtMasq, TypeOK
<1> DEFINE tb    == TableHere
           entry == route[pass].chain
<1>4. Nested(tb, pass, entry, stack, base, at.chain)
  BY <1>1 DEF CallsNested
<1> HIDE DEF tb, entry
<1>5. /\ stack[Len(stack)] \in Frame /\ stack[Len(stack)].pass = pass
      /\ stack[Len(stack)].chain \in DOMAIN tb
  BY <1>3, <1>4, NestedPop
<1> QED BY <1>1, <1>2, <1>3, <1>5 DEF tb, Top, AtMasq

LEMMA MasqApplies ==
    ASSUME IInv, Earned, packet # NoPacket, Mid, at.part = "rule"
    PROVE  /\ Iptables!Applies /\ Iptables!This.target = "MASQUERADE"
           /\ ChainSeen = Top.chain /\ RuleSeen = Top.rule - 1
<1>1. ChainSeen = Top.chain /\ RuleSeen = Top.rule - 1
  BY SeenAtMasq
<1>2. /\ Met(Top.chain, Top.rule - 1)
      /\ TableHere[Top.chain].rules[Top.rule - 1].target = "MASQUERADE"
  BY DEF Earned, EarnedAtMasq
<1>3. Iptables!Here = TableHere[Top.chain]
      /\ Iptables!This = TableHere[Top.chain].rules[Top.rule - 1]
  BY <1>1 DEF Iptables!Here, Iptables!This, TableHere
<1>4. TableHere[Top.chain].rules \in Seq(Rule)
  BY MasqSeen DEF RuleTable, Chain
<1>5. Top.rule - 1 <= Len(TableHere[Top.chain].rules)
  BY <1>2, <1>4 DEF Met
<1> QED BY <1>1, <1>2, <1>3, <1>5, SameTables DEF Met, Iptables!Applies, Iptables!AtRule

LEMMA MasqueradeSteps ==
    ASSUME IInv, Earned, Masquerade
    PROVE  Steps /\ Earned'
<1>1. /\ packet # NoPacket /\ Mid /\ at.part = "rule" /\ at = Element(MasqChain, 1)
      /\ at' = [at EXCEPT !.part = "bt"]
      /\ UNCHANGED <<ruleset, route, pass, stack, verdict, base>>
      /\ \E h \in Header : packet' = [packet EXCEPT !.header = h]
  BY DEF Masquerade, Element, Mid, Goto, kept
<1>2. Mid' /\ at'.part = "bt" /\ Top' = Top
  BY <1>1 DEF Mid, Element, Top
<1>3. Top.rule \in Nat
  BY <1>1, MasqSeen DEF Frame
<1>4. ChainSeen' = Top.chain /\ RuleSeen' = (Top.rule - 1) + 1 /\ CallsSeen' = CallsSeen
  BY <1>1, <1>2, <1>3 DEF ChainSeen, RuleSeen, CallsSeen
<1>5. Iptables!Translate
  BY <1>1, <1>4, MasqApplies DEF Iptables!Translate, Iptables!At
<1>6. Earned'
  BY <1>2 DEF Earned, EarnedAtMasq
<1> QED BY <1>5, <1>6 DEF Steps, Iptables!WalkNext

\* masq kills the packets of unknown interfaces.
LEMMA LoseSteps ==
    ASSUME IInv, Earned, MasqueradeUnknown
    PROVE  Steps /\ Earned'
<1>1. /\ packet # NoPacket /\ Mid /\ at.part = "rule"
      /\ packet' = NoPacket /\ verdict' = "LOST" /\ route' = <<>> /\ pass' = 0 /\ at' = Nowhere
      /\ stack' = <<>> /\ base' = 0 /\ ruleset' = ruleset
  BY DEF MasqueradeUnknown, Element, Mid, kept
<1>2. ~Mid' /\ at'.chain = NoPolicy /\ at'.rule = 0
  BY <1>1, MasqAssumption DEF Mid, Nowhere, Element
<1>3. ChainSeen' = NoPolicy /\ RuleSeen' = 0
  BY <1>2 DEF ChainSeen, RuleSeen
<1>4. CallsSeen' = <<>>
  <2>1. Len(stack)' - base' - 0 = 0
    BY <1>1
  <2>2. CallsSeen' = CallsIn(stack', base', Len(stack)' - base' - 0)
    BY <1>2 DEF CallsSeen, CallsIn
  <2> QED BY <2>1, <2>2, NoCalls
<1>5. Iptables!Lose
  BY <1>1, <1>3, <1>4, MasqApplies, SameTables DEF Iptables!Lose, Iptables!At
<1> QED BY <1>1, <1>5 DEF Steps, Iptables!WalkNext, Earned

\* Behind masq the walk has left the rule already; from a chain it is the walk's return.
LEMMA BacktrackerSteps ==
    ASSUME IInv, Earned, Backtracker
    PROVE  Steps /\ Earned'
<1>1. /\ packet # NoPacket /\ at.part = "bt"
      /\ at' = Element(Top.chain, Top.rule) /\ pass' = Top.pass
      /\ stack' = SubSeq(stack, 1, Len(stack) - 1)
      /\ UNCHANGED <<ruleset, route, packet, verdict, base>>
  BY DEF Backtracker, kept, Top
<1>2. base < Len(stack) /\ base \in Nat /\ stack \in Seq(Frame)
  BY <1>1, Backtracks DEF IInv, TypeOK
<1>3. Top.pass = pass /\ Top.chain \in DOMAIN TableHere /\ RuleTable(TableHere)
  <2> DEFINE tb    == TableHere
             entry == route[pass].chain
  <2>1. Nested(tb, pass, entry, stack, base, at.chain)
    BY <1>1 DEF IInv, CallsNested
  <2>2. RuleTable(tb)
    BY <1>1, HereType DEF IInv
  <2> HIDE DEF tb, entry
  <2>3. stack[Len(stack)].pass = pass /\ stack[Len(stack)].chain \in DOMAIN tb
    BY <1>2, <2>1, NestedPop
  <2> QED BY <2>2, <2>3 DEF tb, Top
<1>4. at'.chain = Top.chain /\ at'.rule = Top.rule /\ at'.part = "rule"
  BY <1>1 DEF Element
<1>5. ~Mid'
  BY <1>3, <1>4 DEF Mid, RuleTable
<1>6. ChainSeen' = Top.chain /\ RuleSeen' = Top.rule
  BY <1>4, <1>5 DEF ChainSeen, RuleSeen
<1> DEFINE n     == Len(stack) - base
           calls == CallsIn(stack, base, n)
<1>7. /\ CallsIn(stack', base, n - 1) = CallsIn(stack, base, n - 1)
      /\ calls # <<>> /\ Len(calls) = n /\ calls[n] = CallOf(Top)
      /\ SubSeq(calls, 1, n - 1) = CallsIn(stack, base, n - 1)
  BY <1>1, <1>2, CallsPop DEF Top
<1>8. CallsSeen' = CallsIn(stack, base, n - 1)
  <2>1. CallsSeen' = CallsIn(stack', base', Len(stack') - base' - 0)
    BY <1>5 DEF CallsSeen, CallsIn
  <2>2. Len(SubSeq(stack, 1, Len(stack) - 1)) = Len(stack) - 1
    <3>1. Len(stack) - 1 \in Int /\ Len(stack) - 1 >= 0
      BY <1>2
    <3>2. \A s \in Seq(Frame) : \A m \in Int : m >= 0 /\ m <= Len(s) => Len(SubSeq(s, 1, m)) = m
      OBVIOUS
    <3>3. Len(stack) - 1 <= Len(stack)
      BY <1>2
    <3> QED BY <1>2, <3>1, <3>2, <3>3
  <2>3. Len(stack') - base' - 0 = n - 1
    BY <1>1, <1>2, <2>2
  <2> QED BY <1>1, <1>7, <2>1, <2>3
<1>9. Earned'
  BY <1>4, <1>5 DEF Earned, EarnedInChain
<1>10. CASE Mid
  <2>1. UNCHANGED Iptables!walk
    BY <1>1, <1>3, <1>6, <1>8, <1>10, SeenAtMasq DEF Iptables!walk
  <2> QED BY <1>9, <2>1 DEF Steps
<1>11. CASE ~Mid
  <2>1. n - 0 = n
    BY <1>2
  <2>2. CallsSeen = calls
    BY <1>11, <2>1, SeenInChain
  <2>3. \/ at.rule = Len(ChainHere.rules) + 1
        \/ Met(at.chain, at.rule) /\ RuleHere.target = "RETURN"
    BY <1>1, <1>11 DEF Earned, EarnedInChain
  <2>4. \/ RuleSeen = Len(Iptables!Here.rules) + 1
        \/ Iptables!Applies /\ Iptables!This.target = "RETURN"
    BY <1>1, <1>11, <2>3, HereSeen, SeenInChain
  <2>5. /\ CallsSeen # <<>>
        /\ Iptables!At(CallsSeen[Len(CallsSeen)].chain, CallsSeen[Len(CallsSeen)].rule,
                       SubSeq(CallsSeen, 1, Len(CallsSeen) - 1))
    <3> HIDE DEF n, calls
    <3>1. CallsSeen[Len(CallsSeen)].chain = Top.chain /\ CallsSeen[Len(CallsSeen)].rule = Top.rule
      BY <1>7, <2>2 DEF CallOf
    <3>2. CallsSeen # <<>> /\ SubSeq(CallsSeen, 1, Len(CallsSeen) - 1) = CallsSeen'
      BY <1>7, <1>8, <2>2
    <3> QED BY <1>6, <3>1, <3>2 DEF Iptables!At
  <2>6. Iptables!Return
    BY <1>1, <1>3, <2>4, <2>5 DEF Iptables!Return
  <2> QED BY <1>9, <2>6 DEF Steps, Iptables!WalkNext
<1> QED BY <1>10, <1>11

-----------------------------------------------------------------------------
(* The refinement.                                                         *)

LEMMA ReceiveSteps ==
    ASSUME IInv, NEW p \in Packet, NEW rt \in Routes(p.state), Receive(p, rt)
    PROVE  Steps /\ Earned'
<1>1. /\ packet = NoPacket /\ packet' = p /\ route' = rt /\ pass' = 1
      /\ at' = Element(rt[1].chain, 1) /\ stack' = <<>> /\ base' = 0
      /\ UNCHANGED <<ruleset, verdict>>
  BY DEF Receive
<1>2. rt[1].chain \in BuiltIn
  <2>1. p.state \in State
    BY DEF Packet
  <2>2. rt \in Seq(EntryVisit) /\ Len(rt) >= 1
    BY <2>1, RouteType
  <2>3. rt[1] \in EntryVisit
    BY <2>2
  <2> QED BY <2>3 DEF EntryVisit
<1>3. at'.chain = rt[1].chain /\ at'.rule = 1 /\ at'.part = "rule"
  BY <1>1 DEF Element
<1>4. ~Mid'
  BY <1>2, <1>3, MasqAssumption DEF Mid
<1>5. ChainSeen' = rt[1].chain /\ RuleSeen' = 1
  BY <1>3, <1>4 DEF ChainSeen, RuleSeen
<1>6. CallsSeen' = <<>>
  <2>1. Len(stack)' - base' - 0 = 0
    BY <1>1
  <2>2. CallsSeen' = CallsIn(stack', base', Len(stack)' - base' - 0)
    BY <1>4 DEF CallsSeen, CallsIn
  <2> QED BY <2>1, <2>2, NoCalls
<1>7. Iptables!Start(p, rt)
  BY <1>1, <1>5, <1>6 DEF Iptables!Start, Iptables!At
<1>8. p \in Iptables!Packet /\ rt \in Iptables!Routes(p.state)
  BY SameTables
<1>9. Earned'
  BY <1>3, <1>4 DEF Earned, EarnedInChain
<1> QED BY <1>7, <1>8, <1>9 DEF Steps, Iptables!WalkNext

LEMMA PushSteps ==
    ASSUME AllRegular, AllTested, IInv, Earned, Push
    PROVE  Steps /\ Earned'
<1>1. ASSUME packet # NoPacket
      PROVE  EntryRegular(TableHere)
  <2>1. ruleset \in DOMAIN RuleSets /\ route[pass].table \in Table
    BY <1>1, HereType DEF IInv, TypeOK
  <2> QED BY <2>1 DEF AllRegular, TableHere
<1>2. CASE TargetReturn
  <2>1. /\ packet # NoPacket /\ ~Mid /\ at.part = "target" /\ RuleHere.target = "RETURN"
        /\ Goto("bt") /\ UNCHANGED <<ruleset, route, pass, packet, stack, verdict, base>>
    BY <1>2 DEF TargetReturn, AtTarget, In, OnlyMoves, kept, Mid
  <2> QED BY <2>1, ToBacktracker
<1>3. CASE EndOfChain
  BY <1>1, <1>3, EndSteps DEF EndOfChain, In
<1> QED BY <1>2, <1>3, ClassifierSteps, CounterSteps, FinalSteps, NatSteps, ChainSteps,
           PaintMasqSteps, MasqueradeSteps, LoseSteps, BacktrackerSteps DEF Push

LEMMA NextSteps ==
    ASSUME AllRegular, AllTested, IInv, Earned, [Next]_vars
    PROVE  Steps /\ Earned'
<1>1. CASE ReadUnused \/ UNCHANGED vars
  <2>1. UNCHANGED <<ruleset, route, pass, packet, at, stack, verdict, base>>
    BY <1>1 DEF ReadUnused, vars
  <2>2. UNCHANGED <<Mid, Top>>
    BY <2>1 DEF Mid, Top
  <2>3. UNCHANGED Iptables!walk
    BY <2>1, <2>2 DEF Iptables!walk, ChainSeen, RuleSeen, CallsSeen
  <2>4. UNCHANGED <<TableHere, ChainHere, RuleHere>>
    BY <2>1 DEF TableHere, ChainHere, RuleHere
  <2>5. Earned'
    BY <2>1, <2>2, <2>4, MetStays DEF Earned, EarnedInChain, EarnedAtMasq
  <2> QED BY <2>3, <2>5 DEF Steps
<1> QED BY <1>1, PushSteps, ReceiveSteps DEF Next, Stopped

LEMMA InitSteps == Init => Iptables!WalkInit /\ Earned
<1> SUFFICES ASSUME Init
             PROVE  Iptables!WalkInit /\ Earned
  OBVIOUS
<1>1. ~Mid /\ at.chain = NoPolicy /\ at.rule = 0
  BY MasqAssumption DEF Init, Mid, Nowhere, Element
<1>2. CallsSeen = <<>>
  <2>1. Len(stack) - base - 0 = 0
    BY DEF Init
  <2> QED BY <1>1, <2>1, NoCalls, SeenInChain
<1>3. Iptables!WalkInit
  BY <1>1, <1>2, SeenInChain, SameTables DEF Init, Iptables!WalkInit
<1> QED BY <1>3 DEF Init, Earned

\* Whatever the ruleset and the traffic, the way of a packet through the elements printed for
\* a table is the way iptables takes it through the chains.
THEOREM ImplementsIptables == AllRegular /\ AllTested => (Spec => WalksIptables)
<1> SUFFICES ASSUME AllRegular, AllTested
             PROVE  Spec => WalksIptables
  OBVIOUS
<1>1. Init => IInv /\ Earned /\ Iptables!WalkInit
  BY IInvInit, InitSteps
<1>2. IInv /\ Earned /\ [Next]_vars => IInv' /\ Earned' /\ [Iptables!WalkNext]_(Iptables!walk)
  BY IInvNext, NextSteps DEF Steps
<1> QED BY <1>1, <1>2, PTL DEF Spec, WalksIptables, Iptables!WalkSpec

=============================================================================
