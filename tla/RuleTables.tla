----------------------------- MODULE RuleTables -----------------------------
(***************************************************************************)
(* What the parsers make of an iptables ruleset (shorewall-parser/Table,   *)
(* Chain, Rule, filled by ChainParser and RuleParser), and the sequence of *)
(* chains in which the generated script shows them to a packet             *)
(* (ClickGenerator.printTrafficTypes).  A condition is abstracted to the   *)
(* set of packets that satisfy it.                                         *)
(***************************************************************************)
EXTENDS Naturals, Sequences

CONSTANTS
    Header,     \* packet headers
    Name,       \* names of chains
    RuleSets,   \* RuleSets[n][table][chain]: the chains of ruleset n
    MasqChain,  \* stands for the element masq, which is no chain
    NoPacket    \* no packet is in the element graph

State  == {"NEW", "ESTABLISHED", "RELATED", "INVALID"}
Packet == [header : Header, state : State]

Table   == {"mangle", "nat", "filter"}
BuiltIn == {"PREROUTING", "INPUT", "FORWARD", "OUTPUT", "POSTROUTING"}
Final   == {"ACCEPT", "REJECT", "DROP"}
Special == {"RETURN", "ULOG", "DNAT", "SNAT", "MASQUERADE"}

\* "low" is a LowLevelCondition, "ignorable" an IgnorableCondition, "ip" any other but a
\* StateCondition.
Condition == [kind : {"ip", "low", "state", "ignorable"}, holds : SUBSET Packet]
Rule      == [text : STRING, conditions : Seq(Condition), target : Name]
NoPolicy  == ""
Chain     == [policy : Final \cup {NoPolicy}, rules : Seq(Rule)]

\* Table.get asserts that the chain a rule jumps to exists.
RuleTable(tb) ==
    /\ \A c \in DOMAIN tb : tb[c] \in Chain
    /\ DOMAIN tb \cap (Final \cup Special \cup {MasqChain}) = {}
    /\ \A c \in DOMAIN tb : \A i \in DOMAIN tb[c].rules :
          tb[c].rules[i].target \in Final \cup Special \cup DOMAIN tb

ASSUME RuleSetsAssumption ==
    \A n \in DOMAIN RuleSets : \A t \in Table :
        /\ RuleTable(RuleSets[n][t])
        /\ (IF t = "mangle" THEN BuiltIn
            ELSE IF t = "nat" THEN {"PREROUTING", "OUTPUT", "POSTROUTING"}
            ELSE {"INPUT", "FORWARD", "OUTPUT"}) \subseteq DOMAIN RuleSets[n][t]
ASSUME NoPacketAssumption == NoPacket \notin Packet
ASSUME MasqAssumption == MasqChain \notin BuiltIn \cup Final \cup Special \cup {NoPolicy}
ASSUME NameAssumption == BuiltIn \cup Final \cup Special \cup {MasqChain, NoPolicy} \subseteq Name

-----------------------------------------------------------------------------
\* A rule of a packet's state alone, of its headers, of both or of neither.
Kinds(r) == {r.conditions[i].kind : i \in DOMAIN r.conditions}
Holds(r, kind, p) ==
    \A i \in DOMAIN r.conditions : r.conditions[i].kind = kind => p \in r.conditions[i].holds

\* Rule.ignore: logging, and rules whose every condition is of an unsupported kind.
Ignored(r) == r.target = "ULOG" \/ Kinds(r) = {"ignorable"}

-----------------------------------------------------------------------------
(* The chains a packet meets, in order.  Each visit is a table element of  *)
(* its own; only a NEW packet is shown to the nat table.                   *)

Visit(t, c) == <<[chain |-> c, table |-> t]>>
NatVisit(c, s) == IF s = "NEW" THEN Visit("nat", c) ELSE <<>>

ForwardTraffic(s) ==
    Visit("mangle", "FORWARD") \o Visit("filter", "FORWARD")
    \o Visit("mangle", "POSTROUTING") \o NatVisit("POSTROUTING", s)
InputTraffic == Visit("mangle", "INPUT") \o Visit("filter", "INPUT")
OutputTraffic(s) ==
    Visit("mangle", "OUTPUT") \o NatVisit("OUTPUT", s) \o Visit("filter", "OUTPUT")
    \o Visit("mangle", "POSTROUTING") \o NatVisit("POSTROUTING", s)

\* in_or_fwd and local_or_out choose by a destination the model leaves open.
ArrivingTraffic(s) ==
    {Visit("mangle", "PREROUTING") \o NatVisit("PREROUTING", s) \o rest :
        rest \in {InputTraffic, ForwardTraffic(s)}}
OutgoingTraffic(s) ==
    {OutputTraffic(s) \o rest : rest \in {<<>>} \cup ArrivingTraffic(s)}

Routes(s) == OutgoingTraffic(s) \cup ArrivingTraffic(s)

=============================================================================
