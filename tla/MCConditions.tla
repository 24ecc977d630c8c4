---------------------------- MODULE MCConditions ----------------------------
(* Rules of up to MaxPhrases phrases, an option with the -m that loads its *)
(* match, in every order iptables accepts, over packets that differ in     *)
(* what the options test.                                                  *)
EXTENDS Conditions

CONSTANTS MaxPhrases

MCPacket ==
    [proto : {"tcp", "udp"}, host : {"near", "all"}, port : 1..3,
     flags : {{"syn"}, {"ack"}, {"rst", "ack", "fin"}},
     link : {"eth0", "eth1"}, state : {"NEW", "ESTABLISHED"}]
MCWithFlag == [f \in {"syn", "rst", "ack", "fin"} |-> {p \in MCPacket : f \in p.flags}]
To(h) == {p \in MCPacket : p.host = h}
MCBroadcast == [o \in Type |-> IF o = "--dst-type" THEN <<To("all")>> ELSE <<>>]

Option(name, values, bang) == [name |-> name, values |-> values, bang |-> bang]
One(S) == <<<<<<S>>>>>>
Port(n) == <<{p \in MCPacket : p.port = n}>>
PortRange(a, b) == <<{p \in MCPacket : p.port >= a}, {p \in MCPacket : p.port <= b}>>
Loads(match) == Option("-m", <<match>>, "none")

Protocols == {Option("-p", One({p \in MCPacket : p.proto = "tcp"}), b) : b \in {"none", "before"}}
             \cup {Option("--protocol", One({p \in MCPacket : p.proto = "tcp"}), "none")}
\* Options iptables takes after -p tcp only.
OfTcp ==
    {<<Option("--dport", <<ports>>, b)>> :
        ports \in {<<Port(2)>>, <<PortRange(1, 2)>>}, b \in {"none", "before"}}
    \cup {<<Loads("multiport"), Option("--dports", <<ports>>, b)>> :
        ports \in {<<Port(1), Port(3)>>, <<PortRange(2, 3), Port(1)>>}, b \in {"none", "after"}}
    \cup {<<Option("--syn", <<>>, b)>> : b \in {"none", "before"}}
    \cup {<<Option("--tcp-flags", <<look, {"syn"}>>, b)>> :
        look \in {<<"syn", "ack">>, <<"rst">>}, b \in {"none", "before"}}
Others ==
    {<<Option("-d", One(To("near")), b)>> : b \in {"none", "before", "after"}}
    \cup {<<Option("-i", One({p \in MCPacket : p.link = "eth0"}), b)>> : b \in {"none", "after"}}
    \cup {<<Option("-o", <<Unlisted>>, b)>> : b \in {"none", "after"}}
    \cup {<<Loads("state"), Option("--state", One({p \in MCPacket : p.state = "NEW"}), b)>> :
        b \in {"none", "before"}}
    \cup {<<Loads("addrtype"), Option(o, <<t>>, b)>> :
        o \in Type, t \in {"BROADCAST", "LOCAL"}, b \in {"none", "before"}}
    \cup {<<Loads("ttl"), Option("--ttl-eq", One(MCPacket), b)>> : b \in {"none", "before"}}
    \cup {<<Loads("conntrack"), Option("--ctorigdst", <<"near">>, "none")>>,
          <<Loads("iprange"), Option("--src-range", <<"near">>, "none")>>}
Phrases == {<<o>> : o \in Protocols} \cup OfTcp \cup Others

Tested(phrase) == phrase[Len(phrase)].name
Tcp(phrase)    == Tested(phrase) \in {"-p", "--protocol"} /\ phrase[1].bang = "none"

\* An option once, and those of a protocol behind it.
Accepted(phrases) ==
    \A i \in DOMAIN phrases :
        /\ \A j \in 1..(i - 1) :
              /\ Tested(phrases[j]) # Tested(phrases[i])
              /\ {Tested(phrases[i]), Tested(phrases[j])} # {"-p", "--protocol"}
        /\ phrases[i] \in OfTcp => \E j \in 1..(i - 1) : Tcp(phrases[j])
        \* an ignorable condition leaves an empty pattern unless another is printed
        /\ Tested(phrases[i]) = "--ctorigdst" =>
              Len(phrases) = 1 \/ \E j \in DOMAIN phrases : Tested(phrases[j]) \in ByIPClassifier

MCRules == {FlattenSeq(phrases) :
    phrases \in {s \in UNION {[1..n -> Phrases] : n \in 0..MaxPhrases} : Accepted(s)}}

\* -p tcp -m multiport --dports 1,3 -d near, as in config/pats/shorewall.compiled:2256.
Multiport == {<<Option("-p", One({p \in MCPacket : p.proto = "tcp"}), "none"),
                Loads("multiport"), Option("--dports", <<<<Port(1), Port(3)>>>>, "none"),
                Option("-d", One(To("near")), "none")>>}
=============================================================================
