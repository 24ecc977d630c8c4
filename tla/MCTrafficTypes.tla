--------------------------- MODULE MCTrafficTypes ---------------------------
(* TrafficTypes for TLC: a client c, a firewall with the address f and a   *)
(* server s behind it, under a few nat tables.                             *)
EXTENDS TrafficTypes

CONSTANTS c, f, s, MaxEntries

Tcp(P(_)) == {h \in Header : h.protocol = "TCP" /\ P(h.addr)}
Any(P(_)) == {h \in Header : P(h.addr)}

\* What the clients reach as f is served by s.
DnatAll == [match |-> Any(LAMBDA a : a.dstIP = f), ip |-> s, port |-> NoPort]
DnatPort == [match |-> Tcp(LAMBDA a : a.dstIP = f /\ a.dstPort = 1), ip |-> s, port |-> 2]
\* The clients appear as f.
SnatAll == [match |-> Any(LAMBDA a : a.srcIP = c), ip |-> f, port |-> NoPort]
SnatPort == [match |-> Tcp(LAMBDA a : a.srcIP = c), ip |-> f, port |-> 2]

Nat0(o, pre, post) == [OUTPUT |-> o, PREROUTING |-> pre, POSTROUTING |-> post]

MCNatRules == <<
    Nat0(<<>>, <<>>, <<>>),
    Nat0(<<>>, <<DnatAll>>, <<>>),
    Nat0(<<>>, <<DnatPort, DnatAll>>, <<SnatPort, SnatAll>>),
    Nat0(<<DnatAll>>, <<>>, <<SnatAll>>) >>

MCLocalIP == {f}

\* Port 2 is where the server and the address translation listen; a packet between the
\* firewall's own addresses changes port.  Replies and errors come from the queried side.
MCTraffic ==
    {h \in Header : LET a == h.addr IN
        /\ a.srcIP # a.dstIP \/ a.srcPort # a.dstPort
        /\ a.srcPort = 2 => a.srcIP = s /\ a.dstPort <= IF a.dstIP = f THEN 2 ELSE 1
        /\ a.dstPort = 2 => <<a.srcIP, a.dstIP>> \in {<<c, s>>, <<s, f>>, <<f, f>>}
        /\ h.protocol = "ICMP" => IF h.type = 8 THEN <<a.srcIP, a.dstIP>> # <<f, c>>
                                   ELSE a.srcIP # c /\ <<a.srcIP, a.dstIP>> # <<f, s>>}

\* What the theorems about translation assume holds of these tables.
ASSUME EffectiveRulesAssumption == EffectiveRules

\* The bound on the entry list; with nat rules, a clash ends what the
\* properties are about.
Bounded == Len(stateEntryList) <= MaxEntries
NoClash == clash => NatFree
=============================================================================
