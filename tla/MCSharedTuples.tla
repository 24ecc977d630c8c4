--------------------------- MODULE MCSharedTuples ---------------------------
(* TrafficTypes for TLC where connections share tuples: two clients behind *)
(* one address.                                                            *)
EXTENDS TrafficTypes

CONSTANTS c1, c2, f, s, MaxEntries

Between(src, dst) == {h \in Header : h.addr.srcIP \in src /\ h.addr.dstIP \in dst}
MCTraffic == Between({c1, c2}, {s}) \cup Between({s}, {f})

Masquerade == [match |-> Between({c1, c2}, {s}), ip |-> f, port |-> NoPort]
MCNatRules == <<[OUTPUT |-> <<>>, PREROUTING |-> <<>>, POSTROUTING |-> <<Masquerade>>]>>
MCLocalIP == {f}

\* The server only answers, and no table drops a packet: every entry is one of a client whose
\* packet has left.
Bounded ==
    /\ Len(stateEntryList) <= MaxEntries
    /\ \A i \in DOMAIN stateEntryList : stateEntryList[i].addr.srcIP \in {c1, c2}
AllPass == where' = "idle" => where \in {"idle", "input", "accept"}
=============================================================================
