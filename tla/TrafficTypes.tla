---------------------------- MODULE TrafficTypes ----------------------------
(***************************************************************************)
(* The path of a packet through the generated click script                 *)
(* (clickgenerator/ClickGenerator.cpp): StateMachine classifies it, its    *)
(* source address decides between OutgoingTraffic and ArrivingTraffic, and *)
(* each of those leads it past the mangle, nat and filter tables.  Where   *)
(* the nat table is entered the annotation decides: a NEW packet walks the *)
(* nat rules, any other skips them and gets the mapping the entry list     *)
(* holds.  Click pushes one packet at a time to the end of the graph.      *)
(*                                                                         *)
(* What the mangle and filter tables decide is abstracted to Discard: any  *)
(* packet may be dropped or rejected between two steps.                    *)
(***************************************************************************)
EXTENDS StateMachine

CONSTANTS
    Traffic,    \* the packets the configuration sends, in any order and number
    LocalIP,    \* the addresses of the firewall's interfaces
    NatRules    \* NatRules[n]: the nat table of configuration n

\* DNAT and SNAT rules of the three chains of a nat table, in the order of the chain.
NatRule  == [match : SUBSET Header, ip : IP, port : Port \cup {NoPort}]
NatTable == [OUTPUT : Seq(NatRule), PREROUTING : Seq(NatRule), POSTROUTING : Seq(NatRule)]

ASSUME TrafficAssumption == Traffic \subseteq Header
ASSUME LocalIPAssumption == LocalIP \subseteq IP
ASSUME NatRulesAssumption == \A n \in DOMAIN NatRules : NatRules[n] \in NatTable

VARIABLES
    config,   \* the configuration that was parsed
    where,    \* the part of the script the packet is in
    rule,     \* the nat rule it is about to meet
    arrived,  \* history: the packet in flight, as it was sent
    witness,  \* history: one packet that was accepted, any one, as it came and as it left
    clash     \* history: two connections have shared a tuple

vars == <<stateEntryList, packet, state, config, where, rule, arrived, witness, clash>>

\* "output" and "outPostrouting" are the nat tables of OutputTraffic, "prerouting" that of
\* ArrivingTraffic, "postrouting" that of ForwardTraffic; "input" is InputTraffic and
\* "accept" the ACCEPT element.
Where == {"idle", "output", "outPostrouting", "prerouting", "postrouting", "input", "accept"}
InNat == where \in {"output", "outPostrouting", "prerouting", "postrouting"}

NatChain ==
    CASE where = "output"     -> NatRules[config].OUTPUT
      [] where = "prerouting" -> NatRules[config].PREROUTING
      [] OTHER                -> NatRules[config].POSTROUTING

\* The translation made here: OUTPUT and PREROUTING change the destination.
NatTypeHere == IF where \in {"output", "prerouting"} THEN "dst" ELSE "src"

-----------------------------------------------------------------------------
(* The tuples a connection's packets carry, for the histories.             *)

Path(e)   == {e.addr, AfterDnat(e), Mirror(e.replyAddr)}
Tuples(e) == Path(e) \cup {Mirror(a) : a \in Path(e)}
Hosts(e)  == {<<a.srcIP, a.dstIP>> : a \in Tuples(e)}

\* No packet can be taken for one of another connection or of the other direction.  ICMP
\* packets are looked up by address among the entries of every protocol.
Disjoint(list) ==
    /\ \A i, j \in DOMAIN list : i # j =>
         IF "ICMP" \in {list[i].protocol, list[j].protocol}
         THEN Hosts(list[i]) \cap Hosts(list[j]) = {}
         ELSE list[i].protocol = list[j].protocol
                => Tuples(list[i]) \cap Tuples(list[j]) = {}
    /\ \A i \in DOMAIN list : \A a, b \in Path(list[i]) : a # Mirror(b)

NoteClash == clash' = (clash \/ ~Disjoint(stateEntryList'))

-----------------------------------------------------------------------------
\* A packet from the firewall itself is OutgoingTraffic, any other ArrivingTraffic.
TrafficType(h) == IF h.addr.srcIP \in LocalIP THEN "output" ELSE "prerouting"

Receive(h) ==
    /\ where = "idle"
    /\ Push(h)
    /\ where' = IF h.protocol = "OTHER" THEN "idle" ELSE TrafficType(h)
    /\ arrived' = packet'
    /\ rule' = 1
    /\ NoteClash
    /\ UNCHANGED <<config, witness>>

\* newConnection[0]: the next rule of the nat chain; DNAT and SNAT do not end the chain.
MeetNatRule ==
    /\ InNat
    /\ state = "NEW" /\ rule <= Len(NatChain)
    /\ LET r == NatChain[rule]
       IN IF packet \in r.match THEN StaticNat(NatTypeHere, r.ip, r.port)
                                ELSE UNCHANGED smVars
    /\ rule' = rule + 1
    /\ NoteClash
    /\ UNCHANGED <<config, where, arrived, witness>>

\* The nat table is left, at the end of its chain or over the StaticNat beside it.
PassNat(from) ==
    /\ where = from
    /\ \/ state = "NEW" /\ rule > Len(NatChain) /\ UNCHANGED smVars
       \/ state # "NEW" /\ StaticNat(NatTypeHere, NoIP, NoPort)
    /\ rule' = 1
    /\ UNCHANGED <<config, arrived, witness, clash>>

ToLocal == packet'.addr.dstIP \in LocalIP

\* OutputTraffic: nat OUTPUT, filter OUTPUT, mangle POSTROUTING.
PassOutput == PassNat("output") /\ where' = "outPostrouting"

\* local_or_out: what the firewall sends to itself arrives again.
PassOutPostrouting ==
    PassNat("outPostrouting") /\ where' = IF ToLocal THEN "prerouting" ELSE "accept"

\* in_or_fwd, by the translated destination.
PassPrerouting ==
    PassNat("prerouting") /\ where' = IF ToLocal THEN "input" ELSE "postrouting"

\* ForwardTraffic ends at nat POSTROUTING.
PassPostrouting == PassNat("postrouting") /\ where' = "accept"

\* The packet reaches ACCEPT, from InputTraffic or past a POSTROUTING chain.
Accept ==
    /\ where \in {"input", "accept"}
    /\ Leave
    /\ where' = "idle"
    /\ \/ UNCHANGED witness
       \/ witness = NoPacket /\ witness' = [in |-> arrived, out |-> packet, state |-> state]
    /\ arrived' = NoPacket
    /\ UNCHANGED <<config, rule, clash>>

\* A mangle, nat or filter table sends the packet to REJECT or DROP.
Discard ==
    /\ where \notin {"idle", "accept"}
    /\ Leave
    /\ where' = "idle" /\ rule' = 1 /\ arrived' = NoPacket
    /\ UNCHANGED <<config, witness, clash>>

Init ==
    /\ SMInit
    /\ config \in DOMAIN NatRules
    /\ where = "idle" /\ rule = 1
    /\ arrived = NoPacket /\ witness = NoPacket /\ clash = FALSE

Next ==
    \/ \E h \in Traffic : Receive(h)
    \/ MeetNatRule
    \/ PassOutput \/ PassOutPostrouting \/ PassPrerouting \/ PassPostrouting
    \/ Accept
    \/ Discard

Spec == Init /\ [][Next]_vars

-----------------------------------------------------------------------------
(* What the theorems about translation ask of the nat tables; the model    *)
(* has no need of it.                                                      *)

\* What nat rule r makes of tuple a in a translation of the t part.
To(t, r, a) ==
    IF t = "dst" THEN [a EXCEPT !.dstIP = r.ip, !.dstPort = Overwrite(@, r.port, NoPort)]
                 ELSE [a EXCEPT !.srcIP = r.ip, !.srcPort = Overwrite(@, r.port, NoPort)]

\* A rule changes every packet it matches, and gives ports for TCP and UDP only.
Effective(t, chain) ==
    \A i \in DOMAIN chain : \A h \in chain[i].match :
        To(t, chain[i], h.addr) # h.addr /\ (chain[i].port # NoPort => IsTransport(h))
EffectiveRules ==
    \A n \in DOMAIN NatRules :
        /\ Effective("dst", NatRules[n].OUTPUT)
        /\ Effective("dst", NatRules[n].PREROUTING)
        /\ Effective("src", NatRules[n].POSTROUTING)

-----------------------------------------------------------------------------
(* Properties.  Unless they say otherwise they are about runs in which no  *)
(* two connections share a tuple: the entry list cannot keep such apart.   *)

\* Histories and script position have their declared shapes.
TypeOK ==
    /\ SMTypeOK
    /\ config \in DOMAIN NatRules
    /\ where \in Where
    /\ rule \in Nat \ {0}
    /\ arrived \in Header \cup {NoPacket}
    /\ witness \in [in : Header, out : Header, state : State] \cup {NoPacket}
    /\ clash \in BOOLEAN

\* Header q answers header p.
Answers(q, p) ==
    /\ q.protocol = p.protocol
    /\ q.addr = Mirror(p.addr)
    /\ \/ IsTransport(p)
       \/ p.protocol = "ICMP" /\ p.type \in QueryTypes
          /\ q.type = IF p.type = 8 THEN ICMP_ECHOREPLY ELSE p.type + 1

\* What follows is about a packet in flight and one accepted earlier: any one, as witness is.
Compared == ~clash /\ arrived # NoPacket /\ witness # NoPacket
Leaving  == where \in {"accept", "input"}

\* The answer to a packet that was accepted, sent to the addresses that packet left with,
\* is ESTABLISHED: what NAT wrote into replyAddr is what comes back.
ReplyRecognised ==
    Compared /\ Answers(arrived, witness.out) => state = "ESTABLISHED"

\* Packets with one header leave with one header: the mapping the nat rules gave a NEW
\* packet is the one later packets get from the entry list.
TranslationStable ==
    Compared /\ Leaving /\ arrived = witness.in
        /\ (IsTransport(arrived) \/ arrived.type \in QueryTypes)
        => packet = witness.out

\* An answer is translated back to the addresses the connection was opened with; its
\* source only where it passes a POSTROUTING chain.
RoundTrip ==
    Compared /\ Leaving /\ Answers(arrived, witness.out) =>
        LET back == Mirror(witness.in.addr)
        IN /\ packet.addr.dstIP = back.dstIP /\ packet.addr.dstPort = back.dstPort
           /\ where = "accept" => packet.addr = back

\* A TCP or UDP packet that was ESTABLISHED once is not NEW again: no packet of another
\* connection takes the entry's answers away from it.
EstablishedStays ==
    /\ Compared
    /\ IsTransport(arrived) /\ arrived = witness.in /\ witness.state = "ESTABLISHED"
    => state = "ESTABLISHED"

\* The two hold with shared tuples as well, where the nat table is empty.
NatFree == \A ch \in {"OUTPUT", "PREROUTING", "POSTROUTING"} : NatRules[config][ch] = <<>>

\* Without nat rules every StaticNat a TCP or UDP packet meets, whatever entries it finds,
\* writes the addresses the packet already has.
Transparent ==
    NatFree /\ arrived # NoPacket /\ IsTransport(arrived) => packet = arrived

\* Without nat rules the search of push finds the connection of every TCP or UDP answer.
NatFreeReply ==
    /\ NatFree /\ arrived # NoPacket /\ witness # NoPacket
    /\ IsTransport(arrived) /\ Answers(arrived, witness.out) /\ arrived # witness.out
    => state = "ESTABLISHED"

\* Header q is an ICMP error about a packet with addresses a.
ErrorFor(q, a) ==
    /\ q.protocol = "ICMP" /\ q.type \notin QueryTypes \cup ReplyTypes
    /\ SameIPs(q.addr, a)

\* No second connection between the same hosts, whose errors look the same.
HostsDisjoint ==
    \A i, j \in DOMAIN stateEntryList :
        i # j => Hosts(stateEntryList[i]) \cap Hosts(stateEntryList[j]) = {}

Opener(h) == IsTransport(h) /\ Opened(h) # {}

\* Two different addresses of the firewall.
BetweenOwn(x, y) == x # y /\ {x, y} \subseteq LocalIP

\* An error is RELATED to the connection it is about and follows it: from the originator's
\* side it leaves with the connection's addresses, from the other it reaches the originator.
\* An error from one address of the firewall to another is translated twice, the second
\* time with the source RelatedReplyAfter gave it, and may be taken for another's.
RelatedFollows ==
    Compared /\ HostsDisjoint /\ Opener(witness.in) =>
        /\ ErrorFor(arrived, witness.in.addr) =>
             /\ state = "RELATED"
             /\ where = "accept" => SameIPs(packet.addr, witness.out.addr)
        /\ ErrorFor(arrived, Mirror(witness.out.addr)) =>
             /\ state = "RELATED"
             /\ Leaving /\ ~BetweenOwn(arrived.addr.srcIP, witness.in.addr.srcIP)
                  => packet.addr.dstIP = witness.in.addr.srcIP

\* "//related reply packet to connection originator": an error from the server's side comes
\* from the address the connection was opened to.
RelatedRoundTrip ==
    Compared /\ HostsDisjoint /\ Opener(witness.in) /\ where = "accept"
        /\ ErrorFor(arrived, Mirror(witness.out.addr))
        => SameIPs(packet.addr, Mirror(witness.in.addr))

\* "//reply packet to connection originator": whatever else is in the entry list, an answer
\* goes to the host whose packet it answers.
ReplyToOriginator ==
    arrived # NoPacket /\ witness # NoPacket /\ Answers(arrived, witness.out) /\ Leaving
        => packet.addr.dstIP = witness.in.addr.srcIP

=============================================================================
