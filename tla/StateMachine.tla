---------------------------- MODULE StateMachine ----------------------------
(***************************************************************************)
(* The connection tracking of the simulated firewall: the StateMachine and *)
(* StaticNat elements of Click (elements/local/statemachine.cc and         *)
(* staticnat.cc) around the entry list that all their instances share.     *)
(*                                                                         *)
(* The module leaves the order of the calls open: after StateMachine.push  *)
(* has classified a packet, any sequence of StaticNat elements may handle  *)
(* it before it leaves.  Module TrafficTypes fixes the order the generated *)
(* click script imposes.                                                   *)
(***************************************************************************)
EXTENDS Naturals, Sequences, FiniteSetsExt

CONSTANTS
    IP,         \* the IP addresses packets carry
    NoIP,       \* in_addr with s_addr = 0: a StaticNat without an address
    Port,       \* the TCP and UDP ports packets carry
    Protocol,   \* the IP protocols packets carry; "OTHER" is any unsupported one
    IcmpType,   \* the ICMP types packets carry
    NoPacket    \* no packet is in the element graph

NoPort == 0

ICMP_ECHOREPLY == 0
QueryTypes == {8, 13, 15, 17}      \* ICMP_ECHO, ICMP_TSTAMP, ICMP_IREQ, ICMP_MASKREQ
ReplyTypes == {0, 14, 16, 18}      \* ICMP_ECHOREPLY, ICMP_TSTAMPREPLY, ...

ASSUME IPAssumption == NoIP \notin IP
ASSUME PortAssumption == Port \subseteq Nat \ {NoPort}
ASSUME ProtocolAssumption == Protocol \subseteq {"ICMP", "TCP", "UDP", "OTHER"}
ASSUME IcmpTypeAssumption == IcmpType \subseteq Nat

-----------------------------------------------------------------------------
(* Packets.  Only the fields the two elements read are kept.               *)

State == {"NEW", "ESTABLISHED", "RELATED", "INVALID"}

addrEntry == [srcIP : IP, dstIP : IP,
              srcPort : Port \cup {NoPort}, dstPort : Port \cup {NoPort}]

IsTransport(h) == h.protocol \in {"TCP", "UDP"}
HasPorts(a)    == a.srcPort # NoPort /\ a.dstPort # NoPort
NoPorts(a)     == a.srcPort = NoPort /\ a.dstPort = NoPort

\* TCP and UDP packets have ports and no ICMP type, the others have no ports.
Header ==
    {h \in [protocol : Protocol, addr : addrEntry, type : IcmpType \cup {0}] :
        /\ IF IsTransport(h) THEN HasPorts(h.addr) ELSE NoPorts(h.addr)
        /\ IF h.protocol = "ICMP" THEN h.type \in IcmpType ELSE h.type = 0}

ASSUME NoPacketAssumption == NoPacket \notin Header

\* The packet that answers a packet with tuple a.
Mirror(a) == [srcIP |-> a.dstIP, dstIP |-> a.srcIP,
              srcPort |-> a.dstPort, dstPort |-> a.srcPort]

SameIPs(a, b) == a.srcIP = b.srcIP /\ a.dstIP = b.dstIP

-----------------------------------------------------------------------------
VARIABLES
    stateEntryList,  \* the static _stateEntryList
    packet,          \* the packet being pushed through the graph, or NoPacket
    state            \* its annotation 17

smVars == <<stateEntryList, packet, state>>

StateEntry ==
    {e \in [protocol : Protocol, addr : addrEntry, replyAddr : addrEntry,
            type : IcmpType \cup {0}, gotReply : BOOLEAN] :
        IF IsTransport(e) THEN HasPorts(e.addr) /\ HasPorts(e.replyAddr)
        ELSE NoPorts(e.addr)}

\* Mutant: the reply's ports are those of the packet, not swapped.
NewEntryUnswapped(h) == [protocol |-> h.protocol, addr |-> h.addr,
                         replyAddr |-> [Mirror(h.addr) EXCEPT !.srcPort = h.addr.srcPort,
                                                              !.dstPort = h.addr.dstPort],
                         type |-> h.type, gotReply |-> FALSE]

NewEntry(h) == [protocol |-> h.protocol, addr |-> h.addr,
                replyAddr |-> Mirror(h.addr), type |-> h.type, gotReply |-> FALSE]

\* A loop over the list that breaks at its first hit acts on the least of these indices.
\* Entries that packet h opened, and entries it answers.
\* Mutant: the originator is looked for by its translated tuple.
OpenedTranslated(h) == {i \in DOMAIN stateEntryList :
                          /\ stateEntryList[i].protocol = h.protocol
                          /\ stateEntryList[i].replyAddr = Mirror(h.addr)}

Opened(h)   == {i \in DOMAIN stateEntryList :
                  /\ stateEntryList[i].protocol = h.protocol
                  /\ stateEntryList[i].addr = h.addr}
Answered(h) == {i \in DOMAIN stateEntryList :
                  /\ stateEntryList[i].protocol = h.protocol
                  /\ stateEntryList[i].replyAddr = h.addr}
\* The same for ICMP, which compares addresses and types only.
OpenedQuery(h)   == {i \in DOMAIN stateEntryList :
                       /\ stateEntryList[i].protocol = h.protocol
                       /\ SameIPs(stateEntryList[i].addr, h.addr)
                       /\ stateEntryList[i].type = h.type}
AnsweredQuery(h) == {i \in DOMAIN stateEntryList :
                       /\ stateEntryList[i].protocol = h.protocol
                       /\ SameIPs(stateEntryList[i].replyAddr, h.addr)
                       /\ stateEntryList[i].type =
                            IF h.type = ICMP_ECHOREPLY THEN 8 ELSE h.type - 1}
\* Entries of another protocol between the same hosts, in either direction.
\* Mutant: only errors from the originator's side are found.
ConcernedOneWay(h) == {i \in DOMAIN stateEntryList :
                         /\ stateEntryList[i].protocol # h.protocol
                         /\ SameIPs(stateEntryList[i].addr, h.addr)}

Concerned(h) == {i \in DOMAIN stateEntryList :
                   /\ stateEntryList[i].protocol # h.protocol
                   /\ \/ SameIPs(stateEntryList[i].addr, h.addr)
                      \/ SameIPs(stateEntryList[i].replyAddr, h.addr)}

-----------------------------------------------------------------------------
(* StateMachine.push                                                       *)

Classified(h, s) == packet' = h /\ state' = s

PushUnsupported(h) ==
    /\ h.protocol = "OTHER"
    /\ UNCHANGED smVars                                \* p->kill()

\* Mutant: the list has room for one connection.
RememberOne(h) == <<NewEntry(h)>>
Remember(h) == Append(stateEntryList, NewEntry(h))

PushTransport(h) ==
    /\ IsTransport(h)
    /\ LET hits == Opened(h) \cup Answered(h)
           first == Min(hits)
       IN \/ /\ hits = {}
             /\ stateEntryList' = Remember(h)
             /\ Classified(h, "NEW")
          \/ /\ hits # {}
             /\ first \in Opened(h)
             /\ Classified(h, IF stateEntryList[first].gotReply
                              THEN "ESTABLISHED" ELSE "NEW")
             /\ UNCHANGED stateEntryList
          \/ /\ hits # {}
             /\ first \notin Opened(h)
             /\ stateEntryList' = [stateEntryList EXCEPT ![first].gotReply = TRUE]
             /\ Classified(h, "ESTABLISHED")

PushIcmpQuery(h) ==
    /\ h.protocol = "ICMP" /\ h.type \in QueryTypes
    /\ stateEntryList' = IF OpenedQuery(h) = {}
                         THEN Remember(h)
                         ELSE stateEntryList
    /\ Classified(h, "NEW")

PushIcmpReply(h) ==
    /\ h.protocol = "ICMP" /\ h.type \in ReplyTypes
    /\ Classified(h, IF AnsweredQuery(h) # {} THEN "ESTABLISHED" ELSE "INVALID")
    /\ UNCHANGED stateEntryList

PushIcmpError(h) ==
    /\ h.protocol = "ICMP" /\ h.type \notin QueryTypes \cup ReplyTypes
    /\ Classified(h, IF Concerned(h) # {} THEN "RELATED" ELSE "INVALID")
    /\ UNCHANGED stateEntryList

Push(h) ==
    /\ packet = NoPacket
    /\ \/ PushUnsupported(h)
       \/ PushTransport(h)
       \/ PushIcmpQuery(h)
       \/ PushIcmpReply(h)
       \/ PushIcmpError(h)

-----------------------------------------------------------------------------
(***************************************************************************)
(* StateMachine.doNat, called by StaticNat.push.  A connection from client *)
(* to server carries three tuples on its way through the firewall: addr as *)
(* it arrives, AfterDnat once its destination is translated, and           *)
(* Mirror(replyAddr) once its source is.  A reply carries their mirrors in *)
(* the opposite order.  Each branch of doNat compares the header with the  *)
(* tuple before its stage and makes it the tuple after its stage.          *)
(***************************************************************************)
NatType == {"dst", "src"}

\* Mutant: the port of the other end of the reply.
AfterDnatPort(e) == [srcIP |-> e.addr.srcIP, dstIP |-> e.replyAddr.srcIP,
                     srcPort |-> e.addr.srcPort, dstPort |-> e.replyAddr.dstPort]
AfterDnat(e) == [srcIP |-> e.addr.srcIP, dstIP |-> e.replyAddr.srcIP,
                 srcPort |-> e.addr.srcPort, dstPort |-> e.replyAddr.srcPort]

\* Mutants: later packets, and replies, get the translation of the first stage only.
OriginatorUntranslated(t, e) == AfterDnat(e)
ReplyHalfway(t, e) == Mirror(AfterDnat(e))

OriginatorBefore(t, e) == IF t = "dst" THEN e.addr ELSE AfterDnat(e)
OriginatorAfter(t, e)  == IF t = "dst" THEN AfterDnat(e) ELSE Mirror(e.replyAddr)
ReplyBefore(t, e)      == IF t = "dst" THEN e.replyAddr ELSE Mirror(AfterDnat(e))
ReplyAfter(t, e)       == IF t = "dst" THEN Mirror(AfterDnat(e)) ELSE Mirror(e.addr)

\* A related reply takes the source address of addr, the originator's own.
RelatedReplyAfter(t, e) ==
    IF t = "dst" THEN ReplyAfter(t, e)
    ELSE [ReplyAfter(t, e) EXCEPT !.srcIP = e.addr.srcIP]

FromOriginator(t, h) ==
    {i \in DOMAIN stateEntryList :
        /\ stateEntryList[i].protocol = h.protocol
        /\ OriginatorBefore(t, stateEntryList[i]) = h.addr}
FromReplier(t, h) ==
    {i \in DOMAIN stateEntryList :
        /\ stateEntryList[i].protocol = h.protocol
        /\ ReplyBefore(t, stateEntryList[i]) = h.addr}
RelatedOriginator(t, h) ==
    {i \in DOMAIN stateEntryList :
        /\ h.protocol = "ICMP" /\ stateEntryList[i].protocol # "ICMP"
        /\ SameIPs(OriginatorBefore(t, stateEntryList[i]), h.addr)}
RelatedReplier(t, h) ==
    {i \in DOMAIN stateEntryList :
        /\ h.protocol = "ICMP" /\ stateEntryList[i].protocol # "ICMP"
        /\ SameIPs(ReplyBefore(t, stateEntryList[i]), h.addr)}

\* Header h readdressed as tuple a: an ICMP packet has no ports to rewrite.
Rewrite(h, a) ==
    IF IsTransport(h) THEN [h EXCEPT !.addr = a]
    ELSE [h EXCEPT !.addr.srcIP = a.srcIP, !.addr.dstIP = a.dstIP]

\* Mutant: an address or port that is not given is written too.
OverwriteAlways(old, new, none) == new
Overwrite(old, new, none) == IF new = none THEN old ELSE new

\* A NAT rule gives the mapping: it becomes the connection's replyAddr, and h follows.
MapTo(t, ip, port, a) ==
    IF t = "dst"
    THEN [a EXCEPT !.srcIP = Overwrite(@, ip, NoIP), !.srcPort = Overwrite(@, port, NoPort)]
    ELSE [a EXCEPT !.dstIP = Overwrite(@, ip, NoIP), !.dstPort = Overwrite(@, port, NoPort)]

\* Mutant: the packet is translated, the entry is not.
NewMappingForgotten(t, ip, port) ==
    /\ packet' = IF FromOriginator(t, packet) = {} THEN packet
                 ELSE Rewrite(packet, Mirror(MapTo(t, ip, port, Mirror(packet.addr))))
    /\ UNCHANGED stateEntryList

NewMapping(t, ip, port) ==
    LET hits  == FromOriginator(t, packet)
        first == Min(hits)
    IN \/ hits = {} /\ UNCHANGED <<stateEntryList, packet>>
       \/ /\ hits # {}
          /\ stateEntryList' = [stateEntryList EXCEPT
                 ![first].replyAddr = MapTo(t, ip, port, @)]
          /\ packet' = Rewrite(packet,
                 Mirror(MapTo(t, ip, port, Mirror(packet.addr))))

\* No address or port given: the mapping the entries hold is applied.
PresentMapping(t) ==
    LET hits  == UNION {FromOriginator(t, packet), FromReplier(t, packet),
                        RelatedOriginator(t, packet), RelatedReplier(t, packet)}
        first == Min(hits)
        e     == stateEntryList[first]
    IN /\ packet' = IF hits = {} THEN packet
                    ELSE IF first \in FromOriginator(t, packet)
                         THEN Rewrite(packet, OriginatorAfter(t, e))
                    ELSE IF first \in FromReplier(t, packet)
                         THEN Rewrite(packet, ReplyAfter(t, e))
                    ELSE IF first \in RelatedOriginator(t, packet)
                         THEN Rewrite(packet, OriginatorAfter(t, e))
                    ELSE Rewrite(packet, RelatedReplyAfter(t, e))
       /\ UNCHANGED stateEntryList

StaticNat(t, ip, port) ==
    /\ packet # NoPacket
    /\ IF ip # NoIP \/ port # NoPort THEN NewMapping(t, ip, port) ELSE PresentMapping(t)
    /\ UNCHANGED state

-----------------------------------------------------------------------------
\* The packet reaches the end of the graph, or a table drops it.
Leave ==
    /\ packet # NoPacket
    /\ packet' = NoPacket /\ state' = "INVALID"
    /\ UNCHANGED stateEntryList

SMInit ==
    /\ stateEntryList = <<>>
    /\ packet = NoPacket
    /\ state = "INVALID"

SMNext ==
    \/ \E h \in Header : Push(h)
    \/ \E t \in NatType, ip \in IP \cup {NoIP}, port \in Port \cup {NoPort} :
          StaticNat(t, ip, port)
    \/ Leave

SMSpec == SMInit /\ [][SMNext]_smVars

-----------------------------------------------------------------------------
(* Properties that hold however StaticNat elements are arranged.           *)

\* The entry list, the packet in flight and its annotation have their declared shapes; a TCP
\* or UDP packet keeps its ports through every translation.
SMTypeOK ==
    /\ stateEntryList \in Seq(StateEntry)
    /\ packet \in Header \cup {NoPacket}
    /\ state \in State

\* push adds an entry only when its search found none, so no two entries describe the
\* same connection, whatever NAT did to their replyAddr between the two packets.
EntriesDistinct ==
    \A i, j \in DOMAIN stateEntryList :
        /\ stateEntryList[i].protocol = stateEntryList[j].protocol
        /\ stateEntryList[i].addr = stateEntryList[j].addr
        /\ stateEntryList[i].type = stateEntryList[j].type
        => i = j

=============================================================================
