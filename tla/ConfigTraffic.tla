--------------------------- MODULE ConfigTraffic ---------------------------
(***************************************************************************)
(* How the traffic to simulate gets into the click script: NetworkParser   *)
(* collects the firewall's interfaces in a NetworkLayout, ConfigParser     *)
(* reads the traffic blocks one element at a time, checks each of them     *)
(* against the layout at its end, and prints all of them as packet sources *)
(* afterwards.  What a check refuses ends the program with a message       *)
(* ("exited"), a failed assertion with an abort ("aborted"), and an        *)
(* iterator that has left its vector with a crash ("crashed").  What one   *)
(* start leaves to the next is bogus.txt, in which Click counts the        *)
(* packets of a dump that do not fit the layout.                           *)
(***************************************************************************)
EXTENDS Integers, Sequences, SequencesExt

CONSTANTS
    Name,         \* interface names, as numbers: their order is that of std::map
    MAC,          \* MAC addresses, likewise
    IP,           \* IP addresses
    NoIP,         \* 0.0.0.0
    Interfaces,   \* the INTERFACE blocks that network_layout.xml may have
    Port, IcmpType, IcmpCode, NumPackets,   \* the numbers that config.xml may have
    Dumps,        \* the dump files it may name
    NoDump, NoFrame, NoBlock,
    MaxBlocks     \* bound on the traffic blocks of config.xml

NoName == 0   \* the empty string
NoMAC  == 0   \* 00:00:00:00:00:00

Protocol == {"ICMP", "TCP", "UDP"}
Policy   == {"ACCEPT", "REJECT", "DROP"}
Flag     == {"URG", "ACK", "PSH", "RST", "SYN", "FIN"}
Bit      == [f \in Flag |-> CASE f = "URG" -> 32 [] f = "ACK" -> 16 [] f = "PSH" -> 8
                              [] f = "RST" -> 4  [] f = "SYN" -> 2  [] f = "FIN" -> 1]

NetworkContent == [mac_address : MAC \cup {NoMAC}, ip_address : IP \cup {NoIP}]
Frame          == [dst : MAC \cup {NoMAC}, src : MAC \cup {NoMAC}]
\* A packet of a dump file may come without a frame.
DumpPacket     == [src : IP, dst : IP, frame : Frame \cup {NoFrame}]
Dump           == [ascii : BOOLEAN, packets : SUBSET DumpPacket]

ASSUME NameAssumption == Name \subseteq Nat \ {NoName}
ASSUME MACAssumption == MAC \subseteq Nat \ {NoMAC}
ASSUME IPAssumption == NoIP \notin IP
ASSUME InterfacesAssumption ==
    Interfaces \subseteq [name : Name, content : NetworkContent]
ASSUME NumberAssumption == Port \cup IcmpType \cup IcmpCode \cup NumPackets \subseteq Int
ASSUME DumpsAssumption == Dumps \subseteq Dump /\ NoDump \notin Dump /\ NoFrame \notin Frame
ASSUME MaxBlocksAssumption == MaxBlocks \in Nat

\* 16 bit members, and the conversions of an int to one.
UShorts   == 0 .. 65535
Shorts    == -32768 .. 32767
UShort(n) == n % 65536
Short(n)  == ((n + 32768) % 65536) - 32768

\* new ConfigContent() leaves zeros where parse sets no default: no protocol, and ACCEPT.
NoProtocol == "0"
ConfigContent ==
    [sourceIP : IP \cup {NoIP}, sourcePort : UShorts,
     destIP : IP \cup {NoIP}, destPort : UShorts,
     protocol : Protocol \cup {NoProtocol}, tcp_flags : Seq(Flag),
     icmp_type : Shorts, icmp_code : Shorts,
     numPackets : Int, policy : Policy,
     inInterface : Name \cup {NoName}, outInterface : Name \cup {NoName},
     dump : Dumps \cup {NoDump}]
NewContent ==
    [sourceIP |-> NoIP, sourcePort |-> 0, destIP |-> NoIP, destPort |-> 0,
     protocol |-> NoProtocol, tcp_flags |-> <<"SYN">>, icmp_type |-> 0, icmp_code |-> -1,
     numPackets |-> 1, policy |-> "ACCEPT", inInterface |-> NoName, outInterface |-> NoName,
     dump |-> NoDump]

ASSUME NoBlockAssumption == NoBlock \notin ConfigContent

-----------------------------------------------------------------------------
VARIABLES
    phase,     \* "network", "config", "check" (checkDump, when Click has ended) and
               \* "print", or how it ended
    layout,    \* NetworkLayout.contents
    content,   \* the traffic block being read, or NoBlock
    asked,     \* history: the flags the TCP_FLAGS elements of each block ask for, and
               \* whether one was asked for that was in the vector already
    contents,  \* ConfigParser.contents
    traffic,   \* the packet sources printed so far
    bogus,     \* the first line of bogus.txt: "zero", "some", or "none" without the file
    by,        \* history: the start whose Click wrote it, "this" one or an "earlier" one
    borrowed,  \* history: the blocks whose dump passed on an earlier start's count
    lent,      \* history: how many there were, over all starts
    unremoved  \* history: starts that ended with a 0 of their own in bogus.txt

verdicts == <<bogus, by, borrowed, lent, unremoved>>
vars == <<phase, layout, content, asked, contents, traffic, verdicts>>

End(how)  == phase' = how /\ UNCHANGED <<layout, content, asked, contents, traffic, verdicts>>

-----------------------------------------------------------------------------
(* NetworkLayout.                                                          *)

hasInterface(n) == n \in DOMAIN layout

\* A map from MAC to IP address: of two interfaces with one MAC address the last one stays.
LastOfEach(m) == CHOOSE n \in DOMAIN layout :
                    /\ layout[n].mac_address = m
                    /\ \A k \in DOMAIN layout : layout[k].mac_address = m => k <= n
MACs == {layout[n].mac_address : n \in DOMAIN layout}
getMacIPMappings == [m \in MACs |-> layout[LastOfEach(m)].ip_address]

MacsOf(ip) == {m \in MACs : getMacIPMappings[m] = ip}
find(ip)   == MacsOf(ip) # {}
isInternal(src, dst) == find(src) /\ find(dst)
isOutput(src)        == find(src)
isInput(dst)         == find(dst)

\* The classifiers of the script list the addresses of all interfaces.
Local(ip) == \E n \in DOMAIN layout : layout[n].ip_address = ip

\* printMasqueradeSwitch: the classifier masq has an output for each MAC address with an IP
\* address, in the order of the map, and a second loop numbers the StaticNats behind them.
\* The classifier reads offset 0 of the frame, and kills what has no output.  (Where the last
\* address of the map is 0.0.0.0 the first loop leaves a comma behind the last pattern; what
\* Click makes of that is not modelled.)
Masqueraders == {m \in MACs : getMacIPMappings[m] # NoIP}
OutputOf(m)  == Cardinality({k \in Masqueraders : k < m})
\* Mutant: interfaces without an address are counted too.
NumberOfAll(m) == Cardinality({k \in MACs : k < m})
NumberOf(m)  == Cardinality({k \in Masqueraders : k < m})
Masquerade(frame) ==
    {getMacIPMappings[m] : m \in {n \in Masqueraders :
        frame.dst \in Masqueraders /\ NumberOf(n) = OutputOf(frame.dst)}}

\* add inserts into a map: a second interface of one name is ignored.
AddInterface(n, c) ==
    /\ phase = "network"
    /\ layout' = [k \in DOMAIN layout \cup {n} |-> IF k \in DOMAIN layout THEN layout[k] ELSE c]
    /\ UNCHANGED <<phase, content, asked, contents, traffic, verdicts>>

ParseConfig ==
    /\ phase = "network"
    /\ phase' = "config"
    /\ UNCHANGED <<layout, content, asked, contents, traffic, verdicts>>

-----------------------------------------------------------------------------
(* ConfigParser.parse: the elements of a traffic block.                    *)

InBlock == phase = "config" /\ content # NoBlock

StartBlock ==
    /\ phase = "config" /\ content = NoBlock /\ Len(contents) < MaxBlocks
    /\ content' = NewContent
    /\ asked' = Append(asked, [flags |-> {"SYN"}, twice |-> FALSE])
    /\ UNCHANGED <<phase, layout, contents, traffic, verdicts>>

\* An element is read where its condition holds, and ends the program where it does not.
Read(condition, new) ==
    /\ InBlock
    /\ \/ condition /\ content' = new /\ UNCHANGED <<phase, layout, asked, contents, traffic, verdicts>>
       \/ ~condition /\ End("exited")

Transport == content.protocol \in {"TCP", "UDP"}

SourceIP(ip)      == Read(TRUE, [content EXCEPT !.sourceIP = ip])
SourcePort(p)     == Read(Transport, [content EXCEPT !.sourcePort = UShort(p)])
DestinationIP(ip) == Read(TRUE, [content EXCEPT !.destIP = ip])
DestinationPort(p) == Read(Transport, [content EXCEPT !.destPort = UShort(p)])
SetProtocol(p)    == Read(TRUE, [content EXCEPT !.protocol = p])
SetIcmpType(t)    == Read(content.protocol = "ICMP", [content EXCEPT !.icmp_type = Short(t)])
SetIcmpCode(c)    == Read(content.protocol = "ICMP", [content EXCEPT !.icmp_code = Short(c)])
SetPolicy(p)      == Read(TRUE, [content EXCEPT !.policy = p])
SetNumPackets(n)  == Read(TRUE, [content EXCEPT !.numPackets = n])
\* Mutant: any name will do.
InInterfaceUnknown(n) == Read(TRUE, [content EXCEPT !.inInterface = n])
InInterface(n)    == Read(hasInterface(n), [content EXCEPT !.inInterface = n])
OutInterface(n)   == Read(hasInterface(n), [content EXCEPT !.outInterface = n])
SetDump(d)        == Read(TRUE, [content EXCEPT !.dump = d])

\* An element that is unknown, empty or names what is not supported or not there.
Refuse == InBlock /\ End("exited")

LastAsked  == asked[Len(asked)]
Ask(new)   == asked' = [asked EXCEPT ![Len(asked)] = new]

\* Children of a TCP_FLAGS element, with the value 1 and with the value 0, which takes back
\* nothing but SYN.
SetFlag(f) ==
    /\ InBlock
    /\ \/ /\ content.protocol = "TCP"
          /\ content' = [content EXCEPT !.tcp_flags = Append(@, f)]
          /\ Ask([flags |-> LastAsked.flags \cup {f},
                  twice |-> LastAsked.twice \/ f \in LastAsked.flags])
          /\ UNCHANGED <<phase, layout, contents, traffic, verdicts>>
       \/ content.protocol # "TCP" /\ End("exited")

\* The loop that erases SYN from position it on.  erase moves the next flag to it, which the
\* loop steps over; once the last flag is erased it steps over the end of the vector.
Loop == [it : Nat \ {0}, flags : Seq(Flag)]
EraseSyn[at \in Loop] ==
    IF at.it > Len(at.flags) THEN at
    ELSE EraseSyn[[it    |-> at.it + 1,
                   flags |-> IF at.flags[at.it] = "SYN" THEN RemoveAt(at.flags, at.it)
                                                        ELSE at.flags]]
\* Mutant: what follows SYN is erased with it.
ErasedToEnd(flags) ==
    LET kept == {k \in DOMAIN flags : \A i \in 1 .. k : flags[i] # "SYN"}
    IN [it |-> Cardinality(kept) + 1, flags |-> SubSeq(flags, 1, Cardinality(kept))]
Erased(flags) == EraseSyn[[it |-> 1, flags |-> flags]]

ClearFlag(f) ==
    /\ InBlock
    /\ \/ /\ content.protocol = "TCP" /\ f # "SYN"
          /\ UNCHANGED <<phase, layout, content, asked, contents, traffic, verdicts>>
       \/ /\ content.protocol = "TCP" /\ f = "SYN"
          /\ LET end == Erased(content.tcp_flags)
             IN \/ /\ end.it = Len(end.flags) + 1
                   /\ content' = [content EXCEPT !.tcp_flags = end.flags]
                   /\ Ask([LastAsked EXCEPT !.flags = @ \ {f}])
                   /\ UNCHANGED <<phase, layout, contents, traffic, verdicts>>
                \/ end.it > Len(end.flags) + 1 /\ End("crashed")
       \/ content.protocol # "TCP" /\ End("exited")

-----------------------------------------------------------------------------
(* ConfigParser.parse: the end of a block.                                 *)

\* checkDump sends the packets of a dump through a script of its own.  Where an address is one
\* of several interfaces' the first classifier output counts; an address the mapping has lost
\* has no output.  Both the source's and the destination's test read offset 0 of the frame.
Framed(p, in, out) ==
    IF p.frame # NoFrame THEN p.frame
    ELSE [dst |-> layout[in].mac_address, src |-> layout[out].mac_address]
\* Mutant: offset 6 for both.
WrongMacOffset(ip, frame) == MacsOf(ip) # {} /\ frame.src # Min(MacsOf(ip))
WrongMac(ip, frame) == MacsOf(ip) # {} /\ frame.dst # Min(MacsOf(ip))
Bogus(p, frame) ==
    \/ /\ Local(p.src) /\ Local(p.dst)
       /\ MacsOf(p.src) # {}
       /\ WrongMac(p.src, frame) \/ WrongMac(p.dst, frame)
    \/ Local(p.src) /\ ~Local(p.dst) /\ WrongMac(p.src, frame)
    \/ ~Local(p.src) /\ Local(p.dst) /\ WrongMac(p.dst, frame)
    \/ ~Local(p.src) /\ ~Local(p.dst) /\ (frame.dst \notin MACs \/ frame.src \notin MACs)

BetweenInterfaces(c) == hasInterface(c.inInterface) /\ hasInterface(c.outInterface)
Clean(c) == \A p \in c.dump.packets : ~Bogus(p, Framed(p, c.inInterface, c.outInterface))

\* A text dump is not checked any further.
ToCheck(c) == c.dump # NoDump /\ BetweenInterfaces(c) /\ ~c.dump.ascii

\* Mutant: the address is not compared with the interface's.
FromUnchecked(ip, n) == hasInterface(n)
From(ip, n) == hasInterface(n) /\ layout[n].ip_address = ip
AddressesAccepted(c) ==
    /\ c.sourceIP # NoIP /\ c.destIP # NoIP
    /\ IF isInternal(c.sourceIP, c.destIP)
       THEN From(c.sourceIP, c.outInterface) /\ From(c.destIP, c.inInterface)
       ELSE IF isOutput(c.sourceIP) THEN From(c.sourceIP, c.outInterface)
       ELSE IF isInput(c.destIP)    THEN From(c.destIP, c.inInterface)
       ELSE BetweenInterfaces(c)

Accepted(c) == IF c.dump # NoDump THEN BetweenInterfaces(c) /\ c.dump.ascii
                                  ELSE AddressesAccepted(c)
Push == contents' = Append(contents, content) /\ content' = NoBlock

\* checkDump runs a click script, which appends its count to bogus.txt.  Click may not be
\* started, which ends the program, or fail without a count, which nothing looks at.
Count(c)  == IF Clean(c) THEN "zero" ELSE "some"
CheckDump ==
    \/ /\ phase' = "check"
       /\ \/ bogus = "none" /\ bogus' = Count(content) /\ by' = "this"
          \/ UNCHANGED <<bogus, by>>
       /\ UNCHANGED <<layout, content, asked, contents, traffic, borrowed, lent, unremoved>>
    \/ End("exited")

EndBlock ==
    /\ InBlock
    /\ \/ Accepted(content) /\ Push /\ UNCHANGED <<phase, layout, asked, traffic, verdicts>>
       \/ ToCheck(content) /\ CheckDump
       \/ ~Accepted(content) /\ ~ToCheck(content) /\ End("exited")

\* Mutant: the file stays.
BogusLeft == bogus
BogusRemoved == "none"
\* The first line of bogus.txt decides.  Only a file that says 0 is removed.
JudgeDump ==
    /\ phase = "check"
    /\ \/ /\ bogus = "zero"
          /\ phase' = "config" /\ Push
          /\ bogus' = BogusRemoved /\ by' = "earlier"
          /\ borrowed' = IF by = "this" THEN borrowed ELSE borrowed \cup {Len(contents')}
          /\ lent' = IF by = "this" THEN lent ELSE lent + 1
          /\ UNCHANGED <<layout, asked, traffic, unremoved>>
       \/ bogus # "zero" /\ End("exited")

ParsedAll ==
    /\ phase = "config" /\ content = NoBlock /\ contents # <<>>
    /\ phase' = "print"
    /\ UNCHANGED <<layout, content, asked, contents, traffic, verdicts>>

-----------------------------------------------------------------------------
(* ConfigParser.printClickTraffic: a source of packets for each block.     *)

\* Mutant: UDP is not printed.
SupportedSome == {"ICMP", "TCP"}
Supported == Protocol
ToPrint == contents[Len(traffic) + 1]
EtherEncap(c) == [dst |-> layout[c.inInterface].mac_address,
                  src |-> layout[c.outInterface].mac_address]
FlagBits(flags) == FoldLeft(LAMBDA n, f : n + Bit[f], 0, flags)
Source(c) == [frame |-> EtherEncap(c), flags |-> FlagBits(c.tcp_flags)]

PrintSource ==
    /\ phase = "print" /\ Len(traffic) < Len(contents)
    /\ LET printable == /\ ToPrint.dump # NoDump \/ ToPrint.protocol \in Supported
                        /\ hasInterface(ToPrint.outInterface) /\ hasInterface(ToPrint.inInterface)
       IN \/ /\ printable
             /\ traffic' = Append(traffic, Source(ToPrint))
             /\ UNCHANGED <<phase, layout, content, asked, contents, verdicts>>
          \/ ~printable /\ End("aborted")

PrintedAll == phase = "print" /\ Len(traffic) = Len(contents) /\ End("done")

Ended   == {"done", "exited", "aborted", "crashed"}

\* The program has ended, or is killed wherever it is, and is run again, on files that may have
\* been corrected.
Rerun ==
    /\ phase' = "network" /\ layout' = <<>>
    /\ content' = NoBlock /\ asked' = <<>>
    /\ contents' = <<>> /\ traffic' = <<>>
    /\ by' = "earlier" /\ borrowed' = {}
    /\ unremoved' = IF by = "this" /\ bogus = "zero" THEN unremoved + 1 ELSE unremoved
    /\ UNCHANGED <<bogus, lent>>

Init ==
    /\ phase = "network" /\ layout = <<>>
    /\ content = NoBlock /\ asked = <<>>
    /\ contents = <<>> /\ traffic = <<>>
    /\ bogus = "none" /\ by = "earlier" /\ borrowed = {} /\ lent = 0 /\ unremoved = 0

Element ==
    \/ \E ip \in IP : SourceIP(ip) \/ DestinationIP(ip)
    \/ \E p \in Port : SourcePort(p) \/ DestinationPort(p)
    \/ \E p \in Protocol : SetProtocol(p)
    \/ \E f \in Flag : SetFlag(f) \/ ClearFlag(f)
    \/ \E t \in IcmpType : SetIcmpType(t)
    \/ \E c \in IcmpCode : SetIcmpCode(c)
    \/ \E p \in Policy : SetPolicy(p)
    \/ \E n \in NumPackets : SetNumPackets(n)
    \/ \E n \in Name : InInterface(n) \/ OutInterface(n)
    \/ \E d \in Dumps : SetDump(d)
    \/ Refuse

Next ==
    \/ \E i \in Interfaces : AddInterface(i.name, i.content)
    \/ ParseConfig
    \/ StartBlock \/ Element \/ EndBlock \/ JudgeDump
    \/ ParsedAll \/ PrintSource \/ PrintedAll
    \/ Rerun

Spec == Init /\ [][Next]_vars

-----------------------------------------------------------------------------
(* Properties.                                                             *)

\* Every interface a block names is in the layout, and sources are printed in the order of
\* their blocks.
TypeOK ==
    /\ phase \in {"network", "config", "check", "print"} \cup Ended
    /\ DOMAIN layout \subseteq Name /\ \A n \in DOMAIN layout : layout[n] \in NetworkContent
    /\ content \in ConfigContent \cup {NoBlock}
    /\ contents \in Seq(ConfigContent)
    /\ asked \in Seq([flags : SUBSET Flag, twice : BOOLEAN])
    /\ traffic \in Seq([frame : Frame, flags : Nat])
    /\ Len(traffic) <= Len(contents)
    /\ bogus \in {"none", "zero", "some"} /\ by \in {"this", "earlier"}
    /\ borrowed \subseteq DOMAIN contents /\ lent \in Nat /\ unremoved \in Nat
    /\ \A c \in {contents[k] : k \in DOMAIN contents} \cup ({content} \ {NoBlock}) :
          {c.inInterface, c.outInterface} \subseteq DOMAIN layout \cup {NoName}

DistinctMacs ==
    \A n, k \in DOMAIN layout : layout[n].mac_address = layout[k].mac_address => n = k

\* The interface conditions of rules look at the frame, the traffic switch at the addresses.
Has(mac, ip) ==
    \E n \in DOMAIN layout : layout[n].mac_address = mac /\ layout[n].ip_address = ip

\* Where no two interfaces share a MAC address, a packet that the script takes for one the
\* firewall sends leaves by the interface of its source address, and one it takes for the
\* firewall comes in by the interface of its destination.
FramesTrue ==
    DistinctMacs =>
        \A k \in DOMAIN traffic : contents[k].dump = NoDump =>
            /\ Local(contents[k].sourceIP) => Has(traffic[k].frame.src, contents[k].sourceIP)
            /\ Local(contents[k].destIP)   => Has(traffic[k].frame.dst, contents[k].destIP)

\* What checkDump lets through on its own Click's count comes in by the interface of its
\* destination, or passes between interfaces of the firewall.
DumpsTrue ==
    DistinctMacs =>
        \A k \in DOMAIN contents \ borrowed : contents[k].dump # NoDump /\ ~contents[k].dump.ascii =>
            \A p \in contents[k].dump.packets :
                LET frame == Framed(p, contents[k].inInterface, contents[k].outInterface)
                IN /\ Local(p.dst) => Has(frame.dst, p.dst)
                   /\ ~Local(p.src) /\ ~Local(p.dst) => {frame.dst, frame.src} \subseteq MACs

\* A dump that passes on an earlier start's count costs a start of its own, killed between
\* Click's 0 and the removal of bogus.txt: the file is used up by the dump, however many lines
\* it has by then, and a start that refused a dump lets none through.
LentOnce == lent <= unremoved

\* The checks at the end of a block leave nothing for the assertions of the printer but a
\* missing protocol, and a missing interface on the side that has no address to check.
PrintedIfComplete ==
    phase = "aborted" =>
        \/ ToPrint.protocol = NoProtocol
        \/ ToPrint.inInterface = NoName /\ isOutput(ToPrint.sourceIP)
        \/ ToPrint.outInterface = NoName /\ isInput(ToPrint.destIP)

\* MASQUERADE gives a packet the address of the interface it came in by, or kills it where that
\* one has none: the two loops over the mapping count alike, and what the classifier reads of
\* the frame is what the source wrote there for the in-interface.
MasqueradedByIn ==
    DistinctMacs =>
        \A k \in DOMAIN traffic :
            Masquerade(traffic[k].frame) = {layout[contents[k].inInterface].ip_address} \ {NoIP}

\* Unless a flag is asked for while it is in the vector already, the flags sent are those the
\* elements of this block ask for, with SYN by default: the loop that erases SYN while it
\* iterates over the vector takes that flag and no other, wherever it is.
FlagsAsAsked ==
    \A k \in DOMAIN traffic : contents[k].protocol = "TCP" /\ ~asked[k].twice =>
        traffic[k].flags = MapThenSumSet(LAMBDA f : Bit[f], asked[k].flags)

=============================================================================
