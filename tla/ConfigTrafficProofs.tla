------------------------ MODULE ConfigTrafficProofs ------------------------
(***************************************************************************)
(* ConfigTraffic, for any layouts, dumps and numbers of blocks.  Frames,   *)
(* dumps and the masquerade switch need of a block only that it has its    *)
(* members and passed the checks (IInv); what a dump passed on, and what   *)
(* starts leave in bogus.txt, is in VInv; the type invariant and the flags *)
(* need what the loop over the TCP flags leaves of a vector (FInv).        *)
(***************************************************************************)
EXTENDS ConfigTraffic, InductionLemmas, SequenceTheorems, WellFoundedInduction,
        FiniteSetTheorems, TLAPS

Sequence(s) == Len(s) \in Nat /\ s = [k \in 1 .. Len(s) |-> s[k]]

\* What is known of a block while it is read: it has all members, a protocol only if one that
\* is supported, and interfaces only if the layout has them.
Block(c) ==
    /\ c = [m \in DOMAIN NewContent |-> c[m]]
    /\ c.protocol \in Protocol \cup {NoProtocol}
    /\ {c.inInterface, c.outInterface} \subseteq DOMAIN layout \cup {NoName}

\* What the checks at its end add.
Passed(c) == IF c.dump # NoDump THEN BetweenInterfaces(c) ELSE AddressesAccepted(c)
Checked(c) == Block(c) /\ Passed(c)

Finished == {contents[k] : k \in 1 .. Len(contents)}
LayoutTyped == DOMAIN layout \subseteq Name /\ \A n \in DOMAIN layout : layout[n] \in NetworkContent
BlocksChecked ==
    /\ \A c : c = content => c = NoBlock \/ Block(c)
    /\ Sequence(contents) /\ \A c \in Finished : Checked(c)
SourcesPrinted ==
    /\ Sequence(traffic) /\ Len(traffic) <= Len(contents)
    /\ \A k \in 1 .. Len(traffic) :
          /\ hasInterface(contents[k].inInterface) /\ hasInterface(contents[k].outInterface)
          /\ traffic[k].frame = EtherEncap(contents[k])
\* The layout is read before the first block.
LayoutFirst == phase = "network" => content = NoBlock /\ contents = <<>> /\ traffic = <<>>
\* An assertion fails at the block that comes next.
AbortedAt ==
    phase = "aborted" =>
        /\ Len(traffic) < Len(contents)
        /\ \/ ToPrint.dump = NoDump /\ ToPrint.protocol \notin Supported
           \/ ~hasInterface(ToPrint.outInterface) \/ ~hasInterface(ToPrint.inInterface)
\* checkDump is in a block that it has something to do for.
Judging == phase = "check" => content # NoBlock /\ ToCheck(content)
IInv == LayoutTyped /\ BlocksChecked /\ SourcesPrinted /\ LayoutFirst /\ AbortedAt /\ Judging

-----------------------------------------------------------------------------
(* Sequences of anything.                                                  *)

LEMMA Appended ==
  ASSUME NEW s, Sequence(s), NEW e
  PROVE  /\ Sequence(Append(s, e)) /\ Len(Append(s, e)) = Len(s) + 1
         /\ \A k \in 1 .. Len(s) : Append(s, e)[k] = s[k]
         /\ Append(s, e)[Len(s) + 1] = e
<1> DEFINE S == {s[k] : k \in 1 .. Len(s)} \cup {e}
<1>1. s \in [1 .. Len(s) -> S]
  BY DEF Sequence
<1>2. s \in Seq(S)
  BY <1>1, SeqDef DEF Sequence
<1>3. Append(s, e) \in Seq(S)
  BY <1>2, AppendProperties
<1>4. Append(s, e) \in [1 .. Len(Append(s, e)) -> S] /\ Len(Append(s, e)) \in Nat
  BY <1>3, LenProperties
<1>5. Append(s, e) = [k \in 1 .. Len(Append(s, e)) |-> Append(s, e)[k]]
  BY <1>4
<1>6. e \in S
  OBVIOUS
<1>7. /\ Len(Append(s, e)) = Len(s) + 1
      /\ \A k \in 1 .. Len(s) : Append(s, e)[k] = s[k]
      /\ Append(s, e)[Len(s) + 1] = e
  BY <1>2, <1>6, AppendProperties
<1> QED
  BY <1>4, <1>5, <1>7 DEF Sequence

LEMMA Empty == Sequence(<<>>) /\ Len(<<>>) = 0
<1>1. <<>> \in Seq({}) /\ Len(<<>>) = 0
  BY EmptySeq
<1> QED
  BY <1>1, LenProperties DEF Sequence

-----------------------------------------------------------------------------
(* One step of the parser.                                                 *)

LEMMA Initial == Init => IInv
<1> SUFFICES ASSUME Init PROVE IInv
  OBVIOUS
<1>1. Sequence(contents) /\ Len(contents) = 0 /\ Sequence(traffic) /\ Len(traffic) = 0
  BY Empty DEF Init
<1>2. LayoutTyped
  BY DEF Init, LayoutTyped
<1>3. BlocksChecked /\ SourcesPrinted /\ LayoutFirst /\ AbortedAt /\ Judging
  BY <1>1 DEF Init, BlocksChecked, Finished, SourcesPrinted, LayoutFirst, AbortedAt, Judging
<1> QED
  BY <1>2, <1>3 DEF IInv

(* A block stays what it is as long as the layout does.                    *)
LEMMA SameLayout ==
  ASSUME UNCHANGED layout
  PROVE  \A c : /\ Block(c)' <=> Block(c)
                /\ Checked(c)' <=> Checked(c)
                /\ Clean(c)' <=> Clean(c)
                /\ EtherEncap(c)' = EtherEncap(c)
<1> SUFFICES ASSUME NEW c
             PROVE /\ Block(c)' <=> Block(c)
                   /\ Checked(c)' <=> Checked(c)
                   /\ Clean(c)' <=> Clean(c)
                   /\ EtherEncap(c)' = EtherEncap(c)
  OBVIOUS
<1>1. Block(c)' <=> Block(c)
  BY DEF Block
<1>2. MACs' = MACs /\ getMacIPMappings' = getMacIPMappings
  BY DEF MACs, getMacIPMappings, LastOfEach
<1>3. \A ip : MacsOf(ip)' = MacsOf(ip)
  BY <1>2 DEF MacsOf
<1>4. AddressesAccepted(c)' <=> AddressesAccepted(c)
  BY <1>3 DEF AddressesAccepted, isInternal, isInput, isOutput, find, From, BetweenInterfaces,
              hasInterface
<1>5. Clean(c)' <=> Clean(c)
  BY <1>2, <1>3 DEF Clean, Bogus, Framed, Local, WrongMac
<1>6. EtherEncap(c)' = EtherEncap(c)
  BY DEF EtherEncap
<1> QED
  BY <1>1, <1>4, <1>5, <1>6 DEF Checked, Passed, BetweenInterfaces, hasInterface

(* What the invariant says of the layout and of the blocks that are        *)
(* finished is not touched by a step that leaves them alone.               *)
LEMMA Kept ==
  ASSUME IInv, UNCHANGED <<layout, contents>>
  PROVE  LayoutTyped' /\ Sequence(contents)' /\ (\A c \in Finished : Checked(c))'
<1>1. LayoutTyped'
  BY DEF IInv, LayoutTyped
<1>2. Finished' = Finished
  BY DEF Finished
<1>3. (\A c \in Finished : Checked(c))'
  BY <1>2, SameLayout DEF IInv, BlocksChecked
<1> QED
  BY <1>1, <1>3 DEF IInv, BlocksChecked, Sequence

LEMMA SourcesKept ==
  ASSUME IInv, UNCHANGED <<layout, contents, traffic>>
  PROVE  SourcesPrinted'
BY DEF IInv, SourcesPrinted, Sequence, hasInterface, EtherEncap

\* A step that only ends the program.
LEMMA Ending ==
  ASSUME IInv, NEW how \in {"exited", "crashed", "done"}, End(how)
  PROVE  IInv'
<1> USE DEF End
<1>1. (\A c : c = content => c = NoBlock \/ Block(c))'
  BY SameLayout DEF IInv, BlocksChecked
<1>2. LayoutFirst' /\ AbortedAt' /\ Judging'
  BY DEF LayoutFirst, AbortedAt, Judging
<1> QED
  BY <1>1, <1>2, Kept, SourcesKept DEF IInv, BlocksChecked

\* A step that reads an element.
LEMMA Reading ==
  ASSUME IInv, phase = "config", UNCHANGED <<phase, layout, contents, traffic>>,
         \A c : c = content' => c = NoBlock \/ Block(c)
  PROVE  IInv'
<1>1. (\A c : c = content => c = NoBlock \/ Block(c))'
  BY SameLayout
<1>2. LayoutFirst' /\ AbortedAt' /\ Judging'
  BY DEF LayoutFirst, AbortedAt, Judging
<1> QED
  BY <1>1, <1>2, Kept, SourcesKept DEF IInv, BlocksChecked

LEMMA Updated ==
  ASSUME NEW b, Block(b), NEW m \in DOMAIN NewContent, NEW v,
         m = "protocol" => v \in Protocol,
         m \in {"inInterface", "outInterface"} => v \in DOMAIN layout
  PROVE  Block([b EXCEPT ![m] = v])
BY DEF Block, NewContent
-----------------------------------------------------------------------------
(* Every action keeps the invariant.                                       *)

LEMMA Elements == ASSUME IInv, Element PROVE IInv'
<1> DEFINE Kind(m, v) ==
             /\ m \in DOMAIN NewContent
             /\ m = "protocol" => v \in Protocol
             /\ m \in {"inInterface", "outInterface"} => v \in DOMAIN layout
<1>1. ASSUME NEW m, NEW v, Kind(m, v), InBlock, content' = [content EXCEPT ![m] = v],
             UNCHANGED <<phase, layout, contents, traffic>>
      PROVE  IInv'
  <2>1. Block(content)
    BY <1>1 DEF IInv, BlocksChecked, InBlock
  <2>2. Block([content EXCEPT ![m] = v])
    BY <1>1, <2>1, Updated
  <2>3. \A c : c = content' => c = NoBlock \/ Block(c)
    BY <1>1, <2>2
  <2> QED
    BY <1>1, <2>3, Reading DEF InBlock
<1>2. End("exited") \/ End("crashed") => IInv'
  BY Ending
<1>3. {"sourceIP", "sourcePort", "destIP", "destPort", "protocol", "tcp_flags", "icmp_type",
       "icmp_code", "numPackets", "policy", "inInterface", "outInterface", "dump"}
      = DOMAIN NewContent
  BY DEF NewContent
<1>4. ASSUME NEW ip \in IP, SourceIP(ip) \/ DestinationIP(ip) PROVE IInv'
  BY <1>1, <1>2, <1>3, <1>4 DEF SourceIP, DestinationIP, Read
<1>5. ASSUME NEW p \in Port, SourcePort(p) \/ DestinationPort(p) PROVE IInv'
  BY <1>1, <1>2, <1>3, <1>5 DEF SourcePort, DestinationPort, Read
<1>6. ASSUME NEW p \in Protocol, SetProtocol(p) PROVE IInv'
  BY <1>1, <1>2, <1>3, <1>6 DEF SetProtocol, Read
<1>7. ASSUME NEW f \in Flag, SetFlag(f) PROVE IInv'
  BY <1>1, <1>2, <1>3, <1>7 DEF SetFlag
<1>8. ASSUME NEW f \in Flag, ClearFlag(f) PROVE IInv'
  <2>1. CASE content' = [content EXCEPT !.tcp_flags = Erased(content.tcp_flags).flags]
             /\ InBlock /\ UNCHANGED <<phase, layout, contents, traffic>>
    BY <1>1, <1>3, <2>1
  <2>2. CASE InBlock /\ UNCHANGED <<phase, layout, content, contents, traffic>>
    BY <2>2, Reading DEF IInv, BlocksChecked, InBlock
  <2> QED
    BY <1>2, <1>8, <2>1, <2>2 DEF ClearFlag
<1>9. ASSUME NEW t, SetIcmpType(t) \/ SetIcmpCode(t) PROVE IInv'
  BY <1>1, <1>2, <1>3, <1>9 DEF SetIcmpType, SetIcmpCode, Read
<1>10. ASSUME NEW v, SetPolicy(v) \/ SetNumPackets(v) \/ SetDump(v) PROVE IInv'
  BY <1>1, <1>2, <1>3, <1>10 DEF SetPolicy, SetNumPackets, SetDump, Read
<1>11. ASSUME NEW n \in Name, InInterface(n) \/ OutInterface(n) PROVE IInv'
  BY <1>1, <1>2, <1>3, <1>11 DEF InInterface, OutInterface, Read, hasInterface
<1>12. CASE Refuse
  BY <1>2, <1>12 DEF Refuse
<1> QED
  BY <1>4, <1>5, <1>6, <1>7, <1>8, <1>9, <1>10, <1>11, <1>12 DEF Element

LEMMA Layouts == ASSUME IInv, NEW i \in Interfaces, AddInterface(i.name, i.content) PROVE IInv'
<1> USE DEF AddInterface
<1>1. i.name \in Name /\ i.content \in NetworkContent
  BY InterfacesAssumption
<1>2. LayoutTyped'
  BY <1>1 DEF IInv, LayoutTyped
<1>3. content = NoBlock /\ contents = <<>> /\ traffic = <<>>
  BY DEF IInv, LayoutFirst
<1>4. BlocksChecked' /\ SourcesPrinted' /\ LayoutFirst' /\ AbortedAt' /\ Judging'
  BY <1>3, Empty DEF BlocksChecked, Finished, SourcesPrinted, LayoutFirst, AbortedAt, Judging
<1> QED
  BY <1>2, <1>4 DEF IInv

LEMMA Starting == ASSUME IInv, StartBlock PROVE IInv'
<1>1. Block(NewContent)
  BY DEF Block, NewContent
<1>2. \A c : c = content' => c = NoBlock \/ Block(c)
  BY <1>1 DEF StartBlock
<1> QED
  BY <1>2, Reading DEF StartBlock

LEMMA Turning == ASSUME IInv, ParseConfig \/ ParsedAll \/ Rerun \/ UNCHANGED vars PROVE IInv'
<1>1. CASE Rerun
  <2>1. Sequence(contents') /\ Len(contents') = 0 /\ Sequence(traffic') /\ Len(traffic') = 0
    BY <1>1, Empty DEF Rerun
  <2>2. LayoutTyped'
    BY <1>1 DEF Rerun, LayoutTyped
  <2>3. BlocksChecked' /\ SourcesPrinted' /\ LayoutFirst' /\ AbortedAt' /\ Judging'
    BY <1>1, <2>1 DEF Rerun, Sequence, BlocksChecked, Finished, SourcesPrinted, LayoutFirst,
                      AbortedAt, Judging
  <2> QED
    BY <2>2, <2>3 DEF IInv
<1>2. CASE ParseConfig \/ ParsedAll \/ UNCHANGED vars
  <2>1. UNCHANGED <<layout, content, contents, traffic>>
    BY <1>2 DEF ParseConfig, ParsedAll, vars
  <2>2. (\A c : c = content => c = NoBlock \/ Block(c))'
    BY <2>1, SameLayout DEF IInv, BlocksChecked
  <2>3. LayoutFirst' /\ AbortedAt' /\ Judging'
    BY <1>2, <2>1 DEF IInv, LayoutFirst, AbortedAt, Judging, ToPrint, hasInterface, ToCheck,
                     BetweenInterfaces, ParseConfig, ParsedAll, vars
  <2> QED
    BY <2>1, <2>2, <2>3, Kept, SourcesKept DEF IInv, BlocksChecked
<1> QED
  BY <1>1, <1>2
(* The block joins those that are finished.                                *)
LEMMA Pushing ==
  ASSUME IInv, Checked(content), Push, phase' = "config", UNCHANGED <<layout, traffic>>
  PROVE  IInv'
<1> USE DEF Push
<1>1. /\ Sequence(contents') /\ Len(contents') = Len(contents) + 1
      /\ \A k \in 1 .. Len(contents) : contents'[k] = contents[k]
      /\ contents'[Len(contents) + 1] = content
  BY Appended DEF IInv, BlocksChecked
<1>2. Len(contents) \in Nat
  BY DEF IInv, BlocksChecked, Sequence
<1>3. Finished' \subseteq Finished \cup {content}
  BY <1>1, <1>2 DEF Finished
<1>4. (\A c \in Finished : Checked(c))'
  BY <1>3, SameLayout DEF IInv, BlocksChecked
<1>5. BlocksChecked'
  BY <1>1, <1>4 DEF BlocksChecked, Sequence
<1>6. SourcesPrinted'
  <2>1. Len(traffic) \in Nat /\ Len(traffic) <= Len(contents)
    BY DEF IInv, SourcesPrinted, Sequence
  <2>2. \A k \in 1 .. Len(traffic) : contents'[k] = contents[k]
    BY <1>1, <1>2, <2>1
  <2>3. Sequence(traffic)' /\ Len(traffic') <= Len(contents')
    BY <1>1, <1>2, <2>1 DEF IInv, SourcesPrinted, Sequence
  <2> QED
    BY <2>2, <2>3 DEF IInv, SourcesPrinted, hasInterface, EtherEncap
<1>7. LayoutTyped' /\ LayoutFirst' /\ AbortedAt' /\ Judging'
  BY DEF IInv, LayoutTyped, LayoutFirst, AbortedAt, Judging, InBlock
<1> QED
  BY <1>5, <1>6, <1>7 DEF IInv

LEMMA Finishing == ASSUME IInv, EndBlock PROVE IInv'
<1>1. content # NoBlock /\ Block(content)
  BY DEF EndBlock, InBlock, IInv, BlocksChecked
<1>2. CASE Accepted(content) /\ Push /\ UNCHANGED <<phase, layout, asked, traffic, verdicts>>
  <2>1. Checked(content)
    BY <1>1, <1>2 DEF Accepted, Checked, Passed
  <2> QED
    BY <1>2, <2>1, Pushing DEF EndBlock, InBlock
<1>3. CASE /\ ToCheck(content) /\ phase' = "check"
           /\ UNCHANGED <<layout, content, asked, contents, traffic>>
  <2>1. (\A c : c = content => c = NoBlock \/ Block(c))'
    BY <1>3, SameLayout DEF IInv, BlocksChecked
  <2>2. LayoutFirst' /\ AbortedAt'
    BY <1>3 DEF LayoutFirst, AbortedAt
  <2>3. Judging'
    BY <1>1, <1>3 DEF Judging, ToCheck, BetweenInterfaces, hasInterface
  <2> QED
    BY <1>3, <2>1, <2>2, <2>3, Kept, SourcesKept DEF IInv, BlocksChecked
<1>4. CASE End("exited")
  BY <1>4, Ending
<1> QED
  BY <1>2, <1>3, <1>4 DEF EndBlock, CheckDump

LEMMA Judged == ASSUME IInv, JudgeDump PROVE IInv'
<1>1. Checked(content)
  BY DEF JudgeDump, IInv, BlocksChecked, Judging, ToCheck, Checked, Passed
<1>2. CASE End("exited")
  BY <1>2, Ending
<1>3. CASE phase' = "config" /\ Push /\ UNCHANGED <<layout, traffic>>
  BY <1>1, <1>3, Pushing
<1> QED
  BY <1>2, <1>3 DEF JudgeDump

LEMMA Printing == ASSUME IInv, PrintSource PROVE IInv'
<1>1. /\ phase = "print" /\ Len(traffic) < Len(contents)
      /\ Len(traffic) \in Nat /\ Len(contents) \in Nat
      /\ UNCHANGED <<layout, content, contents>>
  BY DEF PrintSource, End, IInv, BlocksChecked, SourcesPrinted, Sequence
<1>2. (\A c : c = content => c = NoBlock \/ Block(c))'
  BY <1>1, SameLayout DEF IInv, BlocksChecked
<1>3. BlocksChecked' /\ LayoutTyped'
  BY <1>1, <1>2, Kept DEF BlocksChecked
<1>4. CASE /\ hasInterface(ToPrint.outInterface) /\ hasInterface(ToPrint.inInterface)
           /\ traffic' = Append(traffic, Source(ToPrint)) /\ phase' = phase
  <2>1. /\ Sequence(traffic') /\ Len(traffic') = Len(traffic) + 1
        /\ \A k \in 1 .. Len(traffic) : traffic'[k] = traffic[k]
        /\ traffic'[Len(traffic) + 1] = Source(ToPrint)
    BY <1>4, Appended DEF IInv, SourcesPrinted
  <2>2. traffic'[Len(traffic) + 1].frame = EtherEncap(ToPrint)
    BY <2>1 DEF Source
  <2>3. SourcesPrinted'
    <3>1. Sequence(traffic)' /\ Len(traffic') <= Len(contents')
      BY <1>1, <2>1 DEF Sequence
    <3>2. ASSUME NEW k \in 1 .. Len(traffic')
          PROVE /\ hasInterface(contents[k].inInterface) /\ hasInterface(contents[k].outInterface)
                /\ traffic'[k].frame = EtherEncap(contents[k])
      <4>1. CASE k \in 1 .. Len(traffic)
        BY <2>1, <4>1 DEF IInv, SourcesPrinted
      <4>2. CASE k = Len(traffic) + 1
        BY <1>4, <2>2, <4>2 DEF ToPrint
      <4> QED
        BY <1>1, <2>1, <4>1, <4>2
    <3> QED
      BY <1>1, <3>1, <3>2 DEF SourcesPrinted, hasInterface, EtherEncap
  <2>4. LayoutFirst' /\ AbortedAt' /\ Judging'
    BY <1>1, <1>4 DEF LayoutFirst, AbortedAt, Judging
  <2> QED
    BY <1>3, <2>3, <2>4 DEF IInv
<1>5. CASE /\ phase' = "aborted" /\ traffic' = traffic
           /\ \/ ToPrint.dump = NoDump /\ ToPrint.protocol \notin Supported
              \/ ~hasInterface(ToPrint.outInterface) \/ ~hasInterface(ToPrint.inInterface)
  <2>1. LayoutFirst' /\ AbortedAt' /\ Judging'
    BY <1>1, <1>5 DEF LayoutFirst, AbortedAt, Judging, ToPrint, hasInterface
  <2> QED
    BY <1>1, <1>3, <1>5, <2>1, SourcesKept DEF IInv
<1> QED
  BY <1>4, <1>5 DEF PrintSource, End

LEMMA Inductive == Spec => []IInv
<1>1. ASSUME IInv, [Next]_vars PROVE IInv'
  <2>1. ASSUME NEW i \in Interfaces, AddInterface(i.name, i.content) PROVE IInv'
    BY <1>1, <2>1, Layouts
  <2>2. CASE PrintedAll
    BY <1>1, <2>2, Ending DEF PrintedAll
  <2> QED
    BY <1>1, <2>1, <2>2, Elements, Starting, Turning, Finishing, Judged, Printing DEF Next
<1> QED
  BY Initial, <1>1, PTL DEF Spec

-----------------------------------------------------------------------------
(* What the checks amount to, when no two interfaces share a MAC address.  *)

LEMMA Mappings ==
  ASSUME LayoutTyped, DistinctMacs, NEW n \in DOMAIN layout
  PROVE  layout[n].mac_address \in MACs
         /\ getMacIPMappings[layout[n].mac_address] = layout[n].ip_address
<1>1. layout[n].mac_address \in MACs
  BY DEF MACs
<1>2. /\ n \in Nat
      /\ \A k \in DOMAIN layout : layout[k].mac_address = layout[n].mac_address => k = n
  BY NameAssumption DEF LayoutTyped, DistinctMacs
<1>3. LastOfEach(layout[n].mac_address) = n
  BY <1>2 DEF LastOfEach
<1> QED
  BY <1>1, <1>3 DEF getMacIPMappings

LEMMA LocalFound ==
  ASSUME LayoutTyped, DistinctMacs, NEW ip, Local(ip)
  PROVE  find(ip)
<1>1. PICK n \in DOMAIN layout : layout[n].ip_address = ip
  BY DEF Local
<1>2. layout[n].mac_address \in MacsOf(ip)
  BY <1>1, Mappings DEF MacsOf
<1> QED
  BY <1>2 DEF find

LEMMA MacsHave ==
  ASSUME LayoutTyped, DistinctMacs, NEW ip, NEW m \in MacsOf(ip)
  PROVE  Has(m, ip)
<1>1. PICK n \in DOMAIN layout : layout[n].mac_address = m
  BY DEF MacsOf, MACs
<1>2. layout[n].ip_address = ip
  BY <1>1, Mappings DEF MacsOf
<1> QED
  BY <1>1, <1>2 DEF Has

LEMMA MacsAreNumbers == ASSUME LayoutTyped PROVE MACs \subseteq Nat
<1>1. \A n \in DOMAIN layout : layout[n].mac_address \in MAC \cup {NoMAC}
  BY DEF LayoutTyped, NetworkContent
<1>2. MAC \cup {NoMAC} \subseteq Nat
  BY MACAssumption DEF NoMAC
<1> QED
  BY <1>1, <1>2 DEF MACs

\* The MAC address the classifier asks for is one of those with the packet's address.
LEMMA Smallest ==
  ASSUME LayoutTyped, NEW ip, MacsOf(ip) # {}
  PROVE  Min(MacsOf(ip)) \in MacsOf(ip)
<1>1. MacsOf(ip) \subseteq Nat
  BY MacsAreNumbers DEF MacsOf
<1>2. PICK x \in MacsOf(ip) : \A y \in MacsOf(ip) : ~ (<<y, x>> \in OpToRel(<, Nat))
  BY <1>1, NatLessThanWellFounded, WFMin
<1>3. \A y \in MacsOf(ip) : x <= y
  <2>1. ASSUME NEW y \in MacsOf(ip), y < x PROVE FALSE
    <3>1. <<y, x>> \in OpToRel(<, Nat)
      BY <1>1, <2>1 DEF OpToRel
    <3> QED
      BY <1>2, <3>1
  <2> QED
    BY <1>1, <2>1
<1> QED
  BY <1>3 DEF Min

\* Two outputs of masq have two numbers.
LEMMA NumbersDiffer ==
  ASSUME LayoutTyped, NEW m \in Masqueraders, NEW n \in Masqueraders, m # n
  PROVE  NumberOf(m) # NumberOf(n)
<1>1. Masqueraders \subseteq Nat
  BY MacsAreNumbers DEF Masqueraders
<1>2. ASSUME NEW i \in Masqueraders, NEW j \in Masqueraders, i < j
      PROVE  NumberOf(i) # NumberOf(j)
  <2> DEFINE Below(b) == {k \in Masqueraders : k < b}
  <2>1. Below(j) \subseteq 0 .. j /\ Below(i) \subseteq Below(j) /\ i \notin Below(i)
    <3>1. i \in Nat /\ j \in Nat /\ \A k \in Masqueraders : k \in Nat
      BY <1>1
    <3>2. \A k \in Masqueraders : k < j => k \in 0 .. j
      BY <3>1
    <3>3. \A k \in Masqueraders : k < i => k < j
      BY <1>2, <3>1
    <3>4. ~(i < i)
      BY <3>1
    <3> QED
      BY <3>2, <3>3, <3>4
  <2>2. IsFiniteSet(Below(j)) /\ IsFiniteSet(Below(i))
    <3>1. IsFiniteSet(0 .. j)
      BY <1>1, FS_Interval
    <3> HIDE DEF Below
    <3> QED
      BY <2>1, <3>1, FS_Subset
  <2>3. Cardinality(Below(i) \cup {i}) = Cardinality(Below(i)) + 1
        /\ IsFiniteSet(Below(i) \cup {i}) /\ Cardinality(Below(i)) \in Nat
    BY <2>1, <2>2, FS_AddElement, FS_CardinalityType
  <2>4. Below(i) \cup {i} \subseteq Below(j)
    BY <1>2, <2>1
  <2>5. Cardinality(Below(i)) + 1 <= Cardinality(Below(j))
    BY <2>2, <2>3, <2>4, FS_Subset
  <2>6. Cardinality(Below(j)) \in Nat
    BY <2>2, FS_CardinalityType
  <2>7. Cardinality(Below(i)) # Cardinality(Below(j))
    BY <2>3, <2>5, <2>6
  <2> QED
    BY <2>7 DEF NumberOf
<1>3. m < n \/ n < m
  BY <1>1
<1> QED
  BY <1>2, <1>3

-----------------------------------------------------------------------------
(* Packets of the firewall leave by the interface of their source address, *)
(* packets for it come in by that of their destination: the frame printed  *)
(* for a block agrees with its addresses.                                  *)
THEOREM FramesCorrect == Spec => []FramesTrue
<1>1. ASSUME IInv PROVE FramesTrue
  <2> SUFFICES ASSUME DistinctMacs, NEW k \in DOMAIN traffic, contents[k].dump = NoDump
               PROVE /\ Local(contents[k].sourceIP) =>
                           Has(traffic[k].frame.src, contents[k].sourceIP)
                     /\ Local(contents[k].destIP) =>
                           Has(traffic[k].frame.dst, contents[k].destIP)
    BY DEF FramesTrue
  <2> DEFINE c == contents[k]
  <2>1. k \in 1 .. Len(traffic) /\ k \in 1 .. Len(contents) /\ LayoutTyped
    BY <1>1 DEF IInv, BlocksChecked, SourcesPrinted, Sequence
  <2>2. /\ c.inInterface \in DOMAIN layout /\ c.outInterface \in DOMAIN layout
        /\ traffic[k].frame = EtherEncap(c)
    BY <1>1, <2>1 DEF IInv, SourcesPrinted, hasInterface
  <2>3. AddressesAccepted(c)
    BY <1>1, <2>1 DEF IInv, BlocksChecked, Finished, Checked, Passed
  <2>4. ASSUME Local(c.sourceIP) PROVE From(c.sourceIP, c.outInterface)
    BY <2>1, <2>3, <2>4, LocalFound DEF AddressesAccepted, isOutput, isInternal
  <2>5. ASSUME Local(c.destIP) PROVE From(c.destIP, c.inInterface)
    BY <2>1, <2>3, <2>5, LocalFound DEF AddressesAccepted, isOutput, isInput, isInternal
  <2> QED
    BY <2>2, <2>4, <2>5 DEF From, Has, EtherEncap
<1> QED
  BY <1>1, Inductive, PTL

(* What the parser lets through the printer can print, but for a block     *)
(* without a protocol, and for one without the interface on the side whose *)
(* address is not the firewall's.                                          *)
THEOREM PrinterAsserts == Spec => []PrintedIfComplete
<1>1. ASSUME IInv PROVE PrintedIfComplete
  <2> SUFFICES ASSUME phase = "aborted"
               PROVE \/ ToPrint.protocol = NoProtocol
                     \/ ToPrint.inInterface = NoName /\ isOutput(ToPrint.sourceIP)
                     \/ ToPrint.outInterface = NoName /\ isInput(ToPrint.destIP)
    BY DEF PrintedIfComplete
  <2>1. Len(traffic) \in Nat /\ Len(contents) \in Nat /\ Len(traffic) < Len(contents)
    BY <1>1 DEF IInv, AbortedAt, BlocksChecked, SourcesPrinted, Sequence
  <2>2. Checked(ToPrint)
    BY <1>1, <2>1 DEF IInv, BlocksChecked, Finished, ToPrint
  <2>3. \/ ToPrint.dump = NoDump /\ ToPrint.protocol \notin Supported
        \/ ~hasInterface(ToPrint.outInterface) \/ ~hasInterface(ToPrint.inInterface)
    BY <1>1 DEF IInv, AbortedAt
  <2>4. ~hasInterface(ToPrint.outInterface) => ToPrint.outInterface = NoName
    BY <2>2 DEF Checked, Block, hasInterface
  <2>5. ~hasInterface(ToPrint.inInterface) => ToPrint.inInterface = NoName
    BY <2>2 DEF Checked, Block, hasInterface
  <2>6. ToPrint.protocol \notin Supported => ToPrint.protocol = NoProtocol
    BY <2>2 DEF Checked, Block, Supported
  <2>7. CASE ToPrint.dump # NoDump
    BY <2>2, <2>3, <2>7 DEF Checked, Passed, BetweenInterfaces
  <2>8. CASE ToPrint.dump = NoDump
    <3>1. AddressesAccepted(ToPrint)
      BY <2>2, <2>8 DEF Checked, Passed
    <3> QED
      BY <2>3, <2>4, <2>5, <2>6, <3>1
      DEF AddressesAccepted, BetweenInterfaces, isInternal, isInput, isOutput, From
  <2> QED
    BY <2>7, <2>8
<1> QED
  BY <1>1, Inductive, PTL
(* MASQUERADE translates a packet to the address of the interface its      *)
(* source has it come in by, and to no other: the two loops that print the *)
(* switch agree on what the outputs are.                                   *)
THEOREM MasqueradeCorrect == Spec => []MasqueradedByIn
<1>1. ASSUME IInv PROVE MasqueradedByIn
  <2> SUFFICES ASSUME DistinctMacs, NEW k \in DOMAIN traffic
               PROVE Masquerade(traffic[k].frame)
                       = {layout[contents[k].inInterface].ip_address} \ {NoIP}
    BY DEF MasqueradedByIn
  <2> DEFINE in == layout[contents[k].inInterface]
             m  == in.mac_address
  <2>1. contents[k].inInterface \in DOMAIN layout /\ traffic[k].frame = EtherEncap(contents[k])
    BY <1>1 DEF IInv, SourcesPrinted, Sequence, hasInterface
  <2>2. traffic[k].frame.dst = m
    BY <2>1 DEF EtherEncap
  <2>3. LayoutTyped
    BY <1>1 DEF IInv
  <2>4. m \in MACs /\ getMacIPMappings[m] = in.ip_address
    BY <2>1, <2>3, Mappings
  <2>5. m \in Masqueraders <=> in.ip_address # NoIP
    BY <2>4 DEF Masqueraders
  <2>6. CASE m \in Masqueraders
    <3>1. \A n \in Masqueraders : NumberOf(n) = OutputOf(m) <=> n = m
      BY <2>3, <2>6, NumbersDiffer DEF NumberOf, OutputOf
    <3>2. Masquerade(traffic[k].frame) = {getMacIPMappings[m]}
      BY <2>2, <2>6, <3>1 DEF Masquerade
    <3> QED
      BY <2>4, <2>5, <2>6, <3>2
  <2>7. CASE m \notin Masqueraders
    BY <2>2, <2>5, <2>7 DEF Masquerade
  <2> QED
    BY <2>6, <2>7
<1> QED
  BY <1>1, Inductive, PTL

-----------------------------------------------------------------------------
(* What passed on a count of its own start is clean, and a 0 that another  *)
(* start left, or that let a dump through, is counted.                     *)

Vetted(c) == c.dump # NoDump /\ ~c.dump.ascii => Clean(c)
Lent == lent + (IF bogus = "zero" /\ by # "this" THEN 1 ELSE 0)
VInv ==
    /\ bogus \in {"none", "zero", "some"} /\ by \in {"this", "earlier"}
    /\ borrowed \subseteq 1 .. Len(contents) /\ lent \in Nat /\ unremoved \in Nat
    /\ by = "this" => phase \in {"check", "exited"}
    /\ phase = "check" /\ by = "this" /\ bogus = "zero" => Clean(content)
    /\ \A k \in 1 .. Len(contents) : k \notin borrowed => Vetted(contents[k])
    /\ Lent <= unremoved

\* A step that leaves the blocks and the verdicts alone.
LEMMA VerdictsKept ==
  ASSUME VInv, UNCHANGED <<layout, contents, verdicts>>,
         phase' # "check" \/ UNCHANGED content,
         phase \notin {"check", "exited"} \/ phase' = "exited" \/ UNCHANGED phase
  PROVE  VInv'
<1>1. \A c : Vetted(c)' <=> Vetted(c)
  BY SameLayout DEF Vetted
<1>2. phase' = "check" => (Clean(content)' <=> Clean(content))
  BY SameLayout
<1>3. UNCHANGED <<bogus, by, borrowed, lent, unremoved>>
  BY DEF verdicts
<1> QED
  BY <1>1, <1>2, <1>3 DEF VInv, Lent

\* A start has no blocks yet.
LEMMA NoBlocks ==
  ASSUME VInv, contents' = <<>>, borrowed' = {}, phase' # "check",
         bogus' = bogus, lent' = lent, by' = "earlier",
         unremoved' = IF by = "this" /\ bogus = "zero" THEN unremoved + 1 ELSE unremoved
  PROVE  VInv'
<1>1. Len(contents') = 0
  BY Empty
<1>2. Lent' <= unremoved' /\ unremoved' \in Nat
  BY DEF VInv, Lent
<1> QED
  BY <1>1, <1>2 DEF VInv

\* A block joins the others, vetted or on another start's count.
LEMMA VerdictsPush ==
  ASSUME IInv, VInv, Push, UNCHANGED layout, phase' # "check",
         bogus' \in {"none", "zero", "some"}, by' = "earlier", lent' \in Nat, unremoved' = unremoved,
         Lent' <= unremoved,
         \/ borrowed' = borrowed /\ Vetted(content)
         \/ borrowed' = borrowed \cup {Len(contents')}
  PROVE  VInv'
<1>1. /\ Len(contents') = Len(contents) + 1
      /\ \A k \in 1 .. Len(contents) : contents'[k] = contents[k]
      /\ contents'[Len(contents) + 1] = content
  BY Appended DEF IInv, BlocksChecked, Push
<1>2. Len(contents) \in Nat
  BY DEF IInv, BlocksChecked, Sequence
<1>3. \A c : Vetted(c)' <=> Vetted(c)
  BY SameLayout DEF Vetted
<1>4. ASSUME NEW k \in 1 .. Len(contents'), k \notin borrowed' PROVE Vetted(contents'[k])
  <2>1. CASE k \in 1 .. Len(contents)
    BY <1>1, <1>4, <2>1 DEF VInv
  <2>2. CASE k = Len(contents) + 1
    BY <1>1, <1>4, <2>2
  <2> QED
    BY <1>1, <1>2, <2>1, <2>2
<1>5. borrowed' \subseteq 1 .. Len(contents')
  <2>1. borrowed \subseteq 1 .. Len(contents') /\ Len(contents') \in 1 .. Len(contents')
    BY <1>1, <1>2 DEF VInv
  <2>2. CASE borrowed' = borrowed
    BY <2>1, <2>2
  <2>3. CASE borrowed' = borrowed \cup {Len(contents')}
    BY <2>1, <2>3
  <2> QED
    BY <2>2, <2>3
<1>6. unremoved' \in Nat /\ Lent' <= unremoved'
  BY DEF VInv
<1> QED
  BY <1>3, <1>4, <1>5, <1>6 DEF VInv

LEMMA VerdictsFinish == ASSUME IInv, VInv, EndBlock PROVE VInv'
<1>1. CASE Accepted(content) /\ Push /\ UNCHANGED <<phase, layout, asked, traffic, verdicts>>
  <2>1. Vetted(content)
    BY <1>1 DEF Accepted, Vetted
  <2>2. UNCHANGED <<bogus, by, borrowed, lent, unremoved>>
    BY <1>1 DEF verdicts
  <2>3. Lent' <= unremoved
    BY <2>2 DEF VInv, Lent
  <2>4. phase' # "check" /\ by = "earlier"
    BY <1>1 DEF EndBlock, InBlock, VInv
  <2> QED
    BY <1>1, <2>1, <2>2, <2>3, <2>4, VerdictsPush DEF VInv
<1>2. CASE /\ phase' = "check"
           /\ \/ bogus = "none" /\ bogus' = Count(content) /\ by' = "this"
              \/ UNCHANGED <<bogus, by>>
           /\ UNCHANGED <<layout, content, contents, borrowed, lent, unremoved>>
  <2>1. \A c : (Vetted(c)' <=> Vetted(c)) /\ (Clean(c)' <=> Clean(c))
    BY <1>2, SameLayout DEF Vetted
  <2>2. bogus' \in {"none", "zero", "some"} /\ by' \in {"this", "earlier"} /\ Lent' <= unremoved'
    BY <1>2 DEF VInv, Count, Lent
  <2>3. by' = "this" /\ bogus' = "zero" => Clean(content)
    <3>1. CASE UNCHANGED <<bogus, by>>
      BY <3>1 DEF EndBlock, InBlock, VInv
    <3>2. CASE bogus' = Count(content)
      BY <3>2 DEF Count
    <3> QED
      BY <1>2, <3>1, <3>2
  <2> QED
    BY <1>2, <2>1, <2>2, <2>3 DEF VInv
<1>3. CASE End("exited")
  BY <1>3, VerdictsKept DEF End
<1> QED
  BY <1>1, <1>2, <1>3 DEF EndBlock, CheckDump

LEMMA VerdictsJudge == ASSUME IInv, VInv, JudgeDump PROVE VInv'
<1>1. CASE End("exited")
  BY <1>1, VerdictsKept DEF End
<1>2. CASE /\ bogus = "zero" /\ phase' = "config" /\ Push
           /\ bogus' = BogusRemoved /\ by' = "earlier"
           /\ borrowed' = IF by = "this" THEN borrowed ELSE borrowed \cup {Len(contents')}
           /\ lent' = IF by = "this" THEN lent ELSE lent + 1
           /\ UNCHANGED <<layout, unremoved>>
  <2>1. by = "this" => Vetted(content)
    BY <1>2 DEF JudgeDump, VInv, Vetted
  <2>2. lent' \in Nat /\ Lent' <= unremoved /\ bogus' \in {"none", "zero", "some"}
    BY <1>2 DEF VInv, Lent, BogusRemoved
  <2>3. \/ borrowed' = borrowed /\ Vetted(content)
        \/ borrowed' = borrowed \cup {Len(contents')}
    BY <1>2, <2>1
  <2> QED
    BY <1>2, <2>2, <2>3, VerdictsPush
<1> QED
  BY <1>1, <1>2 DEF JudgeDump

LEMMA VerdictsElement == ASSUME VInv, Element PROVE VInv'
<1>1. /\ phase = "config" /\ phase' \in {"config", "exited", "crashed"}
      /\ UNCHANGED <<layout, contents, verdicts>>
  BY DEF Element, SourceIP, DestinationIP, SourcePort, DestinationPort, SetProtocol, SetFlag,
         ClearFlag, SetIcmpType, SetIcmpCode, SetPolicy, SetNumPackets, InInterface, OutInterface,
         SetDump, Refuse, Read, InBlock, End
<1> QED
  BY <1>1, VerdictsKept

LEMMA VerdictsInitial == Init => VInv
<1> SUFFICES ASSUME Init PROVE VInv
  OBVIOUS
<1>1. Len(contents) = 0
  BY Empty DEF Init
<1> QED
  BY <1>1 DEF Init, VInv, Lent

LEMMA VerdictsInductive == Spec => [](IInv /\ VInv)
<1>1. ASSUME IInv, VInv, [Next]_vars PROVE VInv'
  <2>1. ASSUME NEW i \in Interfaces, AddInterface(i.name, i.content) PROVE VInv'
    <3>1. /\ contents = <<>> /\ phase' = "network" /\ phase = "network"
          /\ UNCHANGED <<contents, bogus, by, borrowed, lent, unremoved>>
      BY <1>1, <2>1 DEF AddInterface, verdicts, IInv, LayoutFirst
    <3>2. Len(contents) = 0 /\ Len(contents') = 0
      BY <3>1, Empty
    <3> QED
      BY <1>1, <3>1, <3>2 DEF VInv, Lent
  <2>2. CASE ParseConfig \/ StartBlock \/ ParsedAll \/ PrintSource \/ PrintedAll \/ UNCHANGED vars
    BY <1>1, <2>2, VerdictsKept
       DEF ParseConfig, StartBlock, ParsedAll, PrintSource, PrintedAll, End, vars
  <2>3. CASE Rerun
    BY <1>1, <2>3, NoBlocks DEF Rerun
  <2> QED
    BY <1>1, <2>1, <2>2, <2>3, VerdictsElement, VerdictsFinish, VerdictsJudge DEF Next
<1> QED
  BY VerdictsInitial, <1>1, Inductive, PTL DEF Spec

(* A packet for the firewall of a dump that passed on its own count comes  *)
(* in by the interface of its destination, and one that passes the         *)
(* firewall names two of its interfaces.                                   *)
THEOREM DumpsCorrect == Spec => []DumpsTrue
<1>1. ASSUME IInv, VInv PROVE DumpsTrue
  <2> SUFFICES ASSUME DistinctMacs,
                      NEW k \in DOMAIN contents \ borrowed, contents[k].dump # NoDump, ~contents[k].dump.ascii,
                      NEW p \in contents[k].dump.packets,
                      NEW frame,
                      frame = Framed(p, contents[k].inInterface, contents[k].outInterface)
               PROVE /\ Local(p.dst) => Has(frame.dst, p.dst)
                     /\ ~Local(p.src) /\ ~Local(p.dst) => {frame.dst, frame.src} \subseteq MACs
    BY DEF DumpsTrue
  <2>1. k \in 1 .. Len(contents) /\ LayoutTyped
    BY <1>1 DEF IInv, BlocksChecked, Sequence
  <2>2. ~Bogus(p, frame)
    BY <1>1, <2>1 DEF VInv, Vetted, Clean
  <2>3. ASSUME Local(p.dst) PROVE Has(frame.dst, p.dst)
    <3>1. MacsOf(p.dst) # {} /\ (Local(p.src) => MacsOf(p.src) # {})
      BY <2>1, <2>3, LocalFound DEF find
    <3>2. frame.dst = Min(MacsOf(p.dst))
      BY <2>2, <2>3, <3>1 DEF Bogus, WrongMac
    <3> QED
      BY <2>1, <3>1, <3>2, Smallest, MacsHave
  <2>4. ASSUME ~Local(p.src), ~Local(p.dst) PROVE {frame.dst, frame.src} \subseteq MACs
    BY <2>2, <2>4 DEF Bogus
  <2> QED
    BY <2>3, <2>4
<1> QED
  BY <1>1, VerdictsInductive, PTL

(* However often the program is killed, a dump that passes on an earlier   *)
(* start's count costs a start that left a 0 in bogus.txt.                 *)
THEOREM CountsLent == Spec => []LentOnce
<1>1. VInv => LentOnce
  BY DEF VInv, Lent, LentOnce
<1> QED
  BY <1>1, VerdictsInductive, PTL

-----------------------------------------------------------------------------
(* The loop that erases SYN.                                               *)

Left(at) == IF at.it > Len(at.flags) THEN 0 ELSE Len(at.flags) - at.it + 1
Turn(at) == [it    |-> at.it + 1,
             flags |-> IF at.flags[at.it] = "SYN" THEN RemoveAt(at.flags, at.it) ELSE at.flags]

LEMMA Removed ==
  ASSUME NEW s \in Seq(Flag), NEW i \in 1 .. Len(s), NEW r, r = RemoveAt(s, i)
  PROVE  /\ r \in Seq(Flag) /\ Len(r) = Len(s) - 1
         /\ \A k \in 1 .. Len(s) - 1 : r[k] = IF k < i THEN s[k] ELSE s[k + 1]
<1>1. Len(s) \in Nat /\ i - 1 \in Nat /\ i - 1 <= Len(s)
  BY LenProperties
<1>2. /\ SubSeq(s, 1, i - 1) \in Seq(Flag) /\ Len(SubSeq(s, 1, i - 1)) = i - 1
      /\ \A k \in 1 .. i - 1 : SubSeq(s, 1, i - 1)[k] = s[k]
  <2>1. \A k \in 1 .. i - 1 : s[k] \in Flag
    BY <1>1, ElementOfSeq
  <2> QED
    BY <1>1, <2>1, SubSeqProperties
<1>3. /\ SubSeq(s, i + 1, Len(s)) \in Seq(Flag) /\ Len(SubSeq(s, i + 1, Len(s))) = Len(s) - i
      /\ \A k \in 1 .. Len(s) - i : SubSeq(s, i + 1, Len(s))[k] = s[i + k]
  <2>1. \A k \in i + 1 .. Len(s) : s[k] \in Flag
    BY <1>1, ElementOfSeq
  <2> QED
    BY <1>1, <2>1, SubSeqProperties
<1> DEFINE a == SubSeq(s, 1, i - 1)
           b == SubSeq(s, i + 1, Len(s))
<1>4. /\ a \o b \in Seq(Flag) /\ Len(a \o b) = Len(a) + Len(b)
      /\ \A k \in 1 .. Len(a) + Len(b) : (a \o b)[k] = IF k <= Len(a) THEN a[k] ELSE b[k - Len(a)]
  <2> HIDE DEF a, b
  <2> QED BY <1>2, <1>3, ConcatProperties DEF a, b
<1>5. r = a \o b
  BY DEF RemoveAt
<1>6. /\ Len(a) = i - 1 /\ Len(b) = Len(s) - i
      /\ \A k \in 1 .. i - 1 : a[k] = s[k]
      /\ \A k \in 1 .. Len(s) - i : b[k] = s[i + k]
  BY <1>2, <1>3
<1> HIDE DEF a, b
<1>7. ASSUME NEW k \in 1 .. Len(s) - 1 PROVE r[k] = IF k < i THEN s[k] ELSE s[k + 1]
  <2>1. CASE k < i
    BY <1>1, <1>4, <1>5, <1>6, <2>1
  <2>2. CASE k >= i
    <3>1. k - (i - 1) \in 1 .. Len(s) - i /\ i + (k - (i - 1)) = k + 1
      BY <1>1, <2>2
    <3> QED BY <1>1, <1>4, <1>5, <1>6, <2>2, <3>1
  <2> QED BY <1>1, <2>1, <2>2
<1>8. Len(r) = Len(s) - 1 /\ r \in Seq(Flag)
  <2>1. Len(a) + Len(b) = Len(s) - 1
    BY <1>1, <1>6
  <2> QED BY <1>4, <1>5, <2>1
<1> QED
  BY <1>7, <1>8

LEMMA Turns ==
  ASSUME NEW at \in Loop
  PROVE  /\ Left(at) \in Nat /\ (Left(at) = 0 <=> at.it > Len(at.flags))
         /\ Left(at) > 0 => Turn(at) \in Loop /\ Left(Turn(at)) < Left(at)
<1>1. at.it \in Nat /\ at.it > 0 /\ at.flags \in Seq(Flag) /\ Len(at.flags) \in Nat
  BY LenProperties DEF Loop
<1>2. ASSUME Left(at) > 0 PROVE Turn(at) \in Loop /\ Left(Turn(at)) < Left(at)
  <2>1. at.it \in 1 .. Len(at.flags)
    BY <1>1, <1>2 DEF Left
  <2>2. /\ RemoveAt(at.flags, at.it) \in Seq(Flag)
        /\ Len(RemoveAt(at.flags, at.it)) = Len(at.flags) - 1
    BY <1>1, <2>1, Removed
  <2>3. /\ Turn(at).flags \in Seq(Flag) /\ Turn(at).it = at.it + 1
        /\ Len(Turn(at).flags) \in {Len(at.flags), Len(at.flags) - 1}
    BY <1>1, <2>2 DEF Turn
  <2>4. Left(Turn(at)) < Left(at)
    BY <1>1, <2>1, <2>3 DEF Left
  <2> QED
    BY <1>1, <2>3, <2>4 DEF Loop, Turn
<1> QED
  BY <1>1, <1>2 DEF Left

LEMMA EraseDefined ==
  \A at \in Loop : EraseSyn[at] = IF Left(at) = 0 THEN at ELSE EraseSyn[Turn(at)]
<1> DEFINE body(e, at) == IF at.it > Len(at.flags) THEN at
                          ELSE e[[it |-> at.it + 1,
                                  flags |-> IF at.flags[at.it] = "SYN"
                                            THEN RemoveAt(at.flags, at.it) ELSE at.flags]]
           rec(e) == e = [at \in Loop |-> body(e, at)]
<1>1. \E e : rec(e)
  <2> DEFINE m    == [at \in Loop |-> Left(at)]
             b    == [at \in Loop |-> at]
             next == [at \in Loop |-> Turn(at)]
  <2>1. m \in [Loop -> Nat] /\ \A at \in Loop : m[at] > 0 => next[at] \in Loop /\ m[next[at]] < m[at]
    BY Turns
  <2>2. PICK e : Looped(e, m, b, next, Loop)
    <3> HIDE DEF m, b, next
    <3> QED BY <2>1, LoopDefined
  <2>3. \A at \in Loop : (IF m[at] = 0 THEN b[at] ELSE e[next[at]]) = body(e, at)
    BY Turns DEF Turn
  <2>4. e = [at \in Loop |-> body(e, at)]
    <3> HIDE DEF body, m, b, next
    <3> QED BY <2>2, <2>3 DEF Looped
  <2> QED BY <2>4
<1>2. EraseSyn = CHOOSE e : rec(e)
  BY DEF EraseSyn
<1>3. rec(EraseSyn)
  <2> HIDE DEF rec
  <2> QED BY <1>1, <1>2
<1>4. \A at \in Loop : EraseSyn[at] = body(EraseSyn, at)
  <2> HIDE DEF body
  <2> QED BY <1>3
<1>5. \A at \in Loop : body(EraseSyn, at) = IF Left(at) = 0 THEN at ELSE EraseSyn[Turn(at)]
  BY Turns DEF Turn
<1> QED BY <1>4, <1>5

(* What the loop leaves of a vector without a flag in it twice: all of it  *)
(* but SYN, if that is still ahead.                                        *)
Ahead(at) == {at.flags[k] : k \in at.it .. Len(at.flags)}
Leaves(at, end) ==
    /\ end \in Loop
    /\ IsInjective(at.flags) =>
         /\ IsInjective(end.flags)
         /\ Range(end.flags) = Range(at.flags) \ ({"SYN"} \cap Ahead(at))

LEMMA LeavesNext ==
  ASSUME NEW at \in Loop, Left(at) > 0, NEW end, Leaves(Turn(at), end)
  PROVE  Leaves(at, end)
<1>1. /\ at.it \in Nat /\ at.it > 0 /\ at.flags \in Seq(Flag) /\ Len(at.flags) \in Nat
      /\ at.it \in 1 .. Len(at.flags)
      /\ DOMAIN at.flags = 1 .. Len(at.flags)
  BY Turns, LenProperties DEF Loop
<1>2. /\ Turn(at).it = at.it + 1 /\ Turn(at).flags \in Seq(Flag)
      /\ DOMAIN Turn(at).flags = 1 .. Len(Turn(at).flags)
  BY Turns, LenProperties DEF Loop, Turn
<1>3. CASE at.flags[at.it] # "SYN"
  <2>1. Turn(at).flags = at.flags
    BY <1>3 DEF Turn
  <2>2. Ahead(at) = {at.flags[at.it]} \cup Ahead(Turn(at))
    <3>1. at.it .. Len(at.flags) = {at.it} \cup (at.it + 1 .. Len(at.flags))
      BY <1>1
    <3> QED BY <1>2, <2>1, <3>1 DEF Ahead
  <2>3. {"SYN"} \cap Ahead(at) = {"SYN"} \cap Ahead(Turn(at))
    BY <1>3, <2>2
  <2> QED BY <2>1, <2>3 DEF Leaves
<1>4. CASE at.flags[at.it] = "SYN"
  <2> DEFINE s == at.flags
             i == at.it
             r == RemoveAt(s, i)
  <2>1. Turn(at).flags = r
    BY <1>4 DEF Turn
  <2>2. /\ r \in Seq(Flag) /\ Len(r) = Len(s) - 1
        /\ \A k \in 1 .. Len(s) - 1 : r[k] = IF k < i THEN s[k] ELSE s[k + 1]
    <3>1. s \in Seq(Flag) /\ i \in 1 .. Len(s) /\ r = RemoveAt(s, i)
      BY <1>1
    <3> HIDE DEF s, i, r
    <3> QED BY <3>1, Removed
  <2>3. /\ i \in 1 .. Len(s) /\ Len(s) \in Nat /\ DOMAIN s = 1 .. Len(s)
        /\ DOMAIN r = 1 .. Len(s) - 1
    BY <1>1, <1>2, <2>1, <2>2
  <2> DEFINE from == [k \in 1 .. Len(s) - 1 |-> IF k < i THEN k ELSE k + 1]
  <2>4. \A k \in 1 .. Len(s) - 1 : r[k] = s[from[k]] /\ from[k] \in (1 .. Len(s)) \ {i}
    <3> HIDE DEF s, i, r
    <3> QED BY <2>2, <2>3
  <2>5. \A j, k \in 1 .. Len(s) - 1 : from[j] = from[k] => j = k
    <3> HIDE DEF s, i, r
    <3> QED BY <2>3
  <2>6. \A j \in (1 .. Len(s)) \ {i} : \E k \in 1 .. Len(s) - 1 : from[k] = j
    <3> HIDE DEF s, i, r
    <3> SUFFICES ASSUME NEW j \in (1 .. Len(s)) \ {i}
                 PROVE \E k \in 1 .. Len(s) - 1 : from[k] = j
      OBVIOUS
    <3>1. CASE j < i
      <4>1. j \in 1 .. Len(s) - 1 /\ from[j] = j
        BY <2>3, <3>1
      <4> QED BY <4>1
    <3>2. CASE j > i
      <4>1. j - 1 \in 1 .. Len(s) - 1 /\ from[j - 1] = j
        BY <2>3, <3>2
      <4> QED BY <4>1
    <3> QED BY <2>3, <3>1, <3>2
  <2>7. ASSUME IsInjective(s)
        PROVE  IsInjective(r) /\ Range(r) = Range(s) \ {"SYN"} /\ "SYN" \in Ahead(at)
    <3>0. s[i] = "SYN"
      BY <1>4
    <3>4. "SYN" \in Ahead(at)
      BY <1>1, <1>4 DEF Ahead
    <3> HIDE DEF s, i, r, from
    <3>1. IsInjective(r)
      BY <2>3, <2>4, <2>5, <2>7 DEF IsInjective
    <3>2. \A j \in 1 .. Len(s) : s[j] = "SYN" <=> j = i
      BY <2>3, <2>7, <3>0 DEF IsInjective
    <3>3. Range(r) = Range(s) \ {"SYN"}
      <4>1. Range(r) = {s[from[k]] : k \in 1 .. Len(s) - 1}
        BY <2>3, <2>4 DEF Range
      <4>2. Range(s) = {s[j] : j \in 1 .. Len(s)}
        BY <2>3 DEF Range
      <4>3. Range(r) \subseteq Range(s) \ {"SYN"}
        BY <2>4, <3>2, <4>1, <4>2
      <4>4. ASSUME NEW j \in 1 .. Len(s), s[j] # "SYN" PROVE s[j] \in Range(r)
        <5>1. PICK k \in 1 .. Len(s) - 1 : from[k] = j
          BY <2>6, <3>0, <4>4
        <5> QED BY <4>1, <5>1
      <4> QED BY <4>2, <4>3, <4>4
    <3> QED BY <3>1, <3>3, <3>4
  <2>8. ASSUME IsInjective(s), "SYN" \in Ahead(Turn(at)) PROVE FALSE
    <3>1. "SYN" \in Range(r)
      <4>1. PICK k \in i + 1 .. Len(r) : r[k] = "SYN"
        BY <1>2, <2>1, <2>8 DEF Ahead
      <4>2. k \in DOMAIN r
        BY <1>1, <2>2, <2>3
      <4> QED BY <4>1, <4>2 DEF Range
    <3> QED BY <2>7, <2>8, <3>1
  <2> QED BY <2>1, <2>7, <2>8 DEF Leaves
<1> QED BY <1>3, <1>4

LEMMA Loops == \A at \in Loop : Leaves(at, EraseSyn[at])
<1> DEFINE S == {n \in Nat : \A at \in Loop : Left(at) <= n => Leaves(at, EraseSyn[at])}
<1>1. ASSUME NEW at \in Loop, Left(at) = 0 PROVE Leaves(at, EraseSyn[at])
  <2>1. EraseSyn[at] = at
    BY <1>1, EraseDefined
  <2>2. at.it > Len(at.flags) /\ at.it \in Nat /\ Len(at.flags) \in Nat
    BY <1>1, Turns, LenProperties DEF Loop
  <2>3. Ahead(at) = {}
    BY <2>2 DEF Ahead
  <2> QED BY <2>1, <2>3 DEF Leaves
<1>2. 0 \in S
  BY <1>1, Turns
<1>3. ASSUME NEW n \in Nat, n \in S PROVE n + 1 \in S
  <2>1. ASSUME NEW at \in Loop, Left(at) <= n + 1, Left(at) # 0 PROVE Leaves(at, EraseSyn[at])
    <3>1. /\ Left(at) \in Nat /\ Left(at) > 0 /\ Turn(at) \in Loop
          /\ Left(Turn(at)) \in Nat /\ Left(Turn(at)) <= n
      <4>1. Left(at) \in Nat /\ Left(at) > 0
        BY <2>1, Turns
      <4>2. Turn(at) \in Loop /\ Left(Turn(at)) < Left(at)
        BY <4>1, Turns
      <4>3. Left(Turn(at)) \in Nat
        BY <4>2, Turns
      <4> QED BY <2>1, <4>1, <4>2, <4>3
    <3>2. Leaves(Turn(at), EraseSyn[Turn(at)])
      BY <1>3, <3>1
    <3>3. EraseSyn[at] = EraseSyn[Turn(at)]
      BY <2>1, EraseDefined
    <3> QED BY <3>1, <3>2, <3>3, LeavesNext
  <2> QED BY <1>1, <2>1
<1>4. Nat \subseteq S
  <2> HIDE DEF S
  <2> QED BY <1>2, <1>3, Induction
<1> SUFFICES ASSUME NEW at \in Loop PROVE Leaves(at, EraseSyn[at])
  OBVIOUS
<1>5. Left(at) \in S /\ Left(at) <= Left(at)
  BY <1>4, Turns
<1> QED BY <1>5

LEMMA ErasedFlags ==
  ASSUME NEW flags \in Seq(Flag)
  PROVE  /\ Erased(flags).flags \in Seq(Flag)
         /\ IsInjective(flags) => /\ IsInjective(Erased(flags).flags)
                                  /\ Range(Erased(flags).flags) = Range(flags) \ {"SYN"}
<1> DEFINE at == [it |-> 1, flags |-> flags]
<1>1. at \in Loop /\ at.flags = flags /\ at.it = 1
  BY DEF Loop
<1>2. Leaves(at, Erased(flags))
  <2> HIDE DEF at
  <2> QED BY <1>1, Loops DEF at, Erased
<1>3. Ahead(at) = Range(flags)
  BY LenProperties DEF Ahead, Range
<1> HIDE DEF at
<1> QED BY <1>1, <1>2, <1>3 DEF Leaves, Loop

-----------------------------------------------------------------------------
(* Types and flags.                                                        *)

Asked == [flags : SUBSET Flag, twice : BOOLEAN]
Typed ==
    /\ phase \in {"network", "config", "check", "print"} \cup Ended
    /\ content \in ConfigContent \cup {NoBlock}
    /\ contents \in Seq(ConfigContent)
    /\ asked \in Seq(Asked)
    /\ traffic \in Seq([frame : Frame, flags : Nat])

\* The flags of a block are what was asked for, each once.
AsAsked(c, a) == ~a.twice => IsInjective(c.tcp_flags) /\ Range(c.tcp_flags) = a.flags
FlagsKept ==
    /\ Len(asked) = Len(contents) + (IF content = NoBlock THEN 0 ELSE 1)
    /\ \A k \in 1 .. Len(contents) : AsAsked(contents[k], asked[k])
    /\ content # NoBlock => AsAsked(content, LastAsked)
    /\ \A k \in 1 .. Len(traffic) : traffic[k].flags = FlagBits(contents[k].tcp_flags)
FInv == Typed /\ FlagsKept

LEMMA Bits ==
  ASSUME NEW flags \in Seq(Flag)
  PROVE  /\ FlagBits(flags) \in Nat
         /\ IsInjective(flags) =>
              FlagBits(flags) = MapThenSumSet(LAMBDA f : Bit[f], Range(flags))
<1>1. IsFiniteSet(Flag) /\ Bit \in [Flag -> Nat]
  <2>1. IsFiniteSet(Flag)
    <3>1. IsFiniteSet({"URG"} \cup {"ACK"})
      BY FS_Singleton, FS_AddElement
    <3>2. IsFiniteSet(({"URG"} \cup {"ACK"}) \cup {"PSH"})
      BY <3>1, FS_AddElement
    <3>3. IsFiniteSet((({"URG"} \cup {"ACK"}) \cup {"PSH"}) \cup {"RST"})
      BY <3>2, FS_AddElement
    <3>4. IsFiniteSet(((({"URG"} \cup {"ACK"}) \cup {"PSH"}) \cup {"RST"}) \cup {"SYN"})
      BY <3>3, FS_AddElement
    <3>5. IsFiniteSet((((({"URG"} \cup {"ACK"}) \cup {"PSH"}) \cup {"RST"}) \cup {"SYN"}) \cup {"FIN"})
      BY <3>4, FS_AddElement
    <3>6. (((({"URG"} \cup {"ACK"}) \cup {"PSH"}) \cup {"RST"}) \cup {"SYN"}) \cup {"FIN"} = Flag
      BY DEF Flag
    <3> QED BY <3>5, <3>6
  <2>3. Bit \in [Flag -> Nat]
    BY DEF Flag, Bit
  <2> QED BY <2>1, <2>3
<1>2. FlagBits(flags) = SumAlong(Bit, flags)
  BY DEF FlagBits, SumAlong
<1>3. SumAlong(Bit, flags) \in Nat
  <2>1. /\ Along(Bit, flags) \in [1 .. Len(flags) -> Nat]
        /\ SumAlong(Bit, flags) = SumOver(Along(Bit, flags), 1 .. Len(flags))
    BY <1>1, SumAlongAdds
  <2>2. IsFiniteSet(1 .. Len(flags)) /\ 1 .. Len(flags) \in SUBSET (1 .. Len(flags))
    BY LenProperties, FS_Interval
  <2>3. SumOver(Along(Bit, flags), 1 .. Len(flags)) \in Nat
    <3> DEFINE D == 1 .. Len(flags)
    <3>1. IsFiniteSet(D) /\ D \in SUBSET D /\ Along(Bit, flags) \in [D -> Nat]
      BY <2>1, <2>2
    <3> HIDE DEF D
    <3>2. SumOver(Along(Bit, flags), D) \in Nat
      BY <3>1, SumOverOne
    <3> QED BY <3>2 DEF D
  <2> QED BY <2>1, <2>3
<1>4. ASSUME IsInjective(flags) PROVE SumAlong(Bit, flags) = SumOver(Bit, Range(flags))
  BY <1>1, <1>4, SumAlongOnce
<1>5. SumOver(Bit, Range(flags)) = MapThenSumSet(LAMBDA f : Bit[f], Range(flags))
  BY DEF SumOver
<1> QED BY <1>2, <1>3, <1>4, <1>5

LEMMA FlagsInitial == Init => FInv
<1> SUFFICES ASSUME Init PROVE FInv
  OBVIOUS
<1>1. \A S : <<>> \in Seq(S) /\ Len(<<>>) = 0
  BY EmptySeq
<1>2. Typed
  BY <1>1 DEF Init, Typed
<1>3. FlagsKept
  BY <1>1 DEF Init, FlagsKept
<1> QED BY <1>2, <1>3 DEF FInv

(* A step that reads something else than flags.                            *)
LEMMA OtherRead ==
  ASSUME FInv, InBlock, content' \in ConfigContent, content'.tcp_flags = content.tcp_flags,
         UNCHANGED <<phase, layout, asked, contents, traffic, verdicts>>
  PROVE  FInv'
<1>1. content # NoBlock /\ content' # NoBlock
  BY NoBlockAssumption DEF InBlock
<1>2. Typed'
  BY DEF FInv, Typed
<1>3. AsAsked(content, LastAsked)'
  BY <1>1 DEF FInv, FlagsKept, AsAsked, LastAsked
<1> QED BY <1>1, <1>2, <1>3 DEF FInv, FlagsKept

LEMMA FlagsEnd ==
  ASSUME FInv, UNCHANGED <<content, asked, contents, traffic>>,
         phase' \in {"network", "config", "check", "print"} \cup Ended
  PROVE  FInv'
BY DEF FInv, Typed, FlagsKept, AsAsked, LastAsked

LEMMA ReadKeeps ==
  ASSUME FInv, NEW condition \in BOOLEAN, NEW new, Read(condition, new),
         content \in ConfigContent => new \in ConfigContent /\ new.tcp_flags = content.tcp_flags
  PROVE  FInv'
<1>1. content \in ConfigContent
  BY DEF FInv, Typed, Read, InBlock
<1>2. CASE End("exited")
  BY <1>2, FlagsEnd DEF End, Ended, FInv, Typed
<1>3. CASE content' = new /\ UNCHANGED <<phase, layout, asked, contents, traffic, verdicts>>
  BY <1>1, <1>3, OtherRead DEF Read
<1> QED BY <1>2, <1>3 DEF Read

LEMMA Reflagged ==
  ASSUME NEW c \in ConfigContent, NEW flags \in Seq(Flag), NEW b, b = [c EXCEPT !.tcp_flags = flags]
  PROVE  b \in ConfigContent /\ b.tcp_flags = flags
BY DEF ConfigContent

(* The last entry of what was asked changes together with the block.       *)
LEMMA FlagsChange ==
  ASSUME FInv, InBlock, NEW a \in Asked, Ask(a), NEW flags \in Seq(Flag),
         content' = [content EXCEPT !.tcp_flags = flags],
         ~a.twice => IsInjective(flags) /\ Range(flags) = a.flags,
         UNCHANGED <<phase, layout, contents, traffic, verdicts>>
  PROVE  FInv'
<1>1. content \in ConfigContent /\ content # NoBlock
  BY DEF FInv, Typed, InBlock
<1>2. content' \in ConfigContent /\ content'.tcp_flags = flags /\ content' # NoBlock
  <2>1. content' \in ConfigContent /\ content'.tcp_flags = flags
    BY <1>1, Reflagged
  <2> QED BY <2>1, NoBlockAssumption
<1>3. Len(contents) \in Nat /\ Len(asked) = Len(contents) + 1
  BY <1>1, LenProperties DEF FInv, FlagsKept, Typed
<1>4. /\ asked' \in Seq(Asked) /\ Len(asked') = Len(asked) /\ asked'[Len(asked)] = a
      /\ \A k \in 1 .. Len(contents) : asked'[k] = asked[k]
  BY <1>3 DEF FInv, Typed, Ask
<1>5. Typed'
  BY <1>2, <1>4 DEF FInv, Typed
<1>6. AsAsked(content, LastAsked)'
  BY <1>2, <1>4 DEF AsAsked, LastAsked
<1> QED BY <1>1, <1>2, <1>4, <1>5, <1>6 DEF FInv, FlagsKept, AsAsked

LEMMA Narrow == \A n \in Int : UShort(n) \in UShorts /\ Short(n) \in Shorts
<1> SUFFICES ASSUME NEW n \in Int PROVE UShort(n) \in UShorts /\ Short(n) \in Shorts
  OBVIOUS
<1>1. UShort(n) \in UShorts
  BY DEF UShort, UShorts
<1>2. Short(n) \in Shorts
  BY DEF Short, Shorts
<1> QED BY <1>1, <1>2

LEMMA FlagsElements == ASSUME FInv, Element PROVE FInv'
<1>1. ASSUME NEW ip \in IP, SourceIP(ip) \/ DestinationIP(ip) PROVE FInv'
  <2>1. ASSUME content \in ConfigContent
        PROVE  /\ [content EXCEPT !.sourceIP = ip] \in ConfigContent
               /\ [content EXCEPT !.sourceIP = ip].tcp_flags = content.tcp_flags
               /\ [content EXCEPT !.destIP = ip] \in ConfigContent
               /\ [content EXCEPT !.destIP = ip].tcp_flags = content.tcp_flags
    BY <2>1 DEF ConfigContent
  <2> QED BY <1>1, <2>1, ReadKeeps DEF SourceIP, DestinationIP
<1>2. ASSUME NEW p \in Port, SourcePort(p) \/ DestinationPort(p) PROVE FInv'
  <2>1. UShort(p) \in UShorts
    BY Narrow, NumberAssumption
  <2>2. ASSUME content \in ConfigContent
        PROVE  /\ [content EXCEPT !.sourcePort = UShort(p)] \in ConfigContent
               /\ [content EXCEPT !.sourcePort = UShort(p)].tcp_flags = content.tcp_flags
               /\ [content EXCEPT !.destPort = UShort(p)] \in ConfigContent
               /\ [content EXCEPT !.destPort = UShort(p)].tcp_flags = content.tcp_flags
    BY <2>1, <2>2 DEF ConfigContent
  <2>3. Transport \in BOOLEAN
    BY DEF Transport
  <2> QED BY <1>2, <2>2, <2>3, ReadKeeps DEF SourcePort, DestinationPort
<1>3. ASSUME NEW p \in Protocol, SetProtocol(p) PROVE FInv'
  <2>1. ASSUME content \in ConfigContent
        PROVE  /\ [content EXCEPT !.protocol = p] \in ConfigContent
               /\ [content EXCEPT !.protocol = p].tcp_flags = content.tcp_flags
    BY <2>1 DEF ConfigContent
  <2> QED BY <1>3, <2>1, ReadKeeps DEF SetProtocol
<1>4. ASSUME NEW t \in IcmpType, SetIcmpType(t) PROVE FInv'
  <2>1. Short(t) \in Shorts
    BY Narrow, NumberAssumption
  <2>2. ASSUME content \in ConfigContent
        PROVE  /\ [content EXCEPT !.icmp_type = Short(t)] \in ConfigContent
               /\ [content EXCEPT !.icmp_type = Short(t)].tcp_flags = content.tcp_flags
    BY <2>1, <2>2 DEF ConfigContent
  <2> QED BY <1>4, <2>2, ReadKeeps DEF SetIcmpType
<1>5. ASSUME NEW c \in IcmpCode, SetIcmpCode(c) PROVE FInv'
  <2>1. Short(c) \in Shorts
    BY Narrow, NumberAssumption
  <2>2. ASSUME content \in ConfigContent
        PROVE  /\ [content EXCEPT !.icmp_code = Short(c)] \in ConfigContent
               /\ [content EXCEPT !.icmp_code = Short(c)].tcp_flags = content.tcp_flags
    BY <2>1, <2>2 DEF ConfigContent
  <2> QED BY <1>5, <2>2, ReadKeeps DEF SetIcmpCode
<1>6. ASSUME NEW p \in Policy, SetPolicy(p) PROVE FInv'
  <2>1. ASSUME content \in ConfigContent
        PROVE  /\ [content EXCEPT !.policy = p] \in ConfigContent
               /\ [content EXCEPT !.policy = p].tcp_flags = content.tcp_flags
    BY <2>1 DEF ConfigContent
  <2> QED BY <1>6, <2>1, ReadKeeps DEF SetPolicy
<1>7. ASSUME NEW n \in NumPackets, SetNumPackets(n) PROVE FInv'
  <2>1. n \in Int
    BY NumberAssumption
  <2>2. ASSUME content \in ConfigContent
        PROVE  /\ [content EXCEPT !.numPackets = n] \in ConfigContent
               /\ [content EXCEPT !.numPackets = n].tcp_flags = content.tcp_flags
    BY <2>1, <2>2 DEF ConfigContent
  <2> QED BY <1>7, <2>2, ReadKeeps DEF SetNumPackets
<1>8. ASSUME NEW n \in Name, InInterface(n) \/ OutInterface(n) PROVE FInv'
  <2>1. ASSUME content \in ConfigContent
        PROVE  /\ [content EXCEPT !.inInterface = n] \in ConfigContent
               /\ [content EXCEPT !.inInterface = n].tcp_flags = content.tcp_flags
               /\ [content EXCEPT !.outInterface = n] \in ConfigContent
               /\ [content EXCEPT !.outInterface = n].tcp_flags = content.tcp_flags
    BY <2>1 DEF ConfigContent
  <2>2. hasInterface(n) \in BOOLEAN
    BY DEF hasInterface
  <2> QED BY <1>8, <2>1, <2>2, ReadKeeps DEF InInterface, OutInterface
<1>9. ASSUME NEW d \in Dumps, SetDump(d) PROVE FInv'
  <2>1. ASSUME content \in ConfigContent
        PROVE  /\ [content EXCEPT !.dump = d] \in ConfigContent
               /\ [content EXCEPT !.dump = d].tcp_flags = content.tcp_flags
    BY <2>1 DEF ConfigContent
  <2> QED BY <1>9, <2>1, ReadKeeps DEF SetDump
<1>10. ASSUME End("exited") \/ End("crashed") PROVE FInv'
  BY <1>10, FlagsEnd DEF End, Ended, FInv, Typed
<1>11. ASSUME InBlock
       PROVE  /\ content.tcp_flags \in Seq(Flag) /\ LastAsked \in Asked
              /\ ~LastAsked.twice => /\ IsInjective(content.tcp_flags)
                                     /\ Range(content.tcp_flags) = LastAsked.flags
  <2>1. content \in ConfigContent /\ content # NoBlock
    BY <1>11 DEF InBlock, FInv, Typed
  <2>2. content.tcp_flags \in Seq(Flag)
    BY <2>1 DEF ConfigContent
  <2>3. LastAsked \in Asked
    <3>1. Len(contents) \in Nat /\ Len(asked) = Len(contents) + 1 /\ asked \in Seq(Asked)
      BY <2>1, LenProperties DEF FInv, FlagsKept, Typed
    <3> QED BY <3>1, ElementOfSeq DEF LastAsked
  <2> QED BY <2>1, <2>2, <2>3 DEF FInv, FlagsKept, AsAsked
<1>12. ASSUME NEW f \in Flag, SetFlag(f) PROVE FInv'
  <2> DEFINE a == [flags |-> LastAsked.flags \cup {f},
                   twice |-> LastAsked.twice \/ f \in LastAsked.flags]
             s == content.tcp_flags
  <2>1. CASE /\ InBlock /\ content' = [content EXCEPT !.tcp_flags = Append(@, f)] /\ Ask(a)
             /\ UNCHANGED <<phase, layout, contents, traffic, verdicts>>
    <3>1. s \in Seq(Flag) /\ a \in Asked
      BY <1>11, <2>1 DEF Asked
    <3>2. /\ Append(s, f) \in Seq(Flag) /\ content' = [content EXCEPT !.tcp_flags = Append(s, f)]
          /\ Len(s) \in Nat /\ DOMAIN s = 1 .. Len(s) /\ DOMAIN Append(s, f) = 1 .. Len(s) + 1
          /\ Append(s, f)[Len(s) + 1] = f
          /\ \A k \in 1 .. Len(s) : Append(s, f)[k] = s[k]
      BY <2>1, <3>1
    <3>3. ASSUME ~a.twice
          PROVE  IsInjective(Append(s, f)) /\ Range(Append(s, f)) = a.flags
      <4>1. IsInjective(s) /\ Range(s) = LastAsked.flags /\ f \notin Range(s)
        BY <1>11, <2>1, <3>3
      <4>2. a.flags = Range(s) \cup {f}
        BY <4>1
      <4> HIDE DEF a, s
      <4>3. IsInjective(Append(s, f))
        BY <3>2, <4>1 DEF IsInjective, Range
      <4>4. Range(Append(s, f)) = Range(s) \cup {f}
        BY <3>2 DEF Range
      <4> QED BY <4>2, <4>3, <4>4
    <3> HIDE DEF a, s
    <3> QED BY <2>1, <3>1, <3>2, <3>3, FlagsChange
  <2> QED BY <1>10, <1>12, <2>1 DEF SetFlag
<1>13. ASSUME NEW f \in Flag, ClearFlag(f) PROVE FInv'
  <2> DEFINE a    == [LastAsked EXCEPT !.flags = @ \ {"SYN"}]
             left == Erased(content.tcp_flags).flags
  <2>1. CASE /\ InBlock /\ content' = [content EXCEPT !.tcp_flags = left] /\ Ask(a)
             /\ UNCHANGED <<phase, layout, contents, traffic, verdicts>>
    <3>1. a \in Asked /\ a.twice = LastAsked.twice /\ a.flags = LastAsked.flags \ {"SYN"}
      BY <1>11, <2>1 DEF Asked
    <3>2. /\ left \in Seq(Flag)
          /\ ~a.twice => IsInjective(left) /\ Range(left) = a.flags
      BY <1>11, <2>1, <3>1, ErasedFlags
    <3> HIDE DEF a, left
    <3> QED BY <2>1, <3>1, <3>2, FlagsChange
  <2>2. CASE UNCHANGED <<phase, layout, content, asked, contents, traffic, verdicts>>
    BY <2>2, FlagsEnd DEF FInv, Typed
  <2> QED BY <1>10, <1>13, <2>1, <2>2 DEF ClearFlag
<1> QED
  BY <1>1, <1>2, <1>3, <1>4, <1>5, <1>6, <1>7, <1>8, <1>9, <1>10, <1>12, <1>13 DEF Element, Refuse

LEMMA FlagsStart == ASSUME FInv, StartBlock PROVE FInv'
<1> DEFINE a == [flags |-> {"SYN"}, twice |-> FALSE]
<1>1. NewContent \in ConfigContent /\ NewContent.tcp_flags = <<"SYN">> /\ NewContent # NoBlock
  <2>1. /\ <<"SYN">> \in Seq(Flag) /\ 0 \in UShorts /\ {0, -1} \subseteq Shorts
        /\ "ACCEPT" \in Policy
    BY DEF Flag, UShorts, Shorts, Policy
  <2>2. NewContent \in ConfigContent /\ NewContent.tcp_flags = <<"SYN">>
    BY <2>1 DEF NewContent, ConfigContent
  <2> QED BY <2>2, NoBlockAssumption
<1>2. a \in Asked
  BY DEF Asked, Flag
<1>3. /\ asked' \in Seq(Asked) /\ Len(asked') = Len(asked) + 1 /\ asked'[Len(asked) + 1] = a
      /\ \A k \in 1 .. Len(asked) : asked'[k] = asked[k]
  <2> HIDE DEF a
  <2> QED BY <1>2 DEF StartBlock, FInv, Typed, a
<1>4. content = NoBlock /\ content' = NewContent /\ UNCHANGED <<phase, contents, traffic, verdicts>>
  BY DEF StartBlock
<1>5. Len(asked) = Len(contents) /\ Len(contents) \in Nat
  BY <1>4, LenProperties DEF FInv, FlagsKept, Typed
<1>6. AsAsked(content, LastAsked)'
  <2>1. LastAsked' = a
    BY <1>3, <1>5 DEF LastAsked
  <2>2. IsInjective(<<"SYN">>) /\ Range(<<"SYN">>) = {"SYN"}
    BY DEF IsInjective, Range
  <2> QED BY <1>1, <1>4, <2>1, <2>2 DEF AsAsked
<1>7. Typed'
  BY <1>1, <1>3, <1>4 DEF FInv, Typed
<1>8. FlagsKept'
  BY <1>1, <1>3, <1>4, <1>5, <1>6 DEF FInv, FlagsKept, AsAsked
<1> QED BY <1>7, <1>8 DEF FInv

LEMMA FlagsPush ==
  ASSUME IInv, FInv, content # NoBlock, Push, phase' \in {"config"}, UNCHANGED <<asked, traffic>>
  PROVE  FInv'
<1>1. content \in ConfigContent /\ content # NoBlock
  BY DEF FInv, Typed
<1>2. /\ contents \in Seq(ConfigContent) /\ Len(contents) \in Nat
      /\ Len(asked) = Len(contents) + 1
  BY <1>1, LenProperties DEF FInv, Typed, FlagsKept
<1>3. /\ contents' \in Seq(ConfigContent) /\ Len(contents') = Len(contents) + 1
      /\ contents'[Len(contents) + 1] = content
      /\ \A k \in 1 .. Len(contents) : contents'[k] = contents[k]
  BY <1>1, <1>2, AppendProperties DEF Push
<1>4. Typed'
  BY <1>3 DEF FInv, Typed, Push
<1>5. AsAsked(contents'[Len(contents) + 1], asked[Len(contents) + 1])
  BY <1>1, <1>2, <1>3 DEF FInv, FlagsKept, LastAsked
<1>6. \A k \in 1 .. Len(traffic) : contents'[k] = contents[k]
  BY <1>2, <1>3 DEF IInv, SourcesPrinted, Sequence
<1>7. FlagsKept'
  <2>1. ASSUME NEW k \in 1 .. Len(contents) + 1 PROVE AsAsked(contents'[k], asked[k])
    BY <1>2, <1>3, <1>5 DEF FInv, FlagsKept
  <2>2. \A k \in 1 .. Len(traffic) : traffic[k].flags = FlagBits(contents'[k].tcp_flags)
    BY <1>6 DEF FInv, FlagsKept
  <2>3. content' = NoBlock /\ asked' = asked /\ traffic' = traffic
    BY DEF Push
  <2> QED BY <1>2, <1>3, <2>1, <2>2, <2>3 DEF FlagsKept
<1> QED BY <1>4, <1>7 DEF FInv

LEMMA FlagsFinish == ASSUME IInv, FInv, EndBlock \/ JudgeDump PROVE FInv'
<1>1. CASE phase' \in {"check", "exited"} /\ UNCHANGED <<content, asked, contents, traffic>>
  BY <1>1, FlagsEnd DEF Ended
<1>2. content # NoBlock
  BY DEF EndBlock, InBlock, JudgeDump, IInv, Judging
<1>3. CASE Push /\ phase' = "config" /\ UNCHANGED <<asked, traffic>>
  BY <1>2, <1>3, FlagsPush
<1> QED BY <1>1, <1>3 DEF EndBlock, InBlock, CheckDump, JudgeDump, End

LEMMA FlagsPrint == ASSUME IInv, IInv', FInv, PrintSource PROVE FInv'
<1>1. CASE End("aborted")
  BY <1>1, FlagsEnd DEF End, Ended, FInv, Typed
<1>2. CASE /\ traffic' = Append(traffic, Source(ToPrint))
           /\ UNCHANGED <<phase, layout, content, asked, contents, verdicts>>
  <2>1. /\ Len(traffic) \in Nat /\ Len(contents) \in Nat /\ Len(traffic) < Len(contents)
        /\ contents \in Seq(ConfigContent)
    BY LenProperties DEF PrintSource, FInv, Typed
  <2>2. ToPrint \in ConfigContent
    BY <2>1, ElementOfSeq DEF ToPrint
  <2>3. ToPrint.tcp_flags \in Seq(Flag) /\ FlagBits(ToPrint.tcp_flags) \in Nat
    <3>1. ToPrint.tcp_flags \in Seq(Flag)
      BY <2>2 DEF ConfigContent
    <3> QED BY <3>1, Bits
  <2>4. EtherEncap(ToPrint) \in Frame
    <3>1. /\ traffic' = Append(traffic, Source(ToPrint))
          /\ Sequence(traffic)' /\ SourcesPrinted' /\ LayoutTyped'
      BY <1>2 DEF IInv, SourcesPrinted
    <3>2. Len(traffic') = Len(traffic) + 1
      BY <1>2, Appended DEF IInv, SourcesPrinted
    <3>3. /\ ToPrint.inInterface \in DOMAIN layout /\ ToPrint.outInterface \in DOMAIN layout
      BY <1>2, <2>1, <3>1, <3>2 DEF SourcesPrinted, hasInterface, ToPrint
    <3>4. \A n \in DOMAIN layout : layout[n].mac_address \in MAC \cup {NoMAC}
      BY DEF IInv, LayoutTyped, NetworkContent
    <3> QED BY <3>3, <3>4 DEF EtherEncap, Frame
  <2>5. Source(ToPrint) \in [frame : Frame, flags : Nat]
    BY <2>3, <2>4 DEF Source
  <2>6. /\ traffic' \in Seq([frame : Frame, flags : Nat]) /\ Len(traffic') = Len(traffic) + 1
        /\ traffic'[Len(traffic) + 1] = Source(ToPrint)
        /\ \A k \in 1 .. Len(traffic) : traffic'[k] = traffic[k]
    <3>1. traffic \in Seq([frame : Frame, flags : Nat])
      BY DEF FInv, Typed
    <3> QED BY <1>2, <2>5, <3>1, AppendProperties
  <2>7. traffic'[Len(traffic) + 1].flags = FlagBits(contents[Len(traffic) + 1].tcp_flags)
    BY <2>6 DEF Source, ToPrint
  <2>8. Typed'
    BY <1>2, <2>6 DEF FInv, Typed
  <2>9. \A k \in 1 .. Len(traffic') : traffic'[k].flags = FlagBits(contents[k].tcp_flags)
    BY <2>1, <2>6, <2>7 DEF FInv, FlagsKept
  <2>10. FlagsKept'
    BY <1>2, <2>9 DEF FInv, FlagsKept, AsAsked, LastAsked
  <2> QED BY <2>8, <2>10 DEF FInv
<1> QED BY <1>1, <1>2 DEF PrintSource

LEMMA FlagsInductive == Spec => [](IInv /\ FInv)
<1>1. ASSUME IInv, IInv', FInv, [Next]_vars PROVE FInv'
  <2>1. ASSUME NEW i \in Interfaces, AddInterface(i.name, i.content) PROVE FInv'
    BY <1>1, <2>1, FlagsEnd DEF AddInterface, FInv, Typed
  <2>2. CASE ParseConfig \/ ParsedAll \/ UNCHANGED vars
    BY <1>1, <2>2, FlagsEnd DEF ParseConfig, ParsedAll, vars, FInv, Typed
  <2>3. CASE PrintedAll
    BY <1>1, <2>3, FlagsEnd DEF PrintedAll, End, Ended, FInv, Typed
  <2>4. CASE Rerun
    <3>1. /\ \A S : <<>> \in Seq(S) /\ Len(<<>>) = 0
          /\ phase' = "network" /\ content' = NoBlock /\ asked' = <<>> /\ contents' = <<>>
          /\ traffic' = <<>>
      BY <2>4, EmptySeq DEF Rerun
    <3>2. Typed'
      BY <1>1, <3>1 DEF FInv, Typed
    <3>3. FlagsKept'
      BY <3>1 DEF FlagsKept
    <3> QED BY <3>2, <3>3 DEF FInv
  <2> QED
    BY <1>1, <2>1, <2>2, <2>3, <2>4, FlagsElements, FlagsStart, FlagsFinish, FlagsPrint DEF Next
<1> QED BY FlagsInitial, <1>1, Inductive, PTL DEF Spec

(* The blocks are of the type of ConfigContent, 16 bit members included,   *)
(* name only interfaces of the layout, and are printed in their order.     *)
THEOREM TypeCorrect == Spec => []TypeOK
<1>1. ASSUME IInv, FInv, VInv PROVE TypeOK
  <2>1. Typed /\ LayoutTyped /\ Len(traffic) <= Len(contents)
    BY <1>1 DEF FInv, IInv, SourcesPrinted
  <2>2. DOMAIN contents = 1 .. Len(contents)
    BY <2>1, LenProperties DEF Typed
  <2>3. ASSUME NEW c \in {contents[k] : k \in DOMAIN contents} \cup ({content} \ {NoBlock})
        PROVE  {c.inInterface, c.outInterface} \subseteq DOMAIN layout \cup {NoName}
    BY <1>1, <2>2, <2>3 DEF IInv, BlocksChecked, Finished, Checked, Block
  <2>4. /\ bogus \in {"none", "zero", "some"} /\ by \in {"this", "earlier"}
        /\ borrowed \subseteq DOMAIN contents /\ lent \in Nat /\ unremoved \in Nat
    BY <1>1, <2>2 DEF VInv
  <2> QED BY <2>1, <2>3, <2>4 DEF TypeOK, Typed, LayoutTyped, Asked
<1> QED BY <1>1, FlagsInductive, VerdictsInductive, PTL

(* The packets of a block have the flags its elements ask for: erasing SYN *)
(* from the vector while iterating over it takes SYN and nothing else,     *)
(* wherever it is, unless a flag was asked for twice.                      *)
THEOREM FlagsCorrect == Spec => []FlagsAsAsked
<1>1. ASSUME IInv, FInv PROVE FlagsAsAsked
  <2> SUFFICES ASSUME NEW k \in DOMAIN traffic, ~asked[k].twice
               PROVE  traffic[k].flags = MapThenSumSet(LAMBDA f : Bit[f], asked[k].flags)
    BY DEF FlagsAsAsked
  <2>1. k \in 1 .. Len(traffic) /\ k \in 1 .. Len(contents)
    BY <1>1 DEF IInv, SourcesPrinted, BlocksChecked, Sequence
  <2>2. /\ traffic[k].flags = FlagBits(contents[k].tcp_flags)
        /\ IsInjective(contents[k].tcp_flags) /\ Range(contents[k].tcp_flags) = asked[k].flags
    BY <1>1, <2>1 DEF FInv, FlagsKept, AsAsked
  <2>3. contents[k].tcp_flags \in Seq(Flag)
    <3>1. contents[k] \in ConfigContent
      BY <1>1, <2>1, ElementOfSeq DEF FInv, Typed
    <3> QED BY <3>1 DEF ConfigContent
  <2> QED BY <2>2, <2>3, Bits
<1> QED BY <1>1, FlagsInductive, PTL

=============================================================================
