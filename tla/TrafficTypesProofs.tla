------------------------- MODULE TrafficTypesProofs -------------------------
(* Theorems about TrafficTypes, for every network, nat table and traffic.  *)
EXTENDS TrafficTypes, StateMachineProofs

ScriptOK == config \in DOMAIN NatRules /\ where \in Where /\ rule \in Nat \ {0}

LEMMA NatChainType ==
    ASSUME ScriptOK
    PROVE  NatChain \in Seq(NatRule)
<1>1. NatRules[config] \in NatTable
  BY NatRulesAssumption DEF ScriptOK
<1>2. /\ NatRules[config].OUTPUT \in Seq(NatRule)
      /\ NatRules[config].PREROUTING \in Seq(NatRule)
      /\ NatRules[config].POSTROUTING \in Seq(NatRule)
  BY <1>1 DEF NatTable
<1> QED BY <1>2 DEF NatChain

LEMMA MeetNatRuleStep ==
    ASSUME ScriptOK, MeetNatRule
    PROVE  \/ UNCHANGED smVars
           \/ \E t \in NatType, ip \in IP, port \in Port \cup {NoPort} : StaticNat(t, ip, port)
<1> DEFINE r == NatChain[rule]
<1>1. rule \in 1..Len(NatChain)
  BY NatChainType DEF MeetNatRule, ScriptOK
<1>2. r \in NatRule
  BY <1>1, NatChainType
<1>3. r.ip \in IP /\ r.port \in Port \cup {NoPort} /\ NatTypeHere \in NatType
  BY <1>2 DEF NatRule, NatTypeHere, NatType
<1>4. UNCHANGED smVars \/ StaticNat(NatTypeHere, r.ip, r.port)
  BY DEF MeetNatRule
<1> QED BY <1>3, <1>4

\* A packet leaves a nat table unchanged, or through the StaticNat without an address.
LEMMA PassNatStep ==
    ASSUME NEW from, PassNat(from)
    PROVE  UNCHANGED smVars \/ (state # "NEW" /\ StaticNat(NatTypeHere, NoIP, NoPort))
BY DEF PassNat

\* Every step in the script is one call of StateMachine.push or StaticNat.push, or none.
LEMMA StepIsSMStep ==
    ASSUME ScriptOK, [Next]_vars
    PROVE  [SMNext]_smVars
<1>1. ASSUME NEW h \in Traffic, Receive(h) PROVE SMNext
  BY <1>1, TrafficAssumption DEF Receive, SMNext
<1>2. CASE MeetNatRule
  BY <1>2, MeetNatRuleStep DEF SMNext
<1>3. ASSUME NEW from, PassNat(from) PROVE [SMNext]_smVars
  <2>1. NatTypeHere \in NatType
    BY DEF NatTypeHere, NatType
  <2> QED BY <1>3, <2>1, PassNatStep DEF SMNext
<1>4. CASE Accept \/ Discard
  BY <1>4 DEF Accept, Discard, SMNext
<1>5. CASE UNCHANGED vars
  BY <1>5 DEF vars, smVars
<1> QED BY <1>1, <1>2, <1>3, <1>4, <1>5
        DEF Next, PassOutput, PassOutPostrouting, PassPrerouting, PassPostrouting

LEMMA ScriptStep == ScriptOK /\ [Next]_vars => ScriptOK'
<1> SUFFICES ASSUME ScriptOK, [Next]_vars PROVE ScriptOK'
  OBVIOUS
<1> USE DEF ScriptOK, Where
<1>1. ASSUME NEW h \in Traffic, Receive(h) PROVE ScriptOK'
  BY <1>1 DEF Receive, TrafficType
<1>2. CASE MeetNatRule
  BY <1>2 DEF MeetNatRule
<1>3. CASE PassOutput \/ PassOutPostrouting \/ PassPrerouting \/ PassPostrouting
  BY <1>3 DEF PassOutput, PassOutPostrouting, PassPrerouting, PassPostrouting, PassNat
<1>4. CASE Accept \/ Discard
  BY <1>4 DEF Accept, Discard
<1>5. CASE UNCHANGED vars
  BY <1>5 DEF vars
<1> QED BY <1>1, <1>2, <1>3, <1>4, <1>5 DEF Next

-----------------------------------------------------------------------------
\* The generated script uses the two elements as StateMachine allows: TrafficTypes
\* implements it, and what holds of the entry list in any arrangement holds here.
THEOREM ImplementsStateMachine == Spec => SMSpec
<1>1. Init => SMInit /\ ScriptOK
  BY DEF Init, ScriptOK, Where
<1>2. ScriptOK /\ [Next]_vars => [SMNext]_smVars
  BY StepIsSMStep
<1> QED BY <1>1, <1>2, ScriptStep, PTL DEF Spec, SMSpec

THEOREM EntriesStayDistinct == Spec => []EntriesDistinct
BY ImplementsStateMachine, SMEntriesDistinct, PTL

-----------------------------------------------------------------------------
(* Type correctness of the histories.                                      *)

HistoryOK ==
    /\ arrived \in Header \cup {NoPacket}
    /\ (arrived = NoPacket) <=> (packet = NoPacket)
    /\ packet # NoPacket => packet.protocol = arrived.protocol
    /\ witness \in [in : Header, out : Header, state : State] \cup {NoPacket}
    /\ witness # NoPacket => witness.in.protocol = witness.out.protocol
    /\ clash \in BOOLEAN

Base == ScriptOK /\ SMInv /\ HistoryOK

LEMMA BaseInit == Init => Base
<1> SUFFICES ASSUME Init PROVE Base
  OBVIOUS
<1>1. ScriptOK
  BY DEF Init, ScriptOK, Where
<1>2. SMInv
  BY SMInitInv DEF Init
<1>3. HistoryOK
  BY DEF Init, SMInit, HistoryOK
<1> QED BY <1>1, <1>2, <1>3 DEF Base

\* A StaticNat element forwards the packet it is given, of the same protocol.
LEMMA NatStepKeepsPacket ==
    ASSUME Base, NEW t \in NatType, NEW ip \in IP \cup {NoIP}, NEW port \in Port \cup {NoPort},
           StaticNat(t, ip, port)
    PROVE  packet # NoPacket /\ packet' # NoPacket /\ packet'.protocol = packet.protocol
<1>1. packet # NoPacket /\ (NewMapping(t, ip, port) \/ PresentMapping(t))
  BY DEF StaticNat
<1>2. packet' \in Header /\ packet'.protocol = packet.protocol
  BY <1>1, NewMappingStep, PresentMappingStep DEF Base, SMInv
<1> QED BY <1>1, <1>2, NoPacketAssumption

\* In a step the packet in flight stays one, and is Header-typed again.
LEMMA BaseStep == Base /\ [Next]_vars => Base'
<1> SUFFICES ASSUME Base, [Next]_vars PROVE Base'
  OBVIOUS
<1>1. ScriptOK' /\ SMInv'
  BY ScriptStep, StepIsSMStep, SMStepInv DEF Base
<1>2. packet' \in Header \cup {NoPacket} /\ packet \in Header \cup {NoPacket} /\ state \in State
  BY <1>1 DEF Base, SMInv, SMTypeOK
<1>3. HistoryOK'
  <2> USE DEF HistoryOK
  <2>1. ASSUME NEW h \in Traffic, Receive(h) PROVE HistoryOK'
    BY <2>1, <1>2 DEF Receive, NoteClash, Base
  <2>2. CASE MeetNatRule
    <3>1. UNCHANGED <<arrived, witness>> /\ clash' \in BOOLEAN
      BY <2>2 DEF MeetNatRule, NoteClash, Base
    <3>2. \/ packet' = packet
          \/ packet # NoPacket /\ packet' # NoPacket /\ packet'.protocol = packet.protocol
      BY <2>2, MeetNatRuleStep, NatStepKeepsPacket DEF Base, smVars
    <3> QED BY <3>1, <3>2 DEF Base
  <2>3. CASE PassOutput \/ PassOutPostrouting \/ PassPrerouting \/ PassPostrouting
    <3>1. PICK from : PassNat(from)
      BY <2>3 DEF PassOutput, PassOutPostrouting, PassPrerouting, PassPostrouting
    <3>2. UNCHANGED <<arrived, witness, clash>>
      BY <3>1 DEF PassNat
    <3>3. \/ packet' = packet
          \/ packet # NoPacket /\ packet' # NoPacket /\ packet'.protocol = packet.protocol
      <4>1. NatTypeHere \in NatType
        BY DEF NatTypeHere, NatType
      <4> QED BY <3>1, <4>1, PassNatStep, NatStepKeepsPacket DEF smVars
    <3> QED BY <3>2, <3>3 DEF Base
  <2>4. CASE Accept
    BY <2>4, <1>2 DEF Accept, Leave, Base
  <2>5. CASE Discard
    BY <2>5 DEF Discard, Leave, Base
  <2>6. CASE UNCHANGED vars
    BY <2>6 DEF vars, Base
  <2> QED BY <2>1, <2>2, <2>3, <2>4, <2>5, <2>6 DEF Next
<1> QED BY <1>1, <1>3 DEF Base

\* Type correctness of the whole path.
THEOREM TypeCorrect == Spec => []TypeOK
<1>1. Base => TypeOK
  BY DEF Base, TypeOK, ScriptOK, SMInv, HistoryOK
<1> QED BY <1>1, BaseInit, BaseStep, PTL DEF Spec

-----------------------------------------------------------------------------
(* Without nat rules.  Every transport entry then mirrors its connection,  *)
(* which makes both searches unambiguous and both translations the         *)
(* identity.                                                               *)

Mirrored ==
    \A i \in DOMAIN stateEntryList :
        IsTransport(stateEntryList[i])
            => stateEntryList[i].replyAddr = Mirror(stateEntryList[i].addr)

\* No entry is opened by the packets of another, nor by its answers.
Unambiguous ==
    \A i, j \in DOMAIN stateEntryList :
        /\ i # j /\ IsTransport(stateEntryList[i])
        /\ stateEntryList[i].protocol = stateEntryList[j].protocol
        => /\ stateEntryList[i].addr # stateEntryList[j].addr
           /\ stateEntryList[i].addr # stateEntryList[j].replyAddr

\* A packet that has been classified opened an entry or answered one.
Known(h) ==
    \E i \in DOMAIN stateEntryList :
        /\ stateEntryList[i].protocol = h.protocol
        /\ \/ stateEntryList[i].addr = h.addr
           \/ stateEntryList[i].replyAddr = h.addr /\ stateEntryList[i].gotReply

KnownHistory ==
    /\ arrived # NoPacket /\ IsTransport(arrived) => Known(arrived)
    /\ witness # NoPacket /\ IsTransport(witness.in)
         => Known(witness.in) /\ witness.out = witness.in

FreeInv ==
    NatFree => Mirrored /\ Unambiguous /\ KnownHistory /\ Transparent /\ NatFreeReply

\* The three ways a transport packet changes the list keep it mirrored and unambiguous, and
\* what was known stays known.
LEMMA PushTransportFree ==
    ASSUME SMTypeOK, Mirrored, Unambiguous, NEW h \in Header, PushTransport(h)
    PROVE  /\ Mirrored' /\ Unambiguous'
           /\ Known(h)'
           /\ \A g \in Header : Known(g) => Known(g)'
<1> DEFINE hits  == Opened(h) \cup Answered(h)
           first == Min(hits)
<1>0. stateEntryList \in Seq(StateEntry) /\ IsTransport(h)
  BY DEF SMTypeOK, PushTransport, Remember
<1>1. CASE hits = {}
  <2> DEFINE n == Len(stateEntryList) + 1
  <2>1. stateEntryList' = Append(stateEntryList, NewEntry(h))
    BY <1>1 DEF PushTransport, Remember
  <2>2. NewEntry(h) \in StateEntry
    BY NewEntryType
  <2>3. /\ DOMAIN stateEntryList' = DOMAIN stateEntryList \cup {n}
        /\ n \notin DOMAIN stateEntryList
        /\ stateEntryList'[n] = NewEntry(h)
        /\ \A k \in DOMAIN stateEntryList : stateEntryList'[k] = stateEntryList[k]
    <3> HIDE DEF NewEntry
    <3> QED BY <1>0, <2>1, <2>2
  <2> HIDE DEF n
  <2>4. /\ NewEntry(h).protocol = h.protocol /\ NewEntry(h).addr = h.addr
        /\ NewEntry(h).replyAddr = Mirror(h.addr)
    BY DEF NewEntry
  <2>5. Mirrored'
    BY <2>3, <2>4 DEF Mirrored, IsTransport
  <2>6. \A k \in DOMAIN stateEntryList : stateEntryList[k].protocol = h.protocol
          => /\ stateEntryList[k].addr # h.addr
             /\ stateEntryList[k].replyAddr # h.addr
             /\ stateEntryList[k].addr # Mirror(h.addr)
    <3> SUFFICES ASSUME NEW k \in DOMAIN stateEntryList,
                        stateEntryList[k].protocol = h.protocol
                 PROVE  /\ stateEntryList[k].addr # h.addr
                        /\ stateEntryList[k].replyAddr # h.addr
                        /\ stateEntryList[k].addr # Mirror(h.addr)
      OBVIOUS
    <3>1. stateEntryList[k].addr # h.addr /\ stateEntryList[k].replyAddr # h.addr
      BY <1>1 DEF Opened, Answered
    <3>2. stateEntryList[k].replyAddr = Mirror(stateEntryList[k].addr)
      BY <1>0 DEF Mirrored, IsTransport
    <3>3. Mirror(Mirror(h.addr)) = h.addr
      BY MirrorType DEF Header
    <3> QED BY <3>1, <3>2, <3>3
  <2>7. Unambiguous'
    <3> SUFFICES ASSUME NEW i \in DOMAIN stateEntryList', NEW j \in DOMAIN stateEntryList',
                        i # j, IsTransport(stateEntryList'[i]),
                        stateEntryList'[i].protocol = stateEntryList'[j].protocol
                 PROVE  /\ stateEntryList'[i].addr # stateEntryList'[j].addr
                        /\ stateEntryList'[i].addr # stateEntryList'[j].replyAddr
      BY DEF Unambiguous
    <3>1. CASE i # n /\ j # n
      BY <2>3, <3>1 DEF Unambiguous
    <3>2. CASE i = n
      BY <2>3, <2>4, <2>6, <3>2
    <3>3. CASE j = n
      BY <2>3, <2>4, <2>6, <3>3
    <3> QED BY <3>1, <3>2, <3>3
  <2>8. Known(h)'
    BY <2>3, <2>4 DEF Known
  <2>9. \A g \in Header : Known(g) => Known(g)'
    BY <2>3 DEF Known
  <2> QED BY <2>5, <2>7, <2>8, <2>9
<1>2. CASE hits # {}
  <2>1. first \in hits /\ first \in DOMAIN stateEntryList
    <3>1. hits \subseteq Nat /\ hits \subseteq DOMAIN stateEntryList
      BY HitsAreIndices
    <3>2. first \in hits
      <4> HIDE DEF hits
      <4> QED BY <1>2, <3>1, MinIsElement
    <3> QED BY <3>1, <3>2
  <2>2. CASE first \in Opened(h)
    <3>1. stateEntryList' = stateEntryList
      BY <1>2, <2>2 DEF PushTransport, Remember
    <3>2. Known(h)
      BY <2>2 DEF Opened, Known
    <3> QED BY <3>1, <3>2 DEF Mirrored, Unambiguous, Known
  <2>3. CASE first \notin Opened(h)
    <3>1. stateEntryList' = [stateEntryList EXCEPT ![first].gotReply = TRUE]
      BY <1>2, <2>3 DEF PushTransport, Remember
    <3> HIDE DEF first
    <3>2. /\ DOMAIN stateEntryList' = DOMAIN stateEntryList
          /\ stateEntryList'[first].gotReply
          /\ \A k \in DOMAIN stateEntryList :
               /\ stateEntryList'[k].protocol = stateEntryList[k].protocol
               /\ stateEntryList'[k].addr = stateEntryList[k].addr
               /\ stateEntryList'[k].replyAddr = stateEntryList[k].replyAddr
               /\ stateEntryList[k].gotReply => stateEntryList'[k].gotReply
      <4>1. \A k \in DOMAIN stateEntryList : stateEntryList[k] \in StateEntry
        BY <1>0
      <4> QED BY <2>1, <3>1, <4>1 DEF StateEntry
    <3>3. first \in Answered(h)
      BY <2>1, <2>3
    <3>4. Known(h)'
      BY <2>1, <3>2, <3>3 DEF Known, Answered
    <3>5. Mirrored' /\ Unambiguous'
      BY <3>2 DEF Mirrored, Unambiguous, IsTransport
    <3>6. \A g \in Header : Known(g) => Known(g)'
      BY <3>2 DEF Known
    <3> QED BY <3>4, <3>5, <3>6
  <2> QED BY <2>2, <2>3
<1> QED BY <1>1, <1>2

\* push finds the connection an answer belongs to, whichever side opened it.
LEMMA AnswerEstablished ==
    ASSUME SMTypeOK, Mirrored, Unambiguous, NEW h \in Header, NEW w \in Header,
           Known(w), h # w, IsTransport(h), Answers(h, w), PushTransport(h)
    PROVE  state' = "ESTABLISHED"
<1> DEFINE hits  == Opened(h) \cup Answered(h)
           first == Min(hits)
<1>1. /\ h.protocol = w.protocol /\ h.addr = Mirror(w.addr)
      /\ w.addr \in addrEntry /\ h.addr # w.addr
  BY DEF Answers, Header, IsTransport
<1>2. PICK i \in DOMAIN stateEntryList :
        /\ stateEntryList[i].protocol = w.protocol
        /\ \/ stateEntryList[i].addr = w.addr
           \/ stateEntryList[i].replyAddr = w.addr /\ stateEntryList[i].gotReply
  BY DEF Known
<1>3. IsTransport(stateEntryList[i]) /\ stateEntryList[i].addr \in addrEntry
  BY <1>1, <1>2 DEF IsTransport, SMTypeOK, StateEntry
<1>4. stateEntryList[i].replyAddr = Mirror(stateEntryList[i].addr)
  BY <1>3 DEF Mirrored
<1>5. i \in hits
  BY <1>1, <1>2, <1>3, <1>4, MirrorType DEF Opened, Answered
<1>6. first \in hits /\ first \in DOMAIN stateEntryList
  <2>1. hits \subseteq Nat /\ hits \subseteq DOMAIN stateEntryList
    BY HitsAreIndices
  <2>2. first \in hits
    <3> HIDE DEF hits
    <3> QED BY <1>5, <2>1, MinIsElement
  <2> QED BY <2>1, <2>2
<1>7. CASE first \notin Opened(h)
  BY <1>5, <1>7 DEF PushTransport, Remember, Classified
<1>8. CASE first \in Opened(h)
  <2>1. stateEntryList[first].addr = h.addr /\ stateEntryList[first].protocol = w.protocol
    BY <1>1, <1>8 DEF Opened
  <2>2. IsTransport(stateEntryList[first])
    BY <1>1, <2>1 DEF IsTransport
  <2>3. CASE stateEntryList[i].addr = w.addr
    <3>1. stateEntryList[first].addr = stateEntryList[i].replyAddr
      BY <1>1, <1>4, <2>1, <2>3
    <3>2. first = i
      BY <1>2, <1>6, <2>1, <2>2, <3>1 DEF Unambiguous
    <3> QED BY <1>1, <2>1, <2>3, <3>2
  <2>4. CASE stateEntryList[i].replyAddr = w.addr /\ stateEntryList[i].gotReply
    <3>1. stateEntryList[i].addr = h.addr
      BY <1>1, <1>3, <1>4, <2>4, MirrorType
    <3>2. first = i
      BY <1>2, <1>6, <2>1, <2>2, <3>1 DEF Unambiguous
    <3> HIDE DEF first
    <3>3. state' = IF stateEntryList[first].gotReply THEN "ESTABLISHED" ELSE "NEW"
      BY <1>5, <1>8 DEF PushTransport, Remember, Classified, first
    <3> QED BY <2>4, <3>2, <3>3
  <2> QED BY <1>2, <2>3, <2>4
<1> QED BY <1>7, <1>8

\* ICMP and unsupported packets leave the transport entries as they are.
LEMMA PushOtherFree ==
    ASSUME SMTypeOK, Mirrored, Unambiguous, NEW h \in Header, Push(h), ~IsTransport(h)
    PROVE  /\ Mirrored' /\ Unambiguous'
           /\ \A g \in Header : Known(g) => Known(g)'
<1>0. stateEntryList \in Seq(StateEntry)
  BY DEF SMTypeOK
<1>1. CASE stateEntryList' = stateEntryList
  BY <1>1 DEF Mirrored, Unambiguous, Known
<1>2. CASE stateEntryList' = Append(stateEntryList, NewEntry(h))
  <2> DEFINE n == Len(stateEntryList) + 1
  <2>1. NewEntry(h) \in StateEntry
    BY NewEntryType
  <2>2. /\ DOMAIN stateEntryList' = DOMAIN stateEntryList \cup {n}
        /\ n \notin DOMAIN stateEntryList
        /\ stateEntryList'[n] = NewEntry(h)
        /\ \A k \in DOMAIN stateEntryList : stateEntryList'[k] = stateEntryList[k]
    <3> HIDE DEF NewEntry
    <3> QED BY <1>0, <1>2, <2>1
  <2> HIDE DEF n
  <2>3. ~IsTransport(NewEntry(h))
    BY DEF NewEntry, IsTransport
  <2>4. Mirrored' /\ \A g \in Header : Known(g) => Known(g)'
    BY <2>2, <2>3 DEF Mirrored, Known
  <2>5. Unambiguous'
    BY <2>2, <2>3 DEF Unambiguous, IsTransport
  <2> QED BY <2>4, <2>5
<1>3. stateEntryList' \in {stateEntryList, Append(stateEntryList, NewEntry(h))}
  BY DEF Push, PushUnsupported, PushTransport, Remember, PushIcmpQuery, PushIcmpReply, PushIcmpError,
         smVars, IsTransport
<1> QED BY <1>1, <1>2, <1>3

\* Where an entry mirrors its connection, the tuples before and after a stage are the same.
LEMMA PresentMappingFree ==
    ASSUME SMTypeOK, Mirrored, packet # NoPacket, IsTransport(packet),
           NEW t \in NatType, PresentMapping(t)
    PROVE  packet' = packet
<1> DEFINE hits  == UNION {FromOriginator(t, packet), FromReplier(t, packet),
                           RelatedOriginator(t, packet), RelatedReplier(t, packet)}
           first == Min(hits)
           e     == stateEntryList[first]
<1>1. CASE hits = {}
  BY <1>1 DEF PresentMapping
<1>2. CASE hits # {}
  <2>1. first \in hits /\ first \in DOMAIN stateEntryList
    <3>1. hits \subseteq Nat /\ hits \subseteq DOMAIN stateEntryList
      BY HitsAreIndices
    <3>2. first \in hits
      <4> HIDE DEF hits
      <4> QED BY <1>2, <3>1, MinIsElement
    <3> QED BY <3>1, <3>2
  <2>2. first \in FromOriginator(t, packet) \cup FromReplier(t, packet)
    BY <2>1 DEF RelatedOriginator, RelatedReplier, IsTransport
  <2>3. IsTransport(e)
    BY <2>2 DEF FromOriginator, FromReplier, IsTransport
  <2>4. e.replyAddr = Mirror(e.addr) /\ e.addr \in addrEntry
    BY <2>1, <2>3 DEF Mirrored, SMTypeOK, StateEntry
  <2>5. AfterDnat(e) = e.addr
    <3> HIDE DEF e
    <3> QED BY <2>4 DEF AfterDnat, Mirror, addrEntry
  <2>6. /\ OriginatorAfter(t, e) = OriginatorBefore(t, e)
        /\ ReplyAfter(t, e) = ReplyBefore(t, e)
    <3> HIDE DEF e
    <3> QED BY <2>4, <2>5, MirrorType
            DEF OriginatorAfter, OriginatorBefore, ReplyAfter, ReplyBefore
  <2>7. packet' = IF first \in FromOriginator(t, packet)
                  THEN Rewrite(packet, OriginatorAfter(t, e))
                  ELSE Rewrite(packet, ReplyAfter(t, e))
    BY <1>2, <2>2 DEF PresentMapping
  <2>8. packet' = Rewrite(packet, packet.addr)
    <3>1. CASE first \in FromOriginator(t, packet)
      <4>1. OriginatorBefore(t, e) = packet.addr
        BY <3>1 DEF FromOriginator
      <4> QED BY <2>6, <2>7, <3>1, <4>1
    <3>2. CASE first \notin FromOriginator(t, packet)
      <4>1. ReplyBefore(t, e) = packet.addr
        BY <2>2, <3>2 DEF FromReplier
      <4> QED BY <2>6, <2>7, <3>2, <4>1
    <3> QED BY <3>1, <3>2
  <2>9. packet \in Header
    BY DEF SMTypeOK
  <2> QED BY <2>8, <2>9 DEF Rewrite, Header
<1> QED BY <1>1, <1>2

LEMMA FreeInit == Init => FreeInv
<1> SUFFICES ASSUME Init PROVE FreeInv
  OBVIOUS
<1>1. stateEntryList = <<>> /\ arrived = NoPacket /\ witness = NoPacket
  BY DEF Init, SMInit
<1>2. Mirrored /\ Unambiguous
  BY <1>1 DEF Mirrored, Unambiguous
<1>3. KnownHistory /\ Transparent /\ NatFreeReply
  BY <1>1 DEF KnownHistory, Transparent, NatFreeReply
<1> QED BY <1>2, <1>3 DEF FreeInv

\* With empty chains a nat table is passed without touching the packet or the entry list.
LEMMA PassNatFree ==
    ASSUME Base, FreeInv, NatFree, NEW from, PassNat(from)
    PROVE  /\ stateEntryList' = stateEntryList /\ state' = state
           /\ IsTransport(packet) /\ packet # NoPacket => packet' = packet
<1>1. Mirrored /\ SMTypeOK
  BY DEF FreeInv, Base, SMInv
<1>2. CASE UNCHANGED smVars
  BY <1>2 DEF smVars
<1>3. CASE StaticNat(NatTypeHere, NoIP, NoPort)
  <2>1. PresentMapping(NatTypeHere) /\ state' = state /\ packet # NoPacket
    BY <1>3 DEF StaticNat
  <2>2. NatTypeHere \in NatType
    BY DEF NatTypeHere, NatType
  <2>3. stateEntryList' = stateEntryList
    BY <2>1 DEF PresentMapping
  <2> QED BY <1>1, <2>1, <2>2, <2>3, PresentMappingFree
<1> QED BY <1>2, <1>3, PassNatStep

LEMMA FreeStep == Base /\ FreeInv /\ [Next]_vars => FreeInv'
<1> SUFFICES ASSUME Base, FreeInv, [Next]_vars PROVE FreeInv'
  OBVIOUS
<1>1. config' = config
  BY DEF Next, vars, Receive, MeetNatRule, PassOutput, PassOutPostrouting, PassPrerouting,
         PassPostrouting, PassNat, Accept, Discard
<1> SUFFICES ASSUME NatFree
             PROVE  /\ Mirrored' /\ Unambiguous' /\ KnownHistory'
                    /\ Transparent' /\ NatFreeReply'
  BY <1>1 DEF FreeInv, NatFree
<1>2. Mirrored /\ Unambiguous /\ KnownHistory /\ Transparent /\ NatFreeReply
  BY DEF FreeInv
<1>3. /\ SMTypeOK /\ HistoryOK
  BY DEF Base, SMInv
<1>4. ASSUME NEW h \in Traffic, Receive(h)
      PROVE  /\ Mirrored' /\ Unambiguous' /\ KnownHistory'
             /\ Transparent' /\ NatFreeReply'
  <2>1. h \in Header /\ Push(h) /\ arrived' = packet' /\ witness' = witness
    BY <1>4, TrafficAssumption DEF Receive
  <2>2. witness # NoPacket => witness.in \in Header /\ witness.out \in Header
    BY <1>3 DEF HistoryOK
  <2>3. Transparent'
    BY <2>1 DEF Transparent
  <2>4. CASE IsTransport(h)
    <3>1. PushTransport(h)
      BY <2>1, <2>4 DEF Push, PushUnsupported, PushIcmpQuery, PushIcmpReply, PushIcmpError,
                        IsTransport
    <3>2. packet' = h
      BY <3>1 DEF PushTransport, Remember, Classified
    <3>3. /\ Mirrored' /\ Unambiguous' /\ Known(h)'
          /\ \A g \in Header : Known(g) => Known(g)'
      BY <1>2, <1>3, <2>1, <3>1, PushTransportFree
    <3>4. KnownHistory'
      BY <1>2, <2>1, <2>2, <3>2, <3>3 DEF KnownHistory, Known
    <3>5. NatFreeReply'
      <4> SUFFICES ASSUME witness # NoPacket, Answers(h, witness.out), h # witness.out
                   PROVE  state' = "ESTABLISHED"
        BY <2>1, <3>2 DEF NatFreeReply
      <4>1. IsTransport(witness.out)
        BY <2>4 DEF Answers, IsTransport
      <4>2. Known(witness.out)
        <5>1. CASE IsTransport(witness.in)
          BY <1>2, <5>1 DEF KnownHistory, Known
        <5>2. CASE ~IsTransport(witness.in)
          BY <1>3, <4>1, <5>2 DEF HistoryOK, IsTransport
        <5> QED BY <5>1, <5>2
      <4> QED BY <1>2, <1>3, <2>1, <2>2, <2>4, <3>1, <4>2, AnswerEstablished
    <3> QED BY <2>3, <3>3, <3>4, <3>5
  <2>5. CASE ~IsTransport(h)
    <3>1. packet' = h \/ packet' = NoPacket
      BY <1>3, <2>1, PushStep DEF Push
    <3>2. /\ Mirrored' /\ Unambiguous'
          /\ \A g \in Header : Known(g) => Known(g)'
      BY <1>2, <1>3, <2>1, <2>5, PushOtherFree
    <3>3. KnownHistory'
      BY <1>2, <2>1, <2>2, <2>5, <3>1, <3>2 DEF KnownHistory, Known
    <3>4. NatFreeReply'
      BY <2>1, <2>5, <3>1 DEF NatFreeReply
    <3> QED BY <2>3, <3>2, <3>3, <3>4
  <2> QED BY <2>4, <2>5
<1>5. CASE MeetNatRule
  <2>1. NatChain = <<>>
    BY DEF NatFree, NatChain
  <2>2. rule \in Nat \ {0}
    BY DEF Base, ScriptOK
  <2> QED BY <1>5, <2>1, <2>2 DEF MeetNatRule
<1>6. CASE PassOutput \/ PassOutPostrouting \/ PassPrerouting \/ PassPostrouting
  <2>1. PICK from : PassNat(from)
    BY <1>6 DEF PassOutput, PassOutPostrouting, PassPrerouting, PassPostrouting
  <2>2. /\ stateEntryList' = stateEntryList /\ state' = state
        /\ arrived' = arrived /\ witness' = witness
    BY <2>1, PassNatFree DEF PassNat
  <2>3. Transparent'
    <3>1. arrived # NoPacket /\ IsTransport(arrived) => packet # NoPacket /\ packet = arrived
      BY <1>2, <1>3 DEF HistoryOK, Transparent
    <3> QED BY <2>1, <2>2, <3>1, PassNatFree DEF Transparent
  <2> QED BY <1>2, <2>2, <2>3, <1>1
      DEF Mirrored, Unambiguous, KnownHistory, Known, NatFreeReply, NatFree
<1>7. CASE Accept
  <2>1. /\ stateEntryList' = stateEntryList /\ arrived' = NoPacket
        /\ packet # NoPacket /\ arrived # NoPacket
        /\ \/ witness' = witness
           \/ witness' = [in |-> arrived, out |-> packet, state |-> state]
    BY <1>3, <1>7 DEF Accept, Leave, HistoryOK
  <2>2. KnownHistory'
    <3>1. CASE witness' = witness
      BY <1>2, <2>1, <3>1 DEF KnownHistory, Known
    <3>2. CASE witness' = [in |-> arrived, out |-> packet, state |-> state]
      <4>1. witness'.in = arrived /\ witness'.out = packet
        BY <3>2
      <4>2. IsTransport(arrived) => Known(arrived) /\ packet = arrived
        BY <1>2, <2>1 DEF KnownHistory, Transparent
      <4> QED BY <2>1, <4>1, <4>2 DEF KnownHistory, Known
    <3> QED BY <2>1, <3>1, <3>2
  <2>3. Transparent' /\ NatFreeReply'
    BY <2>1 DEF Transparent, NatFreeReply
  <2>4. Mirrored' /\ Unambiguous'
    BY <1>2, <2>1 DEF Mirrored, Unambiguous
  <2> QED BY <2>2, <2>3, <2>4
<1>8. CASE Discard
  <2>1. stateEntryList' = stateEntryList /\ arrived' = NoPacket /\ witness' = witness
    BY <1>8 DEF Discard, Leave
  <2>2. Transparent' /\ NatFreeReply'
    BY <2>1 DEF Transparent, NatFreeReply
  <2>3. Mirrored' /\ Unambiguous' /\ KnownHistory'
    BY <1>2, <2>1 DEF Mirrored, Unambiguous, KnownHistory, Known
  <2> QED BY <2>2, <2>3
<1>9. CASE UNCHANGED vars
  BY <1>2, <1>9 DEF vars, Mirrored, Unambiguous, KnownHistory, Known, Transparent,
                    NatFreeReply, NatFree
<1> QED BY <1>4, <1>5, <1>6, <1>7, <1>8, <1>9 DEF Next

\* Without nat rules the two translations and the tracking of all packets before it leave a
\* TCP or UDP packet exactly as it was sent.
THEOREM NatFreeTransparent == Spec => []Transparent
<1>1. FreeInv => Transparent
  BY DEF FreeInv, Transparent
<1> QED BY <1>1, BaseInit, BaseStep, FreeInit, FreeStep, PTL DEF Spec

\* Without nat rules the answer to an accepted TCP or UDP packet is always ESTABLISHED.
THEOREM NatFreeReplies == Spec => []NatFreeReply
<1>1. FreeInv => NatFreeReply
  BY DEF FreeInv, NatFreeReply
<1> QED BY <1>1, BaseInit, BaseStep, FreeInit, FreeStep, PTL DEF Spec

-----------------------------------------------------------------------------
(***************************************************************************)
(* With nat rules.  A NEW packet walks the chains and each rule it meets   *)
(* writes to its entry, a later packet gets what the entry holds.  The     *)
(* theorems assume EffectiveRules: a rule that matches without changing    *)
(* the packet leaves it to the next rule of the chain, but has already     *)
(* written to the entry, which is without its mapping until the chain ends.*)
(*                                                                         *)
(* Constant definitions first: the headers on the path of a NEW packet,    *)
(* the tuples on the path of an ESTABLISHED one, and where in between a    *)
(* packet can be.                                                          *)
(***************************************************************************)

\* What a chain makes of header h: only the first rule that matches has an effect.
Matching(chain, h) == {i \in DOMAIN chain : h \in chain[i].match}
Retupled(h, a) == [h EXCEPT !.addr = a]
Through(t, chain, h) ==
    IF Matching(chain, h) = {} THEN h
    ELSE Retupled(h, To(t, chain[Min(Matching(chain, h))], h.addr))

FromLocal(h) == h.addr.srcIP \in LocalIP
ForLocal(h)  == h.addr.dstIP \in LocalIP

\* The path of a NEW packet h under nat table T: what OutputTraffic makes of it, whether
\* that is all (a packet of the firewall to itself arrives again), its header
\* behind the translation of the destination, and its last one.
Out(T, h)   == Through("src", T.POSTROUTING, Through("dst", T.OUTPUT, h))
Early(T, h) == FromLocal(h) /\ (Out(T, h) # h \/ ~ForLocal(h))
Dst(T, h)   == Through("dst", IF Early(T, h) THEN T.OUTPUT ELSE T.PREROUTING, h)
Final(T, h) == IF Early(T, h) \/ ~ForLocal(Dst(T, h))
               THEN Through("src", T.POSTROUTING, Dst(T, h)) ELSE Dst(T, h)

\* Packet p in a chain that a entered, in front of rule n.
Midway(t, chain, n, a, p) ==
    \/ p = a /\ \A j \in Matching(chain, a) : j >= n
    \/ p = Through(t, chain, a) /\ p # a

\* Packet p, sent as h and NEW, at place w of the script.
Stage(T, w, n, h, p) ==
    \/ w = "output" /\ FromLocal(h) /\ Midway("dst", T.OUTPUT, n, h, p)
    \/ /\ w = "outPostrouting" /\ FromLocal(h)
       /\ Midway("src", T.POSTROUTING, n, Through("dst", T.OUTPUT, h), p)
    \/ w = "prerouting" /\ ~Early(T, h) /\ Midway("dst", T.PREROUTING, n, h, p)
    \/ w = "prerouting" /\ Early(T, h) /\ p = Final(T, h) /\ p # h /\ ForLocal(p)
    \/ /\ w = "postrouting" /\ ~Early(T, h) /\ ~ForLocal(Dst(T, h))
       /\ Midway("src", T.POSTROUTING, n, Dst(T, h), p)
    \/ w \in {"input", "accept"} /\ p = Final(T, h)

AsSent(e) == [protocol |-> e.protocol, addr |-> e.addr, type |-> e.type]
Opens(h)  == IsTransport(h) \/ (h.protocol = "ICMP" /\ h.type \in QueryTypes)

\* The reply tuple a of a connection opened by h is where p has got, or an earlier packet.
Follows(T, a, h, p) ==
    \/ a \in {Mirror(p.addr), Mirror(Final(T, h).addr)}
    \/ p = h /\ a = Mirror(Dst(T, h).addr)
Mapped(T, e) ==
    /\ AsSent(e) \in Header /\ Opens(AsSent(e))
    /\ Follows(T, e.replyAddr, AsSent(e), AsSent(e))
Owns(T, e, h, p) ==
    /\ AsSent(e) = h /\ (IsTransport(h) => ~e.gotReply)
    /\ Follows(T, e.replyAddr, h, p)

\* The tuples a packet of connection e carries that was sent as a, before, between and
\* behind the two translations, and the one it leaves with.
Half(e, a)  == IF a = e.addr THEN AfterDnat(e) ELSE Mirror(AfterDnat(e))
Whole(e, a) == IF a = e.addr THEN Mirror(e.replyAddr) ELSE Mirror(e.addr)
Exit(e, a)  == IF a.srcIP \in LocalIP \/ Half(e, a).dstIP \notin LocalIP
               THEN Whole(e, a) ELSE Half(e, a)

\* Tuple b of an ESTABLISHED packet that was sent with a, at place w.
Carried(e, w, a, b) ==
    \/ w = "output" /\ a.srcIP \in LocalIP /\ b = a
    \/ w = "outPostrouting" /\ a.srcIP \in LocalIP /\ b = Half(e, a)
    \/ w = "prerouting" /\ b = IF a.srcIP \in LocalIP THEN Whole(e, a) ELSE a
    \/ /\ w = "postrouting"
       /\ IF a.srcIP \in LocalIP THEN b = Whole(e, a)
          ELSE b = Half(e, a) /\ b.dstIP \notin LocalIP
    \/ w = "input" /\ b = Exit(e, a)
    \/ w = "accept" /\ b = Exit(e, a) /\ b = Whole(e, a)

Replied(e, h) ==
    /\ e.protocol = h.protocol /\ (IsTransport(h) => e.gotReply)
    /\ h.addr \in {e.addr, e.replyAddr}

\* A packet keeps its kind, and its kind decides which states it can have.
Kind(h, p, s) ==
    /\ p.protocol = h.protocol /\ p.type = h.type
    /\ IsTransport(h) => s \in {"NEW", "ESTABLISHED"}
    /\ Opens(h) /\ ~IsTransport(h) => s = "NEW"
    /\ s = "NEW" => Opens(h)

InFlight(T, L, w, n, h, p, s) ==
    /\ Kind(h, p, s)
    /\ s = "NEW" => Stage(T, w, n, h, p) /\ \E i \in DOMAIN L : Owns(T, L[i], h, p)
    /\ s = "ESTABLISHED" => \E i \in DOMAIN L : Replied(L[i], h) /\ Carried(L[i], w, h.addr, p.addr)

Remembered(T, L, m) ==
    /\ Kind(m.in, m.out, m.state)
    /\ m.state = "NEW" =>
         /\ m.out = Final(T, m.in)
         /\ \E i \in DOMAIN L : AsSent(L[i]) = m.in /\ L[i].replyAddr = Mirror(m.out.addr)
    /\ m.state = "ESTABLISHED" /\ IsTransport(m.in) =>
         \E i \in DOMAIN L : Replied(L[i], m.in) /\ m.out.addr = Exit(L[i], m.in.addr)

NatInv ==
    ~clash =>
        /\ Disjoint(stateEntryList)
        /\ \A i \in DOMAIN stateEntryList : Mapped(NatRules[config], stateEntryList[i])
        /\ packet # NoPacket =>
             InFlight(NatRules[config], stateEntryList, where, rule, arrived, packet, state)
        /\ witness # NoPacket => Remembered(NatRules[config], stateEntryList, witness)

-----------------------------------------------------------------------------
(* The operators on tuples.                                                *)

LEMMA LeastIsMin ==
    ASSUME NEW S, S \subseteq Nat, NEW i \in S, \A j \in S : j >= i
    PROVE  Min(S) = i
<1>1. \A y \in S : i <= y
  OBVIOUS
<1>2. Min(S) \in S /\ \A y \in S : Min(S) <= y
  BY <1>1 DEF Min
<1>3. /\ Min(S) \in Nat /\ i \in Nat
      /\ Min(S) <= i /\ i <= Min(S)
  BY <1>1, <1>2
<1> QED BY <1>3

\* Translation t leaves the other half of the tuple.
Keeps(t, a, b) == IF t = "dst" THEN a.srcIP = b.srcIP /\ a.srcPort = b.srcPort
                               ELSE a.dstIP = b.dstIP /\ a.dstPort = b.dstPort
Other(t) == IF t = "dst" THEN "src" ELSE "dst"

LEMMA HalvesMakeTuple ==
    ASSUME NEW a \in addrEntry, NEW b \in addrEntry, Keeps("dst", a, b), Keeps("src", a, b)
    PROVE  a = b
BY DEF Keeps, addrEntry

LEMMA ToType ==
    ASSUME NEW t \in NatType, NEW r \in NatRule, NEW a \in addrEntry
    PROVE  /\ To(t, r, a) \in addrEntry
           /\ Keeps(t, To(t, r, a), a)
           /\ HasPorts(a) => HasPorts(To(t, r, a))
           /\ NoPorts(a) /\ r.port = NoPort => NoPorts(To(t, r, a))
<1>1. r.ip \in IP /\ r.port \in Port \cup {NoPort}
  BY DEF NatRule
<1>2. NoPort \notin Port
  BY PortAssumption
<1> QED BY <1>1, <1>2 DEF To, Keeps, addrEntry, HasPorts, NoPorts, Overwrite, NatType

LEMMA MapToMirror ==
    ASSUME NEW t \in NatType, NEW r \in NatRule, NEW a \in addrEntry
    PROVE  MapTo(t, r.ip, r.port, Mirror(a)) = Mirror(To(t, r, a))
<1>1. r.ip \in IP /\ r.ip # NoIP
  BY IPAssumption DEF NatRule
<1> QED BY <1>1 DEF MapTo, Mirror, To, Overwrite, addrEntry

\* A rule has no second effect, also where the other translation came between.
LEMMA ToTwice ==
    ASSUME NEW t \in NatType, NEW r \in NatRule, NEW a \in addrEntry, NEW b \in addrEntry,
           Keeps(Other(t), b, To(t, r, a))
    PROVE  To(t, r, b) = b
<1>1. CASE t = "dst"
  <2>1. b.dstIP = r.ip /\ b.dstPort = Overwrite(a.dstPort, r.port, NoPort)
    BY <1>1 DEF Keeps, Other, To, addrEntry
  <2>2. Overwrite(b.dstPort, r.port, NoPort) = b.dstPort
    BY <2>1 DEF Overwrite
  <2> QED BY <1>1, <2>1, <2>2 DEF To, addrEntry
<1>2. CASE t = "src"
  <2>1. b.srcIP = r.ip /\ b.srcPort = Overwrite(a.srcPort, r.port, NoPort)
    BY <1>2 DEF Keeps, Other, To, addrEntry
  <2>2. Overwrite(b.srcPort, r.port, NoPort) = b.srcPort
    BY <2>1 DEF Overwrite
  <2> QED BY <1>2, <2>1, <2>2 DEF To, addrEntry
<1> QED BY <1>1, <1>2 DEF NatType

\* Headers of one protocol and type differ by their tuples.
Alike(g, h) == g.protocol = h.protocol /\ g.type = h.type

LEMMA AlikeByTuple ==
    ASSUME NEW g \in Header, NEW h \in Header, Alike(g, h), g.addr = h.addr
    PROVE  g = h
BY DEF Header, Alike

LEMMA RetupledType ==
    ASSUME NEW h \in Header, NEW a \in addrEntry,
           IF IsTransport(h) THEN HasPorts(a) ELSE NoPorts(a)
    PROVE  /\ Retupled(h, a) \in Header
           /\ Retupled(h, a).addr = a
           /\ Alike(Retupled(h, a), h)
BY DEF Retupled, Header, Alike, IsTransport

\* Rewrite of a packet by a tuple of its kind is the packet with that tuple.
LEMMA RewriteRetuples ==
    ASSUME NEW h \in Header, NEW a \in addrEntry,
           IF IsTransport(h) THEN HasPorts(a) ELSE NoPorts(a)
    PROVE  Rewrite(h, a) = Retupled(h, a)
<1>1. CASE IsTransport(h)
  BY <1>1 DEF Rewrite, Retupled
<1>2. CASE ~IsTransport(h)
  <2>1. h.addr \in addrEntry /\ NoPorts(h.addr) /\ NoPorts(a)
    BY <1>2 DEF Header
  <2>2. [h.addr EXCEPT !.srcIP = a.srcIP, !.dstIP = a.dstIP] = a
    BY <2>1 DEF addrEntry, NoPorts
  <2>3. Rewrite(h, a) = [h EXCEPT !.addr = [h.addr EXCEPT !.srcIP = a.srcIP, !.dstIP = a.dstIP]]
    BY <1>2 DEF Rewrite, Header, addrEntry
  <2> QED BY <2>2, <2>3 DEF Retupled
<1> QED BY <1>1, <1>2

-----------------------------------------------------------------------------
(* What a chain makes of a header.                                         *)

LEMMA MatchingType ==
    ASSUME NEW chain \in Seq(NatRule), NEW h
    PROVE  /\ Matching(chain, h) \subseteq 1 .. Len(chain) /\ Len(chain) \in Nat
           /\ Matching(chain, h) \subseteq Nat
           /\ \A i \in Matching(chain, h) : chain[i] \in NatRule /\ h \in chain[i].match
<1>1. DOMAIN chain = 1 .. Len(chain) /\ Len(chain) \in Nat
  OBVIOUS
<1> QED BY <1>1 DEF Matching

LEMMA ThroughType ==
    ASSUME NEW t \in NatType, NEW chain \in Seq(NatRule), Effective(t, chain), NEW h \in Header
    PROVE  /\ Through(t, chain, h) \in Header /\ Alike(Through(t, chain, h), h)
           /\ Keeps(t, Through(t, chain, h).addr, h.addr)
           /\ Matching(chain, h) # {} => Through(t, chain, h) # h
           /\ Matching(chain, h) = {} => Through(t, chain, h) = h
<1> DEFINE i == Min(Matching(chain, h))
<1>0. h.addr \in addrEntry
  BY DEF Header
<1>1. CASE Matching(chain, h) = {}
  BY <1>0, <1>1 DEF Through, Alike, Keeps
<1>2. CASE Matching(chain, h) # {}
  <2>1. i \in Matching(chain, h)
    BY <1>2, MatchingType, MinIsElement
  <2> HIDE DEF i
  <2>2. chain[i] \in NatRule /\ h \in chain[i].match /\ i \in DOMAIN chain
    BY <2>1, MatchingType DEF Matching
  <2>3. To(t, chain[i], h.addr) # h.addr /\ (chain[i].port # NoPort => IsTransport(h))
    BY <2>2 DEF Effective
  <2>4. /\ To(t, chain[i], h.addr) \in addrEntry
        /\ Keeps(t, To(t, chain[i], h.addr), h.addr)
        /\ IF IsTransport(h) THEN HasPorts(To(t, chain[i], h.addr))
                             ELSE NoPorts(To(t, chain[i], h.addr))
    BY <1>0, <2>2, <2>3, ToType DEF Header
  <2>5. Through(t, chain, h) = Retupled(h, To(t, chain[i], h.addr))
    BY <1>2 DEF Through, i
  <2> QED BY <1>2, <2>3, <2>4, <2>5, RetupledType
<1> QED BY <1>1, <1>2

\* The first rule that matches decides.
LEMMA ThroughFirst ==
    ASSUME NEW t, NEW chain \in Seq(NatRule), NEW h, NEW n \in Matching(chain, h),
           \A j \in Matching(chain, h) : j >= n
    PROVE  Through(t, chain, h) = Retupled(h, To(t, chain[n], h.addr))
<1>1. Min(Matching(chain, h)) = n
  BY MatchingType, LeastIsMin
<1> QED BY <1>1 DEF Through

Applicable(T) ==
    /\ T \in NatTable
    /\ Effective("dst", T.OUTPUT) /\ Effective("dst", T.PREROUTING)
    /\ Effective("src", T.POSTROUTING)

LEMMA TableChains ==
    ASSUME NEW T, Applicable(T)
    PROVE  /\ T.OUTPUT \in Seq(NatRule) /\ T.PREROUTING \in Seq(NatRule)
           /\ T.POSTROUTING \in Seq(NatRule)
BY DEF Applicable, NatTable

\* The three headers of a NEW packet h.
LEMMA HeadersOfPath ==
    ASSUME NEW T, Applicable(T), NEW h \in Header
    PROVE  /\ Dst(T, h) \in Header /\ Alike(Dst(T, h), h) /\ Keeps("dst", Dst(T, h).addr, h.addr)
           /\ Final(T, h) \in Header /\ Alike(Final(T, h), h)
           /\ Keeps("src", Final(T, h).addr, Dst(T, h).addr)
           /\ Final(T, h) = h => Dst(T, h) = h
<1>0. "dst" \in NatType /\ "src" \in NatType
  BY DEF NatType
<1>1. /\ Dst(T, h) \in Header /\ Alike(Dst(T, h), h) /\ Keeps("dst", Dst(T, h).addr, h.addr)
  BY <1>0, TableChains, ThroughType DEF Dst, Applicable
<1>2. /\ Final(T, h) \in Header /\ Alike(Final(T, h), Dst(T, h))
      /\ Keeps("src", Final(T, h).addr, Dst(T, h).addr)
  <2>1. CASE Final(T, h) = Dst(T, h)
    BY <1>1, <2>1 DEF Alike, Keeps
  <2>2. CASE Final(T, h) = Through("src", T.POSTROUTING, Dst(T, h))
    BY <1>0, <1>1, <2>2, TableChains, ThroughType DEF Applicable
  <2> QED BY <2>1, <2>2 DEF Final
<1>3. ASSUME Final(T, h) = h PROVE Dst(T, h) = h
  <2>1. Keeps("dst", Dst(T, h).addr, h.addr) /\ Keeps("src", Dst(T, h).addr, h.addr)
    BY <1>1, <1>2, <1>3 DEF Keeps
  <2>2. h.addr \in addrEntry /\ Dst(T, h).addr \in addrEntry
    BY <1>1 DEF Header
  <2> QED BY <1>1, <2>1, <2>2, HalvesMakeTuple, AlikeByTuple
<1> QED BY <1>1, <1>2, <1>3 DEF Alike

\* Where a packet of the firewall to itself is not changed on its way out, no rule matched.
LEMMA NotEarly ==
    ASSUME NEW T, Applicable(T), NEW h \in Header, FromLocal(h), ~Early(T, h)
    PROVE  /\ ForLocal(h)
           /\ Through("dst", T.OUTPUT, h) = h /\ Through("src", T.POSTROUTING, h) = h
<1> DEFINE g == Through("dst", T.OUTPUT, h)
<1>0. "dst" \in NatType /\ "src" \in NatType
  BY DEF NatType
<1>1. ForLocal(h) /\ Through("src", T.POSTROUTING, g) = h
  BY DEF Early, Out
<1>2. g \in Header /\ Alike(g, h) /\ Keeps("dst", g.addr, h.addr)
  BY <1>0, TableChains, ThroughType DEF Applicable
<1> HIDE DEF g
<1>3. Keeps("src", h.addr, g.addr)
  BY <1>0, <1>1, <1>2, TableChains, ThroughType DEF Applicable
<1>4. g.addr = h.addr
  BY <1>2, <1>3, HalvesMakeTuple DEF Keeps, Header
<1>5. g = h
  BY <1>2, <1>4, AlikeByTuple
<1> QED BY <1>1, <1>5 DEF g

LEMMA EarlyDst ==
    ASSUME NEW T, NEW h, Early(T, h)
    PROVE  Dst(T, h) = Through("dst", T.OUTPUT, h) /\ Final(T, h) = Out(T, h)
BY DEF Dst, Final, Out

-----------------------------------------------------------------------------
(* A NEW packet on its way through the chains.                             *)

ChainAt(T, w) == CASE w = "output"     -> T.OUTPUT
                   [] w = "prerouting" -> T.PREROUTING
                   [] OTHER            -> T.POSTROUTING
TypeAt(w)     == IF w \in {"output", "prerouting"} THEN "dst" ELSE "src"

\* The headers in front of and behind a translation.
Before(T, t, h) == IF t = "dst" THEN h ELSE Dst(T, h)
Behind(T, t, h) == IF t = "dst" THEN Dst(T, h) ELSE Final(T, h)

LEMMA ChainAtType ==
    ASSUME NEW T, Applicable(T), NEW w
    PROVE  /\ ChainAt(T, w) \in Seq(NatRule) /\ TypeAt(w) \in NatType
           /\ w \in {"output", "prerouting", "outPostrouting", "postrouting"}
                => Effective(TypeAt(w), ChainAt(T, w))
BY TableChains DEF ChainAt, TypeAt, NatType, Applicable

LEMMA MidwayMeets ==
    ASSUME NEW t \in NatType, NEW chain \in Seq(NatRule), Effective(t, chain),
           NEW a \in Header, NEW p, NEW n \in Nat \ {0}, Midway(t, chain, n, a, p),
           NEW b, b = Through(t, chain, a)
    PROVE  /\ n \notin Matching(chain, p) => Midway(t, chain, n + 1, a, p)
           /\ p = a /\ n \in Matching(chain, p)
                => /\ b = Retupled(p, To(t, chain[n], p.addr)) /\ b # a
                   /\ Midway(t, chain, n + 1, a, b)
           /\ p # a => Midway(t, chain, n + 1, a, p) /\ p = b
<1>1. Matching(chain, a) \subseteq 1 .. Len(chain) /\ Len(chain) \in Nat
  BY MatchingType
<1>2. CASE p = a /\ \A j \in Matching(chain, a) : j >= n
  <2>1. n \notin Matching(chain, a) => \A j \in Matching(chain, a) : j >= n + 1
    BY <1>1, <1>2
  <2>2. n \in Matching(chain, a) => b = Retupled(a, To(t, chain[n], a.addr)) /\ b # a
    BY <1>2, ThroughFirst, ThroughType
  <2> QED BY <1>2, <2>1, <2>2 DEF Midway
<1>3. CASE p = Through(t, chain, a) /\ p # a
  BY <1>3 DEF Midway
<1> QED BY <1>2, <1>3 DEF Midway

LEMMA MidwayEnds ==
    ASSUME NEW t \in NatType, NEW chain \in Seq(NatRule), Effective(t, chain),
           NEW a \in Header, NEW p, NEW n \in Nat \ {0}, Midway(t, chain, n, a, p), n > Len(chain)
    PROVE  p = Through(t, chain, a)
<1>1. Matching(chain, a) \subseteq 1 .. Len(chain) /\ Len(chain) \in Nat
  BY MatchingType
<1>2. CASE p = a /\ \A j \in Matching(chain, a) : j >= n
  <2>1. Matching(chain, a) = {}
    BY <1>1, <1>2
  <2> QED BY <1>2, <2>1, ThroughType
<1>3. CASE p = Through(t, chain, a)
  BY <1>3
<1> QED BY <1>2, <1>3 DEF Midway

\* In front of a rule a packet has not been translated in this chain, and the rule takes it
\* where the chain as a whole does, or it has been, here or by an earlier pair of chains.
LEMMA StageMeets ==
    ASSUME NEW T, Applicable(T), NEW h \in Header, NEW p \in Header, NEW n \in Nat \ {0},
           NEW w \in {"output", "prerouting", "outPostrouting", "postrouting"},
           Stage(T, w, n, h, p)
    PROVE  /\ n \notin Matching(ChainAt(T, w), p) => Stage(T, w, n + 1, h, p)
           /\ n \in Matching(ChainAt(T, w), p)
                => \/ /\ p = Before(T, TypeAt(w), h)
                      /\ Behind(T, TypeAt(w), h)
                           = Retupled(p, To(TypeAt(w), ChainAt(T, w)[n], p.addr))
                      /\ Stage(T, w, n + 1, h, Behind(T, TypeAt(w), h))
                   \/ /\ p # Before(T, TypeAt(w), h)
                      /\ p = Behind(T, TypeAt(w), h) \/ (p = Final(T, h) /\ p # h)
                      /\ Stage(T, w, n + 1, h, p)
<1> DEFINE chain == ChainAt(T, w)
           t     == TypeAt(w)
           g     == Through("dst", T.OUTPUT, h)
<1>0. chain \in Seq(NatRule) /\ t \in NatType /\ Effective(t, chain) /\ "dst" \in NatType
  BY ChainAtType DEF NatType
<1>1. g \in Header
  BY <1>0, TableChains, ThroughType DEF Applicable
<1>2. CASE w = "output"
  <2>1. chain = T.OUTPUT /\ t = "dst" /\ FromLocal(h) /\ Midway(t, chain, n, h, p)
    BY <1>2 DEF ChainAt, TypeAt, Stage
  <2>2. g # h => Early(T, h)
    BY <2>1, NotEarly
  <2>3. g # h => Dst(T, h) = g
    BY <2>2, EarlyDst
  <2>4. \A q : Midway(t, chain, n + 1, h, q) => Stage(T, w, n + 1, h, q)
    BY <1>2, <2>1 DEF Stage
  <2> HIDE DEF chain, t
  <2>5. /\ n \notin Matching(chain, p) => Midway(t, chain, n + 1, h, p)
        /\ p = h /\ n \in Matching(chain, p)
             => /\ g = Retupled(p, To(t, chain[n], p.addr)) /\ g # h
                /\ Midway(t, chain, n + 1, h, g)
        /\ p # h => Midway(t, chain, n + 1, h, p) /\ p = g
    BY <1>0, <2>1, MidwayMeets
  <2> QED BY <2>1, <2>3, <2>4, <2>5 DEF Before, Behind, chain, t
<1>3. CASE w = "outPostrouting"
  <2> DEFINE o == Through("src", T.POSTROUTING, g)
  <2>1. chain = T.POSTROUTING /\ t = "src" /\ FromLocal(h) /\ Midway(t, chain, n, g, p)
    BY <1>3 DEF ChainAt, TypeAt, Stage
  <2>2. o # g => Early(T, h)
    BY <2>1, NotEarly
  <2>3. o # g => Dst(T, h) = g /\ Final(T, h) = o
    BY <2>2, EarlyDst DEF Out
  <2>4. \A q : Midway(t, chain, n + 1, g, q) => Stage(T, w, n + 1, h, q)
    BY <1>3, <2>1 DEF Stage
  <2> HIDE DEF chain, t, g
  <2>5. /\ n \notin Matching(chain, p) => Midway(t, chain, n + 1, g, p)
        /\ p = g /\ n \in Matching(chain, p)
             => /\ o = Retupled(p, To(t, chain[n], p.addr)) /\ o # g
                /\ Midway(t, chain, n + 1, g, o)
        /\ p # g => Midway(t, chain, n + 1, g, p) /\ p = o
    BY <1>0, <1>1, <2>1, MidwayMeets
  <2> QED BY <2>1, <2>3, <2>4, <2>5 DEF Before, Behind, chain, t
<1>4. CASE w = "prerouting" /\ ~Early(T, h)
  <2>1. chain = T.PREROUTING /\ t = "dst" /\ Midway(t, chain, n, h, p)
    BY <1>4 DEF ChainAt, TypeAt, Stage
  <2>2. Dst(T, h) = Through(t, chain, h)
    BY <1>4, <2>1 DEF Dst
  <2>3. \A q : Midway(t, chain, n + 1, h, q) => Stage(T, w, n + 1, h, q)
    BY <1>4, <2>1 DEF Stage
  <2> HIDE DEF chain, t
  <2>4. /\ n \notin Matching(chain, p) => Midway(t, chain, n + 1, h, p)
        /\ p = h /\ n \in Matching(chain, p)
             => /\ Dst(T, h) = Retupled(p, To(t, chain[n], p.addr))
                /\ Midway(t, chain, n + 1, h, Dst(T, h))
        /\ p # h => Midway(t, chain, n + 1, h, p) /\ p = Dst(T, h)
    BY <1>0, <2>1, <2>2, MidwayMeets
  <2> QED BY <2>1, <2>3, <2>4 DEF Before, Behind, chain, t
<1>5. CASE w = "prerouting" /\ Early(T, h)
  <2>1. t = "dst" /\ p = Final(T, h) /\ p # h /\ ForLocal(p)
    BY <1>5 DEF TypeAt, Stage
  <2>2. Stage(T, w, n + 1, h, p)
    BY <1>5, <2>1 DEF Stage
  <2> QED BY <2>1, <2>2 DEF Before
<1>6. CASE w = "postrouting"
  <2>1. /\ chain = T.POSTROUTING /\ t = "src" /\ Midway(t, chain, n, Dst(T, h), p)
        /\ ~Early(T, h) /\ ~ForLocal(Dst(T, h))
    BY <1>6 DEF ChainAt, TypeAt, Stage
  <2>2. Final(T, h) = Through(t, chain, Dst(T, h))
    BY <2>1 DEF Final
  <2>3. \A q : Midway(t, chain, n + 1, Dst(T, h), q) => Stage(T, w, n + 1, h, q)
    BY <1>6, <2>1 DEF Stage
  <2>4. Dst(T, h) \in Header
    BY HeadersOfPath
  <2> HIDE DEF chain, t
  <2>5. /\ n \notin Matching(chain, p) => Midway(t, chain, n + 1, Dst(T, h), p)
        /\ p = Dst(T, h) /\ n \in Matching(chain, p)
             => /\ Final(T, h) = Retupled(p, To(t, chain[n], p.addr))
                /\ Midway(t, chain, n + 1, Dst(T, h), Final(T, h))
        /\ p # Dst(T, h) => /\ Midway(t, chain, n + 1, Dst(T, h), p)
                            /\ p = Final(T, h)
    BY <1>0, <2>1, <2>2, <2>4, MidwayMeets
  <2> QED BY <2>1, <2>3, <2>5 DEF Before, Behind, chain, t
<1> QED BY <1>2, <1>3, <1>4, <1>5, <1>6

LEMMA MidwayStarts ==
    ASSUME NEW t, NEW chain \in Seq(NatRule), NEW a
    PROVE  Midway(t, chain, 1, a, a)
BY MatchingType DEF Midway

LEMMA StageStarts ==
    ASSUME NEW T, Applicable(T), NEW h \in Header
    PROVE  Stage(T, TrafficType(h), 1, h, h)
<1>1. CASE FromLocal(h)
  BY <1>1, TableChains, MidwayStarts DEF Stage, TrafficType, FromLocal
<1>2. CASE ~FromLocal(h)
  BY <1>2, TableChains, MidwayStarts DEF Stage, TrafficType, FromLocal, Early
<1> QED BY <1>1, <1>2

\* At the end of a chain the packet goes on as the script has it.
LEMMA StageEnds ==
    ASSUME NEW T, Applicable(T), NEW h \in Header, NEW p \in Header, NEW n \in Nat \ {0},
           NEW w \in {"output", "prerouting", "outPostrouting", "postrouting"},
           Stage(T, w, n, h, p), n > Len(ChainAt(T, w))
    PROVE  /\ w = "output" => Stage(T, "outPostrouting", 1, h, p)
           /\ w = "outPostrouting"
                => Stage(T, IF ForLocal(p) THEN "prerouting" ELSE "accept", 1, h, p)
           /\ w = "prerouting"
                => Stage(T, IF ForLocal(p) THEN "input" ELSE "postrouting", 1, h, p)
           /\ w = "postrouting" => Stage(T, "accept", 1, h, p)
<1> DEFINE g == Through("dst", T.OUTPUT, h)
<1>0. "dst" \in NatType /\ "src" \in NatType
  BY DEF NatType
<1>1. g \in Header
  BY <1>0, TableChains, ThroughType DEF Applicable
<1>2. CASE w = "output"
  <2>1. FromLocal(h) /\ Midway("dst", T.OUTPUT, n, h, p) /\ n > Len(T.OUTPUT)
    BY <1>2 DEF Stage, ChainAt
  <2>2. p = g
    BY <1>0, <2>1, TableChains, MidwayEnds DEF Applicable
  <2> QED BY <1>2, <2>1, <2>2, TableChains, MidwayStarts DEF Stage
<1>3. CASE w = "outPostrouting"
  <2>1. FromLocal(h) /\ Midway("src", T.POSTROUTING, n, g, p) /\ n > Len(T.POSTROUTING)
    BY <1>3 DEF Stage, ChainAt
  <2>2. p = Out(T, h)
    BY <1>0, <1>1, <2>1, TableChains, MidwayEnds DEF Applicable, Out
  <2>3. CASE Early(T, h)
    <3>1. p = Final(T, h)
      BY <2>2, <2>3, EarlyDst
    <3>2. ForLocal(p) => p # h
      BY <2>2, <2>3 DEF Early
    <3> QED BY <1>3, <2>3, <3>1, <3>2 DEF Stage
  <2>4. CASE ~Early(T, h)
    <3>1. p = h /\ ForLocal(h)
      BY <2>1, <2>2, <2>4, NotEarly DEF Out
    <3> QED BY <1>3, <2>4, <3>1, TableChains, MidwayStarts DEF Stage
  <2> QED BY <2>3, <2>4
<1>4. CASE w = "prerouting"
  <2>1. CASE Early(T, h)
    BY <1>4, <2>1 DEF Stage
  <2>2. CASE ~Early(T, h)
    <3>1. Midway("dst", T.PREROUTING, n, h, p) /\ n > Len(T.PREROUTING)
      BY <1>4, <2>2 DEF Stage, ChainAt
    <3>2. p = Dst(T, h)
      BY <1>0, <2>2, <3>1, TableChains, MidwayEnds DEF Applicable, Dst
    <3>3. ForLocal(p) => p = Final(T, h)
      BY <2>2, <3>2 DEF Final
    <3> QED BY <1>4, <2>2, <3>2, <3>3, TableChains, MidwayStarts DEF Stage
  <2> QED BY <2>1, <2>2
<1>5. CASE w = "postrouting"
  <2>1. /\ Midway("src", T.POSTROUTING, n, Dst(T, h), p) /\ n > Len(T.POSTROUTING)
        /\ ~Early(T, h) /\ ~ForLocal(Dst(T, h))
    BY <1>5 DEF Stage, ChainAt
  <2>2. Dst(T, h) \in Header
    BY HeadersOfPath
  <2>3. p = Final(T, h)
    BY <1>0, <2>1, <2>2, TableChains, MidwayEnds DEF Applicable, Final
  <2> QED BY <1>5, <2>3 DEF Stage
<1> QED BY <1>2, <1>3, <1>4, <1>5

-----------------------------------------------------------------------------
(* The entry a tuple belongs to.                                           *)

LEMMA TuplesOfEntry ==
    ASSUME NEW e \in StateEntry
    PROVE  /\ e.addr \in addrEntry /\ e.replyAddr \in addrEntry /\ AfterDnat(e) \in addrEntry
           /\ {e.addr, AfterDnat(e), Mirror(e.replyAddr)} = Path(e)
           /\ {e.addr, AfterDnat(e), Mirror(e.replyAddr), Mirror(e.addr), Mirror(AfterDnat(e)),
               e.replyAddr} = Tuples(e)
<1>1. e.addr \in addrEntry /\ e.replyAddr \in addrEntry /\ AfterDnat(e) \in addrEntry
  BY AfterDnatType DEF StateEntry
<1>2. Mirror(Mirror(e.replyAddr)) = e.replyAddr
  BY <1>1, MirrorType
<1> QED BY <1>1, <1>2 DEF Path, Tuples

LEMMA SharedHosts ==
    ASSUME NEW L, Disjoint(L), NEW i \in DOMAIN L, NEW j \in DOMAIN L,
           "ICMP" \in {L[i].protocol, L[j].protocol},
           NEW x \in Tuples(L[i]), NEW y \in Tuples(L[j]), SameIPs(x, y)
    PROVE  i = j
<1>1. <<x.srcIP, x.dstIP>> \in Hosts(L[i]) /\ <<y.srcIP, y.dstIP>> \in Hosts(L[j])
  BY DEF Hosts
<1>2. <<x.srcIP, x.dstIP>> = <<y.srcIP, y.dstIP>>
  BY DEF SameIPs
<1>3. Hosts(L[i]) \cap Hosts(L[j]) # {}
  BY <1>1, <1>2
<1> QED BY <1>3 DEF Disjoint

LEMMA SharedTuple ==
    ASSUME NEW L, Disjoint(L), NEW i \in DOMAIN L, NEW j \in DOMAIN L,
           L[i].protocol = L[j].protocol, NEW x \in Tuples(L[i]), x \in Tuples(L[j])
    PROVE  i = j
<1>1. CASE "ICMP" \in {L[i].protocol, L[j].protocol}
  BY <1>1, SharedHosts DEF SameIPs
<1>2. CASE "ICMP" \notin {L[i].protocol, L[j].protocol}
  BY <1>2 DEF Disjoint
<1> QED BY <1>1, <1>2

LEMMA OneWay ==
    ASSUME NEW L, Disjoint(L), NEW i \in DOMAIN L, NEW a \in Path(L[i]), NEW b \in Path(L[i])
    PROVE  a # Mirror(b)
BY DEF Disjoint

\* The tuples of an entry against the headers of the NEW packet that opened it.
LEMMA AfterDnatOf ==
    ASSUME NEW e \in StateEntry, NEW a \in addrEntry, NEW d \in addrEntry, NEW b \in addrEntry,
           e.addr = a, e.replyAddr = Mirror(b), Keeps("dst", d, a), Keeps("src", b, d)
    PROVE  AfterDnat(e) = d
BY DEF AfterDnat, Mirror, Keeps, addrEntry

LEMMA FollowsPath ==
    ASSUME NEW T, Applicable(T), NEW h \in Header, NEW e \in StateEntry, AsSent(e) = h,
           NEW p \in {h, Dst(T, h), Final(T, h)}, Follows(T, e.replyAddr, h, p)
    PROVE  /\ p.addr \in Path(e)
           /\ p = Dst(T, h) \/ p # h => AfterDnat(e) = Dst(T, h).addr
<1> DEFINE d == Dst(T, h)
           f == Final(T, h)
<1>1. /\ d \in Header /\ Alike(d, h) /\ Keeps("dst", d.addr, h.addr)
      /\ f \in Header /\ Alike(f, h) /\ Keeps("src", f.addr, d.addr)
      /\ f = h => d = h
  BY HeadersOfPath
<1>2. h.addr \in addrEntry /\ d.addr \in addrEntry /\ f.addr \in addrEntry
  BY <1>1 DEF Header
<1>3. e.addr = h.addr
  BY DEF AsSent
<1> HIDE DEF d, f
<1>4. e.replyAddr = Mirror(d.addr) => AfterDnat(e) = d.addr
  BY <1>1, <1>2, <1>3, AfterDnatOf DEF Keeps
<1>5. e.replyAddr = Mirror(f.addr) => AfterDnat(e) = d.addr
  BY <1>1, <1>2, <1>3, AfterDnatOf
<1>6. p = d \/ p # h => e.replyAddr \in {Mirror(d.addr), Mirror(f.addr)}
  BY DEF Follows, d, f
<1>7. p = d \/ p # h => AfterDnat(e) = d.addr
  BY <1>4, <1>5, <1>6
<1>8. p = f /\ p # d /\ p # h => Mirror(e.replyAddr) = f.addr
  BY <1>2, MirrorType DEF Follows, d, f
<1>9. p.addr \in Path(e)
  BY <1>3, <1>7, <1>8, TuplesOfEntry DEF d, f
<1> QED BY <1>7, <1>9 DEF d

\* What the rule writes into the entry is where the packet goes, or where one went before.
LEMMA NewReply ==
    ASSUME NEW T, Applicable(T), NEW h \in Header, NEW t \in NatType, NEW r \in NatRule,
           NEW a, Follows(T, a, h, Before(T, t, h)),
           Behind(T, t, h).addr = To(t, r, Before(T, t, h).addr)
    PROVE  /\ MapTo(t, r.ip, r.port, a)
                \in {Mirror(Behind(T, t, h).addr), Mirror(Final(T, h).addr)}
           /\ a = Mirror(Final(T, h).addr) => MapTo(t, r.ip, r.port, a) = a
<1> DEFINE d == Dst(T, h)
           f == Final(T, h)
           p == Before(T, t, h)
           q == Behind(T, t, h)
<1>1. /\ d \in Header /\ Keeps("dst", d.addr, h.addr)
      /\ f \in Header /\ Keeps("src", f.addr, d.addr)
  BY HeadersOfPath
<1>2. h.addr \in addrEntry /\ d.addr \in addrEntry /\ f.addr \in addrEntry /\ p.addr \in addrEntry
  BY <1>1 DEF Header, Before
<1>3. a \in {Mirror(p.addr), Mirror(d.addr), Mirror(f.addr)}
      /\ (a = Mirror(d.addr) => t = "dst" \/ a = Mirror(p.addr))
  BY DEF Follows, Before, NatType
<1>4. To(t, r, p.addr) = q.addr
  OBVIOUS
<1>5. To(t, r, f.addr) = f.addr
  <2>1. Keeps(Other(t), f.addr, q.addr)
    BY <1>1 DEF Keeps, Other, Behind, NatType
  <2> QED BY <1>2, <1>4, <2>1, ToTwice
<1>6. t = "dst" => To(t, r, d.addr) = d.addr
  <2>1. t = "dst" => Keeps(Other(t), d.addr, q.addr)
    BY DEF Keeps, Other, Behind
  <2> QED BY <1>2, <1>4, <2>1, ToTwice
<1>7. \A x \in {p.addr, d.addr, f.addr} : MapTo(t, r.ip, r.port, Mirror(x)) = Mirror(To(t, r, x))
  BY <1>2, MapToMirror
<1>8. t = "dst" => q = d
  BY DEF Behind
<1> HIDE DEF d, f, p, q
<1>9. /\ MapTo(t, r.ip, r.port, a) \in {Mirror(q.addr), Mirror(f.addr)}
      /\ a = Mirror(f.addr) => MapTo(t, r.ip, r.port, a) = a
  BY <1>3, <1>4, <1>5, <1>6, <1>7, <1>8
<1> QED BY <1>9 DEF f, q

-----------------------------------------------------------------------------
(* What a nat rule does to a NEW packet and its entry.                     *)

LEMMA OriginatorTuple ==
    ASSUME NEW e \in StateEntry, NEW t \in NatType
    PROVE  /\ OriginatorBefore(t, e) \in Path(e) /\ OriginatorBefore(t, e) \in Tuples(e)
           /\ ReplyBefore(t, e) \in Tuples(e)
BY TuplesOfEntry DEF OriginatorBefore, ReplyBefore

LEMMA NewMappingTakes ==
    ASSUME SMTypeOK, Disjoint(stateEntryList), packet \in Header,
           NEW t \in NatType, NEW r \in NatRule, r.port # NoPort => IsTransport(packet),
           NewMapping(t, r.ip, r.port),
           NEW i \in DOMAIN stateEntryList, stateEntryList[i].protocol = packet.protocol,
           OriginatorBefore(t, stateEntryList[i]) = packet.addr
    PROVE  /\ stateEntryList'
                = [stateEntryList EXCEPT ![i].replyAddr = MapTo(t, r.ip, r.port, @)]
           /\ packet' = Retupled(packet, To(t, r, packet.addr))
<1> DEFINE hits  == FromOriginator(t, packet)
           first == Min(hits)
<1>1. i \in hits
  BY DEF FromOriginator
<1>2. first \in hits
  BY <1>1, HitsAreIndices, MinIsElement
<1> HIDE DEF first
<1>3. /\ first \in DOMAIN stateEntryList
      /\ stateEntryList[first].protocol = packet.protocol
      /\ OriginatorBefore(t, stateEntryList[first]) = packet.addr
  BY <1>2 DEF FromOriginator
<1>4. stateEntryList[first] \in StateEntry /\ stateEntryList[i] \in StateEntry
  BY <1>3 DEF SMTypeOK
<1>5. first = i
  <2>1. packet.addr \in Tuples(stateEntryList[first]) /\ packet.addr \in Tuples(stateEntryList[i])
    BY <1>3, <1>4, OriginatorTuple
  <2> QED BY <1>3, <2>1, SharedTuple
<1>6. /\ stateEntryList'
           = [stateEntryList EXCEPT ![i].replyAddr = MapTo(t, r.ip, r.port, @)]
      /\ packet' = Rewrite(packet, Mirror(MapTo(t, r.ip, r.port, Mirror(packet.addr))))
  BY <1>1, <1>5 DEF NewMapping, first
<1>7. packet.addr \in addrEntry /\ IF IsTransport(packet) THEN HasPorts(packet.addr)
                                                         ELSE NoPorts(packet.addr)
  BY DEF Header
<1>8. /\ To(t, r, packet.addr) \in addrEntry
      /\ IF IsTransport(packet) THEN HasPorts(To(t, r, packet.addr))
                                ELSE NoPorts(To(t, r, packet.addr))
  BY <1>7, ToType
<1>9. Mirror(MapTo(t, r.ip, r.port, Mirror(packet.addr))) = To(t, r, packet.addr)
  BY <1>7, <1>8, MapToMirror, MirrorType
<1> QED BY <1>6, <1>8, <1>9, RewriteRetuples

LEMMA NewMappingMisses ==
    ASSUME SMTypeOK, Disjoint(stateEntryList), NEW t \in NatType, NEW ip, NEW port,
           NewMapping(t, ip, port),
           NEW i \in DOMAIN stateEntryList, stateEntryList[i].protocol = packet.protocol,
           packet.addr \in Tuples(stateEntryList[i]),
           OriginatorBefore(t, stateEntryList[i]) # packet.addr
    PROVE  stateEntryList' = stateEntryList /\ packet' = packet
<1>1. FromOriginator(t, packet) = {}
  <2> SUFFICES ASSUME NEW k \in FromOriginator(t, packet) PROVE FALSE
    OBVIOUS
  <2>1. /\ k \in DOMAIN stateEntryList /\ stateEntryList[k].protocol = packet.protocol
        /\ OriginatorBefore(t, stateEntryList[k]) = packet.addr
    BY DEF FromOriginator
  <2>2. stateEntryList[k] \in StateEntry
    BY <2>1 DEF SMTypeOK
  <2>3. packet.addr \in Tuples(stateEntryList[k])
    BY <2>1, <2>2, OriginatorTuple
  <2>4. k = i
    BY <2>1, <2>3, SharedTuple
  <2> QED BY <2>1, <2>4
<1> QED BY <1>1 DEF NewMapping

LEMMA StagePackets ==
    ASSUME NEW T, Applicable(T), NEW h \in Header, NEW p, NEW n, NEW w, Stage(T, w, n, h, p)
    PROVE  p \in {h, Dst(T, h), Final(T, h)} /\ p \in Header /\ Alike(p, h)
<1> DEFINE g == Through("dst", T.OUTPUT, h)
<1>1. CASE FromLocal(h) /\ p \in {h, g, Through("src", T.POSTROUTING, g)}
  <2>1. Early(T, h) => p \in {h, Dst(T, h), Final(T, h)}
    BY <1>1, EarlyDst DEF Out
  <2>2. ~Early(T, h) => p = h
    BY <1>1, NotEarly
  <2> QED BY <2>1, <2>2, HeadersOfPath DEF Alike
<1>2. CASE ~Early(T, h) /\ p \in {h, Through("dst", T.PREROUTING, h)}
  <2>1. p \in {h, Dst(T, h)}
    BY <1>2 DEF Dst
  <2> QED BY <2>1, HeadersOfPath DEF Alike
<1>3. CASE /\ ~Early(T, h) /\ ~ForLocal(Dst(T, h))
           /\ p \in {Dst(T, h), Through("src", T.POSTROUTING, Dst(T, h))}
  <2>1. p \in {Dst(T, h), Final(T, h)}
    BY <1>3 DEF Final
  <2> QED BY <2>1, HeadersOfPath DEF Alike
<1>4. CASE p = Final(T, h)
  BY <1>4, HeadersOfPath
<1> QED BY <1>1, <1>2, <1>3, <1>4 DEF Stage, Midway

LEMMA NatHere ==
    NatChain = ChainAt(NatRules[config], where) /\ NatTypeHere = TypeAt(where)
BY DEF NatChain, NatTypeHere, ChainAt, TypeAt

LEMMA MeetNew ==
    ASSUME NEW T, T = NatRules[config], Applicable(T), ScriptOK, SMTypeOK,
           Disjoint(stateEntryList), NEW h \in Header, Stage(T, where, rule, h, packet),
           NEW i \in DOMAIN stateEntryList, Owns(T, stateEntryList[i], h, packet),
           Follows(T, stateEntryList[i].replyAddr, h, h), MeetNatRule
    PROVE  /\ Stage(T, where, rule + 1, h, packet')
           /\ DOMAIN stateEntryList' = DOMAIN stateEntryList
           /\ \A k \in DOMAIN stateEntryList : k # i => stateEntryList'[k] = stateEntryList[k]
           /\ Owns(T, stateEntryList'[i], h, packet')
           /\ Follows(T, stateEntryList'[i].replyAddr, h, h)
           /\ stateEntryList[i].replyAddr = Mirror(Final(T, h).addr)
                => stateEntryList'[i].replyAddr = stateEntryList[i].replyAddr
<1> DEFINE t     == TypeAt(where)
           chain == ChainAt(T, where)
           r     == chain[rule]
           e     == stateEntryList[i]
<1>1. /\ packet \in {h, Dst(T, h), Final(T, h)} /\ packet \in Header /\ Alike(packet, h)
  BY StagePackets
<1>2. /\ where \in {"output", "prerouting", "outPostrouting", "postrouting"}
      /\ rule \in Nat \ {0} /\ rule <= Len(chain)
      /\ IF packet \in r.match THEN StaticNat(t, r.ip, r.port) ELSE UNCHANGED smVars
  BY NatHere DEF MeetNatRule, InNat, ScriptOK
<1>3. chain \in Seq(NatRule) /\ t \in NatType /\ Effective(t, chain)
  BY <1>2, ChainAtType
<1>4. rule \in DOMAIN chain /\ r \in NatRule
  BY <1>2, <1>3
<1>5. rule \in Matching(chain, packet) <=> packet \in r.match
  BY <1>4 DEF Matching
<1>6. e \in StateEntry /\ AsSent(e) = h /\ e.addr = h.addr /\ e.protocol = packet.protocol
  BY <1>1 DEF SMTypeOK, Owns, AsSent, Alike
<1>7. /\ packet.addr \in Path(e)
      /\ packet = Dst(T, h) \/ packet # h => AfterDnat(e) = Dst(T, h).addr
  BY <1>1, <1>6, FollowsPath DEF Owns
<1> HIDE DEF t, chain
<1>8. CASE packet \notin r.match
  <2>1. Stage(T, where, rule + 1, h, packet)
    BY <1>1, <1>2, <1>5, <1>8, StageMeets DEF chain
  <2> QED BY <1>2, <1>8, <2>1 DEF smVars
<1>9. CASE packet \in r.match
  <2>1. NewMapping(t, r.ip, r.port)
    BY <1>2, <1>4, <1>9, IPAssumption DEF StaticNat, NatRule
  <2>2. r.port # NoPort => IsTransport(packet)
    BY <1>3, <1>4, <1>9 DEF Effective
  <2>3. \/ /\ packet = Before(T, t, h)
           /\ Behind(T, t, h) = Retupled(packet, To(t, r, packet.addr))
           /\ Stage(T, where, rule + 1, h, Behind(T, t, h))
        \/ /\ packet # Before(T, t, h)
           /\ packet = Behind(T, t, h) \/ (packet = Final(T, h) /\ packet # h)
           /\ Stage(T, where, rule + 1, h, packet)
    BY <1>1, <1>2, <1>5, <1>9, StageMeets DEF chain, t
  <2>4. CASE /\ packet = Before(T, t, h)
             /\ Behind(T, t, h) = Retupled(packet, To(t, r, packet.addr))
             /\ Stage(T, where, rule + 1, h, Behind(T, t, h))
    <3>1. OriginatorBefore(t, e) = packet.addr
      BY <1>6, <1>7, <2>4 DEF OriginatorBefore, Before
    <3>2. /\ stateEntryList'
               = [stateEntryList EXCEPT ![i].replyAddr = MapTo(t, r.ip, r.port, @)]
          /\ packet' = Behind(T, t, h)
      BY <1>1, <1>3, <1>4, <1>6, <2>1, <2>2, <2>4, <3>1, NewMappingTakes
    <3>3. Behind(T, t, h).addr = To(t, r, packet.addr)
      BY <1>1, <2>4 DEF Retupled, Header
    <3> DEFINE a == MapTo(t, r.ip, r.port, e.replyAddr)
    <3>4. /\ a \in {Mirror(Behind(T, t, h).addr), Mirror(Final(T, h).addr)}
          /\ e.replyAddr = Mirror(Final(T, h).addr) => a = e.replyAddr
      BY <1>3, <1>4, <2>4, <3>3, NewReply DEF Owns
    <3>5. /\ DOMAIN stateEntryList' = DOMAIN stateEntryList
          /\ \A k \in DOMAIN stateEntryList : k # i => stateEntryList'[k] = stateEntryList[k]
          /\ stateEntryList'[i] = [e EXCEPT !.replyAddr = a]
      BY <3>2
    <3> HIDE DEF a, e
    <3>6. /\ stateEntryList'[i].replyAddr = a /\ AsSent(stateEntryList'[i]) = AsSent(e)
          /\ stateEntryList'[i].gotReply = e.gotReply
      BY <1>6, <3>5 DEF AsSent, StateEntry
    <3>7. Behind(T, t, h) \in {Dst(T, h), Final(T, h)}
      BY DEF Behind
    <3>8. Owns(T, stateEntryList'[i], h, packet') /\ Follows(T, a, h, h)
      BY <1>6, <3>2, <3>4, <3>6, <3>7 DEF Owns, Follows, e
    <3> QED BY <2>4, <3>2, <3>4, <3>5, <3>6, <3>8 DEF e
  <2>5. CASE /\ packet # Before(T, t, h)
             /\ packet = Behind(T, t, h) \/ (packet = Final(T, h) /\ packet # h)
             /\ Stage(T, where, rule + 1, h, packet)
    <3>1. OriginatorBefore(t, e) # packet.addr
      <4>1. CASE t = "dst"
        BY <1>1, <1>6, <2>5, <4>1, AlikeByTuple DEF OriginatorBefore, Before
      <4>2. CASE t = "src"
        <5>1. packet = Final(T, h) /\ packet # Dst(T, h) /\ packet # h
          BY <2>5, <4>2, HeadersOfPath DEF Behind, Before
        <5>2. Dst(T, h) \in Header /\ Alike(packet, Dst(T, h))
          BY <1>1, HeadersOfPath DEF Alike
        <5>3. Dst(T, h).addr # packet.addr
          BY <1>1, <5>1, <5>2, AlikeByTuple
        <5> QED BY <1>7, <4>2, <5>1, <5>3 DEF OriginatorBefore
      <4> QED BY <1>3, <4>1, <4>2 DEF NatType
    <3>2. packet.addr \in Tuples(e)
      BY <1>7 DEF Tuples
    <3>3. stateEntryList' = stateEntryList /\ packet' = packet
      BY <1>3, <1>6, <2>1, <3>1, <3>2, NewMappingMisses
    <3> QED BY <2>5, <3>3
  <2> QED BY <2>3, <2>4, <2>5
<1> QED BY <1>8, <1>9

-----------------------------------------------------------------------------
(* What the StaticNats beside the chains do to an ESTABLISHED packet.      *)

\* Of all entries only that of the packet's connection is found.
LEMMA PresentMappingTakes ==
    ASSUME SMTypeOK, Disjoint(stateEntryList), packet \in Header, NEW t \in NatType,
           PresentMapping(t), NEW i \in DOMAIN stateEntryList,
           stateEntryList[i].protocol = packet.protocol,
           packet.addr \in Tuples(stateEntryList[i])
    PROVE  packet' = IF OriginatorBefore(t, stateEntryList[i]) = packet.addr
                     THEN Rewrite(packet, OriginatorAfter(t, stateEntryList[i]))
                     ELSE IF ReplyBefore(t, stateEntryList[i]) = packet.addr
                     THEN Rewrite(packet, ReplyAfter(t, stateEntryList[i]))
                     ELSE packet
<1> DEFINE hits  == UNION {FromOriginator(t, packet), FromReplier(t, packet),
                           RelatedOriginator(t, packet), RelatedReplier(t, packet)}
           first == Min(hits)
<1>1. /\ FromOriginator(t, packet) \subseteq {i} /\ FromReplier(t, packet) \subseteq {i}
  <2> SUFFICES ASSUME NEW k \in FromOriginator(t, packet) \cup FromReplier(t, packet)
               PROVE  k = i
    OBVIOUS
  <2>1. /\ k \in DOMAIN stateEntryList /\ stateEntryList[k].protocol = packet.protocol
        /\ packet.addr \in {OriginatorBefore(t, stateEntryList[k]),
                            ReplyBefore(t, stateEntryList[k])}
    BY DEF FromOriginator, FromReplier
  <2>2. stateEntryList[k] \in StateEntry
    BY <2>1 DEF SMTypeOK
  <2>3. packet.addr \in Tuples(stateEntryList[k])
    BY <2>1, <2>2, OriginatorTuple
  <2> QED BY <2>1, <2>3, SharedTuple
<1>2. RelatedOriginator(t, packet) = {} /\ RelatedReplier(t, packet) = {}
  <2> SUFFICES ASSUME NEW k \in RelatedOriginator(t, packet) \cup RelatedReplier(t, packet)
               PROVE  FALSE
    OBVIOUS
  <2>1. /\ k \in DOMAIN stateEntryList /\ packet.protocol = "ICMP"
        /\ stateEntryList[k].protocol # "ICMP"
        /\ \/ SameIPs(OriginatorBefore(t, stateEntryList[k]), packet.addr)
           \/ SameIPs(ReplyBefore(t, stateEntryList[k]), packet.addr)
    BY DEF RelatedOriginator, RelatedReplier
  <2>2. stateEntryList[k] \in StateEntry
    BY <2>1 DEF SMTypeOK
  <2>3. /\ OriginatorBefore(t, stateEntryList[k]) \in Tuples(stateEntryList[k])
        /\ ReplyBefore(t, stateEntryList[k]) \in Tuples(stateEntryList[k])
    BY <2>2, OriginatorTuple
  <2>4. k = i
    BY <2>1, <2>3, SharedHosts
  <2> QED BY <2>1, <2>4
<1>3. /\ i \in FromOriginator(t, packet) <=> OriginatorBefore(t, stateEntryList[i]) = packet.addr
      /\ i \in FromReplier(t, packet) <=> ReplyBefore(t, stateEntryList[i]) = packet.addr
  BY DEF FromOriginator, FromReplier
<1>4. CASE hits = {}
  BY <1>3, <1>4 DEF PresentMapping
<1>5. CASE hits # {}
  <2>1. first = i
    <3>1. first \in hits
      BY <1>5, HitsAreIndices, MinIsElement
    <3> QED BY <1>1, <1>2, <3>1
  <2>2. first \in FromOriginator(t, packet) \cup FromReplier(t, packet)
    BY <1>1, <1>2, <1>5, <2>1
  <2>3. packet' = IF first \in FromOriginator(t, packet)
                  THEN Rewrite(packet, OriginatorAfter(t, stateEntryList[first]))
                  ELSE Rewrite(packet, ReplyAfter(t, stateEntryList[first]))
    BY <1>5, <2>2 DEF PresentMapping
  <2> HIDE DEF first, hits
  <2> QED BY <1>3, <2>1, <2>2, <2>3
<1> QED BY <1>4, <1>5

PortsOf(e, a) == IF IsTransport(e) THEN HasPorts(a) ELSE NoPorts(a)

\* ICMP entries have no ports in either direction.
LEMMA TuplePorts ==
    ASSUME NEW T, Applicable(T), NEW e \in StateEntry, Mapped(T, e)
    PROVE  /\ PortsOf(e, e.addr) /\ PortsOf(e, e.replyAddr) /\ PortsOf(e, AfterDnat(e))
           /\ PortsOf(e, Mirror(e.addr)) /\ PortsOf(e, Mirror(e.replyAddr))
           /\ PortsOf(e, Mirror(AfterDnat(e)))
<1>1. PICK x \in Header : Alike(x, AsSent(e)) /\ e.replyAddr = Mirror(x.addr)
  <2>1. AsSent(e) \in Header
    BY DEF Mapped
  <2>2. /\ Dst(T, AsSent(e)) \in Header /\ Alike(Dst(T, AsSent(e)), AsSent(e))
        /\ Final(T, AsSent(e)) \in Header /\ Alike(Final(T, AsSent(e)), AsSent(e))
    BY <2>1, HeadersOfPath
  <2>3. e.replyAddr \in {Mirror(AsSent(e).addr), Mirror(Dst(T, AsSent(e)).addr),
                         Mirror(Final(T, AsSent(e)).addr)}
    BY DEF Mapped, Follows
  <2> QED BY <2>1, <2>2, <2>3 DEF Alike
<1>2. x.addr \in addrEntry /\ PortsOf(e, x.addr)
  BY <1>1 DEF Header, Alike, AsSent, PortsOf, IsTransport
<1>3. e.addr \in addrEntry /\ PortsOf(e, e.addr)
  BY DEF StateEntry, PortsOf, IsTransport
<1>4. e.replyAddr \in addrEntry /\ PortsOf(e, e.replyAddr)
  BY <1>1, <1>2, MirrorType DEF PortsOf
<1>5. AfterDnat(e) \in addrEntry /\ PortsOf(e, AfterDnat(e))
  BY <1>3, <1>4, AfterDnatType DEF PortsOf, AfterDnat, HasPorts, NoPorts
<1> QED BY <1>3, <1>4, <1>5, MirrorType DEF PortsOf

\* Each stage takes an ESTABLISHED packet from one tuple of its connection to the next.
LEMMA PassEstablished ==
    ASSUME NEW T, Applicable(T), SMTypeOK, Disjoint(stateEntryList), packet \in Header,
           NEW t \in NatType, PresentMapping(t), NEW i \in DOMAIN stateEntryList,
           Mapped(T, stateEntryList[i]), stateEntryList[i].protocol = packet.protocol,
           NEW a \in {stateEntryList[i].addr, stateEntryList[i].replyAddr}
    PROVE  /\ packet.addr = a /\ t = "dst" => packet'.addr = Half(stateEntryList[i], a)
           /\ packet.addr = Half(stateEntryList[i], a) /\ t = "src"
                => packet'.addr = Whole(stateEntryList[i], a)
           /\ packet.addr = Whole(stateEntryList[i], a)
                => packet'.addr = Whole(stateEntryList[i], a)
           /\ packet.addr \in {a, Half(stateEntryList[i], a), Whole(stateEntryList[i], a)}
                => Alike(packet', packet)
<1> DEFINE e == stateEntryList[i]
<1>1. e \in StateEntry
  BY DEF SMTypeOK
<1>2. /\ e.addr # Mirror(e.addr) /\ e.addr # Mirror(AfterDnat(e)) /\ e.addr # e.replyAddr
      /\ AfterDnat(e) # Mirror(e.addr) /\ AfterDnat(e) # Mirror(AfterDnat(e))
      /\ AfterDnat(e) # e.replyAddr
      /\ Mirror(e.replyAddr) # e.replyAddr /\ Mirror(e.replyAddr) # Mirror(AfterDnat(e))
  <2>1. e.replyAddr = Mirror(Mirror(e.replyAddr)) /\ AfterDnat(e) = Mirror(Mirror(AfterDnat(e)))
    BY <1>1, TuplesOfEntry, MirrorType
  <2>2. {e.addr, AfterDnat(e), Mirror(e.replyAddr)} = Path(e)
    BY <1>1, TuplesOfEntry
  <2>3. \A x, y \in Path(e) : x # Mirror(y)
    BY OneWay
  <2> HIDE DEF e
  <2>4. AfterDnat(e) # Mirror(Mirror(e.replyAddr))
    BY <2>2, <2>3
  <2>5. Mirror(e.replyAddr) # Mirror(AfterDnat(e))
    BY <2>2, <2>3
  <2>6. Mirror(e.replyAddr) # Mirror(Mirror(e.replyAddr))
    BY <2>2, <2>3
  <2>7. e.addr # Mirror(Mirror(e.replyAddr))
    BY <2>2, <2>3
  <2> QED BY <2>1, <2>2, <2>3, <2>4, <2>5, <2>6, <2>7
<1>3. /\ e.addr = Mirror(e.replyAddr) => AfterDnat(e) = e.addr
      /\ e.replyAddr = Mirror(e.addr) => AfterDnat(e) = e.addr
  <2> HIDE DEF e
  <2> QED BY <1>1, TuplesOfEntry DEF AfterDnat, Mirror, addrEntry
<1>4. {a, Half(e, a), Whole(e, a)} \subseteq Tuples(e)
  BY <1>1, TuplesOfEntry DEF Half, Whole
<1>5. \A b \in Tuples(e) : Rewrite(packet, b).addr = b /\ Alike(Rewrite(packet, b), packet)
  <2> SUFFICES ASSUME NEW b \in Tuples(e)
               PROVE  Rewrite(packet, b).addr = b /\ Alike(Rewrite(packet, b), packet)
    OBVIOUS
  <2>1. b \in addrEntry
    BY <1>1, TuplesOfEntry, MirrorType
  <2>2. PortsOf(e, b)
    BY <1>1, TuplePorts, TuplesOfEntry
  <2>3. IF IsTransport(packet) THEN HasPorts(b) ELSE NoPorts(b)
    BY <2>2 DEF PortsOf, IsTransport
  <2> QED BY <2>1, <2>3, RewriteRetuples, RetupledType
<1>6. packet.addr \in Tuples(e)
        => packet' = IF OriginatorBefore(t, e) = packet.addr
                     THEN Rewrite(packet, OriginatorAfter(t, e))
                     ELSE IF ReplyBefore(t, e) = packet.addr
                     THEN Rewrite(packet, ReplyAfter(t, e))
                     ELSE packet
  BY PresentMappingTakes
<1>7. OriginatorAfter(t, e) \in Tuples(e) /\ ReplyAfter(t, e) \in Tuples(e)
  BY <1>1, TuplesOfEntry DEF OriginatorAfter, ReplyAfter
<1> DEFINE to == IF OriginatorBefore(t, e) = packet.addr THEN OriginatorAfter(t, e)
                 ELSE IF ReplyBefore(t, e) = packet.addr THEN ReplyAfter(t, e)
                 ELSE packet.addr
<1> HIDE DEF e
<1>8. packet.addr \in Tuples(e) => packet'.addr = to /\ Alike(packet', packet)
  BY <1>5, <1>6, <1>7 DEF Alike
<1>9. CASE a = e.addr
  <2>1. Half(e, a) = AfterDnat(e) /\ Whole(e, a) = Mirror(e.replyAddr)
    BY <1>9 DEF Half, Whole
  <2>2. /\ packet.addr = a /\ t = "dst" => to = AfterDnat(e)
        /\ packet.addr = AfterDnat(e) /\ t = "src" => to = Mirror(e.replyAddr)
        /\ packet.addr = Mirror(e.replyAddr) => to = Mirror(e.replyAddr)
    BY <1>2, <1>3, <1>9 DEF OriginatorBefore, OriginatorAfter, ReplyBefore, NatType
  <2> HIDE DEF to
  <2> QED BY <1>4, <1>8, <2>1, <2>2 DEF e
<1>10. CASE a = e.replyAddr
  <2>1. Half(e, a) = Mirror(AfterDnat(e)) /\ Whole(e, a) = Mirror(e.addr)
    BY <1>2, <1>10 DEF Half, Whole
  <2>2. /\ packet.addr = a /\ t = "dst" => to = Mirror(AfterDnat(e))
        /\ packet.addr = Mirror(AfterDnat(e)) /\ t = "src" => to = Mirror(e.addr)
        /\ packet.addr = Mirror(e.addr) => to = Mirror(e.addr)
    BY <1>2, <1>3, <1>10 DEF OriginatorBefore, ReplyBefore, ReplyAfter, NatType
  <2> HIDE DEF to
  <2> QED BY <1>4, <1>8, <2>1, <2>2 DEF e
<1> QED BY <1>9, <1>10 DEF e

LEMMA TableApplies ==
    ASSUME EffectiveRules, config \in DOMAIN NatRules
    PROVE  Applicable(NatRules[config])
BY NatRulesAssumption DEF EffectiveRules, Applicable

LEMMA RewriteAlike ==
    ASSUME NEW h \in Header, NEW a
    PROVE  Alike(Rewrite(h, a), h)
BY DEF Rewrite, Header, Alike

LEMMA PresentMappingAlike ==
    ASSUME packet \in Header, NEW t, PresentMapping(t)
    PROVE  Alike(packet', packet)
<1>1. packet' = packet \/ \E a : packet' = Rewrite(packet, a)
  BY DEF PresentMapping
<1> QED BY <1>1, RewriteAlike DEF Alike

\* Past a nat table an ESTABLISHED packet carries the next tuple of its connection.
LEMMA CarriedNext ==
    ASSUME NEW T, Applicable(T), SMTypeOK, Disjoint(stateEntryList), packet \in Header,
           NEW h, NEW i \in DOMAIN stateEntryList, Mapped(T, stateEntryList[i]),
           stateEntryList[i].protocol = packet.protocol,
           h.addr \in {stateEntryList[i].addr, stateEntryList[i].replyAddr},
           Carried(stateEntryList[i], where, h.addr, packet.addr), state # "NEW",
           PassOutput \/ PassOutPostrouting \/ PassPrerouting \/ PassPostrouting
    PROVE  Carried(stateEntryList[i], where', h.addr, packet'.addr)
<1> DEFINE e == stateEntryList[i]
           a == h.addr
<1>1. /\ PassNat(where)
      /\ \/ where = "output" /\ where' = "outPostrouting"
         \/ where = "outPostrouting" /\ where' = IF ToLocal THEN "prerouting" ELSE "accept"
         \/ where = "prerouting" /\ where' = IF ToLocal THEN "input" ELSE "postrouting"
         \/ where = "postrouting" /\ where' = "accept"
  BY DEF PassOutput, PassOutPostrouting, PassPrerouting, PassPostrouting, PassNat
<1>2. PresentMapping(TypeAt(where))
  BY <1>1, NatHere DEF PassNat, StaticNat
<1>3. /\ packet.addr = a /\ TypeAt(where) = "dst" => packet'.addr = Half(e, a)
      /\ packet.addr = Half(e, a) /\ TypeAt(where) = "src" => packet'.addr = Whole(e, a)
      /\ packet.addr = Whole(e, a) => packet'.addr = Whole(e, a)
  BY <1>2, ChainAtType, PassEstablished
<1> HIDE DEF e, a
<1>4. Carried(e, where, a, packet.addr)
  BY DEF e, a
<1>5. Carried(e, where', a, packet'.addr)
  BY <1>1, <1>3, <1>4 DEF Carried, Exit, TypeAt, ToLocal
<1> QED BY <1>5 DEF e, a

-----------------------------------------------------------------------------
(* StateMachine.push as the invariant sees it.                             *)

\* Entries are added at the end; those there are keep their tuples and what they have seen.
Grown(L, M) ==
    /\ DOMAIN L \subseteq DOMAIN M
    /\ \A k \in DOMAIN L :
         /\ AsSent(M[k]) = AsSent(L[k]) /\ M[k].replyAddr = L[k].replyAddr
         /\ L[k].gotReply => M[k].gotReply

LEMMA RepliedKept ==
    ASSUME NEW d, NEW e, AsSent(e) = AsSent(d), e.replyAddr = d.replyAddr,
           d.gotReply => e.gotReply
    PROVE  /\ \A h : Replied(d, h) => Replied(e, h)
           /\ \A a : Exit(e, a) = Exit(d, a)
           /\ \A T : Mapped(T, d) => Mapped(T, e)
<1>1. e.protocol = d.protocol /\ e.addr = d.addr
  BY DEF AsSent
<1>2. AfterDnat(e) = AfterDnat(d)
  BY <1>1 DEF AfterDnat
<1> QED BY <1>1, <1>2 DEF Replied, Exit, Half, Whole, Mapped

LEMMA RememberedKept ==
    ASSUME NEW T, NEW L, NEW M, Grown(L, M), NEW m, Remembered(T, L, m)
    PROVE  Remembered(T, M, m)
<1>1. \A k \in DOMAIN L : /\ k \in DOMAIN M
                          /\ Replied(L[k], m.in) => Replied(M[k], m.in)
                          /\ Exit(M[k], m.in.addr) = Exit(L[k], m.in.addr)
  BY RepliedKept DEF Grown
<1> QED BY <1>1 DEF Remembered, Grown

LEMMA ListGrows ==
    ASSUME SMTypeOK, NEW h \in Header,
           \/ stateEntryList' = stateEntryList
           \/ stateEntryList' = Append(stateEntryList, NewEntry(h))
           \/ \E i \in DOMAIN stateEntryList :
                stateEntryList' = [stateEntryList EXCEPT ![i].gotReply = TRUE]
    PROVE  /\ Grown(stateEntryList, stateEntryList')
           /\ \A k \in DOMAIN stateEntryList' :
                k \notin DOMAIN stateEntryList => stateEntryList'[k] = NewEntry(h)
<1>0. stateEntryList \in Seq(StateEntry)
  BY DEF SMTypeOK
<1>1. CASE stateEntryList' = stateEntryList
  BY <1>1 DEF Grown
<1>2. CASE stateEntryList' = Append(stateEntryList, NewEntry(h))
  <2>1. NewEntry(h) \in StateEntry
    BY NewEntryType
  <2>2. /\ DOMAIN stateEntryList' = DOMAIN stateEntryList \cup {Len(stateEntryList) + 1}
        /\ stateEntryList'[Len(stateEntryList) + 1] = NewEntry(h)
        /\ \A k \in DOMAIN stateEntryList : stateEntryList'[k] = stateEntryList[k]
    <3> HIDE DEF NewEntry
    <3> QED BY <1>0, <1>2, <2>1
  <2> QED BY <2>2 DEF Grown
<1>3. ASSUME NEW i \in DOMAIN stateEntryList,
             stateEntryList' = [stateEntryList EXCEPT ![i].gotReply = TRUE]
      PROVE  Grown(stateEntryList, stateEntryList') /\ DOMAIN stateEntryList' = DOMAIN stateEntryList
  <2>1. \A k \in DOMAIN stateEntryList : stateEntryList[k] \in StateEntry
    BY <1>0
  <2>2. /\ DOMAIN stateEntryList' = DOMAIN stateEntryList
        /\ \A k \in DOMAIN stateEntryList :
             stateEntryList'[k] = IF k = i THEN [stateEntryList[k] EXCEPT !.gotReply = TRUE]
                                  ELSE stateEntryList[k]
    BY <1>3
  <2>3. \A k \in DOMAIN stateEntryList :
          /\ stateEntryList'[k].protocol = stateEntryList[k].protocol
          /\ stateEntryList'[k].addr = stateEntryList[k].addr
          /\ stateEntryList'[k].type = stateEntryList[k].type
          /\ stateEntryList'[k].replyAddr = stateEntryList[k].replyAddr
          /\ stateEntryList[k].gotReply => stateEntryList'[k].gotReply
    BY <2>1, <2>2 DEF StateEntry
  <2> QED BY <2>2, <2>3 DEF Grown, AsSent
<1> QED BY <1>1, <1>2, <1>3

\* What the classification of a TCP or UDP packet says of the entry it is one of.
LEMMA TransportHit ==
    ASSUME SMTypeOK, Disjoint(stateEntryList), Disjoint(stateEntryList'), NEW h \in Header,
           PushTransport(h), NEW i \in DOMAIN stateEntryList,
           stateEntryList[i].protocol = h.protocol, h.addr \in Tuples(stateEntryList[i])
    PROVE  state' = IF stateEntryList[i].addr = h.addr /\ ~stateEntryList[i].gotReply
                    THEN "NEW" ELSE "ESTABLISHED"
<1> DEFINE hits  == Opened(h) \cup Answered(h)
           first == Min(hits)
<1>0. \A k \in DOMAIN stateEntryList : stateEntryList[k] \in StateEntry
  BY DEF SMTypeOK
<1>1. CASE hits = {}
  <2> DEFINE n == Len(stateEntryList) + 1
  <2>1. stateEntryList' = Append(stateEntryList, NewEntry(h)) /\ NewEntry(h) \in StateEntry
    BY <1>1, NewEntryType DEF PushTransport, Remember
  <2>2. /\ n \in DOMAIN stateEntryList' /\ i \in DOMAIN stateEntryList' /\ i # n
        /\ stateEntryList'[n] = NewEntry(h)
        /\ stateEntryList'[i] = stateEntryList[i]
    <3> HIDE DEF NewEntry
    <3> QED BY <2>1 DEF SMTypeOK
  <2>3. h.addr \in Tuples(stateEntryList'[n]) /\ stateEntryList'[n].protocol = h.protocol
    BY <2>1, <2>2, TuplesOfEntry DEF NewEntry
  <2> HIDE DEF n
  <2>4. i = n
    BY <2>2, <2>3, SharedTuple
  <2> QED BY <2>2, <2>4
<1>2. CASE hits # {}
  <2>1. first \in hits
    BY <1>2, HitsAreIndices, MinIsElement
  <2> HIDE DEF first
  <2>2. /\ first \in DOMAIN stateEntryList
        /\ stateEntryList[first].protocol = h.protocol
        /\ h.addr \in {stateEntryList[first].addr, stateEntryList[first].replyAddr}
    BY <2>1 DEF Opened, Answered
  <2>3. h.addr \in Tuples(stateEntryList[first])
    BY <1>0, <2>2, TuplesOfEntry
  <2>4. first = i
    BY <2>2, <2>3, SharedTuple
  <2>5. first \in Opened(h) <=> stateEntryList[i].addr = h.addr
    BY <2>4 DEF Opened
  <2>6. state' = IF first \in Opened(h) /\ ~stateEntryList[first].gotReply
                 THEN "NEW" ELSE "ESTABLISHED"
    <3>1. CASE first \in Opened(h)
      <4>1. state' = IF stateEntryList[first].gotReply THEN "ESTABLISHED" ELSE "NEW"
        BY <1>2, <3>1 DEF PushTransport, Classified, first
      <4> QED BY <3>1, <4>1
    <3>2. CASE first \notin Opened(h)
      <4>1. state' = "ESTABLISHED"
        BY <1>2, <3>2 DEF PushTransport, Classified, first
      <4> QED BY <3>2, <4>1
    <3> QED BY <3>1, <3>2
  <2> QED BY <2>4, <2>5, <2>6
<1> QED BY <1>1, <1>2

\* An entry has been found or added for the packet, of the side its annotation says.
Classification(h) ==
    /\ packet' = h /\ Kind(h, h, state')
    /\ Grown(stateEntryList, stateEntryList')
    /\ \A k \in DOMAIN stateEntryList' :
         k \notin DOMAIN stateEntryList => stateEntryList'[k] = NewEntry(h) /\ Opens(h)
    /\ state' = "NEW" =>
         \E i \in DOMAIN stateEntryList' :
            AsSent(stateEntryList'[i]) = h /\ (IsTransport(h) => ~stateEntryList'[i].gotReply)
    /\ state' = "ESTABLISHED" =>
         \E i \in DOMAIN stateEntryList' : Replied(stateEntryList'[i], h)

LEMMA NewEntryIsSent ==
    ASSUME SMTypeOK, NEW h \in Header, stateEntryList' = Append(stateEntryList, NewEntry(h))
    PROVE  \E i \in DOMAIN stateEntryList' :
              AsSent(stateEntryList'[i]) = h /\ ~stateEntryList'[i].gotReply
<1> DEFINE n == Len(stateEntryList) + 1
<1>1. NewEntry(h) \in StateEntry /\ stateEntryList \in Seq(StateEntry)
  BY NewEntryType DEF SMTypeOK
<1>2. n \in DOMAIN stateEntryList' /\ stateEntryList'[n] = NewEntry(h)
  <2> HIDE DEF NewEntry
  <2> QED BY <1>1
<1>3. AsSent(NewEntry(h)) = h /\ ~NewEntry(h).gotReply
  BY DEF AsSent, NewEntry, Header
<1> HIDE DEF n
<1> QED BY <1>2, <1>3

LEMMA TransportClassified ==
    ASSUME NEW T, SMTypeOK, NEW h \in Header, PushTransport(h),
           \A i \in DOMAIN stateEntryList : Mapped(T, stateEntryList[i])
    PROVE  Classification(h)
<1> DEFINE hits  == Opened(h) \cup Answered(h)
           first == Min(hits)
<1>0. /\ IsTransport(h) /\ stateEntryList \in Seq(StateEntry)
      /\ \A k \in DOMAIN stateEntryList :
           stateEntryList[k] \in StateEntry
  BY DEF PushTransport, SMTypeOK
<1>1. CASE hits = {}
  <2>1. stateEntryList' = Append(stateEntryList, NewEntry(h)) /\ packet' = h /\ state' = "NEW"
    BY <1>1 DEF PushTransport, Remember, Classified
  <2>2. Opens(h) /\ Kind(h, h, "NEW")
    BY <1>0 DEF Opens, Kind
  <2> QED BY <2>1, <2>2, ListGrows, NewEntryIsSent DEF Classification
<1>2. CASE hits # {}
  <2>1. first \in hits
    BY <1>2, HitsAreIndices, MinIsElement
  <2>2. first \in DOMAIN stateEntryList
    BY <2>1 DEF Opened, Answered
  <2>3. Kind(h, h, "NEW") /\ Kind(h, h, "ESTABLISHED")
    BY <1>0 DEF Opens, Kind
  <2>4. CASE first \in Opened(h)
    <3>1. /\ stateEntryList' = stateEntryList /\ packet' = h
          /\ state' = IF stateEntryList[first].gotReply THEN "ESTABLISHED" ELSE "NEW"
      BY <1>2, <2>4 DEF PushTransport, Classified
    <3> HIDE DEF first, hits
    <3>2. /\ stateEntryList[first].protocol = h.protocol
          /\ stateEntryList[first].addr = h.addr
      BY <2>4 DEF Opened
    <3>3. AsSent(stateEntryList[first]) \in Header
      BY <2>2 DEF Mapped
    <3>4. AsSent(stateEntryList[first]) = h
      BY <1>0, <3>2, <3>3 DEF AsSent, Header, IsTransport
    <3> QED BY <2>2, <2>3, <3>1, <3>2, <3>4, ListGrows DEF Classification, Replied
  <2>5. CASE first \notin Opened(h)
    <3>1. /\ stateEntryList' = [stateEntryList EXCEPT ![first].gotReply = TRUE]
          /\ packet' = h /\ state' = "ESTABLISHED"
      BY <1>2, <2>5 DEF PushTransport, Classified
    <3>2. first \in Answered(h)
      BY <2>1, <2>5
    <3> HIDE DEF first, hits
    <3>3. /\ stateEntryList[first].protocol = h.protocol
          /\ stateEntryList[first].replyAddr = h.addr
      BY <3>2 DEF Answered
    <3>4. /\ first \in DOMAIN stateEntryList'
          /\ stateEntryList'[first] = [stateEntryList[first] EXCEPT !.gotReply = TRUE]
          /\ DOMAIN stateEntryList' = DOMAIN stateEntryList
      BY <2>2, <3>1
    <3>5. stateEntryList[first] \in StateEntry
      BY <1>0, <2>2
    <3>6. Replied(stateEntryList'[first], h)
      BY <3>3, <3>4, <3>5 DEF Replied, StateEntry
    <3>7. Grown(stateEntryList, stateEntryList')
      BY <2>2, <3>1, ListGrows
    <3> QED BY <2>3, <3>1, <3>4, <3>6, <3>7 DEF Classification
  <2> QED BY <2>4, <2>5
<1> QED BY <1>1, <1>2

\* ICMP entries have no ports, so that equal addresses are equal tuples.
LEMMA SameWithoutPorts ==
    ASSUME NEW a \in addrEntry, NEW b \in addrEntry, NoPorts(a), NoPorts(b), SameIPs(a, b)
    PROVE  a = b
BY DEF addrEntry, NoPorts, SameIPs

LEMMA IcmpClassified ==
    ASSUME NEW T, Applicable(T), SMTypeOK, NEW h \in Header,
           \A i \in DOMAIN stateEntryList : Mapped(T, stateEntryList[i]),
           PushIcmpQuery(h) \/ PushIcmpReply(h) \/ PushIcmpError(h)
    PROVE  Classification(h)
<1>0. /\ \A k \in DOMAIN stateEntryList : stateEntryList[k] \in StateEntry
      /\ h.protocol = "ICMP" /\ ~IsTransport(h)
      /\ h.addr \in addrEntry /\ NoPorts(h.addr)
  BY DEF SMTypeOK, PushIcmpQuery, PushIcmpReply, PushIcmpError, IsTransport, Header
<1>1. CASE PushIcmpQuery(h)
  <2>1. /\ packet' = h /\ state' = "NEW" /\ Opens(h) /\ Kind(h, h, "NEW")
    BY <1>0, <1>1 DEF PushIcmpQuery, Classified, Opens, Kind
  <2>2. CASE OpenedQuery(h) = {}
    <3>1. stateEntryList' = Append(stateEntryList, NewEntry(h))
      BY <1>1, <2>2 DEF PushIcmpQuery, Remember
    <3> QED BY <2>1, <3>1, ListGrows, NewEntryIsSent DEF Classification
  <2>3. CASE OpenedQuery(h) # {}
    <3>1. stateEntryList' = stateEntryList
      BY <1>1, <2>3 DEF PushIcmpQuery
    <3>2. PICK i \in OpenedQuery(h) : TRUE
      BY <2>3
    <3>3. /\ i \in DOMAIN stateEntryList /\ stateEntryList[i].protocol = h.protocol
          /\ SameIPs(stateEntryList[i].addr, h.addr) /\ stateEntryList[i].type = h.type
      BY <3>2 DEF OpenedQuery
    <3>4. stateEntryList[i].addr = h.addr
      BY <1>0, <3>3, SameWithoutPorts DEF StateEntry, IsTransport
    <3>5. AsSent(stateEntryList[i]) = h
      BY <3>3, <3>4 DEF AsSent, Header
    <3> QED BY <1>0, <2>1, <3>1, <3>3, <3>5, ListGrows DEF Classification
  <2> QED BY <2>2, <2>3
<1>2. CASE PushIcmpReply(h)
  <2>1. /\ packet' = h /\ stateEntryList' = stateEntryList /\ ~Opens(h)
        /\ state' = IF AnsweredQuery(h) # {} THEN "ESTABLISHED" ELSE "INVALID"
    BY <1>0, <1>2 DEF PushIcmpReply, Classified, Opens, QueryTypes, ReplyTypes
  <2>2. Kind(h, h, state')
    BY <1>0, <2>1 DEF Kind
  <2>3. ASSUME NEW i \in AnsweredQuery(h)
        PROVE  i \in DOMAIN stateEntryList /\ Replied(stateEntryList[i], h)
    <3>1. /\ i \in DOMAIN stateEntryList /\ stateEntryList[i].protocol = h.protocol
          /\ SameIPs(stateEntryList[i].replyAddr, h.addr)
      BY DEF AnsweredQuery
    <3>2. stateEntryList[i].replyAddr \in addrEntry /\ NoPorts(stateEntryList[i].replyAddr)
      BY <1>0, <3>1, TuplePorts, TuplesOfEntry DEF PortsOf, IsTransport
    <3>3. stateEntryList[i].replyAddr = h.addr
      BY <1>0, <3>1, <3>2, SameWithoutPorts
    <3> QED BY <1>0, <3>1, <3>3 DEF Replied
  <2> QED BY <2>1, <2>2, <2>3, ListGrows DEF Classification
<1>3. CASE PushIcmpError(h)
  <2>1. /\ packet' = h /\ stateEntryList' = stateEntryList /\ ~Opens(h)
        /\ state' \in {"RELATED", "INVALID"}
    BY <1>0, <1>3 DEF PushIcmpError, Classified, Opens
  <2>2. Kind(h, h, state')
    BY <1>0, <2>1 DEF Kind
  <2> QED BY <2>1, <2>2, ListGrows DEF Classification
<1> QED BY <1>1, <1>2, <1>3

-----------------------------------------------------------------------------
(* The invariant of the translation.                                       *)

\* What NatInv says of a state without a clash, for nat table T.
Sound(T) ==
    /\ Disjoint(stateEntryList)
    /\ \A i \in DOMAIN stateEntryList : Mapped(T, stateEntryList[i])
    /\ packet # NoPacket => InFlight(T, stateEntryList, where, rule, arrived, packet, state)
    /\ witness # NoPacket => Remembered(T, stateEntryList, witness)

LEMMA ReceiveSound ==
    ASSUME NEW T, Applicable(T), Base, Sound(T), Disjoint(stateEntryList)',
           NEW h \in Traffic, Receive(h)
    PROVE  Sound(T)'
<1>1. h \in Header /\ SMTypeOK
  BY TrafficAssumption DEF Base, SMInv
<1>2. CASE h.protocol = "OTHER"
  <2>1. /\ stateEntryList' = stateEntryList /\ packet' = NoPacket /\ witness' = witness
    BY <1>2 DEF Receive, Push, PushUnsupported, PushTransport, PushIcmpQuery, PushIcmpReply,
                PushIcmpError, IsTransport, smVars
  <2> QED BY <2>1 DEF Sound
<1>3. CASE h.protocol # "OTHER"
  <2>1. /\ Push(h) /\ where' = TrafficType(h) /\ rule' = 1 /\ arrived' = packet'
        /\ witness' = witness
    BY <1>3 DEF Receive
  <2>2. Classification(h)
    BY <1>1, <1>3, <2>1, TransportClassified, IcmpClassified DEF Push, PushUnsupported, Sound
  <2>3. \A i \in DOMAIN stateEntryList' : Mapped(T, stateEntryList'[i])
    <3> SUFFICES ASSUME NEW i \in DOMAIN stateEntryList' PROVE Mapped(T, stateEntryList'[i])
      OBVIOUS
    <3>1. CASE i \in DOMAIN stateEntryList
      BY <2>2, <3>1 DEF Classification, Grown, Sound, Mapped
    <3>2. CASE i \notin DOMAIN stateEntryList
      <4>1. stateEntryList'[i] = NewEntry(h) /\ Opens(h)
        BY <2>2, <3>2 DEF Classification
      <4>2. AsSent(NewEntry(h)) = h /\ NewEntry(h).replyAddr = Mirror(h.addr)
        BY <1>1 DEF AsSent, NewEntry, Header
      <4> QED BY <1>1, <4>1, <4>2 DEF Mapped, Follows
    <3> QED BY <3>1, <3>2
  <2>4. InFlight(T, stateEntryList', TrafficType(h), 1, h, h, state')
    <3>1. ASSUME state' = "NEW"
          PROVE  /\ Stage(T, TrafficType(h), 1, h, h)
                 /\ \E i \in DOMAIN stateEntryList' : Owns(T, stateEntryList'[i], h, h)
      BY <1>1, <2>2, <2>3, <3>1, StageStarts DEF Classification, Mapped, Owns
    <3>2. \A e : Carried(e, TrafficType(h), h.addr, h.addr)
      BY DEF Carried, TrafficType
    <3> QED BY <2>2, <3>1, <3>2 DEF InFlight, Classification
  <2>5. witness # NoPacket => Remembered(T, stateEntryList', witness)
    BY <2>2, RememberedKept DEF Classification, Sound
  <2>6. packet' = h
    BY <2>2 DEF Classification
  <2> QED BY <2>1, <2>3, <2>4, <2>5, <2>6 DEF Sound
<1> QED BY <1>2, <1>3

LEMMA MeetSound ==
    ASSUME NEW T, T = NatRules[config], Applicable(T), Base, Sound(T),
           Disjoint(stateEntryList)', MeetNatRule
    PROVE  Sound(T)'
<1>0. /\ ScriptOK /\ SMTypeOK /\ HistoryOK /\ state = "NEW" /\ rule' = rule + 1
      /\ UNCHANGED <<where, arrived, witness>>
  BY DEF Base, SMInv, MeetNatRule
<1>1. state' = state
  BY DEF MeetNatRule, smVars, StaticNat
<1>2. CASE packet = NoPacket
  <2>1. packet' = packet /\ stateEntryList' = stateEntryList
    BY <1>2 DEF MeetNatRule, smVars, StaticNat
  <2> QED BY <1>0, <1>2, <2>1 DEF Sound
<1>3. CASE packet # NoPacket
  <2> DEFINE h == arrived
  <2>1. h \in Header /\ packet \in Header
    BY <1>0, <1>3 DEF HistoryOK, SMTypeOK
  <2>2. /\ Stage(T, where, rule, h, packet) /\ Kind(h, packet, state)
        /\ \E i \in DOMAIN stateEntryList : Owns(T, stateEntryList[i], h, packet)
    BY <1>0, <1>3 DEF Sound, InFlight
  <2>3. PICK i \in DOMAIN stateEntryList : Owns(T, stateEntryList[i], h, packet)
    BY <2>2
  <2>4. AsSent(stateEntryList[i]) = h /\ Follows(T, stateEntryList[i].replyAddr, h, h)
    BY <2>3 DEF Sound, Mapped, Owns
  <2> HIDE DEF h
  <2>5. /\ Stage(T, where, rule + 1, h, packet')
        /\ DOMAIN stateEntryList' = DOMAIN stateEntryList
        /\ \A k \in DOMAIN stateEntryList : k # i => stateEntryList'[k] = stateEntryList[k]
        /\ Owns(T, stateEntryList'[i], h, packet')
        /\ Follows(T, stateEntryList'[i].replyAddr, h, h)
        /\ stateEntryList[i].replyAddr = Mirror(Final(T, h).addr)
             => stateEntryList'[i].replyAddr = stateEntryList[i].replyAddr
    BY <1>0, <2>1, <2>2, <2>3, <2>4, MeetNew DEF Sound
  <2>6. AsSent(stateEntryList'[i]) = h
    BY <2>5 DEF Owns
  <2>7. Kind(h, packet', state')
    BY <1>1, <2>1, <2>2, <2>5, StagePackets DEF Kind, Alike
  <2>8. InFlight(T, stateEntryList', where, rule + 1, h, packet', state')
    BY <1>0, <1>1, <2>5, <2>7 DEF InFlight
  <2>9. \A k \in DOMAIN stateEntryList' : Mapped(T, stateEntryList'[k])
    BY <2>4, <2>5, <2>6 DEF Sound, Mapped
  <2>10. ASSUME witness # NoPacket PROVE Remembered(T, stateEntryList', witness)
    <3> DEFINE m == witness
    <3>1. Remembered(T, stateEntryList, m)
      BY <2>10 DEF Sound
    <3> HIDE DEF m
    <3>2. ASSUME m.state = "NEW"
          PROVE  \E k \in DOMAIN stateEntryList' :
                    /\ AsSent(stateEntryList'[k]) = m.in
                    /\ stateEntryList'[k].replyAddr = Mirror(m.out.addr)
      <4>1. PICK k \in DOMAIN stateEntryList :
               AsSent(stateEntryList[k]) = m.in /\ stateEntryList[k].replyAddr = Mirror(m.out.addr)
        BY <3>1, <3>2 DEF Remembered
      <4>2. m.out = Final(T, m.in)
        BY <3>1, <3>2 DEF Remembered
      <4> QED BY <2>4, <2>5, <2>6, <4>1, <4>2
    <3>3. ASSUME m.state = "ESTABLISHED", IsTransport(m.in)
          PROVE  \E k \in DOMAIN stateEntryList' :
                    Replied(stateEntryList'[k], m.in) /\ m.out.addr = Exit(stateEntryList'[k], m.in.addr)
      <4>1. PICK k \in DOMAIN stateEntryList :
               Replied(stateEntryList[k], m.in) /\ m.out.addr = Exit(stateEntryList[k], m.in.addr)
        BY <3>1, <3>3 DEF Remembered
      <4>2. stateEntryList[k].protocol = m.in.protocol /\ stateEntryList[k].gotReply
        BY <3>3, <4>1 DEF Replied
      <4>3. stateEntryList[i].protocol = h.protocol
        BY <2>4 DEF AsSent
      <4>4. k # i
        BY <2>3, <3>3, <4>2, <4>3 DEF Owns, IsTransport
      <4> QED BY <2>5, <4>1, <4>4
    <3>4. Remembered(T, stateEntryList', m)
      BY <3>1, <3>2, <3>3 DEF Remembered
    <3> QED BY <3>4 DEF m
  <2> QED BY <1>0, <2>8, <2>9, <2>10 DEF Sound, h
<1> QED BY <1>2, <1>3

LEMMA PassSound ==
    ASSUME NEW T, T = NatRules[config], Applicable(T), Base, Sound(T),
           PassOutput \/ PassOutPostrouting \/ PassPrerouting \/ PassPostrouting
    PROVE  Sound(T)'
<1>0. /\ ScriptOK /\ SMTypeOK /\ HistoryOK
  BY DEF Base, SMInv
<1>1. /\ PassNat(where) /\ rule' = 1 /\ UNCHANGED <<arrived, witness>>
      /\ \/ where = "output" /\ where' = "outPostrouting"
         \/ where = "outPostrouting" /\ where' = IF ToLocal THEN "prerouting" ELSE "accept"
         \/ where = "prerouting" /\ where' = IF ToLocal THEN "input" ELSE "postrouting"
         \/ where = "postrouting" /\ where' = "accept"
  BY DEF PassOutput, PassOutPostrouting, PassPrerouting, PassPostrouting, PassNat
<1>2. stateEntryList' = stateEntryList /\ state' = state
  BY <1>1 DEF PassNat, smVars, StaticNat, PresentMapping
<1>3. packet = NoPacket => packet' = packet
  BY <1>1 DEF PassNat, smVars, StaticNat
<1>4. ASSUME packet # NoPacket
      PROVE  InFlight(T, stateEntryList, where', 1, arrived, packet', state)
  <2> DEFINE h == arrived
             L == stateEntryList
  <2>1. h \in Header /\ packet \in Header
    BY <1>0, <1>4 DEF HistoryOK, SMTypeOK
  <2>2. InFlight(T, L, where, rule, h, packet, state)
    BY <1>4 DEF Sound
  <2>3. CASE state = "NEW"
    <3>1. packet' = packet /\ rule > Len(ChainAt(T, where))
      BY <1>1, <2>3, NatHere DEF PassNat, smVars
    <3>2. Stage(T, where, rule, h, packet)
      BY <2>2, <2>3 DEF InFlight
    <3>3. Stage(T, where', 1, h, packet)
      BY <1>0, <1>1, <2>1, <3>1, <3>2, StageEnds DEF ToLocal, ForLocal, ScriptOK
    <3> QED BY <2>2, <2>3, <3>1, <3>3 DEF InFlight
  <2>4. CASE state # "NEW"
    <3>1. PresentMapping(NatTypeHere)
      BY <1>1, <2>4 DEF PassNat, StaticNat
    <3>2. Kind(h, packet', state)
      BY <2>1, <2>2, <3>1, PresentMappingAlike DEF InFlight, Kind, Alike
    <3>3. ASSUME state = "ESTABLISHED"
          PROVE  \E i \in DOMAIN L : Replied(L[i], h) /\ Carried(L[i], where', h.addr, packet'.addr)
      <4>1. PICK i \in DOMAIN L : Replied(L[i], h) /\ Carried(L[i], where, h.addr, packet.addr)
        BY <2>2, <3>3 DEF InFlight
      <4>2. L[i].protocol = packet.protocol /\ h.addr \in {L[i].addr, L[i].replyAddr}
        BY <2>2, <4>1 DEF Replied, InFlight, Kind
      <4>3. Disjoint(L) /\ Mapped(T, L[i])
        BY DEF Sound
      <4>4. Carried(L[i], where', h.addr, packet'.addr)
        BY <1>0, <2>1, <2>4, <4>1, <4>2, <4>3, CarriedNext
      <4> QED BY <4>1, <4>4
    <3> QED BY <2>4, <3>2, <3>3 DEF InFlight
  <2> QED BY <2>3, <2>4
<1> QED BY <1>1, <1>2, <1>3, <1>4 DEF Sound

LEMMA AcceptSound ==
    ASSUME NEW T, Applicable(T), Base, Sound(T), Accept
    PROVE  Sound(T)'
<1>0. /\ ScriptOK /\ SMTypeOK /\ HistoryOK
  BY DEF Base, SMInv
<1>1. /\ where \in {"input", "accept"} /\ packet # NoPacket /\ packet' = NoPacket
      /\ stateEntryList' = stateEntryList
      /\ \/ witness' = witness
         \/ witness' = [in |-> arrived, out |-> packet, state |-> state]
  BY DEF Accept, Leave
<1>2. InFlight(T, stateEntryList, where, rule, arrived, packet, state)
  BY <1>1 DEF Sound
<1>3. arrived \in Header
  BY <1>0, <1>1 DEF HistoryOK
<1> DEFINE m == [in |-> arrived, out |-> packet, state |-> state]
<1>4. m.in = arrived /\ m.out = packet /\ m.state = state
  OBVIOUS
<1> HIDE DEF m
<1>5. ASSUME state = "NEW"
      PROVE  /\ packet = Final(T, arrived)
             /\ \E i \in DOMAIN stateEntryList :
                   /\ AsSent(stateEntryList[i]) = arrived
                   /\ stateEntryList[i].replyAddr = Mirror(packet.addr)
  <2>1. packet = Final(T, arrived)
    BY <1>1, <1>2, <1>5 DEF InFlight, Stage
  <2>2. PICK i \in DOMAIN stateEntryList : Owns(T, stateEntryList[i], arrived, packet)
    BY <1>2, <1>5 DEF InFlight
  <2>3. packet = arrived => Dst(T, arrived) = arrived
    BY <1>3, <2>1, HeadersOfPath
  <2> QED BY <2>1, <2>2, <2>3 DEF Owns, Follows
<1>6. ASSUME state = "ESTABLISHED"
      PROVE  \E i \in DOMAIN stateEntryList :
                /\ Replied(stateEntryList[i], arrived)
                /\ packet.addr = Exit(stateEntryList[i], arrived.addr)
  BY <1>1, <1>2, <1>6 DEF InFlight, Carried
<1>7. Remembered(T, stateEntryList, m)
  BY <1>2, <1>4, <1>5, <1>6 DEF Remembered, InFlight
<1> QED BY <1>1, <1>7 DEF Sound, m

LEMMA NatInvInit == Init => NatInv
BY DEF Init, SMInit, NatInv, Disjoint

LEMMA NatInvStep ==
    ASSUME EffectiveRules, Base, NatInv, [Next]_vars
    PROVE  NatInv'
<1>1. PICK T : T = NatRules[config]
  OBVIOUS
<1>2. Applicable(T)
  BY <1>1, TableApplies DEF Base, ScriptOK
<1>3. config' = config
  BY DEF Next, vars, Receive, MeetNatRule, PassOutput, PassOutPostrouting, PassPrerouting,
         PassPostrouting, PassNat, Accept, Discard
<1> SUFFICES ASSUME ~clash' PROVE Sound(T)'
  BY <1>1, <1>3 DEF NatInv, Sound
<1>4. ~clash => Sound(T)
  BY <1>1 DEF NatInv, Sound
<1>5. ASSUME NEW h \in Traffic, Receive(h) PROVE Sound(T)'
  <2>1. ~clash /\ Disjoint(stateEntryList)'
    BY <1>5 DEF Receive, NoteClash
  <2> QED BY <1>2, <1>4, <1>5, <2>1, ReceiveSound
<1>6. CASE MeetNatRule
  <2>1. ~clash /\ Disjoint(stateEntryList)'
    BY <1>6 DEF MeetNatRule, NoteClash
  <2> QED BY <1>1, <1>2, <1>4, <1>6, <2>1, MeetSound
<1>7. CASE PassOutput \/ PassOutPostrouting \/ PassPrerouting \/ PassPostrouting
  <2>1. ~clash
    BY <1>7 DEF PassOutput, PassOutPostrouting, PassPrerouting, PassPostrouting, PassNat
  <2> QED BY <1>1, <1>2, <1>4, <1>7, <2>1, PassSound
<1>8. CASE Accept
  BY <1>2, <1>4, <1>8, AcceptSound DEF Accept
<1>9. CASE Discard
  <2>1. ~clash /\ packet' = NoPacket /\ UNCHANGED <<stateEntryList, witness>>
    BY <1>9 DEF Discard, Leave
  <2> QED BY <1>4, <2>1 DEF Sound
<1>10. CASE UNCHANGED vars
  BY <1>4, <1>10 DEF vars, Sound
<1> QED BY <1>5, <1>6, <1>7, <1>8, <1>9, <1>10 DEF Next

-----------------------------------------------------------------------------
(* What the invariant says of two packets of one connection.               *)

LEMMA AnsweringType ==
    ASSUME NEW h \in Header, NEW m \in Header, h.protocol = "ICMP", Answers(h, m)
    PROVE  /\ h.type \in ReplyTypes
           /\ m.type = IF h.type = ICMP_ECHOREPLY THEN 8 ELSE h.type - 1
<1>1. m.type \in {8, 13, 15, 17} /\ h.type = IF m.type = 8 THEN ICMP_ECHOREPLY ELSE m.type + 1
  BY DEF Answers, QueryTypes, IsTransport
<1> QED BY <1>1 DEF ReplyTypes, ICMP_ECHOREPLY

\* Of an entry whose tuples do not meet their mirrors.
LEMMA EntryOneWay ==
    ASSUME SMTypeOK, Disjoint(stateEntryList), NEW i \in DOMAIN stateEntryList,
           NEW e, e = stateEntryList[i]
    PROVE  /\ e \in StateEntry /\ e.addr # e.replyAddr
           /\ Mirror(AfterDnat(e)) # e.addr /\ AfterDnat(e) # e.replyAddr
<1>1. e \in StateEntry
  BY DEF SMTypeOK
<1>2. /\ e.replyAddr = Mirror(Mirror(e.replyAddr))
      /\ {e.addr, AfterDnat(e), Mirror(e.replyAddr)} = Path(e)
  BY <1>1, TuplesOfEntry, MirrorType
<1>3. \A x, y \in Path(e) : x # Mirror(y)
  BY OneWay
<1>4. e.addr # Mirror(Mirror(e.replyAddr))
  BY <1>2, <1>3
<1>5. AfterDnat(e) # Mirror(Mirror(e.replyAddr))
  BY <1>2, <1>3
<1>6. e.addr # Mirror(AfterDnat(e))
  BY <1>2, <1>3
<1> QED BY <1>1, <1>2, <1>4, <1>5, <1>6

LEMMA ExitTuples ==
    ASSUME NEW e \in StateEntry, NEW a
    PROVE  Exit(e, a) \in Tuples(e) /\ Mirror(Exit(e, a)) \in Tuples(e)
<1>1. Exit(e, a) \in {AfterDnat(e), Mirror(AfterDnat(e)), Mirror(e.replyAddr), Mirror(e.addr)}
  BY DEF Exit, Half, Whole
<1>2. /\ Mirror(Mirror(AfterDnat(e))) = AfterDnat(e) /\ Mirror(Mirror(e.addr)) = e.addr
      /\ Mirror(Mirror(e.replyAddr)) = e.replyAddr
  BY TuplesOfEntry, MirrorType
<1> QED BY <1>1, <1>2, TuplesOfEntry

\* An answer to an accepted packet finds the entry of that packet.
LEMMA AnswerFinds ==
    ASSUME NEW T, Applicable(T), Base, Sound(T), Disjoint(stateEntryList)',
           NEW h \in Header, Push(h), witness # NoPacket, Answers(h, witness.out)
    PROVE  state' = "ESTABLISHED"
<1> DEFINE m == witness
<1>1. /\ SMTypeOK /\ Disjoint(stateEntryList) /\ Disjoint(stateEntryList')
      /\ m.in \in Header /\ m.out \in Header /\ Remembered(T, stateEntryList, m)
  BY DEF Base, SMInv, HistoryOK, Sound
<1> HIDE DEF m
<1>2. /\ h.addr = Mirror(m.out.addr) /\ h.protocol = m.out.protocol
      /\ m.out.protocol = m.in.protocol /\ m.out.type = m.in.type
  BY <1>1 DEF Answers, Remembered, Kind, m
<1>3. ASSUME m.state = "NEW"
      PROVE  \E i \in DOMAIN stateEntryList :
                /\ AsSent(stateEntryList[i]) = m.in /\ stateEntryList[i].replyAddr = h.addr
  BY <1>1, <1>2, <1>3 DEF Remembered
<1>4. CASE IsTransport(h)
  <2>1. PushTransport(h) /\ IsTransport(m.in)
    BY <1>2, <1>4 DEF Push, PushUnsupported, PushIcmpQuery, PushIcmpReply, PushIcmpError,
                      IsTransport
  <2>2. m.state \in {"NEW", "ESTABLISHED"}
    BY <1>1, <2>1 DEF Remembered, Kind
  <2>3. CASE m.state = "NEW"
    <3>1. PICK i \in DOMAIN stateEntryList :
             AsSent(stateEntryList[i]) = m.in /\ stateEntryList[i].replyAddr = h.addr
      BY <1>3, <2>3
    <3>2. stateEntryList[i].protocol = h.protocol
      BY <1>2, <3>1 DEF AsSent
    <3>3. stateEntryList[i].addr # h.addr /\ h.addr \in Tuples(stateEntryList[i])
      BY <1>1, <3>1, EntryOneWay, TuplesOfEntry
    <3> QED BY <1>1, <2>1, <3>2, <3>3, TransportHit
  <2>4. CASE m.state = "ESTABLISHED"
    <3>1. PICK i \in DOMAIN stateEntryList :
             Replied(stateEntryList[i], m.in) /\ m.out.addr = Exit(stateEntryList[i], m.in.addr)
      BY <1>1, <2>1, <2>4 DEF Remembered
    <3>2. stateEntryList[i].protocol = h.protocol /\ stateEntryList[i].gotReply
      BY <1>2, <2>1, <3>1 DEF Replied
    <3>3. h.addr \in Tuples(stateEntryList[i])
      BY <1>1, <1>2, <3>1, EntryOneWay, ExitTuples
    <3> QED BY <1>1, <2>1, <3>2, <3>3, TransportHit
  <2> QED BY <2>2, <2>3, <2>4
<1>5. CASE ~IsTransport(h)
  <2>1. /\ h.protocol = "ICMP" /\ m.out.type \in QueryTypes
        /\ Opens(m.in) /\ ~IsTransport(m.in)
    BY <1>2, <1>5 DEF Answers, Opens, IsTransport, m
  <2>2. m.state = "NEW"
    BY <1>1, <2>1 DEF Remembered, Kind
  <2>3. PICK i \in DOMAIN stateEntryList :
             AsSent(stateEntryList[i]) = m.in /\ stateEntryList[i].replyAddr = h.addr
    BY <1>3, <2>2
  <2>4. h.type \in ReplyTypes /\ m.out.type = IF h.type = ICMP_ECHOREPLY THEN 8 ELSE h.type - 1
    BY <1>1, <2>1, AnsweringType DEF m
  <2>5. stateEntryList[i].protocol = h.protocol /\ stateEntryList[i].type = m.out.type
    BY <1>2, <2>3 DEF AsSent
  <2>6. i \in AnsweredQuery(h)
    BY <2>3, <2>4, <2>5 DEF AnsweredQuery, SameIPs
  <2>7. PushIcmpReply(h)
    BY <1>5, <2>1, <2>4 DEF Push, PushUnsupported, PushTransport, PushIcmpQuery, PushIcmpError,
                            QueryTypes, ReplyTypes
  <2> QED BY <2>6, <2>7 DEF PushIcmpReply, Classified
<1> QED BY <1>4, <1>5

LEMMA RepeatFinds ==
    ASSUME NEW T, Base, Sound(T), Disjoint(stateEntryList)',
           NEW h \in Header, Push(h), IsTransport(h), witness # NoPacket, h = witness.in,
           witness.state = "ESTABLISHED"
    PROVE  state' = "ESTABLISHED"
<1>1. /\ SMTypeOK /\ Disjoint(stateEntryList) /\ Disjoint(stateEntryList')
      /\ Remembered(T, stateEntryList, witness)
  BY DEF Base, SMInv, Sound
<1>2. PushTransport(h)
  BY DEF Push, PushUnsupported, PushIcmpQuery, PushIcmpReply, PushIcmpError, IsTransport
<1>3. PICK i \in DOMAIN stateEntryList : Replied(stateEntryList[i], h)
  BY <1>1 DEF Remembered
<1>4. /\ stateEntryList[i].protocol = h.protocol /\ stateEntryList[i].gotReply
      /\ h.addr \in Tuples(stateEntryList[i])
  BY <1>1, <1>3, EntryOneWay, TuplesOfEntry DEF Replied
<1> QED BY <1>1, <1>2, <1>4, TransportHit

\* An answer and a repeated packet are classified on arrival; nothing later changes that.
Classed == ReplyRecognised /\ EstablishedStays

LEMMA ClassedStep ==
    ASSUME EffectiveRules, Base, NatInv, Classed, [Next]_vars
    PROVE  Classed'
<1>1. PICK T : T = NatRules[config]
  OBVIOUS
<1>2. Applicable(T)
  BY <1>1, TableApplies DEF Base, ScriptOK
<1>3. ASSUME NEW h \in Traffic, Receive(h) PROVE Classed'
  <2> SUFFICES ASSUME ~clash', arrived' # NoPacket, witness' # NoPacket
               PROVE  /\ Answers(arrived', witness'.out) => state' = "ESTABLISHED"
                      /\ IsTransport(arrived') /\ arrived' = witness'.in
                           /\ witness'.state = "ESTABLISHED" => state' = "ESTABLISHED"
    BY DEF Classed, ReplyRecognised, EstablishedStays, Compared
  <2>1. /\ ~clash /\ Disjoint(stateEntryList)' /\ witness' = witness /\ Push(h)
        /\ arrived' = packet' /\ h \in Header /\ packet = NoPacket
    BY <1>3, TrafficAssumption DEF Receive, NoteClash, Push
  <2>2. Sound(T)
    BY <1>1, <2>1 DEF NatInv, Sound
  <2>3. packet' = h
    BY <2>1, PushStep DEF Base, SMInv
  <2> QED BY <1>2, <2>1, <2>2, <2>3, AnswerFinds, RepeatFinds
<1>4. CASE \/ MeetNatRule \/ UNCHANGED vars
           \/ PassOutput \/ PassOutPostrouting \/ PassPrerouting \/ PassPostrouting
  <2>1. UNCHANGED <<arrived, witness, state>>
    BY <1>4 DEF MeetNatRule, PassOutput, PassOutPostrouting, PassPrerouting, PassPostrouting,
                PassNat, StaticNat, smVars, vars
  <2>2. ~clash' => ~clash
    BY <1>4 DEF MeetNatRule, PassOutput, PassOutPostrouting, PassPrerouting, PassPostrouting,
                PassNat, vars, NoteClash
  <2> QED BY <2>1, <2>2 DEF Classed, ReplyRecognised, EstablishedStays, Compared
<1>5. CASE Accept \/ Discard
  <2>1. arrived' = NoPacket
    BY <1>5 DEF Accept, Discard
  <2> QED BY <2>1 DEF Classed, ReplyRecognised, EstablishedStays, Compared
<1> QED BY <1>3, <1>4, <1>5 DEF Next

LEMMA StableTranslation ==
    ASSUME EffectiveRules, Base, NatInv, Classed
    PROVE  TranslationStable
<1> SUFFICES ASSUME Compared, Leaving, arrived = witness.in,
                    IsTransport(arrived) \/ arrived.type \in QueryTypes
             PROVE  packet = witness.out
  BY DEF TranslationStable
<1> DEFINE h == arrived
           m == witness
           T == NatRules[config]
           L == stateEntryList
<1>1. /\ SMTypeOK /\ HistoryOK /\ Applicable(T) /\ packet # NoPacket /\ h # NoPacket
      /\ h \in Header /\ m \in [in : Header, out : Header, state : State] /\ m.in = h
  BY TableApplies DEF Base, SMInv, ScriptOK, HistoryOK, Compared
<1>2. packet \in Header /\ m.out \in Header
  BY <1>1 DEF SMTypeOK
<1>3. /\ Disjoint(L) /\ Remembered(T, L, m) /\ InFlight(T, L, where, rule, h, packet, state)
  BY <1>1 DEF NatInv, Compared
<1>4. Alike(packet, m.out) /\ Opens(h)
  <2>1. ~IsTransport(h) => h.protocol = "ICMP"
    BY <1>1 DEF Header, QueryTypes
  <2> QED BY <1>1, <1>3, <2>1 DEF InFlight, Remembered, Kind, Alike, Opens
<1>5. IsTransport(h) /\ m.state = "ESTABLISHED" => state = "ESTABLISHED"
  BY <1>1 DEF Classed, EstablishedStays
<1> HIDE DEF h, m, T, L
<1>6. ASSUME state = "NEW" PROVE packet = m.out
  <2>1. m.state = "NEW"
    BY <1>1, <1>3, <1>4, <1>5, <1>6 DEF Remembered, Kind
  <2> QED BY <1>1, <1>3, <1>6, <2>1 DEF InFlight, Stage, Leaving, Remembered
<1>7. ASSUME state # "NEW" PROVE packet = m.out
  <2>1. IsTransport(h) /\ state = "ESTABLISHED"
    BY <1>3, <1>4, <1>7 DEF InFlight, Kind
  <2>2. PICK i \in DOMAIN L : Replied(L[i], h) /\ packet.addr = Exit(L[i], h.addr)
    BY <1>3, <2>1 DEF InFlight, Carried, Leaving
  <2>3. L[i] \in StateEntry /\ L[i].protocol = h.protocol /\ h.addr \in Tuples(L[i])
    BY <1>1, <1>3, <2>2, EntryOneWay, TuplesOfEntry DEF Replied, L
  <2>4. m.state \in {"NEW", "ESTABLISHED"}
    BY <1>1, <1>3, <2>1 DEF Remembered, Kind
  <2>5. CASE m.state = "ESTABLISHED"
    <3>1. PICK j \in DOMAIN L : Replied(L[j], h) /\ m.out.addr = Exit(L[j], h.addr)
      BY <1>1, <1>3, <2>1, <2>5 DEF Remembered
    <3>2. L[j].protocol = h.protocol /\ h.addr \in Tuples(L[j])
      BY <1>1, <1>3, <3>1, EntryOneWay, TuplesOfEntry DEF Replied, L
    <3>3. i = j
      BY <1>3, <2>3, <3>2, SharedTuple
    <3> QED BY <1>2, <1>4, <2>2, <3>1, <3>3, AlikeByTuple
  <2>6. CASE m.state = "NEW"
    <3>1. PICK j \in DOMAIN L : AsSent(L[j]) = h /\ L[j].replyAddr = Mirror(m.out.addr)
      BY <1>1, <1>3, <2>6 DEF Remembered
    <3>2. L[j] \in StateEntry /\ L[j].protocol = h.protocol /\ L[j].addr = h.addr
      BY <1>1, <1>3, <3>1, EntryOneWay DEF AsSent, L
    <3>3. h.addr \in Tuples(L[j])
      BY <3>2, TuplesOfEntry
    <3>4. i = j
      BY <1>3, <2>3, <3>2, <3>3, SharedTuple
    <3>5. m.out = Final(T, h)
      BY <1>1, <1>3, <2>6 DEF Remembered
    <3>6. Whole(L[i], h.addr) = m.out.addr
      BY <1>2, <3>1, <3>2, <3>4, MirrorType DEF Whole, Header
    <3>7. Half(L[i], h.addr) = Dst(T, h).addr
      <4>1. /\ Dst(T, h) \in Header /\ Keeps("dst", Dst(T, h).addr, h.addr)
            /\ Keeps("src", m.out.addr, Dst(T, h).addr)
        BY <1>1, <3>5, HeadersOfPath
      <4>2. AfterDnat(L[i]) = Dst(T, h).addr
        BY <1>1, <1>2, <2>3, <3>1, <3>2, <3>4, <4>1, AfterDnatOf DEF Header
      <4> QED BY <3>2, <3>4, <4>2 DEF Half
    <3>8. packet.addr = m.out.addr
      <4>1. CASE Exit(L[i], h.addr) = Whole(L[i], h.addr)
        BY <2>2, <3>6, <4>1
      <4>2. CASE Exit(L[i], h.addr) # Whole(L[i], h.addr)
        <5>1. /\ h.addr.srcIP \notin LocalIP /\ Dst(T, h).addr.dstIP \in LocalIP
              /\ packet.addr = Dst(T, h).addr
          BY <2>2, <3>7, <4>2 DEF Exit
        <5>2. Final(T, h) = Dst(T, h)
          BY <5>1 DEF Final, Early, FromLocal, ForLocal
        <5> QED BY <3>5, <5>1, <5>2
      <4> QED BY <4>1, <4>2
    <3> QED BY <1>2, <1>4, <3>8, AlikeByTuple
  <2> QED BY <2>4, <2>5, <2>6
<1>8. packet = m.out
  BY <1>6, <1>7
<1> QED BY <1>8 DEF m

\* What an ESTABLISHED packet leaves with, sent with one end's tuple, goes back to the other.
LEMMA WholeBack ==
    ASSUME SMTypeOK, Disjoint(stateEntryList), NEW i \in DOMAIN stateEntryList,
           NEW e, e = stateEntryList[i], NEW b
    PROVE  /\ b = e.replyAddr
                => /\ Whole(e, b) = Mirror(e.addr)
                   /\ Keeps("src", Half(e, b), Mirror(e.addr))
           /\ b = e.addr
                => /\ Whole(e, b) = Mirror(e.replyAddr)
                   /\ Keeps("src", Half(e, b), Mirror(e.replyAddr))
<1>1. e \in StateEntry /\ e.addr # e.replyAddr
  BY EntryOneWay
<1>2. /\ Keeps("src", Mirror(AfterDnat(e)), Mirror(e.addr))
      /\ Keeps("src", AfterDnat(e), Mirror(e.replyAddr))
  BY <1>1 DEF Keeps, AfterDnat, Mirror
<1> QED BY <1>1, <1>2 DEF Whole, Half

LEMMA AnswerReturns ==
    ASSUME EffectiveRules, Base, NatInv, Classed
    PROVE  RoundTrip
<1> SUFFICES ASSUME Compared, Leaving, Answers(arrived, witness.out)
             PROVE  /\ Keeps("src", packet.addr, Mirror(witness.in.addr))
                    /\ where = "accept" => packet.addr = Mirror(witness.in.addr)
  BY DEF RoundTrip, Keeps
<1> DEFINE h == arrived
           m == witness
           T == NatRules[config]
           L == stateEntryList
<1>1. /\ SMTypeOK /\ HistoryOK /\ Applicable(T) /\ packet # NoPacket /\ h # NoPacket
      /\ h \in Header /\ m \in [in : Header, out : Header, state : State]
  BY TableApplies DEF Base, SMInv, ScriptOK, HistoryOK, Compared
<1>2. /\ Disjoint(L) /\ Remembered(T, L, m) /\ InFlight(T, L, where, rule, h, packet, state)
  BY <1>1 DEF NatInv, Compared
<1>3. state = "ESTABLISHED"
  BY DEF Classed, ReplyRecognised
<1>4. PICK i \in DOMAIN L : Replied(L[i], h) /\ Carried(L[i], where, h.addr, packet.addr)
  BY <1>2, <1>3 DEF InFlight
<1> DEFINE e == L[i]
<1>5. /\ e \in StateEntry /\ e.protocol = h.protocol /\ h.addr \in {e.addr, e.replyAddr}
      /\ h.addr \in Tuples(e)
      /\ \A b : b = e.replyAddr
              => Whole(e, b) = Mirror(e.addr) /\ Keeps("src", Half(e, b), Mirror(e.addr))
      /\ \A b : b = e.addr
              => Whole(e, b) = Mirror(e.replyAddr) /\ Keeps("src", Half(e, b), Mirror(e.replyAddr))
  BY <1>1, <1>2, <1>4, EntryOneWay, TuplesOfEntry, WholeBack DEF Replied
<1>6. /\ packet.addr \in {Whole(e, h.addr), Half(e, h.addr)}
      /\ where = "accept" => packet.addr = Whole(e, h.addr)
  BY <1>4 DEF Carried, Exit, Leaving
<1>7. /\ h.addr = Mirror(m.out.addr) /\ m.in.protocol = h.protocol
      /\ Opens(m.in) /\ m.out.addr \in addrEntry /\ m.in.addr \in addrEntry
  BY <1>1, <1>2 DEF Answers, Remembered, Kind, Opens, IsTransport, Header
\* The answer comes from the end of e that m.in was sent to.
<1>8. \/ h.addr = e.replyAddr /\ m.in.addr = e.addr
      \/ h.addr = e.addr /\ m.in.addr = e.replyAddr
  <2>1. CASE m.state = "NEW"
    <3>1. PICK j \in DOMAIN L : AsSent(L[j]) = m.in /\ L[j].replyAddr = h.addr
      BY <1>2, <1>7, <2>1 DEF Remembered
    <3>2. L[j].protocol = h.protocol /\ L[j].addr = m.in.addr
      BY <1>7, <3>1 DEF AsSent
    <3>3. h.addr \in Tuples(L[j])
      BY <1>1, <1>2, <3>1, EntryOneWay, TuplesOfEntry
    <3>4. i = j
      BY <1>2, <1>5, <3>2, <3>3, SharedTuple
    <3> QED BY <3>1, <3>2, <3>4
  <2>2. CASE m.state # "NEW"
    <3>1. IsTransport(m.in) /\ m.state = "ESTABLISHED"
      BY <1>2, <1>7, <2>2 DEF Remembered, Kind
    <3>2. PICK j \in DOMAIN L : Replied(L[j], m.in) /\ m.out.addr = Exit(L[j], m.in.addr)
      BY <1>2, <3>1 DEF Remembered
    <3>3. L[j].protocol = h.protocol /\ m.in.addr \in {L[j].addr, L[j].replyAddr}
      BY <1>7, <3>2 DEF Replied
    <3>4. h.addr \in Tuples(L[j])
      BY <1>1, <1>2, <1>7, <3>2, EntryOneWay, ExitTuples
    <3>5. i = j
      BY <1>2, <1>5, <3>3, <3>4, SharedTuple
    <3>6. /\ e.addr # e.replyAddr /\ Mirror(AfterDnat(e)) # e.addr /\ AfterDnat(e) # e.replyAddr
      BY <1>1, <1>2, EntryOneWay
    <3>7. Mirror(Mirror(e.replyAddr)) = e.replyAddr /\ Mirror(Mirror(e.addr)) = e.addr
          /\ Mirror(Mirror(AfterDnat(e))) = AfterDnat(e)
      BY <1>5, TuplesOfEntry, MirrorType
    <3> HIDE DEF e
    <3>8. h.addr = Mirror(Exit(e, m.in.addr)) /\ m.in.addr \in {e.addr, e.replyAddr}
      BY <1>7, <3>2, <3>3, <3>5 DEF e
    <3>9. CASE m.in.addr = e.addr
      <4>1. h.addr \in {Mirror(AfterDnat(e)), e.replyAddr}
        BY <3>7, <3>8, <3>9 DEF Exit, Half, Whole
      <4> QED BY <1>5, <3>6, <3>9, <4>1
    <3>10. CASE m.in.addr = e.replyAddr
      <4>1. h.addr \in {AfterDnat(e), e.addr}
        BY <3>6, <3>7, <3>8, <3>10 DEF Exit, Half, Whole
      <4> QED BY <1>5, <3>6, <3>10, <4>1
    <3> QED BY <3>8, <3>9, <3>10
  <2> QED BY <2>1, <2>2
<1> HIDE DEF e, h, m
<1>9. /\ Whole(e, h.addr) = Mirror(m.in.addr)
      /\ Keeps("src", Half(e, h.addr), Mirror(m.in.addr))
  BY <1>5, <1>8
<1>10. Keeps("src", packet.addr, Mirror(m.in.addr))
       /\ (where = "accept" => packet.addr = Mirror(m.in.addr))
  BY <1>6, <1>9 DEF Keeps
<1> QED BY <1>10 DEF m

-----------------------------------------------------------------------------
(* ICMP errors.  Of a TCP or UDP entry they are found by the hosts alone,  *)
(* and the list stays as it is while one is on its way.                    *)

IsError(h) == h.protocol = "ICMP" /\ h.type \notin QueryTypes \cup ReplyTypes

\* Tuple b of an error about connection e at place w, sent with the hosts of e.addr, and
\* sent with those of e.replyAddr.  What the firewall sends to itself meets the
\* translation of the destination a second time and stays the firewall's.
Forth(e, w, b) ==
    \/ w = "output" /\ SameIPs(b, e.addr)
    \/ w = "outPostrouting" /\ SameIPs(b, AfterDnat(e))
    \/ /\ w = "prerouting"
       /\ IF e.addr.srcIP \in LocalIP THEN SameIPs(b, Mirror(e.replyAddr)) /\ b.dstIP \in LocalIP
          ELSE SameIPs(b, e.addr)
    \/ w = "postrouting" /\ SameIPs(b, AfterDnat(e))
    \/ w = "input"
    \/ w = "accept" /\ SameIPs(b, Mirror(e.replyAddr))
ForthFrom(e, w) ==
    /\ w \in {"output", "outPostrouting"} => e.addr.srcIP \in LocalIP
    /\ w = "postrouting" => e.addr.srcIP \notin LocalIP

Back(e, w, b) ==
    \/ w = "output" /\ SameIPs(b, e.replyAddr)
    \/ w = "outPostrouting" /\ SameIPs(b, Mirror(AfterDnat(e)))
    \/ /\ w = "prerouting"
       /\ IF e.replyAddr.srcIP \in LocalIP
          THEN e.replyAddr.srcIP = e.addr.srcIP /\ SameIPs(b, Mirror(e.replyAddr))
          ELSE SameIPs(b, e.replyAddr)
    \/ w = "postrouting" /\ SameIPs(b, Mirror(AfterDnat(e)))
    \/ w \in {"input", "accept"} /\ b.dstIP = e.addr.srcIP
BackFrom(e, w) ==
    /\ w \in {"output", "outPostrouting"} => e.replyAddr.srcIP \in LocalIP
    /\ w = "postrouting" => e.replyAddr.srcIP \notin LocalIP

\* The error in flight, sent with tuple a and now with tuple b, follows connection e.
FollowsError(e, w, a, b) ==
    /\ SameIPs(a, e.addr) => state = "RELATED" /\ ForthFrom(e, w) /\ Forth(e, w, b)
    /\ SameIPs(a, e.replyAddr) =>
         /\ state = "RELATED"
         /\ ~BetweenOwn(e.replyAddr.srcIP, e.addr.srcIP) => BackFrom(e, w) /\ Back(e, w, b)

ErrorInv ==
    ~clash /\ packet # NoPacket /\ HostsDisjoint /\ IsError(arrived) =>
        \A i \in DOMAIN stateEntryList : IsTransport(stateEntryList[i]) =>
            FollowsError(stateEntryList[i], where, arrived.addr, packet.addr)

LEMMA HostsOfOne ==
    ASSUME HostsDisjoint, NEW i \in DOMAIN stateEntryList, NEW j \in DOMAIN stateEntryList,
           NEW x \in Tuples(stateEntryList[i]), NEW y \in Tuples(stateEntryList[j]),
           NEW b, SameIPs(x, b), SameIPs(y, b)
    PROVE  i = j
<1>1. /\ <<x.srcIP, x.dstIP>> \in Hosts(stateEntryList[i])
      /\ <<y.srcIP, y.dstIP>> \in Hosts(stateEntryList[j])
  BY DEF Hosts
<1>2. <<x.srcIP, x.dstIP>> = <<y.srcIP, y.dstIP>>
  BY DEF SameIPs
<1>3. Hosts(stateEntryList[i]) \cap Hosts(stateEntryList[j]) # {}
  BY <1>1, <1>2
<1> QED BY <1>3 DEF HostsDisjoint

\* Of all entries a StaticNat finds only the one with the hosts of the error.
LEMMA ErrorTakes ==
    ASSUME SMTypeOK, HostsDisjoint, packet \in Header, packet.protocol = "ICMP",
           NEW t \in NatType, PresentMapping(t), NEW i \in DOMAIN stateEntryList,
           IsTransport(stateEntryList[i]),
           NEW x \in Tuples(stateEntryList[i]), SameIPs(x, packet.addr)
    PROVE  SameIPs(packet'.addr,
               IF SameIPs(OriginatorBefore(t, stateEntryList[i]), packet.addr)
               THEN OriginatorAfter(t, stateEntryList[i])
               ELSE IF SameIPs(ReplyBefore(t, stateEntryList[i]), packet.addr)
               THEN RelatedReplyAfter(t, stateEntryList[i])
               ELSE packet.addr)
<1> DEFINE hits  == UNION {FromOriginator(t, packet), FromReplier(t, packet),
                           RelatedOriginator(t, packet), RelatedReplier(t, packet)}
           first == Min(hits)
           e     == stateEntryList[i]
<1>1. hits \subseteq {i}
  <2> SUFFICES ASSUME NEW k \in hits PROVE k = i
    OBVIOUS
  <2>1. k \in DOMAIN stateEntryList
    BY HitsAreIndices
  <2>2. \/ SameIPs(OriginatorBefore(t, stateEntryList[k]), packet.addr)
        \/ SameIPs(ReplyBefore(t, stateEntryList[k]), packet.addr)
    BY DEF FromOriginator, FromReplier, RelatedOriginator, RelatedReplier, SameIPs
  <2>3. /\ OriginatorBefore(t, stateEntryList[k]) \in Tuples(stateEntryList[k])
        /\ ReplyBefore(t, stateEntryList[k]) \in Tuples(stateEntryList[k])
    BY <2>1, OriginatorTuple DEF SMTypeOK
  <2> QED BY <2>1, <2>2, <2>3, HostsOfOne
<1>2. i \notin FromOriginator(t, packet) /\ i \notin FromReplier(t, packet)
  BY DEF FromOriginator, FromReplier, IsTransport
<1>3. /\ i \in RelatedOriginator(t, packet) <=> SameIPs(OriginatorBefore(t, e), packet.addr)
      /\ i \in RelatedReplier(t, packet) <=> SameIPs(ReplyBefore(t, e), packet.addr)
  BY DEF RelatedOriginator, RelatedReplier, IsTransport
<1>4. \A a : SameIPs(Rewrite(packet, a).addr, a)
  BY DEF Rewrite, SameIPs, Header, addrEntry, IsTransport
<1>5. CASE hits = {}
  <2>1. packet' = packet
    BY <1>5 DEF PresentMapping
  <2>2. i \notin RelatedOriginator(t, packet) /\ i \notin RelatedReplier(t, packet)
    BY <1>5
  <2> QED BY <1>3, <2>1, <2>2 DEF SameIPs
<1>6. CASE hits # {}
  <2>1. first = i /\ i \in hits
    <3>1. first \in hits
      BY <1>6, HitsAreIndices, MinIsElement
    <3> QED BY <1>1, <3>1
  <2>2. packet' = IF first \in FromOriginator(t, packet)
                  THEN Rewrite(packet, OriginatorAfter(t, stateEntryList[first]))
                  ELSE IF first \in FromReplier(t, packet)
                  THEN Rewrite(packet, ReplyAfter(t, stateEntryList[first]))
                  ELSE IF first \in RelatedOriginator(t, packet)
                  THEN Rewrite(packet, OriginatorAfter(t, stateEntryList[first]))
                  ELSE Rewrite(packet, RelatedReplyAfter(t, stateEntryList[first]))
    BY <1>6 DEF PresentMapping
  <2>3. i \in RelatedOriginator(t, packet) \/ i \in RelatedReplier(t, packet)
    BY <1>2, <2>1
  <2> HIDE DEF first, hits
  <2>4. packet' = IF i \in RelatedOriginator(t, packet)
                  THEN Rewrite(packet, OriginatorAfter(t, e))
                  ELSE Rewrite(packet, RelatedReplyAfter(t, e))
    BY <1>2, <2>1, <2>2
  <2> HIDE DEF e
  <2> QED BY <1>3, <1>4, <2>3, <2>4 DEF e
<1> QED BY <1>5, <1>6

\* The hosts of e.addr, behind each StaticNat: the originator's side has precedence.
LEMMA ForthNext ==
    ASSUME NEW e \in StateEntry, NEW w, NEW v, NEW b, NEW c,
           ForthFrom(e, w), Forth(e, w, b),
           SameIPs(c, IF SameIPs(OriginatorBefore(TypeAt(w), e), b)
                      THEN OriginatorAfter(TypeAt(w), e)
                      ELSE IF SameIPs(ReplyBefore(TypeAt(w), e), b)
                      THEN RelatedReplyAfter(TypeAt(w), e)
                      ELSE b),
           \/ w = "output" /\ v = "outPostrouting"
           \/ w = "outPostrouting" /\ v = IF c.dstIP \in LocalIP THEN "prerouting" ELSE "accept"
           \/ w = "prerouting" /\ v = IF c.dstIP \in LocalIP THEN "input" ELSE "postrouting"
           \/ w = "postrouting" /\ v = "accept"
    PROVE  ForthFrom(e, v) /\ Forth(e, v, c)
<1> USE DEF TypeAt, SameIPs, Mirror, AfterDnat, OriginatorBefore, OriginatorAfter,
            ReplyBefore, ReplyAfter, RelatedReplyAfter, ForthFrom, Forth
<1>1. CASE w = "output"
  BY <1>1
<1>2. CASE w = "outPostrouting"
  BY <1>2
<1>3. CASE w = "prerouting"
  BY <1>3
<1>4. CASE w = "postrouting"
  BY <1>4
<1> QED BY <1>1, <1>2, <1>3, <1>4

LEMMA BackNext ==
    ASSUME NEW e \in StateEntry, NEW w, NEW v, NEW b, NEW c,
           ~BetweenOwn(e.replyAddr.srcIP, e.addr.srcIP), BackFrom(e, w), Back(e, w, b),
           SameIPs(c, IF SameIPs(OriginatorBefore(TypeAt(w), e), b)
                      THEN OriginatorAfter(TypeAt(w), e)
                      ELSE IF SameIPs(ReplyBefore(TypeAt(w), e), b)
                      THEN RelatedReplyAfter(TypeAt(w), e)
                      ELSE b),
           \/ w = "output" /\ v = "outPostrouting"
           \/ w = "outPostrouting" /\ v = IF c.dstIP \in LocalIP THEN "prerouting" ELSE "accept"
           \/ w = "prerouting" /\ v = IF c.dstIP \in LocalIP THEN "input" ELSE "postrouting"
           \/ w = "postrouting" /\ v = "accept"
    PROVE  BackFrom(e, v) /\ Back(e, v, c)
<1> USE DEF TypeAt, SameIPs, Mirror, AfterDnat, OriginatorBefore, OriginatorAfter,
            ReplyBefore, ReplyAfter, RelatedReplyAfter, BackFrom, Back, BetweenOwn
<1>1. CASE w = "output"
  BY <1>1
<1>2. CASE w = "outPostrouting"
  BY <1>2
<1>3. CASE w = "prerouting"
  BY <1>3
<1>4. CASE w = "postrouting"
  BY <1>4
<1> QED BY <1>1, <1>2, <1>3, <1>4

LEMMA ErrorInvInit == Init => ErrorInv
BY DEF Init, SMInit, ErrorInv

\* The search of push finds the connection, whichever side the error comes from.
LEMMA ErrorArrives ==
    ASSUME Base, NEW h \in Traffic, Receive(h)
    PROVE  ErrorInv'
<1> SUFFICES ASSUME packet' # NoPacket, IsError(arrived'),
                    NEW i \in DOMAIN stateEntryList', IsTransport(stateEntryList'[i])
             PROVE  FollowsError(stateEntryList[i], where, arrived.addr, packet.addr)'
  BY DEF ErrorInv
<1>1. SMTypeOK /\ h \in Header
  BY TrafficAssumption DEF Base, SMInv
<1>2. /\ h.protocol # "OTHER" /\ PushIcmpError(h)
  <2>1. CASE h.protocol = "OTHER"
    BY <2>1 DEF Receive, Push, PushUnsupported, PushTransport, PushIcmpQuery, PushIcmpReply,
                PushIcmpError, IsTransport, smVars
  <2>2. CASE h.protocol # "OTHER"
    <3>1. packet' = h /\ arrived' = h
      BY <2>2 DEF Receive, Push, PushUnsupported, PushTransport, PushIcmpQuery, PushIcmpReply,
                  PushIcmpError, Classified
    <3> QED BY <2>2, <3>1 DEF Receive, Push, PushUnsupported, PushTransport, PushIcmpQuery,
                              PushIcmpReply, IsError, IsTransport
  <2> QED BY <2>1, <2>2
<1>3. /\ arrived' = h /\ packet' = h /\ stateEntryList' = stateEntryList
      /\ state' = (IF Concerned(h) # {} THEN "RELATED" ELSE "INVALID")
      /\ where' = TrafficType(h)
  BY <1>2 DEF Receive, PushIcmpError, Classified
<1> DEFINE e == stateEntryList[i]
<1>4. e \in StateEntry /\ e.addr \in addrEntry /\ e.replyAddr \in addrEntry /\ h.addr \in addrEntry
  BY <1>1, <1>3, TuplesOfEntry DEF SMTypeOK, Header
<1>5. SameIPs(h.addr, e.addr) \/ SameIPs(h.addr, e.replyAddr) => state' = "RELATED"
  <2>1. e.protocol # h.protocol
    BY <1>2, <1>3 DEF IsTransport, PushIcmpError
  <2>2. SameIPs(h.addr, e.addr) \/ SameIPs(h.addr, e.replyAddr) => i \in Concerned(h)
    BY <1>3, <2>1 DEF Concerned, SameIPs
  <2> QED BY <1>3, <2>2
<1> HIDE DEF e
<1>6. SameIPs(h.addr, e.addr) => ForthFrom(e, where') /\ Forth(e, where', h.addr)
  BY <1>3 DEF ForthFrom, Forth, TrafficType, SameIPs
<1>7. SameIPs(h.addr, e.replyAddr) => BackFrom(e, where') /\ Back(e, where', h.addr)
  BY <1>3 DEF BackFrom, Back, TrafficType, SameIPs
<1> QED BY <1>3, <1>5, <1>6, <1>7 DEF FollowsError, e

LEMMA ErrorPasses ==
    ASSUME EffectiveRules, Base, NatInv, ErrorInv,
           PassOutput \/ PassOutPostrouting \/ PassPrerouting \/ PassPostrouting
    PROVE  ErrorInv'
<1>0. /\ PassNat(where)
      /\ \/ where = "output" /\ where' = "outPostrouting"
         \/ where = "outPostrouting" /\ where' = IF ToLocal THEN "prerouting" ELSE "accept"
         \/ where = "prerouting" /\ where' = IF ToLocal THEN "input" ELSE "postrouting"
         \/ where = "postrouting" /\ where' = "accept"
  BY DEF PassOutput, PassOutPostrouting, PassPrerouting, PassPostrouting, PassNat
<1>1. /\ stateEntryList' = stateEntryList /\ state' = state /\ arrived' = arrived
      /\ clash' = clash
      /\ packet = NoPacket => packet' = packet
  BY <1>0 DEF PassNat, smVars, StaticNat, PresentMapping
<1> SUFFICES ASSUME ~clash, packet # NoPacket, HostsDisjoint, IsError(arrived),
                    NEW i \in DOMAIN stateEntryList, IsTransport(stateEntryList[i])
             PROVE  FollowsError(stateEntryList[i], where', arrived.addr, packet'.addr)
  BY <1>1 DEF ErrorInv, HostsDisjoint, FollowsError
<1> DEFINE e == stateEntryList[i]
           t == TypeAt(where)
<1>2. /\ SMTypeOK /\ HistoryOK /\ packet \in Header /\ e \in StateEntry
  BY DEF Base, SMInv, SMTypeOK
<1>3. FollowsError(e, where, arrived.addr, packet.addr)
  BY DEF ErrorInv
<1>4. packet.protocol = "ICMP" /\ state # "NEW"
  <2>1. Kind(arrived, packet, state)
    BY DEF NatInv, InFlight
  <2> QED BY <2>1 DEF Kind, IsError, Opens, IsTransport
<1>5. PresentMapping(t) /\ t \in NatType
  <2>1. PresentMapping(t)
    BY <1>0, <1>4, NatHere DEF PassNat, StaticNat
  <2> QED BY <2>1 DEF TypeAt, NatType
<1>6. ASSUME NEW x \in Tuples(e), SameIPs(x, packet.addr)
      PROVE  SameIPs(packet'.addr,
                 IF SameIPs(OriginatorBefore(t, e), packet.addr) THEN OriginatorAfter(t, e)
                 ELSE IF SameIPs(ReplyBefore(t, e), packet.addr) THEN RelatedReplyAfter(t, e)
                 ELSE packet.addr)
  BY <1>2, <1>4, <1>5, <1>6, ErrorTakes
<1>7. {e.addr, AfterDnat(e), Mirror(e.replyAddr), Mirror(AfterDnat(e)), e.replyAddr} \subseteq Tuples(e)
  BY <1>2, TuplesOfEntry
<1>8. where \in {"output", "outPostrouting", "prerouting", "postrouting"}
  BY <1>0
<1> HIDE DEF e, t
<1>9. ASSUME Forth(e, where, packet.addr) \/ Back(e, where, packet.addr)
      PROVE  \E x \in Tuples(e) : SameIPs(x, packet.addr)
  BY <1>7, <1>8, <1>9 DEF Forth, Back, SameIPs
<1>10. ASSUME ForthFrom(e, where), Forth(e, where, packet.addr)
       PROVE  ForthFrom(e, where') /\ Forth(e, where', packet'.addr)
  BY <1>0, <1>2, <1>6, <1>9, <1>10, ForthNext DEF t, ToLocal
<1>11. ASSUME ~BetweenOwn(e.replyAddr.srcIP, e.addr.srcIP),
              BackFrom(e, where), Back(e, where, packet.addr)
       PROVE  BackFrom(e, where') /\ Back(e, where', packet'.addr)
  BY <1>0, <1>2, <1>6, <1>9, <1>11, BackNext DEF t, ToLocal
<1>12. FollowsError(e, where', arrived.addr, packet'.addr)
  BY <1>3, <1>10, <1>11 DEF FollowsError
<1> QED BY <1>12 DEF e

LEMMA ErrorInvStep ==
    ASSUME EffectiveRules, Base, NatInv, ErrorInv, [Next]_vars
    PROVE  ErrorInv'
<1>1. ASSUME NEW h \in Traffic, Receive(h) PROVE ErrorInv'
  BY <1>1, ErrorArrives
<1>2. CASE MeetNatRule
  <2>1. CASE packet = NoPacket
    BY <1>2, <2>1 DEF MeetNatRule, smVars, StaticNat, ErrorInv
  <2>2. CASE packet # NoPacket
    <3>1. arrived' = arrived /\ state = "NEW" /\ (~clash' => ~clash)
      BY <1>2 DEF MeetNatRule, NoteClash
    <3>2. ~clash => Kind(arrived, packet, state)
      BY <2>2 DEF NatInv, InFlight
    <3> QED BY <3>1, <3>2 DEF ErrorInv, Kind, IsError, Opens, IsTransport
  <2> QED BY <2>1, <2>2
<1>3. CASE PassOutput \/ PassOutPostrouting \/ PassPrerouting \/ PassPostrouting
  BY <1>3, ErrorPasses
<1>4. CASE Accept \/ Discard
  BY <1>4 DEF Accept, Discard, Leave, ErrorInv
<1>5. CASE UNCHANGED vars
  BY <1>5 DEF vars, ErrorInv, HostsDisjoint, FollowsError
<1> QED BY <1>1, <1>2, <1>3, <1>4, <1>5 DEF Next

\* An accepted packet that opened its entry left with the tuple the entry now translates to.
LEMMA OpenerFinds ==
    ASSUME NEW T, Applicable(T), SMTypeOK, Sound(T), witness # NoPacket,
           witness \in [in : Header, out : Header, state : State], Opener(witness.in)
    PROVE  \E i \in DOMAIN stateEntryList :
              /\ IsTransport(stateEntryList[i]) /\ stateEntryList[i].addr = witness.in.addr
              /\ witness.out.addr = Mirror(stateEntryList[i].replyAddr)
<1> DEFINE m == witness
           L == stateEntryList
<1>1. /\ Disjoint(L) /\ Remembered(T, L, m) /\ IsTransport(m.in)
      /\ m.out.addr \in addrEntry /\ m.state \in {"NEW", "ESTABLISHED"}
  BY DEF Sound, Opener, Remembered, Kind, Header
<1>2. PICK k \in DOMAIN L : L[k].protocol = m.in.protocol /\ L[k].addr = m.in.addr
  BY DEF Opener, Opened
<1>3. CASE m.state = "NEW"
  <2>1. PICK i \in DOMAIN L : AsSent(L[i]) = m.in /\ L[i].replyAddr = Mirror(m.out.addr)
    BY <1>1, <1>3 DEF Remembered
  <2>2. L[i].protocol = m.in.protocol /\ L[i].addr = m.in.addr
    BY <2>1 DEF AsSent
  <2>3. m.out.addr = Mirror(L[i].replyAddr)
    BY <1>1, <2>1, MirrorType
  <2> QED BY <1>1, <2>2, <2>3 DEF IsTransport
<1>4. CASE m.state = "ESTABLISHED"
  <2>1. PICK i \in DOMAIN L : Replied(L[i], m.in) /\ m.out.addr = Exit(L[i], m.in.addr)
    BY <1>1, <1>4 DEF Remembered
  <2> DEFINE e == L[i]
  <2>2. e \in StateEntry /\ L[k] \in StateEntry /\ e.addr # e.replyAddr /\ Mapped(T, e)
    BY <1>1, EntryOneWay DEF SMTypeOK, Sound
  <2>3. i = k
    <3>1. m.in.addr \in Tuples(e) /\ m.in.addr \in Tuples(L[k]) /\ e.protocol = L[k].protocol
      BY <1>2, <2>1, <2>2, TuplesOfEntry DEF Replied
    <3> QED BY <1>1, <3>1, SharedTuple
  <2>4. e.addr = m.in.addr /\ e.protocol = m.in.protocol
    BY <1>2, <2>3
  <2> HIDE DEF e
  <2>5. Exit(e, e.addr) = Mirror(e.replyAddr)
    <3>1. CASE Exit(e, e.addr) = Whole(e, e.addr)
      BY <3>1 DEF Whole
    <3>2. CASE Exit(e, e.addr) # Whole(e, e.addr)
      <4> DEFINE h == AsSent(e)
      <4>1. e.addr.srcIP \notin LocalIP /\ AfterDnat(e).dstIP \in LocalIP
            /\ Exit(e, e.addr) = AfterDnat(e)
        BY <3>2 DEF Exit, Half
      <4>2. /\ h \in Header /\ h.addr = e.addr
            /\ e.replyAddr \in {Mirror(h.addr), Mirror(Final(T, h).addr), Mirror(Dst(T, h).addr)}
        BY <2>2 DEF Mapped, Follows, AsSent
      <4> HIDE DEF h
      <4>3. /\ h.addr \in addrEntry /\ Dst(T, h) \in Header /\ Final(T, h) \in Header
            /\ Dst(T, h).addr \in addrEntry /\ Final(T, h).addr \in addrEntry
            /\ Keeps("dst", Dst(T, h).addr, h.addr)
            /\ Keeps("src", Final(T, h).addr, Dst(T, h).addr)
        BY <4>2, HeadersOfPath DEF Header
      <4>4. CASE e.replyAddr = Mirror(h.addr)
        BY <4>1, <4>2, <4>3, <4>4, <2>2, TuplesOfEntry DEF AfterDnat, Mirror, addrEntry
      <4>5. CASE e.replyAddr = Mirror(Dst(T, h).addr)
        <5>1. AfterDnat(e) = Dst(T, h).addr
          BY <2>2, <4>2, <4>3, <4>5, AfterDnatOf DEF Keeps
        <5> QED BY <4>1, <4>3, <4>5, <5>1, MirrorType
      <4>6. CASE e.replyAddr = Mirror(Final(T, h).addr)
        <5>1. AfterDnat(e) = Dst(T, h).addr
          BY <2>2, <4>2, <4>3, <4>6, AfterDnatOf
        <5>2. Final(T, h) = Dst(T, h)
          BY <4>1, <4>2, <5>1 DEF Final, Early, FromLocal, ForLocal
        <5> QED BY <4>1, <4>3, <4>6, <5>1, <5>2, MirrorType
      <4> QED BY <4>2, <4>4, <4>5, <4>6
    <3> QED BY <3>1, <3>2
  <2> QED BY <1>1, <2>1, <2>4, <2>5 DEF e, IsTransport
<1> QED BY <1>1, <1>3, <1>4

LEMMA ErrorReturns ==
    ASSUME EffectiveRules, Base, NatInv, ErrorInv
    PROVE  RelatedFollows
<1> SUFFICES ASSUME Compared, HostsDisjoint, Opener(witness.in)
             PROVE  /\ ErrorFor(arrived, witness.in.addr) =>
                         /\ state = "RELATED"
                         /\ where = "accept" => SameIPs(packet.addr, witness.out.addr)
                    /\ ErrorFor(arrived, Mirror(witness.out.addr)) =>
                         /\ state = "RELATED"
                         /\ Leaving /\ ~BetweenOwn(arrived.addr.srcIP, witness.in.addr.srcIP)
                              => packet.addr.dstIP = witness.in.addr.srcIP
  BY DEF RelatedFollows
<1> DEFINE T == NatRules[config]
<1>1. /\ SMTypeOK /\ Applicable(T) /\ Sound(T) /\ packet # NoPacket /\ witness # NoPacket
      /\ witness \in [in : Header, out : Header, state : State]
  BY TableApplies DEF Base, SMInv, ScriptOK, HistoryOK, Compared, NatInv, Sound
<1>2. PICK i \in DOMAIN stateEntryList :
         /\ IsTransport(stateEntryList[i]) /\ stateEntryList[i].addr = witness.in.addr
         /\ witness.out.addr = Mirror(stateEntryList[i].replyAddr)
  <2> HIDE DEF T
  <2> QED BY <1>1, OpenerFinds
<1> DEFINE e == stateEntryList[i]
<1>3. e \in StateEntry /\ Mirror(witness.out.addr) = e.replyAddr
  BY <1>1, <1>2, TuplesOfEntry, MirrorType DEF SMTypeOK
<1>4. IsError(arrived) => FollowsError(e, where, arrived.addr, packet.addr)
  BY <1>1, <1>2 DEF ErrorInv, Compared
<1> HIDE DEF e
<1>5. e.addr = witness.in.addr /\ witness.out.addr = Mirror(e.replyAddr)
  BY <1>2 DEF e
<1>6. ASSUME ErrorFor(arrived, witness.in.addr)
      PROVE  state = "RELATED" /\ (where = "accept" => SameIPs(packet.addr, witness.out.addr))
  BY <1>4, <1>5, <1>6 DEF ErrorFor, IsError, FollowsError, Forth
<1>7. ASSUME ErrorFor(arrived, Mirror(witness.out.addr))
      PROVE  /\ state = "RELATED"
             /\ Leaving /\ ~BetweenOwn(arrived.addr.srcIP, witness.in.addr.srcIP)
                  => packet.addr.dstIP = witness.in.addr.srcIP
  <2>1. /\ IsError(arrived) /\ SameIPs(arrived.addr, e.replyAddr)
        /\ arrived.addr.srcIP = e.replyAddr.srcIP
    BY <1>3, <1>7 DEF ErrorFor, IsError, SameIPs
  <2> QED BY <1>4, <1>5, <2>1 DEF FollowsError, Back, Leaving
<1> QED BY <1>6, <1>7

-----------------------------------------------------------------------------
(* The theorems.                                                           *)

\* Inductive: the invariant, and what is decided on a packet's arrival.
NatFlow == Base /\ NatInv /\ Classed

LEMMA NatFlowHolds == EffectiveRules => (Spec => []NatFlow)
<1> SUFFICES ASSUME EffectiveRules PROVE Spec => []NatFlow
  OBVIOUS
<1>1. Init => NatFlow
  <2>1. Init => Classed
    BY DEF Init, Classed, ReplyRecognised, EstablishedStays, Compared
  <2> QED BY <2>1, BaseInit, NatInvInit DEF NatFlow
<1>2. NatFlow /\ [Next]_vars => NatFlow'
  BY BaseStep, NatInvStep, ClassedStep DEF NatFlow
<1> QED BY <1>1, <1>2, PTL DEF Spec

\* The answer to an accepted packet finds that packet's entry, whatever the rules made of its
\* addresses: the search of push against the replyAddr that doNat wrote (statemachine.cc).
THEOREM RepliesRecognised == EffectiveRules => (Spec => []ReplyRecognised)
<1>1. NatFlow => ReplyRecognised
  BY DEF NatFlow, Classed
<1> QED BY <1>1, NatFlowHolds, PTL

\* An ESTABLISHED TCP or UDP packet sent again is ESTABLISHED: push finds the same entry first.
THEOREM EstablishedLasts == EffectiveRules => (Spec => []EstablishedStays)
<1>1. NatFlow => EstablishedStays
  BY DEF NatFlow, Classed
<1> QED BY <1>1, NatFlowHolds, PTL

\* A packet sent again leaves with the header it left with before, by the rules or by the
\* entry: what newConnection[0] does to the first packets doNat does to the later ones.
THEOREM TranslationsStable == EffectiveRules => (Spec => []TranslationStable)
<1> SUFFICES ASSUME EffectiveRules PROVE Spec => []TranslationStable
  OBVIOUS
<1>1. NatFlow => TranslationStable
  BY StableTranslation DEF NatFlow
<1> QED BY <1>1, NatFlowHolds, PTL

\* An answer gets the originator's address and port as its destination, and past a POSTROUTING
\* chain the addressed one as its source: doNat undoes both translations.
THEOREM AnswersReturn == EffectiveRules => (Spec => []RoundTrip)
<1> SUFFICES ASSUME EffectiveRules PROVE Spec => []RoundTrip
  OBVIOUS
<1>1. NatFlow => RoundTrip
  BY AnswerReturns DEF NatFlow
<1> QED BY <1>1, NatFlowHolds, PTL

\* An ICMP error about a connection is RELATED, leaves with the connection's hosts where it
\* comes from the originator's side, and reaches the originator where it comes from the other,
\* though doNat gives it the wrong source there: of the entries only that connection's matches.
THEOREM ErrorsFollow == EffectiveRules => (Spec => []RelatedFollows)
<1> SUFFICES ASSUME EffectiveRules PROVE Spec => []RelatedFollows
  OBVIOUS
<1>1. NatFlow /\ ErrorInv /\ [Next]_vars => ErrorInv'
  BY ErrorInvStep DEF NatFlow
<1>2. NatFlow /\ ErrorInv => RelatedFollows
  BY ErrorReturns DEF NatFlow
<1> QED BY <1>1, <1>2, NatFlowHolds, ErrorInvInit, PTL DEF Spec
=============================================================================
