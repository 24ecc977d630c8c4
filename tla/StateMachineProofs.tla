------------------------- MODULE StateMachineProofs -------------------------
(* Theorems about StateMachine, for every network and any number of packets. *)
EXTENDS StateMachine, WellFoundedInduction, TLAPS

\* The least index of a non-empty set of them exists: where a loop of the code breaks.
LEMMA MinIsElement ==
    ASSUME NEW S, S \subseteq Nat, S # {}
    PROVE  Min(S) \in S
<1> DEFINE R == OpToRel(<, Nat)
<1>1. IsWellFoundedOn(R, Nat)
  BY NatLessThanWellFounded
<1>2. PICK x \in S : \A y \in S : ~ (<<y, x>> \in R)
  <2> HIDE DEF R
  <2> QED BY <1>1, WFMin
<1>3. \A y \in S : x =< y
  <2> SUFFICES ASSUME NEW y \in S PROVE x =< y
    OBVIOUS
  <2>1. <<y, x>> \notin {ss \in Nat \X Nat : ss[1] < ss[2]}
    BY <1>2 DEF OpToRel
  <2>2. ~(y < x)
    BY <2>1
  <2> QED BY <2>2
<1> QED BY <1>3 DEF Min

-----------------------------------------------------------------------------
(* The operators on tuples and headers keep their types.                   *)

LEMMA MirrorType ==
    ASSUME NEW a \in addrEntry
    PROVE  /\ Mirror(a) \in addrEntry
           /\ Mirror(Mirror(a)) = a
           /\ HasPorts(a) => HasPorts(Mirror(a))
           /\ NoPorts(a) => NoPorts(Mirror(a))
BY DEF Mirror, addrEntry, HasPorts, NoPorts

LEMMA NewEntryType ==
    ASSUME NEW h \in Header
    PROVE  NewEntry(h) \in StateEntry
<1>1. h.addr \in addrEntry
  BY DEF Header
<1> QED BY <1>1, MirrorType DEF NewEntry, StateEntry, Header, IsTransport

LEMMA AfterDnatType ==
    ASSUME NEW e \in StateEntry
    PROVE  /\ AfterDnat(e) \in addrEntry
           /\ IsTransport(e) => HasPorts(AfterDnat(e))
BY DEF AfterDnat, StateEntry, addrEntry, HasPorts, IsTransport

LEMMA MapToType ==
    ASSUME NEW t \in NatType, NEW ip \in IP \cup {NoIP}, NEW port \in Port \cup {NoPort},
           NEW a \in addrEntry
    PROVE  /\ MapTo(t, ip, port, a) \in addrEntry
           /\ HasPorts(a) => HasPorts(MapTo(t, ip, port, a))
BY DEF MapTo, Overwrite, addrEntry, HasPorts

\* A rewritten packet keeps its protocol and stays well formed.
LEMMA RewriteType ==
    ASSUME NEW h \in Header, NEW a \in addrEntry, IsTransport(h) => HasPorts(a)
    PROVE  Rewrite(h, a) \in Header /\ Rewrite(h, a).protocol = h.protocol
<1>1. CASE IsTransport(h)
  <2>1. Rewrite(h, a) = [h EXCEPT !.addr = a]
    BY <1>1 DEF Rewrite
  <2> QED BY <1>1, <2>1 DEF Header, IsTransport
<1>2. CASE ~IsTransport(h)
  <2>1. Rewrite(h, a) = [h EXCEPT !.addr = [h.addr EXCEPT !.srcIP = a.srcIP, !.dstIP = a.dstIP]]
    BY <1>2 DEF Rewrite, Header, addrEntry
  <2>2. [h.addr EXCEPT !.srcIP = a.srcIP, !.dstIP = a.dstIP] \in addrEntry
    BY DEF Header, addrEntry
  <2>3. NoPorts([h.addr EXCEPT !.srcIP = a.srcIP, !.dstIP = a.dstIP])
    BY <1>2 DEF Header, addrEntry, NoPorts
  <2> QED BY <1>2, <2>1, <2>2, <2>3 DEF Header, IsTransport
<1> QED BY <1>1, <1>2

LEMMA AfterType ==
    ASSUME NEW t \in NatType, NEW e \in StateEntry
    PROVE  /\ OriginatorAfter(t, e) \in addrEntry
           /\ ReplyAfter(t, e) \in addrEntry
           /\ RelatedReplyAfter(t, e) \in addrEntry
           /\ IsTransport(e) => HasPorts(OriginatorAfter(t, e)) /\ HasPorts(ReplyAfter(t, e))
<1>1. /\ e.addr \in addrEntry /\ e.replyAddr \in addrEntry
      /\ IsTransport(e) => HasPorts(e.addr) /\ HasPorts(e.replyAddr)
  BY DEF StateEntry, IsTransport
<1>2. /\ AfterDnat(e) \in addrEntry
      /\ IsTransport(e) => HasPorts(AfterDnat(e))
  BY AfterDnatType
<1>3. /\ OriginatorAfter(t, e) \in addrEntry /\ ReplyAfter(t, e) \in addrEntry
      /\ IsTransport(e) => HasPorts(OriginatorAfter(t, e)) /\ HasPorts(ReplyAfter(t, e))
  BY <1>1, <1>2, MirrorType DEF OriginatorAfter, ReplyAfter
<1>4. RelatedReplyAfter(t, e) \in addrEntry
  BY <1>1, <1>3 DEF RelatedReplyAfter, addrEntry
<1> QED BY <1>3, <1>4

-----------------------------------------------------------------------------
(* What the handlers do to the entry list: they add an entry for a packet  *)
(* none is found for, or change the replyAddr or gotReply of one entry.    *)

\* The entry at i is replaced by one of the same connection.
Amended(i) ==
    /\ i \in DOMAIN stateEntryList
    /\ \E e \in StateEntry :
         /\ stateEntryList' = [stateEntryList EXCEPT ![i] = e]
         /\ e.protocol = stateEntryList[i].protocol
         /\ e.addr = stateEntryList[i].addr
         /\ e.type = stateEntryList[i].type

\* A packet whose connection has no entry is given one.
Tracked(h) ==
    /\ stateEntryList' = Append(stateEntryList, NewEntry(h))
    /\ \A i \in DOMAIN stateEntryList :
         ~ /\ stateEntryList[i].protocol = h.protocol
           /\ stateEntryList[i].addr = h.addr
           /\ stateEntryList[i].type = h.type

LEMMA HitsAreIndices ==
    ASSUME SMTypeOK, NEW h, NEW t
    PROVE  /\ DOMAIN stateEntryList \subseteq Nat
           /\ Opened(h) \cup Answered(h) \subseteq DOMAIN stateEntryList
           /\ FromOriginator(t, h) \subseteq DOMAIN stateEntryList
           /\ UNION {FromOriginator(t, h), FromReplier(t, h),
                     RelatedOriginator(t, h), RelatedReplier(t, h)}
                \subseteq DOMAIN stateEntryList
<1>1. DOMAIN stateEntryList = 1..Len(stateEntryList) /\ Len(stateEntryList) \in Nat
  BY DEF SMTypeOK
<1> QED BY <1>1 DEF Opened, Answered, FromOriginator, FromReplier,
                    RelatedOriginator, RelatedReplier

LEMMA PushTransportStep ==
    ASSUME SMTypeOK, NEW h \in Header, PushTransport(h)
    PROVE  /\ stateEntryList' = stateEntryList \/ Tracked(h)
                \/ \E i \in DOMAIN stateEntryList : Amended(i)
           /\ packet' = h /\ state' \in State
<1> DEFINE hits  == Opened(h) \cup Answered(h)
           first == Min(hits)
<1>1. CASE hits = {}
  <2>1. Tracked(h)
    <3>1. stateEntryList' = Append(stateEntryList, NewEntry(h))
      BY <1>1 DEF PushTransport, Remember
    <3>2. Opened(h) = {}
      BY <1>1
    <3> QED BY <3>1, <3>2 DEF Tracked, Opened
  <2> QED BY <1>1, <2>1 DEF PushTransport, Remember, Classified, State
<1>2. CASE hits # {} /\ first \in Opened(h)
  BY <1>2 DEF PushTransport, Remember, Classified, State
<1>3. CASE hits # {} /\ first \notin Opened(h)
  <2>1. first \in DOMAIN stateEntryList
    <3>1. hits \subseteq Nat /\ hits \subseteq DOMAIN stateEntryList
      BY HitsAreIndices
    <3>2. first \in hits
      BY <1>3, <3>1, MinIsElement
    <3> QED BY <3>1, <3>2
  <2> DEFINE e == [stateEntryList[first] EXCEPT !.gotReply = TRUE]
  <2>2. stateEntryList[first] \in StateEntry
    BY <2>1 DEF SMTypeOK
  <2>3. /\ e \in StateEntry
        /\ e.protocol = stateEntryList[first].protocol
        /\ e.addr = stateEntryList[first].addr
        /\ e.type = stateEntryList[first].type
    BY <2>2 DEF StateEntry, IsTransport
  <2>4. stateEntryList' = [stateEntryList EXCEPT ![first] = e]
    BY <1>3 DEF PushTransport, Remember
  <2>5. Amended(first)
    <3> HIDE DEF e, first
    <3> QED BY <2>1, <2>3, <2>4 DEF Amended
  <2> QED BY <1>3, <2>1, <2>5 DEF PushTransport, Remember, Classified, State
<1> QED BY <1>1, <1>2, <1>3

LEMMA PushStep ==
    ASSUME SMTypeOK, NEW h \in Header, Push(h)
    PROVE  /\ stateEntryList' = stateEntryList \/ Tracked(h)
                \/ \E i \in DOMAIN stateEntryList : Amended(i)
           /\ packet' \in {h, packet} /\ state' \in State
<1>1. CASE PushUnsupported(h)
  BY <1>1 DEF PushUnsupported, smVars, SMTypeOK
<1>2. CASE PushTransport(h)
  BY <1>2, PushTransportStep
<1>3. CASE PushIcmpQuery(h)
  <2>1. packet' = h /\ state' \in State
    BY <1>3 DEF PushIcmpQuery, Remember, Classified, State
  <2>2. CASE OpenedQuery(h) = {}
    <3>1. stateEntryList' = Append(stateEntryList, NewEntry(h))
      BY <1>3, <2>2 DEF PushIcmpQuery, Remember
    <3> QED BY <2>1, <2>2, <3>1 DEF Tracked, OpenedQuery, SameIPs
  <2>3. CASE OpenedQuery(h) # {}
    BY <1>3, <2>1, <2>3 DEF PushIcmpQuery, Remember
  <2> QED BY <2>2, <2>3
<1>4. CASE PushIcmpReply(h)
  BY <1>4 DEF PushIcmpReply, Classified, State
<1>5. CASE PushIcmpError(h)
  BY <1>5 DEF PushIcmpError, Classified, State
<1> QED BY <1>1, <1>2, <1>3, <1>4, <1>5 DEF Push

LEMMA NewMappingStep ==
    ASSUME SMTypeOK, packet # NoPacket, NEW t \in NatType, NEW ip \in IP \cup {NoIP},
           NEW port \in Port \cup {NoPort}, NewMapping(t, ip, port)
    PROVE  /\ stateEntryList' = stateEntryList
                \/ \E i \in DOMAIN stateEntryList : Amended(i)
           /\ packet' \in Header /\ packet'.protocol = packet.protocol
<1> DEFINE hits  == FromOriginator(t, packet)
           first == Min(hits)
<1>0. packet \in Header
  BY DEF SMTypeOK
<1>1. CASE hits = {}
  BY <1>0, <1>1 DEF NewMapping
<1>2. CASE hits # {}
  <2>1. first \in DOMAIN stateEntryList
    <3>1. hits \subseteq Nat /\ hits \subseteq DOMAIN stateEntryList
      BY HitsAreIndices
    <3>2. first \in hits
      BY <1>2, <3>1, MinIsElement
    <3> QED BY <3>1, <3>2
  <2> DEFINE old == stateEntryList[first]
             new == MapTo(t, ip, port, old.replyAddr)
             e   == [old EXCEPT !.replyAddr = new]
  <2>2. old \in StateEntry
    BY <2>1 DEF SMTypeOK
  <2>3. /\ new \in addrEntry
        /\ IsTransport(old) => HasPorts(new)
    <3>1. old.replyAddr \in addrEntry /\ (IsTransport(old) => HasPorts(old.replyAddr))
      BY <2>2 DEF StateEntry, IsTransport
    <3> HIDE DEF old, first
    <3> QED BY <3>1, MapToType
  <2>4. /\ e \in StateEntry
        /\ e.protocol = old.protocol /\ e.addr = old.addr /\ e.type = old.type
    <3> HIDE DEF new, old
    <3> QED BY <2>2, <2>3 DEF StateEntry, IsTransport
  <2>5. stateEntryList' = [stateEntryList EXCEPT ![first] = e]
    BY <1>2 DEF NewMapping
  <2>6. Amended(first)
    <3> HIDE DEF e, first
    <3> QED BY <2>1, <2>4, <2>5 DEF Amended
  <2> DEFINE to == Mirror(MapTo(t, ip, port, Mirror(packet.addr)))
  <2>7. to \in addrEntry /\ (IsTransport(packet) => HasPorts(to))
    <3>1. packet.addr \in addrEntry /\ (IsTransport(packet) => HasPorts(packet.addr))
      BY <1>0 DEF Header
    <3>2. /\ Mirror(packet.addr) \in addrEntry
          /\ IsTransport(packet) => HasPorts(Mirror(packet.addr))
      BY <3>1, MirrorType
    <3>3. /\ MapTo(t, ip, port, Mirror(packet.addr)) \in addrEntry
          /\ IsTransport(packet) => HasPorts(MapTo(t, ip, port, Mirror(packet.addr)))
      BY <3>2, MapToType
    <3> QED BY <3>3, MirrorType
  <2>8. packet' = Rewrite(packet, to)
    BY <1>2 DEF NewMapping
  <2>9. packet' \in Header /\ packet'.protocol = packet.protocol
    <3> HIDE DEF to
    <3> QED BY <1>0, <2>7, <2>8, RewriteType
  <2> QED BY <2>1, <2>6, <2>9
<1> QED BY <1>1, <1>2

LEMMA PresentMappingStep ==
    ASSUME SMTypeOK, packet # NoPacket, NEW t \in NatType, PresentMapping(t)
    PROVE  /\ stateEntryList' = stateEntryList
           /\ packet' \in Header /\ packet'.protocol = packet.protocol
<1> DEFINE hits  == UNION {FromOriginator(t, packet), FromReplier(t, packet),
                           RelatedOriginator(t, packet), RelatedReplier(t, packet)}
           first == Min(hits)
           e     == stateEntryList[first]
<1>0. packet \in Header
  BY DEF SMTypeOK
<1>1. CASE hits = {}
  BY <1>0, <1>1 DEF PresentMapping
<1>2. CASE hits # {}
  <2>1. first \in hits /\ first \in DOMAIN stateEntryList
    <3>1. hits \subseteq Nat /\ hits \subseteq DOMAIN stateEntryList
      BY HitsAreIndices
    <3>2. first \in hits
      <4> HIDE DEF hits
      <4> QED BY <1>2, <3>1, MinIsElement
    <3> QED BY <3>1, <3>2
  <2>2. e \in StateEntry
    BY <2>1 DEF SMTypeOK
  <2>3. /\ OriginatorAfter(t, e) \in addrEntry
        /\ ReplyAfter(t, e) \in addrEntry
        /\ RelatedReplyAfter(t, e) \in addrEntry
        /\ IsTransport(e) => HasPorts(OriginatorAfter(t, e)) /\ HasPorts(ReplyAfter(t, e))
    <3> HIDE DEF e
    <3> QED BY <2>2, AfterType
  <2>4. CASE first \in FromOriginator(t, packet)
    <3>1. IsTransport(packet) => IsTransport(e)
      BY <2>4 DEF FromOriginator, IsTransport
    <3>2. packet' = Rewrite(packet, OriginatorAfter(t, e))
      BY <1>2, <2>4 DEF PresentMapping
    <3> QED BY <1>0, <2>3, <3>1, <3>2, RewriteType DEF PresentMapping
  <2>5. CASE first \notin FromOriginator(t, packet) /\ first \in FromReplier(t, packet)
    <3>1. IsTransport(packet) => IsTransport(e)
      BY <2>5 DEF FromReplier, IsTransport
    <3>2. packet' = Rewrite(packet, ReplyAfter(t, e))
      BY <1>2, <2>5 DEF PresentMapping
    <3> QED BY <1>0, <2>3, <3>1, <3>2, RewriteType DEF PresentMapping
  <2>6. CASE first \notin FromOriginator(t, packet) \cup FromReplier(t, packet)
    <3>1. ~IsTransport(packet)
      BY <2>1, <2>6 DEF RelatedOriginator, RelatedReplier, IsTransport
    <3>2. packet' \in {Rewrite(packet, OriginatorAfter(t, e)),
                      Rewrite(packet, RelatedReplyAfter(t, e))}
      BY <1>2, <2>6 DEF PresentMapping
    <3> QED BY <1>0, <2>3, <3>1, <3>2, RewriteType DEF PresentMapping
  <2> QED BY <2>4, <2>5, <2>6
<1> QED BY <1>1, <1>2

LEMMA AmendedKeeps ==
    ASSUME SMTypeOK, EntriesDistinct, NEW i, Amended(i)
    PROVE  stateEntryList' \in Seq(StateEntry) /\ EntriesDistinct'
<1>1. PICK e \in StateEntry :
        /\ stateEntryList' = [stateEntryList EXCEPT ![i] = e]
        /\ e.protocol = stateEntryList[i].protocol
        /\ e.addr = stateEntryList[i].addr
        /\ e.type = stateEntryList[i].type
  BY DEF Amended
<1>2. i \in DOMAIN stateEntryList /\ stateEntryList \in Seq(StateEntry)
  BY DEF Amended, SMTypeOK
<1>3. stateEntryList' \in Seq(StateEntry)
  BY <1>1, <1>2
<1>4. DOMAIN stateEntryList' = DOMAIN stateEntryList
  BY <1>1
<1>5. \A k \in DOMAIN stateEntryList :
        /\ stateEntryList'[k].protocol = stateEntryList[k].protocol
        /\ stateEntryList'[k].addr = stateEntryList[k].addr
        /\ stateEntryList'[k].type = stateEntryList[k].type
  BY <1>1
<1> QED BY <1>3, <1>4, <1>5 DEF EntriesDistinct

LEMMA TrackedKeeps ==
    ASSUME SMTypeOK, EntriesDistinct, NEW h \in Header, Tracked(h)
    PROVE  stateEntryList' \in Seq(StateEntry) /\ EntriesDistinct'
<1> DEFINE n == Len(stateEntryList) + 1
           new == NewEntry(h)
<1>1. stateEntryList \in Seq(StateEntry) /\ new \in StateEntry
  BY NewEntryType DEF SMTypeOK
<1>2. /\ stateEntryList' = Append(stateEntryList, new)
      /\ \A k \in DOMAIN stateEntryList :
           ~ /\ stateEntryList[k].protocol = new.protocol
             /\ stateEntryList[k].addr = new.addr
             /\ stateEntryList[k].type = new.type
  BY DEF Tracked, NewEntry
<1> HIDE DEF new
<1>3. stateEntryList' \in Seq(StateEntry)
  BY <1>1, <1>2
<1>4. /\ DOMAIN stateEntryList' = DOMAIN stateEntryList \cup {n}
      /\ n \notin DOMAIN stateEntryList
      /\ stateEntryList'[n] = new
      /\ \A k \in DOMAIN stateEntryList : stateEntryList'[k] = stateEntryList[k]
  BY <1>1, <1>2
<1>5. ASSUME NEW k \in DOMAIN stateEntryList', NEW l \in DOMAIN stateEntryList',
             stateEntryList'[k].protocol = stateEntryList'[l].protocol,
             stateEntryList'[k].addr = stateEntryList'[l].addr,
             stateEntryList'[k].type = stateEntryList'[l].type
      PROVE  k = l
  <2> HIDE DEF n
  <2>1. CASE k # n /\ l # n
    BY <1>4, <1>5, <2>1 DEF EntriesDistinct
  <2>2. CASE k = n \/ l = n
    BY <1>2, <1>4, <1>5, <2>2
  <2> QED BY <2>1, <2>2
<1> QED BY <1>3, <1>5 DEF EntriesDistinct

-----------------------------------------------------------------------------
(* The inductive invariant.  Type correctness is needed for the searches   *)
(* to be over a set of numbers, so that a least hit exists.                *)

SMInv == SMTypeOK /\ EntriesDistinct

LEMMA SMInitInv == SMInit => SMInv
BY DEF SMInit, SMInv, SMTypeOK, EntriesDistinct, State

LEMMA SMStepInv == SMInv /\ [SMNext]_smVars => SMInv'
<1> SUFFICES ASSUME SMInv, [SMNext]_smVars PROVE SMInv'
  OBVIOUS
<1> USE DEF SMInv
<1>1. ASSUME NEW h \in Header, Push(h) PROVE SMInv'
  <2>1. /\ stateEntryList' = stateEntryList \/ Tracked(h)
             \/ \E i \in DOMAIN stateEntryList : Amended(i)
        /\ packet' \in {h, packet} /\ state' \in State
    BY <1>1, PushStep
  <2>2. stateEntryList' \in Seq(StateEntry) /\ EntriesDistinct'
    <3>1. CASE stateEntryList' = stateEntryList
      BY <3>1 DEF SMTypeOK, EntriesDistinct
    <3>2. CASE Tracked(h)
      BY <3>2, TrackedKeeps
    <3>3. CASE \E i \in DOMAIN stateEntryList : Amended(i)
      BY <3>3, AmendedKeeps
    <3> QED BY <2>1, <3>1, <3>2, <3>3
  <2> QED BY <2>1, <2>2 DEF SMTypeOK
<1>2. ASSUME NEW t \in NatType, NEW ip \in IP \cup {NoIP}, NEW port \in Port \cup {NoPort},
             StaticNat(t, ip, port)
      PROVE  SMInv'
  <2>1. packet # NoPacket /\ state' = state
    BY <1>2 DEF StaticNat
  <2>2. /\ stateEntryList' = stateEntryList
             \/ \E i \in DOMAIN stateEntryList : Amended(i)
        /\ packet' \in Header
    <3>1. CASE NewMapping(t, ip, port)
      BY <2>1, <3>1, NewMappingStep
    <3>2. CASE PresentMapping(t)
      BY <2>1, <3>2, PresentMappingStep
    <3> QED BY <1>2, <3>1, <3>2 DEF StaticNat
  <2>3. stateEntryList' \in Seq(StateEntry) /\ EntriesDistinct'
    <3>1. CASE stateEntryList' = stateEntryList
      BY <3>1 DEF SMTypeOK, EntriesDistinct
    <3>2. CASE \E i \in DOMAIN stateEntryList : Amended(i)
      BY <3>2, AmendedKeeps
    <3> QED BY <2>2, <3>1, <3>2
  <2> QED BY <2>1, <2>2, <2>3 DEF SMTypeOK
<1>3. CASE Leave
  BY <1>3 DEF Leave, SMTypeOK, EntriesDistinct, State
<1>4. CASE UNCHANGED smVars
  BY <1>4 DEF smVars, SMTypeOK, EntriesDistinct
<1> QED BY <1>1, <1>2, <1>3, <1>4 DEF SMNext

\* Type correctness: whatever is received and wherever StaticNat elements stand, the
\* entry list, the packet and its annotation keep their shapes.
THEOREM SMTypeCorrect == SMSpec => []SMTypeOK
<1>1. SMInv => SMTypeOK
  BY DEF SMInv
<1> QED BY <1>1, SMInitInv, SMStepInv, PTL DEF SMSpec

\* No two entries ever describe the same connection (statemachine.cc, push).
THEOREM SMEntriesDistinct == SMSpec => []EntriesDistinct
<1>1. SMInv => EntriesDistinct
  BY DEF SMInv
<1> QED BY <1>1, SMInitInv, SMStepInv, PTL DEF SMSpec
=============================================================================
