-------------------------- MODULE ConditionsProofs --------------------------
(***************************************************************************)
(* Proofs about Conditions, for any packets and any rules of complete      *)
(* options: the walk stays inside the rule and reads it option by option,  *)
(* a rule is refused for cause only, and the patterns miss no packet and   *)
(* add none but in the shapes NothingMissed and NothingAdded name.         *)
(***************************************************************************)
EXTENDS Conditions, InductionLemmas, TLAPS

Pattern == Seq(SUBSET Packet) \ {<<>>}

LEMMA Ranged == \A S : \A s \in Seq(S) : \A p :
                    p \in Matched(s) <=> \E i \in 1..Len(s) : p \in s[i]
BY DEF Matched, Range

\* What a pattern matches after alternatives are put beside its last one.
LEMMA Juxtaposed ==
    ASSUME NEW pat \in Pattern, NEW alts \in Pattern
    PROVE  /\ Juxtapose(pat, alts) \in Pattern
           /\ Len(Juxtapose(pat, alts)) = Len(pat) + Len(alts) - 1
           /\ \A p : p \in Matched(Juxtapose(pat, alts)) <=>
                 \/ \E i \in 1..(Len(pat) - 1) : p \in pat[i]
                 \/ p \in pat[Len(pat)] /\ p \in alts[1]
                 \/ \E i \in 2..Len(alts) : p \in alts[i]
<1> DEFINE J == Juxtapose(pat, alts)
           F == SubSeq(pat, 1, Len(pat) - 1)
           M == pat[Len(pat)] \cap alts[1]
<1>1. Len(pat) \in Nat \ {0} /\ Len(alts) \in Nat \ {0}
  BY DEF Pattern
<1>2. F \in Seq(SUBSET Packet) /\ Len(F) = Len(pat) - 1
      /\ \A i \in 1..(Len(pat) - 1) : F[i] = pat[i]
  <2>1. \A i \in 1..(Len(pat) - 1) : pat[i] \in SUBSET Packet
    BY <1>1 DEF Pattern
  <2>2. Len(pat) - 1 \in Int /\ (Len(pat) - 1) - 1 + 1 = Len(pat) - 1
        /\ \A i \in Int : 1 + i - 1 = i
    BY <1>1
  <2> QED BY <1>1, <2>1, <2>2, SubSeqProperties
<1>3. Tail(alts) \in Seq(SUBSET Packet) /\ Len(Tail(alts)) = Len(alts) - 1
      /\ \A i \in 1..(Len(alts) - 1) : Tail(alts)[i] = alts[i + 1]
  BY <1>1 DEF Pattern
<1>4. M \in SUBSET Packet
  BY <1>1 DEF Pattern
<1>5. J = F \o <<M>> \o Tail(alts)
  BY <1>1 DEF Juxtapose, Front, Last, Pattern
<1> HIDE DEF J, F, M
<1>6. F \o <<M>> \in Seq(SUBSET Packet) /\ Len(F \o <<M>>) = Len(pat)
      /\ (\A i \in 1..(Len(pat) - 1) : (F \o <<M>>)[i] = pat[i]) /\ (F \o <<M>>)[Len(pat)] = M
  BY <1>1, <1>2, <1>4
<1>7. J \in Seq(SUBSET Packet) /\ Len(J) = Len(pat) + Len(alts) - 1
      /\ (\A i \in 1..(Len(pat) - 1) : J[i] = pat[i]) /\ J[Len(pat)] = M
      /\ \A i \in 1..(Len(alts) - 1) : J[Len(pat) + i] = alts[i + 1]
  <2> DEFINE G == F \o <<M>>
  <2>1. G \in Seq(SUBSET Packet) /\ Len(G) = Len(pat)
    BY <1>6
  <2>2. J = G \o Tail(alts)
    BY <1>5
  <2> HIDE DEF G
  <2>3. J \in Seq(SUBSET Packet) /\ Len(J) = Len(pat) + Len(alts) - 1
    <3>1. J \in Seq(SUBSET Packet) /\ Len(J) = Len(G) + Len(Tail(alts))
      BY <1>3, <2>1, <2>2, ConcatProperties
    <3> QED BY <1>1, <1>3, <2>1, <3>1
  <2>4. \A i \in 1..Len(pat) : J[i] = G[i]
    BY <1>1, <1>3, <2>1, <2>2, ConcatProperties
  <2>5. ASSUME NEW i \in 1..(Len(alts) - 1)
        PROVE  J[Len(pat) + i] = Tail(alts)[i]
    <3>1. Len(pat) + i \in (Len(G) + 1)..(Len(G) + Len(Tail(alts))) /\ Len(pat) + i - Len(G) = i
      BY <1>1, <1>3, <2>1
    <3> QED BY <1>3, <2>1, <2>2, <3>1, ConcatProperties
  <2> QED BY <1>1, <1>3, <1>6, <2>3, <2>4, <2>5 DEF G
<1>8. J \in Pattern
  BY <1>1, <1>7 DEF Pattern
<1>9. ASSUME NEW p, p \in Matched(J)
      PROVE  \/ \E i \in 1..(Len(pat) - 1) : p \in pat[i]
             \/ p \in pat[Len(pat)] /\ p \in alts[1]
             \/ \E i \in 2..Len(alts) : p \in alts[i]
  <2>1. PICK k \in 1..Len(J) : p \in J[k]
    BY <1>7, <1>9, Ranged
  <2>2. CASE k < Len(pat)
    BY <1>1, <1>7, <2>1, <2>2
  <2>3. CASE k = Len(pat)
    BY <1>7, <2>1, <2>3 DEF M
  <2>4. CASE k > Len(pat)
    <3>1. k - Len(pat) \in 1..(Len(alts) - 1) /\ Len(pat) + (k - Len(pat)) = k
          /\ k - Len(pat) + 1 \in 2..Len(alts)
      BY <1>1, <1>7, <2>1, <2>4
    <3>2. J[k] = alts[k - Len(pat) + 1]
      BY <1>7, <3>1
    <3> QED BY <2>1, <3>1, <3>2
  <2> QED BY <1>1, <1>7, <2>1, <2>2, <2>3, <2>4
<1>10. ASSUME NEW p,
              \/ \E i \in 1..(Len(pat) - 1) : p \in pat[i]
              \/ p \in pat[Len(pat)] /\ p \in alts[1]
              \/ \E i \in 2..Len(alts) : p \in alts[i]
       PROVE  p \in Matched(J)
  <2>1. CASE \E i \in 1..(Len(pat) - 1) : p \in pat[i]
    BY <1>1, <1>7, <2>1, Ranged
  <2>2. CASE p \in pat[Len(pat)] /\ p \in alts[1]
    <3>1. p \in J[Len(pat)] /\ Len(pat) \in 1..Len(J)
      BY <1>1, <1>7, <2>2 DEF M
    <3> QED BY <1>7, <3>1, Ranged
  <2>3. CASE \E i \in 2..Len(alts) : p \in alts[i]
    <3>1. PICK i \in 2..Len(alts) : p \in alts[i]
      BY <2>3
    <3>2. i - 1 \in 1..(Len(alts) - 1) /\ (i - 1) + 1 = i /\ Len(pat) + (i - 1) \in 1..Len(J)
      BY <1>1, <1>7
    <3>3. p \in J[Len(pat) + (i - 1)]
      BY <1>7, <3>1, <3>2
    <3> QED BY <1>7, <3>2, <3>3, Ranged
  <2> QED BY <1>10, <2>1, <2>2, <2>3
<1> QED BY <1>7, <1>8, <1>9, <1>10 DEF J

\* What that means for conditions side by side.
LEMMA SideBySide ==
    ASSUME NEW pat \in Pattern, NEW alts \in Pattern
    PROVE  /\ Matched(pat) \cap Matched(alts) \subseteq Matched(Juxtapose(pat, alts))
           /\ Len(pat) = 1 => Matched(Juxtapose(pat, alts)) \subseteq Matched(alts)
           /\ Len(pat) = 1 /\ Len(alts) = 1 => Matched(Juxtapose(pat, alts)) \subseteq Matched(pat)
           /\ Len(pat) = 1 /\ Len(alts) = 1 => Len(Juxtapose(pat, alts)) = 1
           /\ Len(alts) # 1 => Len(alts) > 1
<1> DEFINE J == Juxtapose(pat, alts)
<1>1. Len(pat) \in Nat \ {0} /\ Len(alts) \in Nat \ {0}
  BY DEF Pattern
<1>2. \A p : p \in Matched(pat) <=> \E i \in 1..Len(pat) : p \in pat[i]
  BY Ranged DEF Pattern
<1>3. \A p : p \in Matched(alts) <=> \E i \in 1..Len(alts) : p \in alts[i]
  BY Ranged DEF Pattern
<1>4. /\ Len(J) = Len(pat) + Len(alts) - 1
      /\ \A p : p \in Matched(J) <=>
            \/ \E i \in 1..(Len(pat) - 1) : p \in pat[i]
            \/ p \in pat[Len(pat)] /\ p \in alts[1]
            \/ \E i \in 2..Len(alts) : p \in alts[i]
  BY Juxtaposed
<1> HIDE DEF J
<1>5. ASSUME NEW p, p \in Matched(pat), p \in Matched(alts)
      PROVE  p \in Matched(J)
  <2>1. PICK i \in 1..Len(pat) : p \in pat[i]
    BY <1>2, <1>5
  <2>2. PICK j \in 1..Len(alts) : p \in alts[j]
    BY <1>3, <1>5
  <2>3. CASE i < Len(pat)
    BY <1>1, <1>4, <2>1, <2>3
  <2>4. CASE i = Len(pat) /\ j = 1
    BY <1>4, <2>1, <2>2, <2>4
  <2>5. CASE j > 1
    BY <1>1, <1>4, <2>2, <2>5
  <2> QED BY <1>1, <2>1, <2>2, <2>3, <2>4, <2>5
<1>6. Len(pat) = 1 => Matched(J) \subseteq Matched(alts)
  BY <1>1, <1>3, <1>4
<1>7. Len(pat) = 1 /\ Len(alts) = 1 => Matched(J) \subseteq Matched(pat) /\ Len(J) = 1
  BY <1>1, <1>2, <1>4
<1>8. Len(alts) # 1 => Len(alts) > 1
  <2>1. \A n \in Nat \ {0} : n # 1 => n > 1
    OBVIOUS
  <2> QED BY <1>1, <2>1
<1>9. Matched(pat) \cap Matched(alts) \subseteq Matched(J)
  BY <1>5
<1> QED BY <1>6, <1>7, <1>8, <1>9 DEF J

-----------------------------------------------------------------------------
(* One condition: what it prints against what it asks for.                 *)

Printable(c) == WellFormed(c) /\ c.name \in ByIPClassifier /\ CanPrint(c)

LEMMA TogetherPackets == \A tests : Together(tests) \in SUBSET Packet
BY DEF Together

LEMMA AskedTyped ==
    ASSUME NEW c, Printable(c)
    PROVE  /\ Len(Asked(c)) \in Nat \ {0} /\ DOMAIN Asked(c) = 1..Len(Asked(c))
           /\ c.name \notin List \cup Type => Len(Asked(c)) = 1
           /\ c.name \in Field \cup Plain => Asked(c)[1] \in Seq(SUBSET Packet) \ {<<>>}
           /\ c.name \in Flags => Len(Asked(c)[1]) \in Nat \ {0}
                                  /\ DOMAIN Asked(c)[1] = 1..Len(Asked(c)[1])
                                  /\ \A i \in DOMAIN Asked(c)[1] : Asked(c)[1][i] \in SUBSET Packet
<1>1. CASE c.name = "--syn"
  <2>1. Asked(c) = <<FlagTests(<<"syn", "rst", "ack", "fin">>, {"syn"})>>
    BY <1>1 DEF Asked, Type
  <2>2. FlagTests(<<"syn", "rst", "ack", "fin">>, {"syn"}) \in Seq(SUBSET Packet)
        /\ Len(FlagTests(<<"syn", "rst", "ack", "fin">>, {"syn"})) = 4
    BY WithFlagAssumption DEF FlagTests
  <2> QED BY <1>1, <2>1, <2>2 DEF List, Type, Field, Plain
<1>2. CASE c.name = "--tcp-flags"
  <2> DEFINE look == c.values[1]
             tests == FlagTests(look, c.values[2])
  <2>1. Asked(c) = <<tests>>
    BY <1>2 DEF Asked, Type
  <2>2. look \in Seq(DOMAIN WithFlag) /\ look # <<>>
    BY <1>2 DEF Printable, WellFormed, Fits
  <2>3. Len(look) \in Nat \ {0} /\ DOMAIN look = 1..Len(look)
    BY <2>2
  <2>4. \A i \in DOMAIN look : look[i] \in DOMAIN WithFlag
    BY <2>2
  <2> HIDE DEF look
  <2>5. tests \in [1..Len(look) -> SUBSET Packet]
    BY <2>3, <2>4, WithFlagAssumption DEF FlagTests
  <2>6. tests \in Seq(SUBSET Packet) /\ Len(tests) = Len(look)
    BY <2>3, <2>5
  <2> HIDE DEF tests
  <2> QED BY <1>2, <2>1, <2>3, <2>5, <2>6 DEF List, Type, Field, Plain
<1>3. CASE c.name \in Type
  <2> DEFINE hosts == Broadcast[c.name]
  <2>1. hosts \in Seq(SUBSET Packet) /\ hosts # <<>>
    BY <1>3, BroadcastAssumption DEF Printable, CanPrint
  <2>2. Len(hosts) \in Nat \ {0} /\ DOMAIN hosts = 1..Len(hosts)
    BY <2>1
  <2>3. Asked(c) = [i \in 1..Len(hosts) |-> <<hosts[i]>>]
    BY <1>3, <2>2 DEF Asked, Type
  <2> HIDE DEF hosts
  <2>4. Len(Asked(c)) = Len(hosts)
    BY <2>2, <2>3
  <2> QED BY <1>3, <2>2, <2>3, <2>4 DEF Type, Field, Plain, Flags
<1>4. CASE c.name \in Field \cup List \cup Plain
  <2> DEFINE v == c.values[1]
  <2>1. Asked(c) = v
    BY <1>4 DEF Asked, Field, List, Plain, Type
  <2>2. /\ v \in Seq(Seq(SUBSET Packet)) /\ v # <<>>
        /\ c.name \in Field \cup Plain => Len(v) = 1 /\ v[1] # <<>>
    BY <1>4 DEF Printable, WellFormed, Fits, Alternatives, Field, List, Plain, Type, Known,
                ByIPClassifier, NotListed, Interface
  <2> HIDE DEF v
  <2>3. Len(v) \in Nat /\ DOMAIN v = 1..Len(v)
    BY <2>2
  <2>4. Len(v) # 0
    BY <2>2, <2>3
  <2>5. c.name \in Field \cup Plain => v[1] \in Seq(SUBSET Packet) \ {<<>>}
    BY <2>2, <2>3
  <2>6. c.name \notin Flags /\ (c.name \notin List => Len(v) = 1)
    BY <1>4, <2>2 DEF Field, List, Plain, Flags
  <2> QED BY <2>1, <2>3, <2>4, <2>5, <2>6
<1> QED BY <1>1, <1>2, <1>3, <1>4 DEF Printable, ByIPClassifier, Flags

\* The tests of one alternative each and "or" between them.
LEMMA AnyOfMatches ==
    ASSUME NEW c, Printable(c)
    PROVE  /\ AnyOf(c) \in Pattern /\ Len(AnyOf(c)) = Len(Asked(c))
           /\ \A p \in Packet : p \in Matched(AnyOf(c)) <=> Meets(p, c)
<1>1. Len(Asked(c)) \in Nat \ {0} /\ DOMAIN Asked(c) = 1..Len(Asked(c))
  BY AskedTyped
<1>2. AnyOf(c) = [i \in 1..Len(Asked(c)) |-> Together(Asked(c)[i])]
  BY <1>1 DEF AnyOf
<1>3. AnyOf(c) \in Seq(SUBSET Packet) /\ Len(AnyOf(c)) = Len(Asked(c))
  BY <1>1, <1>2, TogetherPackets
<1>4. AnyOf(c) # <<>>
  BY <1>1, <1>3
<1>5. \A p : p \in Matched(AnyOf(c)) <=> \E i \in 1..Len(AnyOf(c)) : p \in AnyOf(c)[i]
  BY <1>3, Ranged
<1> QED BY <1>1, <1>2, <1>3, <1>4, <1>5 DEF Meets, Pattern

LEMMA Single == \A S \in SUBSET Packet : <<S>> \in Pattern /\ Len(<<S>>) = 1 /\ Matched(<<S>>) = S
<1> SUFFICES ASSUME NEW S \in SUBSET Packet
             PROVE  <<S>> \in Pattern /\ Len(<<S>>) = 1 /\ Matched(<<S>>) = S
  OBVIOUS
<1>1. <<S>> \in Seq(SUBSET Packet) /\ Len(<<S>>) = 1 /\ <<S>> # <<>> /\ <<S>>[1] = S
  OBVIOUS
<1>2. \A p : p \in Matched(<<S>>) <=> \E i \in 1..1 : p \in <<S>>[i]
  BY <1>1, Ranged
<1> QED BY <1>1, <1>2 DEF Pattern

\* A condition prints nothing that does not satisfy it; and all that does, but for the
\* reverse of several flags.
LEMMA PrintedMeets ==
    ASSUME NEW c, Printable(c)
    PROVE  /\ Printed(c) \in Pattern
           /\ Matched(Printed(c)) \subseteq Satisfied(c)
           /\ (c.name \in Flags /\ c.reverse => Len(Asked(c)[1]) = 1)
                 => Satisfied(c) \subseteq Matched(Printed(c))
<1> DEFINE tests == Asked(c)[1]
<1>0. c.reverse \in BOOLEAN /\ (c.reverse => c.name \in Field \cup List \cup Flags)
  BY DEF Printable, WellFormed, KeepsNot, ByIPClassifier
<1>1. Len(Asked(c)) = 1 => \A p \in Packet : Meets(p, c) <=> p \in Together(tests)
  BY AskedTyped DEF Meets
<1>2. CASE c.name \in Field /\ c.reverse
  <2>1. Printed(c) = Not(tests)
    BY <1>2 DEF Printed, Field, List, Flags, Type
  <2>2. tests \in Seq(SUBSET Packet) /\ tests # <<>> /\ Len(Asked(c)) = 1
    BY <1>2, AskedTyped DEF List, Type, Field
  <2> HIDE DEF tests
  <2>3. Len(tests) \in Nat \ {0} /\ DOMAIN tests = 1..Len(tests)
    BY <2>2
  <2>4. Not(tests) \in [1..Len(tests) -> SUBSET Packet]
        /\ \A i \in 1..Len(tests) : Not(tests)[i] = Packet \ tests[i]
    BY <2>3 DEF Not
  <2>5. Not(tests) \in Pattern /\ Not(tests) \in Seq(SUBSET Packet) /\ Len(Not(tests)) = Len(tests)
    BY <2>3, <2>4 DEF Pattern
  <2>6. \A p : p \in Matched(Not(tests)) <=> \E i \in 1..Len(tests) : p \in Packet \ tests[i]
    BY <2>4, <2>5, Ranged
  <2>7. \A p : p \in Satisfied(c) <=> p \in Packet /\ p \notin Together(tests)
    BY <1>1, <1>2, <2>2 DEF Satisfied
  <2>8. \A p : p \in Satisfied(c) <=> p \in Packet /\ \E i \in 1..Len(tests) : p \notin tests[i]
    BY <2>3, <2>7 DEF Together
  <2> QED BY <2>1, <2>5, <2>6, <2>8
<1>3. CASE c.name \in List /\ c.reverse
  <2>1. Printed(c) = <<Packet \ Matched(AnyOf(c))>>
    BY <1>3 DEF Printed, Field, List, Flags, Type, Matched
  <2>2. Printed(c) \in Pattern /\ Matched(Printed(c)) = Packet \ Matched(AnyOf(c))
    BY <2>1, Single
  <2>3. Satisfied(c) = Packet \ Matched(AnyOf(c))
    BY <1>3, AnyOfMatches DEF Satisfied
  <2> QED BY <2>2, <2>3
<1>4. CASE c.name \in Flags /\ c.reverse
  <2>1. Printed(c) = <<Together(Not(tests))>>
    BY <1>4 DEF Printed, Field, List, Flags, Type
  <2>2. Printed(c) \in Pattern /\ Matched(Printed(c)) = Together(Not(tests))
    BY <2>1, Single, TogetherPackets
  <2>3. /\ Len(tests) \in Nat \ {0} /\ DOMAIN tests = 1..Len(tests)
        /\ Len(Asked(c)) = 1
    BY <1>4, AskedTyped DEF Flags, List, Type
  <2>4. \A p : p \in Satisfied(c) <=> p \in Packet /\ p \notin Together(tests)
    BY <1>1, <1>4, <2>3 DEF Satisfied
  <2> HIDE DEF tests
  <2>5. \A p : p \in Together(Not(tests))
                <=> p \in Packet /\ \A i \in 1..Len(tests) : p \notin tests[i]
    BY <2>3 DEF Together, Not
  <2>6. \A p : p \in Satisfied(c) <=> p \in Packet /\ \E i \in 1..Len(tests) : p \notin tests[i]
    BY <2>3, <2>4 DEF Together
  <2>7. 1 \in 1..Len(tests)
    BY <2>3
  <2>8. Together(Not(tests)) \subseteq Satisfied(c)
    BY <2>5, <2>6, <2>7
  <2>9. Len(tests) = 1 => Satisfied(c) \subseteq Together(Not(tests))
    BY <2>5, <2>6
  <2> QED BY <1>4, <2>2, <2>8, <2>9 DEF tests
<1>5. CASE c.name \in Type
  <2> DEFINE alts == AnyOf(c)
             first == <<alts[1]>>
  <2>1. Printed(c) = first \o alts
    BY <1>5 DEF Printed, Type, Field, List, Flags
  <2>2. alts \in Seq(SUBSET Packet) /\ Len(alts) \in Nat \ {0} /\ alts[1] \in SUBSET Packet
    BY AnyOfMatches DEF Pattern
  <2>3. Satisfied(c) = Matched(alts)
    <3>1. ~c.reverse
      BY <1>0, <1>5 DEF Type, Field, List, Flags
    <3>2. \A p \in Matched(alts) : p \in Packet
      BY <2>2, Ranged
    <3>3. \A p : p \in Satisfied(c) <=> p \in Packet /\ Meets(p, c)
      BY <1>0, <3>1 DEF Satisfied, Meets
    <3> QED BY <3>2, <3>3, AnyOfMatches
  <2> HIDE DEF alts
  <2>4. /\ first \o alts \in Seq(SUBSET Packet) /\ Len(first \o alts) = 1 + Len(alts)
        /\ \A i \in 1..(1 + Len(alts)) :
              (first \o alts)[i] = IF i <= 1 THEN alts[1] ELSE alts[i - 1]
    <3>1. first \in Seq(SUBSET Packet) /\ Len(first) = 1 /\ first[1] = alts[1]
      BY <2>2
    <3> HIDE DEF first
    <3>2. /\ first \o alts \in Seq(SUBSET Packet) /\ Len(first \o alts) = 1 + Len(alts)
          /\ \A i \in 1..(1 + Len(alts)) :
                (first \o alts)[i] = IF i <= 1 THEN first[i] ELSE alts[i - 1]
      BY <2>2, <3>1, ConcatProperties
    <3> QED BY <2>2, <3>1, <3>2
  <2> DEFINE all == first \o alts
  <2> HIDE DEF first, all
  <2>5. all \in Pattern
    BY <2>2, <2>4 DEF all, Pattern
  <2>6. \A p : p \in Matched(all) <=> \E i \in 1..Len(alts) : p \in alts[i]
    <3>1. ASSUME NEW p, p \in Matched(all) PROVE \E i \in 1..Len(alts) : p \in alts[i]
      <4>1. PICK i \in 1..(1 + Len(alts)) : p \in all[i]
        BY <2>4, <3>1, Ranged DEF all
      <4>2. CASE i = 1
        BY <2>2, <2>4, <4>1, <4>2 DEF all
      <4>3. CASE i # 1
        <5>1. i - 1 \in 1..Len(alts) /\ all[i] = alts[i - 1]
          BY <2>2, <2>4, <4>3 DEF all
        <5> QED BY <4>1, <5>1
      <4> QED BY <4>2, <4>3
    <3>2. ASSUME NEW p, NEW i \in 1..Len(alts), p \in alts[i] PROVE p \in Matched(all)
      <4>1. i + 1 \in 1..(1 + Len(alts)) /\ all[i + 1] = alts[i]
        BY <2>2, <2>4 DEF all
      <4> QED BY <2>4, <3>2, <4>1, Ranged DEF all
    <3> QED BY <3>1, <3>2
  <2>7. Matched(all) = Matched(alts)
    BY <2>2, <2>6, Ranged
  <2> QED BY <2>1, <2>3, <2>5, <2>7 DEF all
<1>6. CASE c.name \notin Type /\ ~c.reverse
  <2>1. Printed(c) = AnyOf(c)
    BY <1>6 DEF Printed
  <2>2. AnyOf(c) \in Seq(SUBSET Packet)
    BY AnyOfMatches DEF Pattern
  <2>3. \A p \in Matched(AnyOf(c)) : p \in Packet
    BY <2>2, Ranged
  <2>4. Satisfied(c) = Matched(AnyOf(c))
    <3>1. \A p : p \in Satisfied(c) <=> p \in Packet /\ Meets(p, c)
      BY <1>0, <1>6 DEF Satisfied, Meets
    <3> QED BY <2>3, <3>1, AnyOfMatches
  <2> QED BY <2>1, <2>4, AnyOfMatches
<1> QED BY <1>0, <1>2, <1>3, <1>4, <1>5, <1>6

-----------------------------------------------------------------------------
(* The invariant: what the passes have printed so far against what the     *)
(* conditions they have been over ask for.                                 *)

MeaningOf(names, k) ==
    {p \in Packet : \A i \in 1..k : conditions[i].name \in names => p \in Satisfied(conditions[i])}
OneEach(k) == \A i \in 1..k :
    conditions[i].name \in ByIPClassifier => Len(Printed(conditions[i])) = 1

PatternInv(k) ==
    /\ ~FlagsReversed => MeaningOf(ByIPClassifier, k) \subseteq Matched(pattern)
    /\ ~OrInRule => Matched(pattern) \subseteq MeaningOf(ByIPClassifier, k)
    /\ \A i \in 1..k : conditions[i].name \in ByIPClassifier => CanPrint(conditions[i])
    /\ OneEach(k) => Len(pattern) = 1
    /\ (\A i \in 1..k : conditions[i].name \notin ByIPClassifier) => pattern = <<Packet>>

PhaseInv ==
    /\ phase \in {"parse", "switch"} => pattern = <<Packet>> /\ beside = Packet /\ shown = 0
    /\ phase = "switch" => Len(conditions) = 1 /\ conditions[1].name = "--state"
    /\ phase = "ip" => /\ beside = Packet
                       /\ PatternInv(shown)
                       /\ \A i \in 1..shown : conditions[i].name # "--state"
    /\ phase = "low" => /\ beside = MeaningOf(Low, shown)
                        /\ PatternInv(Len(conditions))
                        /\ Some(Low)
    /\ phase = "done" => NothingMissed /\ NothingAdded

IInv == rule \in Rules /\ text = Text(rule) /\ TypeOK /\ PhaseInv

\* TypeOK: of the walk.
LEMMA ParseTyped == IInv /\ ParseOption => TypeOK'
<1> SUFFICES ASSUME IInv, ParseOption PROVE TypeOK'
  OBVIOUS
<1> DEFINE n    == NamePlace(text, it)
           name == text[n].word
<1>1. /\ Len(text) \in Nat /\ DOMAIN text = 1..Len(text)
      /\ it \in DOMAIN text
      /\ \A k \in DOMAIN text :
            /\ text[k].word = "!" => k < Len(text)
            /\ ValuesAfter(text, k) + NrOfParameters(text[k].word) <= Len(text)
            /\ Fits(text[k].word, ValuesOf(text, k))
  BY RulesAssumption DEF IInv, TypeOK, ParseOption
<1>2. n \in DOMAIN text
  BY <1>1 DEF NamePlace
<1>3. ValuesAfter(text, n) \in Nat /\ ValuesAfter(text, n) >= n /\ NrOfParameters(name) \in Nat
  BY <1>1, <1>2 DEF ValuesAfter, NrOfParameters
<1>4. Fits(name, ValuesOf(text, n)) /\ ValuesAfter(text, n) + NrOfParameters(name) <= Len(text)
  BY <1>1, <1>2
<1> DEFINE failed == name \notin Known \cup Module \/ (name \in Plain /\ Reversed(n))
           c == ConditionOf(name, ValuesOf(text, n), Reversed(n))
<1>5. UNCHANGED <<rule, text, shown, pattern, beside>>
      /\ IF failed THEN phase' = "failed" /\ UNCHANGED <<it, conditions>>
         ELSE /\ conditions' = IF name \in Module THEN conditions ELSE Append(conditions, c)
              /\ it' = ValuesAfter(text, n) + NrOfParameters(name) + 1
              /\ UNCHANGED phase
  BY DEF ParseOption
<1>6. name \in Known => WellFormed(c)
  <2>1. Reversed(n) \in BOOLEAN
    BY DEF Reversed, BangFollows
  <2>2. c.name = name /\ c.values = ValuesOf(text, n) /\ c.reverse = (Reversed(n) /\ KeepsNot(name))
    BY DEF ConditionOf
  <2>3. c.reverse \in BOOLEAN /\ (c.reverse => KeepsNot(name))
    BY <2>1, <2>2 DEF KeepsNot
  <2> QED BY <1>4, <2>2, <2>3 DEF WellFormed
<1> HIDE DEF n, name, failed, c
<1>7. it' \in 1..(Len(text') + 1)
  BY <1>1, <1>3, <1>4, <1>5
<1>8. /\ Len(conditions') \in Nat
      /\ conditions' = [i \in 1..Len(conditions') |-> conditions'[i]]
      /\ \A i \in DOMAIN conditions' : WellFormed(conditions'[i])
      /\ shown' \in 0..Len(conditions')
  <2>1. CASE conditions' = conditions
    BY <1>5, <2>1 DEF IInv, TypeOK
  <2>2. CASE ~failed /\ name \notin Module /\ conditions' = Append(conditions, c)
    <3> DEFINE len == Len(conditions)
    <3>1. len \in Nat /\ conditions = [i \in 1..len |-> conditions[i]] /\ shown \in 0..len
          /\ \A i \in 1..len : WellFormed(conditions[i])
      BY DEF IInv, TypeOK
    <3> DEFINE S == {conditions[i] : i \in 1..len} \cup {c}
    <3>2. conditions \in Seq(S)
      BY <3>1
    <3>3. /\ conditions' \in Seq(S) /\ Len(conditions') = len + 1
          /\ \A i \in 1..len : conditions'[i] = conditions[i]
          /\ conditions'[len + 1] = c
      BY <2>2, <3>2, AppendProperties
    <3> HIDE DEF len, S
    <3>4. WellFormed(c)
      BY <1>6, <2>2 DEF failed
    <3> QED BY <1>5, <3>1, <3>3, <3>4
  <2> QED BY <1>5, <2>1, <2>2
<1> QED BY <1>5, <1>7, <1>8 DEF IInv, TypeOK

\* A pattern without conditions matches every packet.
LEMMA EmptyPattern == <<Packet>> \in Pattern /\ Matched(<<Packet>>) = Packet /\ Len(<<Packet>>) = 1
BY Single

LEMMA InitInv == Init => IInv
<1> SUFFICES ASSUME Init PROVE IInv
  OBVIOUS
<1>1. Len(text) \in Nat /\ conditions = <<>> /\ Len(conditions) = 0
  BY RulesAssumption DEF Init
<1>2. TypeOK
  BY <1>1, EmptyPattern DEF Init, TypeOK, Pattern
<1> QED BY <1>2 DEF Init, IInv, PhaseInv

LEMMA ParseInv == IInv /\ ParseOption => IInv'
<1> SUFFICES ASSUME IInv, ParseOption PROVE IInv'
  OBVIOUS
<1>1. phase' \in {"parse", "failed"} /\ phase = "parse"
      /\ UNCHANGED <<rule, text, shown, pattern, beside>>
  BY DEF ParseOption
<1>2. PhaseInv'
  BY <1>1 DEF IInv, PhaseInv
<1> QED BY <1>1, <1>2, ParseTyped DEF IInv

\* The sets of names do not overlap.
LEMMA Classes == /\ ByIPClassifier \cap Low = {}
                 /\ "--state" \notin ByIPClassifier \cup Low
                 /\ "--ctorigdst" \notin ByIPClassifier \cup Low
                 /\ Known = ByIPClassifier \cup Low \cup {"--state", "--ctorigdst"}
BY DEF ByIPClassifier, Low, Interface, Known, Field, List, Plain, Flags, Type

LEMMA ChooseInv == IInv /\ ChooseElements => IInv'
<1> SUFFICES ASSUME IInv, ChooseElements PROVE IInv'
  OBVIOUS
<1>1. /\ UNCHANGED <<rule, text, it, conditions, shown, pattern, beside>>
      /\ pattern = <<Packet>> /\ beside = Packet /\ shown = 0
      /\ phase' \in {"done", "ignored", "ip", "low", "switch", "failed"}
  BY DEF ChooseElements, IInv, PhaseInv
<1>2. Len(conditions) \in Nat /\ conditions = [i \in 1..Len(conditions) |-> conditions[i]]
  BY DEF IInv, TypeOK
<1>3. TypeOK'
  BY <1>1 DEF IInv, TypeOK
<1>4. CASE phase' = "done"
  <2>1. conditions = <<>>
    BY <1>4 DEF ChooseElements
  <2>2. Wanted = Packet /\ Through = Packet
    BY <1>1, <2>1, EmptyPattern DEF Wanted, Asks, Through
  <2>3. NothingMissed' /\ NothingAdded'
    BY <1>1, <2>2 DEF NothingMissed, NothingAdded, Wanted, Asks, Through
  <2> QED BY <1>1, <1>3, <1>4, <2>3 DEF IInv, PhaseInv
<1>5. CASE phase' = "ip"
  <2>1. MeaningOf(ByIPClassifier, 0)' = Packet
    BY DEF MeaningOf
  <2>2. PatternInv(shown)'
    BY <1>1, <2>1, EmptyPattern DEF PatternInv
  <2> QED BY <1>1, <1>3, <1>5, <2>2 DEF IInv, PhaseInv
<1>6. CASE phase' = "low"
  <2>1. Every(Low \cup {"--state"}) /\ Some(Low)
    BY <1>6 DEF ChooseElements
  <2>2. \A i \in 1..Len(conditions) : conditions[i].name \notin ByIPClassifier
    BY <1>2, <2>1, Classes DEF Every
  <2>3. MeaningOf(Low, shown)' = Packet /\ MeaningOf(ByIPClassifier, Len(conditions))' = Packet
    BY <1>1, <2>2 DEF MeaningOf
  <2>4. PatternInv(Len(conditions))'
    BY <1>1, <2>2, <2>3, EmptyPattern DEF PatternInv
  <2>5. Some(Low)'
    BY <1>1, <2>1 DEF Some
  <2> QED BY <1>1, <1>3, <1>6, <2>3, <2>4, <2>5 DEF IInv, PhaseInv
<1>7. CASE phase' = "switch"
  <2>1. Every(Low \cup {"--state"}) /\ ~Some(Low) /\ Len(conditions) = 1
    BY <1>7 DEF ChooseElements
  <2>2. conditions[1].name = "--state"
    BY <1>2, <2>1 DEF Every, Some
  <2> QED BY <1>1, <1>3, <1>7, <2>1, <2>2 DEF IInv, PhaseInv
<1>8. CASE phase' \in {"ignored", "failed"}
  BY <1>1, <1>3, <1>8 DEF IInv, PhaseInv
<1> QED BY <1>1, <1>4, <1>5, <1>6, <1>7, <1>8

\* What the conditions ask for does not change while they are printed.
LEMMA SameMeaning ==
    ASSUME UNCHANGED conditions
    PROVE  /\ \A names, k : MeaningOf(names, k)' = MeaningOf(names, k)
           /\ FlagsReversed' <=> FlagsReversed
           /\ OrInRule' <=> OrInRule
           /\ StateDropped' <=> StateDropped
           /\ \A names : Some(names)' <=> Some(names)
           /\ Wanted' = Wanted
BY DEF MeaningOf, FlagsReversed, OrInRule, StateDropped, Some, Wanted, Asks

LEMMA EndIPInv == IInv /\ EndIP => IInv'
<1> SUFFICES ASSUME IInv, EndIP PROVE IInv'
  OBVIOUS
<1>1. /\ phase = "ip" /\ shown = Len(conditions) /\ shown' = 0
      /\ phase' = IF Some(Low) THEN "low" ELSE "done"
      /\ UNCHANGED <<rule, text, it, conditions, pattern, beside>>
  BY DEF EndIP
<1>2. /\ Len(conditions) \in Nat /\ conditions = [i \in 1..Len(conditions) |-> conditions[i]]
      /\ \A i \in 1..Len(conditions) : conditions[i].name \in Known
  BY DEF IInv, TypeOK, WellFormed
<1>3. /\ PatternInv(Len(conditions)) /\ beside = Packet
      /\ \A i \in 1..Len(conditions) : conditions[i].name # "--state"
  BY <1>1 DEF IInv, PhaseInv
<1>4. TypeOK'
  BY <1>1, <1>2 DEF IInv, TypeOK
<1>5. CASE Some(Low)
  <2>1. MeaningOf(Low, shown)' = Packet
    BY <1>1 DEF MeaningOf
  <2>2. PatternInv(Len(conditions))'
    BY <1>1, <1>3, SameMeaning DEF PatternInv, OneEach
  <2> QED BY <1>1, <1>3, <1>4, <1>5, <2>1, <2>2, SameMeaning DEF IInv, PhaseInv
<1>6. CASE ~Some(Low)
  <2>1. \A i \in 1..Len(conditions) :
            conditions[i].name \in ByIPClassifier <=> conditions[i].name # "--ctorigdst"
    BY <1>2, <1>3, <1>6, Classes DEF Some
  <2>2. Wanted = MeaningOf(ByIPClassifier, Len(conditions))
    BY <1>2, <2>1 DEF Wanted, Asks, MeaningOf
  <2>3. Through = Matched(pattern)
    <3>1. pattern \in Seq(SUBSET Packet)
      BY DEF IInv, TypeOK
    <3>2. Matched(pattern) \subseteq Packet
      BY <3>1, Ranged
    <3> QED BY <1>3, <3>2 DEF Through
  <2>4. NothingMissed' /\ NothingAdded'
    BY <1>1, <1>3, <2>2, <2>3, SameMeaning DEF NothingMissed, NothingAdded, Through, PatternInv
  <2> QED BY <1>1, <1>4, <1>6, <2>4 DEF IInv, PhaseInv
<1> QED BY <1>5, <1>6

LEMMA PrintLowInv == IInv /\ PrintLow => IInv'
<1> SUFFICES ASSUME IInv, PrintLow PROVE IInv'
  OBVIOUS
<1> DEFINE c == conditions[shown + 1]
<1>1. /\ phase = "low" /\ shown < Len(conditions) /\ shown' = shown + 1
      /\ IF c.name \notin Low THEN UNCHANGED <<phase, beside>>
         ELSE IF CanPrint(c) THEN beside' = beside \cap Satisfied(c) /\ UNCHANGED phase
         ELSE phase' = "failed" /\ UNCHANGED beside
      /\ UNCHANGED <<rule, text, it, conditions, pattern>>
  BY DEF PrintLow, Next1
<1>2. Len(conditions) \in Nat /\ shown \in 0..Len(conditions) /\ beside \in SUBSET Packet
  BY DEF IInv, TypeOK
<1>3. TypeOK'
  BY <1>1, <1>2 DEF IInv, TypeOK
<1>4. beside = MeaningOf(Low, shown)
  BY <1>1 DEF IInv, PhaseInv
<1>5. CASE phase' = "failed"
  BY <1>1, <1>3, <1>5 DEF IInv, PhaseInv
<1>6. ASSUME phase' # "failed" PROVE beside' = MeaningOf(Low, shown + 1)
  <2>1. \A i : i \in 1..(shown + 1) <=> i \in 1..shown \/ i = shown + 1
    BY <1>2
  <2> QED BY <1>1, <1>4, <1>6, <2>1 DEF MeaningOf
<1>7. PatternInv(Len(conditions))'
  BY <1>1, SameMeaning DEF IInv, PhaseInv, PatternInv, OneEach
<1> QED BY <1>1, <1>3, <1>5, <1>6, <1>7, SameMeaning DEF IInv, PhaseInv

LEMMA EndLowInv == IInv /\ EndLow => IInv'
<1> SUFFICES ASSUME IInv, EndLow PROVE IInv'
  OBVIOUS
<1>1. /\ phase = "low" /\ shown = Len(conditions) /\ phase' = "done"
      /\ UNCHANGED <<rule, text, it, conditions, shown, pattern, beside>>
  BY DEF EndLow
<1>2. /\ Len(conditions) \in Nat /\ conditions = [i \in 1..Len(conditions) |-> conditions[i]]
      /\ \A i \in 1..Len(conditions) : conditions[i].name \in Known
  BY DEF IInv, TypeOK, WellFormed
<1>3. beside = MeaningOf(Low, Len(conditions)) /\ PatternInv(Len(conditions)) /\ Some(Low)
  BY <1>1 DEF IInv, PhaseInv
<1>4. Wanted \subseteq MeaningOf(ByIPClassifier, Len(conditions)) \cap MeaningOf(Low, Len(conditions))
  BY <1>2, Classes DEF Wanted, Asks, MeaningOf
<1>5. ASSUME ~StateDropped
      PROVE  MeaningOf(ByIPClassifier, Len(conditions)) \cap MeaningOf(Low, Len(conditions)) \subseteq Wanted
  <2>1. \A i \in 1..Len(conditions) : conditions[i].name # "--state"
    BY <1>2, <1>3, <1>5 DEF StateDropped, Some
  <2> QED BY <1>2, <2>1, Classes DEF Wanted, Asks, MeaningOf
<1>6. NothingMissed' /\ NothingAdded'
  BY <1>1, <1>3, <1>4, <1>5, SameMeaning DEF NothingMissed, NothingAdded, Through, PatternInv
<1>7. TypeOK'
  BY <1>1 DEF IInv, TypeOK
<1> QED BY <1>1, <1>6, <1>7 DEF IInv, PhaseInv

LEMMA PrintSwitchInv == IInv /\ PrintSwitch => IInv'
<1> SUFFICES ASSUME IInv, PrintSwitch PROVE IInv'
  OBVIOUS
<1>1. /\ phase = "switch" /\ phase' = "done" /\ beside' = Satisfied(conditions[1])
      /\ UNCHANGED <<rule, text, it, conditions, shown, pattern>>
  BY DEF PrintSwitch
<1>2. /\ pattern = <<Packet>> /\ Len(conditions) = 1 /\ conditions[1].name = "--state"
      /\ conditions = [i \in 1..Len(conditions) |-> conditions[i]]
  BY <1>1 DEF IInv, PhaseInv, TypeOK
<1>3. Wanted = Satisfied(conditions[1])
  BY <1>2 DEF Wanted, Asks, Satisfied
<1>4. Through' = Satisfied(conditions[1])
  BY <1>1, <1>2, EmptyPattern DEF Through, Satisfied
<1>5. NothingMissed' /\ NothingAdded'
  BY <1>1, <1>3, <1>4, SameMeaning DEF NothingMissed, NothingAdded
<1>6. TypeOK'
  BY <1>1 DEF IInv, TypeOK, Satisfied
<1> QED BY <1>1, <1>5, <1>6 DEF IInv, PhaseInv

LEMMA PrintIPInv == IInv /\ PrintIP => IInv'
<1> SUFFICES ASSUME IInv, PrintIP PROVE IInv'
  OBVIOUS
<1> DEFINE c == conditions[shown + 1]
           alts == Printed(c)
<1>1. /\ phase = "ip" /\ shown < Len(conditions) /\ shown' = shown + 1
      /\ UNCHANGED <<rule, text, it, conditions, beside>>
      /\ IF c.name \in Low \cup {"--ctorigdst"} THEN UNCHANGED <<phase, pattern>>
         ELSE IF CanPrint(c) THEN pattern' = Juxtapose(pattern, alts) /\ UNCHANGED phase
         ELSE phase' = "failed" /\ UNCHANGED pattern
  BY DEF PrintIP, Next1
<1>2. /\ Len(conditions) \in Nat /\ shown \in 0..Len(conditions)
      /\ conditions = [i \in 1..Len(conditions) |-> conditions[i]]
      /\ \A i \in 1..Len(conditions) : WellFormed(conditions[i])
      /\ pattern \in Pattern
  BY DEF IInv, TypeOK, Pattern
<1>3. /\ beside = Packet /\ PatternInv(shown)
      /\ \A i \in 1..shown : conditions[i].name # "--state"
  BY <1>1 DEF IInv, PhaseInv
<1>4. \A i : i \in 1..(shown + 1) <=> i \in 1..shown \/ i = shown + 1
  BY <1>2
<1>5. WellFormed(c) /\ shown + 1 \in 1..Len(conditions)
  BY <1>1, <1>2
<1> HIDE DEF c
<1>6. CASE c.name \in Low \cup {"--ctorigdst"}
  <2>1. c.name \notin ByIPClassifier /\ c.name # "--state"
    BY <1>6, Classes
  <2>2. MeaningOf(ByIPClassifier, shown + 1) = MeaningOf(ByIPClassifier, shown)
    BY <1>4, <2>1 DEF MeaningOf, c
  <2>3. OneEach(shown + 1) => OneEach(shown)
    BY <1>4 DEF OneEach
  <2>4. PatternInv(shown)'
    <3>1. MeaningOf(ByIPClassifier, shown)' = MeaningOf(ByIPClassifier, shown + 1)
      BY <1>1 DEF MeaningOf
    <3>2. PatternInv(shown + 1)
      BY <1>3, <1>4, <2>1, <2>2, <2>3 DEF PatternInv, c
    <3> QED BY <1>1, <1>6, <3>1, <3>2, SameMeaning DEF PatternInv, OneEach
  <2>5. TypeOK'
    BY <1>1, <1>2, <1>6 DEF IInv, TypeOK
  <2>6. \A i \in 1..(shown + 1) : conditions[i].name # "--state"
    BY <1>3, <1>4, <2>1 DEF c
  <2> QED BY <1>1, <1>3, <1>6, <2>4, <2>5, <2>6 DEF IInv, PhaseInv
<1>7. CASE c.name \notin Low \cup {"--ctorigdst"} /\ CanPrint(c)
  <2>1. Printable(c) /\ c.name \in ByIPClassifier /\ c.name # "--state"
    BY <1>5, <1>7, Classes DEF Printable, WellFormed, CanPrint
  <2>2. /\ alts \in Pattern /\ Matched(alts) \subseteq Satisfied(c)
        /\ (c.name \in Flags /\ c.reverse => Len(Asked(c)[1]) = 1) => Satisfied(c) \subseteq Matched(alts)
    BY <2>1, PrintedMeets
  <2> HIDE DEF alts
  <2>3. pattern' \in Pattern /\ pattern' = Juxtapose(pattern, alts)
    BY <1>1, <1>2, <1>7, <2>2, Juxtaposed
  <2>4. Matched(pattern) \cap Matched(alts) \subseteq Matched(pattern')
    BY <1>2, <2>2, <2>3, SideBySide
  <2>5. Len(pattern) = 1 => Matched(pattern') \subseteq Matched(alts)
    BY <1>2, <2>2, <2>3, SideBySide
  <2>6. Len(pattern) = 1 /\ Len(alts) = 1
            => Matched(pattern') \subseteq Matched(pattern) /\ Len(pattern') = 1
    BY <1>2, <2>2, <2>3, SideBySide
  <2>7. MeaningOf(ByIPClassifier, shown + 1) = MeaningOf(ByIPClassifier, shown) \cap Satisfied(c)
    BY <1>4, <2>1 DEF MeaningOf, c
  <2>8. ~FlagsReversed => MeaningOf(ByIPClassifier, shown + 1) \subseteq Matched(pattern')
    <3>1. ~FlagsReversed => Satisfied(c) \subseteq Matched(alts)
      <4>1. ~FlagsReversed /\ c.name \in Flags /\ c.reverse => Len(Asked(c)[1]) = 1
        <5>1. SUFFICES ASSUME ~FlagsReversed, c.name \in Flags, c.reverse PROVE Len(Asked(c)[1]) = 1
          OBVIOUS
        <5>2. ~(Len(Asked(c)[1]) > 1)
          BY <1>2, <1>5, <5>1 DEF FlagsReversed, c
        <5> DEFINE n == Len(Asked(c)[1])
        <5>3. n \in Nat \ {0} /\ ~(n > 1)
          BY <2>1, <5>1, <5>2, AskedTyped
        <5> HIDE DEF n
        <5>4. n = 1
          BY <5>3
        <5> QED BY <5>4 DEF n
      <4> QED BY <2>2, <4>1
    <3> QED BY <1>3, <2>4, <2>7, <3>1 DEF PatternInv
  <2>9. ASSUME ~OrInRule
        PROVE  Matched(pattern') \subseteq MeaningOf(ByIPClassifier, shown + 1)
    <3>1. CASE Len(alts) = 1
      <4>1. CASE OneEach(shown)
        <5>1. Len(pattern) = 1
          BY <1>3, <4>1 DEF PatternInv
        <5>2. Matched(pattern') \subseteq Matched(pattern) \cap Matched(alts)
          BY <2>5, <2>6, <3>1, <5>1
        <5> QED BY <1>3, <2>2, <2>7, <2>9, <5>2 DEF PatternInv
      <4>2. CASE ~OneEach(shown)
        <5>1. PICK j \in 1..shown :
                  conditions[j].name \in ByIPClassifier /\ Len(Printed(conditions[j])) # 1
          BY <4>2 DEF OneEach
        <5>2. j \in 1..Len(conditions) /\ j # shown + 1
          BY <1>2, <5>1
        <5>3. Len(Printed(conditions[j])) > 1
          <6>1. Printed(conditions[j]) \in Pattern
            BY <1>2, <1>3, <5>1, <5>2, PrintedMeets DEF Printable, PatternInv
          <6> DEFINE n == Len(Printed(conditions[j]))
          <6>2. n \in Nat \ {0} /\ n # 1
            BY <5>1, <6>1 DEF Pattern
          <6> HIDE DEF n
          <6>3. n > 1
            BY <6>2
          <6> QED BY <6>3 DEF n
        <5> QED BY <1>2, <1>5, <2>1, <2>9, <5>1, <5>2, <5>3 DEF OrInRule, c
      <4> QED BY <4>1, <4>2
    <3>2. CASE Len(alts) # 1
      <4>1. \A j \in 1..shown : conditions[j].name \notin ByIPClassifier
        <5>1. SUFFICES ASSUME NEW j \in 1..shown, conditions[j].name \in ByIPClassifier PROVE FALSE
          OBVIOUS
        <5>2. j \in 1..Len(conditions) /\ j # shown + 1
          BY <1>2
        <5>3. Len(alts) > 1
          BY <1>2, <2>2, <3>2, SideBySide
        <5> QED BY <1>2, <1>5, <2>1, <2>9, <5>1, <5>2, <5>3 DEF OrInRule, c, alts
      <4>2. pattern = <<Packet>> /\ MeaningOf(ByIPClassifier, shown) = Packet
        BY <1>3, <4>1 DEF PatternInv, MeaningOf
      <4>3. Len(pattern) = 1
        BY <4>2, EmptyPattern
      <4>4. Matched(pattern') \subseteq Matched(alts)
        BY <2>5, <4>3
      <4> QED BY <2>2, <2>7, <4>2, <4>4 DEF Satisfied
    <3> QED BY <3>1, <3>2
  <2>10. OneEach(shown + 1) => Len(pattern') = 1
    <3>1. OneEach(shown + 1) => OneEach(shown) /\ Len(alts) = 1
      BY <1>4, <2>1 DEF OneEach, alts, c
    <3>2. OneEach(shown) => Len(pattern) = 1
      BY <1>3 DEF PatternInv
    <3> QED BY <2>6, <3>1, <3>2
  <2>11. PatternInv(shown)'
    <3>1. MeaningOf(ByIPClassifier, shown)' = MeaningOf(ByIPClassifier, shown + 1)
      BY <1>1 DEF MeaningOf
    <3>2. OneEach(shown)' <=> OneEach(shown + 1)
      BY <1>1 DEF OneEach
    <3>3. \A i \in 1..(shown + 1) : conditions[i].name \in ByIPClassifier => CanPrint(conditions[i])
      BY <1>3, <1>4, <1>7 DEF PatternInv, c
    <3>4. ~\A i \in 1..(shown + 1) : conditions[i].name \notin ByIPClassifier
      BY <1>4, <2>1 DEF c
    <3> QED BY <1>1, <2>8, <2>9, <2>10, <3>1, <3>2, <3>3, <3>4, SameMeaning DEF PatternInv
  <2>12. TypeOK'
    BY <1>1, <1>2, <1>7, <2>3 DEF IInv, TypeOK, Pattern
  <2>13. \A i \in 1..(shown + 1) : conditions[i].name # "--state"
    BY <1>3, <1>4, <2>1 DEF c
  <2> QED BY <1>1, <1>3, <1>7, <2>11, <2>12, <2>13 DEF IInv, PhaseInv
<1>8. CASE c.name \notin Low \cup {"--ctorigdst"} /\ ~CanPrint(c)
  BY <1>1, <1>2, <1>8 DEF IInv, TypeOK, PhaseInv
<1> QED BY <1>6, <1>7, <1>8

-----------------------------------------------------------------------------
LEMMA Invariance == Spec => []IInv
<1>1. IInv /\ [Next]_vars => IInv'
  <2> SUFFICES ASSUME IInv, [Next]_vars PROVE IInv'
    OBVIOUS
  <2>1. CASE Next
    BY <2>1, ParseInv, ChooseInv, PrintIPInv, EndIPInv, PrintLowInv, EndLowInv, PrintSwitchInv DEF Next
  <2>2. CASE UNCHANGED vars
    <3>1. UNCHANGED conditions
      BY <2>2 DEF vars
    <3>2. /\ NothingMissed' <=> NothingMissed
          /\ NothingAdded' <=> NothingAdded
          /\ \A k : PatternInv(k)' <=> PatternInv(k)
      BY <2>2, <3>1, SameMeaning DEF vars, NothingMissed, NothingAdded, Through, PatternInv, OneEach
    <3> QED BY <2>2, <3>1, <3>2, SameMeaning DEF IInv, TypeOK, PhaseInv, vars
  <2> QED BY <2>1, <2>2
<1> QED BY <1>1, InitInv, PTL DEF Spec

\* Whatever the rules of complete options, the walk over the tokens of one stays inside it
\* and makes conditions that fit their class.
THEOREM WalkInside == Spec => []TypeOK
<1>1. IInv => TypeOK
  BY DEF IInv
<1> QED BY <1>1, Invariance, PTL

\* For every set of packets: the printed patterns miss no packet that meets the conditions,
\* in whatever order they stand, but for several flags reversed.
THEOREM MissesNothing == Spec => []NothingMissed
<1>1. IInv => NothingMissed
  BY DEF IInv, PhaseInv, NothingMissed
<1> QED BY <1>1, Invariance, PTL

\* And they add no packet, but for alternatives beside another condition and a state beside
\* a low-level one.
THEOREM AddsNothing == Spec => []NothingAdded
<1>1. IInv => NothingAdded
  BY DEF IInv, PhaseInv, NothingAdded
<1> QED BY <1>1, Invariance, PTL

-----------------------------------------------------------------------------
(* Where the tokens of an option are.                                      *)

HeadLen(o) == IF o.bang = "none" THEN 1 ELSE 2
NameAt(o)  == IF o.bang = "before" THEN 2 ELSE 1

LEMMA HeadIsNat == \A o : HeadLen(o) \in Nat
BY DEF HeadLen

LEMMA Tuple ==
    ASSUME NEW S, NEW n \in Nat, NEW f \in [1..n -> S]
    PROVE  f \in Seq(S) /\ Len(f) = n
OBVIOUS

LEMMA OptionTokens ==
    ASSUME NEW o, Complete(o)
    PROVE  LET t == OptionText(o) IN
           /\ t = [j \in 1..(HeadLen(o) + Len(o.values)) |-> t[j]]
           /\ Len(t) = HeadLen(o) + Len(o.values)
           /\ t[NameAt(o)].word = o.name
           /\ o.bang = "before" => t[1].word = "!"
           /\ o.bang = "after" => t[2].word = "!"
           /\ \A j \in 1..Len(o.values) :
                 /\ t[HeadLen(o) + j].word = "" /\ t[HeadLen(o) + j].value = o.values[j]
<1> DEFINE h == CASE o.bang = "before" -> <<Bang, Word(o.name)>>
                  [] o.bang = "after"  -> <<Word(o.name), Bang>>
                  [] OTHER             -> <<Word(o.name)>>
           v == [i \in DOMAIN o.values |-> Value(o.values[i])]
           S == {h[1], h[2]} \cup {v[i] : i \in 1..Len(o.values)}
           t == OptionText(o)
<1>1. Len(o.values) \in Nat /\ DOMAIN o.values = 1..Len(o.values)
  BY DEF Complete
<1>2. /\ h \in Seq(S) /\ Len(h) = HeadLen(o) /\ h[NameAt(o)].word = o.name
      /\ o.bang = "before" => h[1].word = "!"
      /\ o.bang = "after" => h[2].word = "!"
  <2>1. CASE o.bang = "before"
    <3>1. h = <<Bang, Word(o.name)>>
      BY <2>1
    <3> HIDE DEF h, v
    <3> QED BY <2>1, <3>1 DEF HeadLen, NameAt, Bang, Word
  <2>2. CASE o.bang = "after"
    <3>1. h = <<Word(o.name), Bang>>
      BY <2>2
    <3> HIDE DEF h, v
    <3> QED BY <2>2, <3>1 DEF HeadLen, NameAt, Bang, Word
  <2>3. CASE o.bang = "none"
    <3>1. h = <<Word(o.name)>>
      BY <2>3
    <3> HIDE DEF h, v
    <3> QED BY <2>3, <3>1 DEF HeadLen, NameAt, Bang, Word
  <2> QED BY <2>1, <2>2, <2>3 DEF Complete
<1>3. v \in Seq(S) /\ Len(v) = Len(o.values)
      /\ \A j \in 1..Len(o.values) : v[j].word = "" /\ v[j].value = o.values[j]
  <2>1. v \in [1..Len(o.values) -> S]
    <3> HIDE DEF h
    <3> QED BY <1>1
  <2>2. \A j \in 1..Len(o.values) : v[j].word = "" /\ v[j].value = o.values[j]
    BY <1>1 DEF Value
  <2> HIDE DEF v, S
  <2>3. v \in Seq(S) /\ Len(v) = Len(o.values)
    BY <1>1, <2>1, Tuple
  <2> QED BY <2>2, <2>3
<1>4. t = h \o v
  BY DEF OptionText
<1> HIDE DEF h, v, S, t
<1>5. /\ t \in Seq(S) /\ Len(t) = HeadLen(o) + Len(o.values)
      /\ \A j \in 1..HeadLen(o) : t[j] = h[j]
      /\ \A j \in 1..Len(o.values) : t[HeadLen(o) + j] = v[j]
  <2>1. h \in Seq(S) /\ v \in Seq(S) /\ Len(h) = HeadLen(o) /\ Len(v) = Len(o.values)
    BY <1>2, <1>3
  <2> DEFINE n == HeadLen(o)
             m == Len(o.values)
  <2>2. n \in Nat /\ m \in Nat
    BY <1>1, HeadIsNat
  <2> HIDE DEF n, m
  <2>3. t \in Seq(S) /\ Len(t) = n + m
    <3>1. h \o v \in Seq(S)
      BY <2>1, ConcatProperties
    <3>2. Len(h \o v) = Len(h) + Len(v)
      BY <2>1, ConcatProperties
    <3> QED BY <1>4, <2>1, <3>1, <3>2 DEF n, m
  <2>4. \A j \in 1..n : t[j] = h[j]
    BY <1>4, <2>1, <2>2, ConcatProperties DEF n, m
  <2>5. ASSUME NEW j \in 1..m PROVE t[n + j] = v[j]
    <3>1. n + j \in (n + 1)..(n + m) /\ n + j - n = j
      BY <2>2
    <3> QED BY <1>4, <2>1, <3>1, ConcatProperties DEF n, m
  <2> QED BY <2>3, <2>4, <2>5 DEF n, m
<1>6. NameAt(o) \in 1..HeadLen(o) /\ 1 \in 1..HeadLen(o) /\ (o.bang = "after" => 2 \in 1..HeadLen(o))
  BY DEF NameAt, HeadLen
<1>7. t = [j \in 1..(HeadLen(o) + Len(o.values)) |-> t[j]]
  BY <1>5
<1>8. \A j \in 1..Len(o.values) :
          t[HeadLen(o) + j].word = "" /\ t[HeadLen(o) + j].value = o.values[j]
  BY <1>3, <1>5
<1>9. /\ t[NameAt(o)].word = o.name
      /\ o.bang = "before" => t[1].word = "!"
      /\ o.bang = "after" => t[2].word = "!"
  BY <1>2, <1>5, <1>6
<1> QED BY <1>5, <1>7, <1>8, <1>9 DEF t

\* e[k] is where the k-th option of r ends.
Ends(r, e) ==
    /\ e \in [0..Len(r) -> Nat] /\ e[0] = 0 /\ Len(Text(r)) = e[Len(r)]
    /\ \A k \in 1..Len(r) :
          /\ e[k] = e[k - 1] + HeadLen(r[k]) + Len(r[k].values) /\ e[k] <= Len(Text(r))
          /\ \A j \in 1..(HeadLen(r[k]) + Len(r[k].values)) :
                Text(r)[e[k - 1] + j] = OptionText(r[k])[j]

LEMMA EndsExist == \A r \in Rules : \E e : Ends(r, e)
<1> SUFFICES ASSUME NEW r \in Rules PROVE \E e : Ends(r, e)
  OBVIOUS
<1> DEFINE ss == [i \in DOMAIN r |-> OptionText(r[i])]
           size(i) == HeadLen(r[i]) + Len(r[i].values)
           S == {ss[i][j] : i \in 1..Len(r), j \in Nat}
<1>1. Len(r) \in Nat /\ DOMAIN r = 1..Len(r) /\ \A i \in 1..Len(r) : Complete(r[i])
  BY RulesAssumption
<1>2. \A i \in 1..Len(r) : ss[i] = [j \in 1..size(i) |-> ss[i][j]] /\ Len(ss[i]) = size(i)
                           /\ size(i) \in Nat
  <2> SUFFICES ASSUME NEW i \in 1..Len(r)
               PROVE  ss[i] = [j \in 1..size(i) |-> ss[i][j]] /\ Len(ss[i]) = size(i)
                      /\ size(i) \in Nat
    OBVIOUS
  <2>1. ss[i] = OptionText(r[i]) /\ Complete(r[i])
    BY <1>1
  <2>2. OptionText(r[i]) = [j \in 1..size(i) |-> OptionText(r[i])[j]]
        /\ Len(OptionText(r[i])) = size(i)
    BY <2>1, OptionTokens
  <2>3. size(i) \in Nat
    <3> HIDE DEF ss
    <3>1. Len(r[i].values) \in Nat
      BY <2>1 DEF Complete
    <3> QED BY <3>1, HeadIsNat
  <2> HIDE DEF ss, size
  <2> QED BY <2>1, <2>2, <2>3
<1>3. DOMAIN ss = 1..Len(r) /\ ss = [i \in 1..Len(r) |-> ss[i]]
  BY <1>1
<1>4. Text(r) = FlattenSeq(ss)
  BY DEF Text
<1>5. \A i \in 1..Len(r) : ss[i] = OptionText(r[i])
  BY <1>1
<1> HIDE DEF ss
<1>6. \A i \in 1..Len(r) : ss[i] \in Seq(S)
  <2> SUFFICES ASSUME NEW i \in 1..Len(r) PROVE ss[i] \in Seq(S)
    OBVIOUS
  <2>1. \A j \in 1..size(i) : j \in Nat
    BY <1>2
  <2>2. \A j \in 1..size(i) : ss[i][j] \in S
    BY <2>1
  <2> HIDE DEF S, size
  <2>3. ss[i] \in [1..size(i) -> S]
    BY <1>2, <2>2
  <2> QED BY <1>2, <2>3, Tuple
<1> HIDE DEF S, size
<1>7. ss \in Seq(Seq(S)) /\ Len(ss) = Len(r)
  <2>1. ss \in [1..Len(r) -> Seq(S)]
    BY <1>3, <1>6
  <2> HIDE DEF S
  <2> QED BY <1>1, <2>1, Tuple
<1>8. PICK e : LaidOut(FlattenSeq(ss), ss, e)
  BY <1>7, Flattened
<1>9. \A k \in 1..Len(r) : e[k - 1] \in Nat
  <2> SUFFICES ASSUME NEW k \in 1..Len(r) PROVE e[k - 1] \in Nat
    OBVIOUS
  <2>1. k - 1 \in 0..Len(ss)
    BY <1>1, <1>7
  <2> QED BY <1>8, <2>1 DEF LaidOut
<1>10. ASSUME NEW k \in 1..Len(r)
       PROVE  e[k] = e[k - 1] + HeadLen(r[k]) + Len(r[k].values)
  <2>1. e[k] = e[k - 1] + (HeadLen(r[k]) + Len(r[k].values))
    BY <1>2, <1>7, <1>8 DEF LaidOut, size
  <2>2. HeadLen(r[k]) \in Nat /\ Len(r[k].values) \in Nat
    BY <1>1 DEF HeadLen, Complete
  <2> QED BY <1>9, <2>1, <2>2
<1>11. \A k \in 1..Len(r) : \A j \in 1..size(k) : Text(r)[e[k - 1] + j] = OptionText(r[k])[j]
  <2> SUFFICES ASSUME NEW k \in 1..Len(r), NEW j \in 1..size(k)
               PROVE  Text(r)[e[k - 1] + j] = OptionText(r[k])[j]
    OBVIOUS
  <2>1. k \in 1..Len(ss) /\ j \in 1..Len(ss[k]) /\ ss[k] = OptionText(r[k])
    BY <1>2, <1>5, <1>7
  <2>2. FlattenSeq(ss)[e[k - 1] + j] = ss[k][j]
    BY <1>8, <2>1 DEF LaidOut
  <2> QED BY <1>4, <2>1, <2>2
<1>12. /\ e \in [0..Len(r) -> Nat] /\ e[0] = 0 /\ Len(Text(r)) = e[Len(r)]
       /\ \A k \in 1..Len(r) : e[k] <= Len(Text(r))
  BY <1>4, <1>7, <1>8 DEF LaidOut
<1>13. Ends(r, e)
  BY <1>10, <1>11, <1>12 DEF Ends, size
<1> QED BY <1>13

(* One turn of the walk reads one option: its name, its own "!" and its    *)
(* own values, and stops where the next one starts.                        *)
LEMMA OptionRead ==
    ASSUME IInv, NEW e, Ends(rule, e), NEW k \in 0..Len(rule),
           it = e[k] + 1, it <= Len(text)
    PROVE  LET o == rule[k + 1]
               n == NamePlace(text, it)
           IN  /\ k + 1 \in 1..Len(rule) /\ text[n].word = o.name
               /\ o.name \in Known \cup Module /\ ~TakesNextNot(rule) =>
                     /\ Reversed(n) <=> o.bang # "none"
                     /\ ValuesOf(text, n) = o.values
                     /\ ValuesAfter(text, n) + NrOfParameters(o.name) + 1 = e[k + 1] + 1
<1> DEFINE o == rule[k + 1]
           n == NamePlace(text, it)
           h == HeadLen(o)
           m == Len(o.values)
           t == OptionText(o)
<1>1. Len(rule) \in Nat /\ \A i \in 1..Len(rule) : Complete(rule[i])
  BY RulesAssumption DEF IInv
<1>2. text = Text(rule) /\ Len(text) \in Nat
  BY RulesAssumption DEF IInv
<1>3. k + 1 \in 1..Len(rule) /\ (k + 1) - 1 = k
  BY <1>1, <1>2 DEF Ends
<1>4. Complete(o)
  BY <1>1, <1>3
<1>5. h \in {1, 2} /\ m \in Nat /\ e[k] \in Nat /\ e[k + 1] \in Nat
  BY <1>3, <1>4 DEF Ends, Complete, HeadLen
<1>6. e[k + 1] = e[k] + h + m /\ e[k + 1] <= Len(text)
  BY <1>2, <1>3 DEF Ends
<1>7. \A j \in 1..(h + m) : text[e[k] + j] = t[j]
  BY <1>2, <1>3 DEF Ends
<1>8. /\ t[NameAt(o)].word = o.name
      /\ o.bang = "before" => t[1].word = "!"
      /\ o.bang = "after" => t[2].word = "!"
      /\ \A j \in 1..m : t[h + j].word = "" /\ t[h + j].value = o.values[j]
  BY <1>4, OptionTokens
<1>9. o.name # "!" /\ o.bang \in {"none", "before", "after"}
  BY <1>4 DEF Complete
<1> HIDE DEF o, t, m
<1>10. n = e[k] + NameAt(o) /\ text[n].word = o.name /\ (text[it].word = "!" <=> o.bang = "before")
  <2>1. CASE o.bang = "before"
    <3>1. h = 2 /\ NameAt(o) = 2 /\ 1 \in 1..(h + m) /\ 2 \in 1..(h + m)
      BY <1>5, <2>1 DEF HeadLen, NameAt
    <3>2. text[it].word = "!" /\ text[e[k] + 2] = t[2]
      BY <1>7, <1>8, <2>1, <3>1
    <3>3. n = it + 1 /\ it + 1 = e[k] + 2
      BY <1>5, <3>2 DEF NamePlace
    <3> QED BY <1>8, <2>1, <3>1, <3>2, <3>3
  <2>2. CASE o.bang # "before"
    <3>1. NameAt(o) = 1 /\ 1 \in 1..(h + m)
      BY <1>5, <2>2 DEF NameAt
    <3>2. text[it] = t[1] /\ text[it].word = o.name
      BY <1>7, <1>8, <3>1
    <3>3. n = it
      BY <1>9, <3>2 DEF NamePlace
    <3> QED BY <1>9, <2>2, <3>1, <3>2, <3>3
  <2> QED BY <2>1, <2>2
<1>11. ASSUME o.name \in Known \cup Module, ~TakesNextNot(rule)
       PROVE  /\ Reversed(n) <=> o.bang # "none"
              /\ ValuesOf(text, n) = o.values
              /\ ValuesAfter(text, n) + NrOfParameters(o.name) + 1 = e[k + 1] + 1
  <2> HIDE DEF n
  <2>1. m = NrOfParameters(o.name)
    BY <1>4, <1>11 DEF Complete, m
  <2>2. BangFollows(text, n) <=> o.bang = "after"
    <3>1. CASE o.bang = "after"
      <4>1. NameAt(o) = 1 /\ h = 2 /\ 2 \in 1..(h + m)
        BY <1>5, <3>1 DEF NameAt, HeadLen
      <4>2. n + 1 = e[k] + 2 /\ n < Len(text)
        BY <1>2, <1>5, <1>6, <1>10, <4>1
      <4>3. text[n + 1].word = "!"
        BY <1>7, <1>8, <3>1, <4>1, <4>2
      <4> QED BY <3>1, <4>2, <4>3 DEF BangFollows
    <3>2. CASE o.bang # "after"
      <4>1. NameAt(o) = h /\ n + 1 = e[k] + h + 1
        BY <1>5, <1>9, <1>10, <3>2 DEF NameAt, HeadLen
      <4>2. SUFFICES ASSUME n < Len(text), text[n + 1].word = "!" PROVE FALSE
        BY <3>2 DEF BangFollows
      <4>3. CASE m > 0
        <5>1. h + 1 \in 1..(h + m) /\ 1 \in 1..m /\ e[k] + (h + 1) = n + 1
          BY <1>5, <4>1, <4>3
        <5>2. text[n + 1].word = ""
          BY <1>7, <1>8, <5>1
        <5> QED BY <4>2, <5>2
      <4>4. CASE m = 0
        <5>1. o.name = "--syn"
          BY <1>11, <2>1, <4>4 DEF NrOfParameters
        <5>2. n + 1 = e[k + 1] + 1 /\ e[k + 1] < Len(text)
          BY <1>2, <1>5, <1>6, <1>10, <4>1, <4>2, <4>4
        <5>3. k + 2 \in 1..Len(rule) /\ (k + 2) - 1 = k + 1 /\ (k + 1) + 1 = k + 2
          <6>1. k + 1 # Len(rule)
            BY <1>2, <5>2 DEF Ends
          <6> QED BY <1>1, <1>3, <6>1
        <5> DEFINE q == rule[k + 2]
        <5>4. Complete(q)
          BY <1>1, <5>3
        <5>5. 1 \in 1..(HeadLen(q) + Len(q.values))
          <6>1. HeadLen(q) \in {1, 2} /\ Len(q.values) \in Nat
            BY <5>4 DEF Complete, HeadLen
          <6> QED BY <6>1
        <5>6. text[n + 1] = OptionText(q)[1]
          BY <1>2, <5>2, <5>3, <5>5 DEF Ends
        <5>7. q.bang = "before"
          <6>1. q.bang # "before" => OptionText(q)[1].word = q.name
            BY <5>4, OptionTokens DEF NameAt
          <6>2. q.name # "!"
            BY <5>4 DEF Complete
          <6> QED BY <4>2, <5>6, <6>1, <6>2
        <5>8. k + 1 \in 1..(Len(rule) - 1)
          BY <1>1, <1>3, <5>3
        <5> QED BY <1>11, <3>2, <5>1, <5>3, <5>7, <5>8 DEF TakesNextNot, o
      <4> QED BY <1>5, <4>3, <4>4
    <3> QED BY <3>1, <3>2
  <2>3. ValuesAfter(text, n) = e[k] + h
    <3>1. o.bang = "after" => NameAt(o) = 1 /\ h = 2
      BY DEF NameAt, HeadLen
    <3>2. o.bang # "after" => NameAt(o) = h
      BY <1>9 DEF NameAt, HeadLen
    <3> QED BY <1>5, <1>10, <2>2, <3>1, <3>2 DEF ValuesAfter
  <2>4. Reversed(n) <=> o.bang # "none"
    BY <1>9, <1>10, <2>2 DEF Reversed
  <2>5. ValuesOf(text, n) = [j \in 1..m |-> o.values[j]]
    <3>1. ValuesOf(text, n) = [j \in 1..m |-> text[ValuesAfter(text, n) + j].value]
      BY <1>10, <2>1 DEF ValuesOf
    <3>2. ASSUME NEW j \in 1..m PROVE text[ValuesAfter(text, n) + j].value = o.values[j]
      <4>1. h + j \in 1..(h + m) /\ e[k] + (h + j) = ValuesAfter(text, n) + j
        BY <1>5, <2>3
      <4> QED BY <1>7, <1>8, <4>1
    <3> QED BY <3>1, <3>2
  <2>6. o.values = [j \in 1..m |-> o.values[j]]
    BY <1>4 DEF Complete, m
  <2> HIDE DEF h
  <2>7. ValuesAfter(text, n) + NrOfParameters(o.name) + 1 = e[k + 1] + 1
    BY <1>5, <1>6, <2>1, <2>3
  <2> QED BY <2>4, <2>5, <2>6, <2>7
<1> QED BY <1>3, <1>10, <1>11 DEF o

(* What the walk has made of the options it is past.                       *)
Rank(i) == Cardinality(Options \cap 1..i)
Kept(k) ==
    /\ Len(conditions) = Cardinality(Options \cap 1..k)
    /\ \A i \in Options \cap 1..k :
          /\ Rank(i) \in 1..Len(conditions)
          /\ conditions[Rank(i)] = ConditionOf(rule[i].name, rule[i].values, rule[i].bang # "none")
    /\ \A c \in 1..Len(conditions) : \E i \in Options \cap 1..k : Rank(i) = c

Walked == \E e : Ends(rule, e) /\ \E k \in 0..Len(rule) : it = e[k] + 1 /\ Kept(k)

WalkInv ==
    ~TakesNextNot(rule) =>
        /\ phase = "parse" => Walked
        /\ phase \in {"ip", "low", "switch", "done", "ignored"} => Kept(Len(rule))
        /\ phase = "ip" => ~Every(Low \cup {"--state"})
        /\ RefusedForCause

LEMMA RuleOptions ==
    ASSUME rule \in Rules
    PROVE  /\ Len(rule) \in Nat /\ Options = {i \in 1..Len(rule) : rule[i].name \notin Module}
           /\ \A k \in 0..Len(rule) : IsFiniteSet(Options \cap 1..k)
                                      /\ Cardinality(Options \cap 1..k) \in Nat
<1>1. Len(rule) \in Nat /\ Options = {i \in 1..Len(rule) : rule[i].name \notin Module}
  BY RulesAssumption DEF Options
<1>2. ASSUME NEW k \in 0..Len(rule)
      PROVE  IsFiniteSet(Options \cap 1..k) /\ Cardinality(Options \cap 1..k) \in Nat
  <2>1. IsFiniteSet(1..k)
    BY FS_Interval
  <2>2. Options \cap 1..k \subseteq 1..k
    OBVIOUS
  <2> QED BY <2>1, <2>2, FS_Subset, FS_CardinalityType
<1> QED BY <1>1, <1>2

LEMMA WalkInit == Init => WalkInv
<1> SUFFICES ASSUME Init PROVE WalkInv
  OBVIOUS
<1>1. rule \in Rules /\ phase = "parse" /\ it = 1 /\ conditions = <<>>
  BY DEF Init
<1>2. PICK e : Ends(rule, e)
  BY <1>1, EndsExist
<1>3. Len(rule) \in Nat
  BY <1>1, RuleOptions
<1>4. 0 \in 0..Len(rule) /\ it = e[0] + 1
  BY <1>1, <1>2, <1>3 DEF Ends
<1>5. Kept(0)
  <2>1. Options \cap 1..0 = {} /\ Len(conditions) = 0
    BY <1>1
  <2> QED BY <2>1, FS_EmptySet DEF Kept
<1> QED BY <1>1, <1>2, <1>4, <1>5 DEF WalkInv, Walked, RefusedForCause

\* One option more.
LEMMA KeptMore ==
    ASSUME IInv, NEW k \in 0..Len(rule), k + 1 \in 1..Len(rule), Kept(k), rule' = rule,
           LET o == rule[k + 1] IN
           conditions' = IF o.name \in Module THEN conditions
                         ELSE Append(conditions, ConditionOf(o.name, o.values, o.bang # "none"))
    PROVE  Kept(k + 1)'
<1> DEFINE o == rule[k + 1]
           new == ConditionOf(o.name, o.values, o.bang # "none")
           S == Options \cap 1..k
           T == Options \cap 1..(k + 1)
<1>1. Len(rule) \in Nat /\ Options = {i \in 1..Len(rule) : rule[i].name \notin Module}
  BY RuleOptions DEF IInv
<1>2. IsFiniteSet(S) /\ Cardinality(S) \in Nat /\ Len(conditions) = Cardinality(S)
  BY RuleOptions DEF Kept, IInv
<1>3. Options' = Options /\ \A i : Rank(i)' = Rank(i)
  BY DEF Options, Rank
<1>4. CASE o.name \in Module
  <2>1. T = S /\ conditions' = conditions
    BY <1>1, <1>4
  <2> HIDE DEF S, T
  <2> QED BY <1>3, <2>1 DEF Kept, S, T
<1>5. CASE o.name \notin Module
  <2>1. T = S \cup {k + 1} /\ k + 1 \notin S /\ k + 1 \in T
    BY <1>1, <1>5
  <2> HIDE DEF S, T
  <2>2. Cardinality(T) = Cardinality(S) + 1
    BY <1>2, <2>1, FS_AddElement
  <2>3. conditions' = Append(conditions, new)
    BY <1>5
  <2> HIDE DEF new
  <2>4. /\ Len(conditions') = Len(conditions) + 1 /\ conditions'[Len(conditions) + 1] = new
        /\ \A c \in 1..Len(conditions) : conditions'[c] = conditions[c]
    <3>1. Len(conditions) \in Nat /\ conditions = [i \in 1..Len(conditions) |-> conditions[i]]
      BY DEF IInv, TypeOK
    <3> QED BY <2>3, <3>1
  <2>5. Rank(k + 1) = Len(conditions) + 1
    BY <1>2, <2>2 DEF Rank, T
  <2>6. Len(conditions)' = Cardinality(T)
    BY <1>2, <2>2, <2>4
  <2>7. \A i \in S : Rank(i) \in 1..Len(conditions)
            /\ conditions[Rank(i)] = ConditionOf(rule[i].name, rule[i].values, rule[i].bang # "none")
    BY DEF Kept, S
  <2>8. ASSUME NEW i \in T
        PROVE  /\ Rank(i) \in 1..Len(conditions)'
               /\ conditions'[Rank(i)]
                    = ConditionOf(rule[i].name, rule[i].values, rule[i].bang # "none")
    <3>1. CASE i \in S
      BY <1>2, <2>4, <2>7, <3>1
    <3>2. CASE i = k + 1
      BY <1>2, <2>4, <2>5, <3>2 DEF new
    <3> QED BY <2>1, <3>1, <3>2
  <2>9. ASSUME NEW c \in 1..Len(conditions)' PROVE \E i \in T : Rank(i) = c
    <3>1. CASE c = Len(conditions) + 1
      BY <2>1, <2>5, <3>1
    <3>2. CASE c \in 1..Len(conditions)
      BY <2>1, <3>2 DEF Kept, S
    <3> QED BY <1>2, <2>4, <3>1, <3>2
  <2> QED BY <1>3, <2>6, <2>8, <2>9 DEF Kept, T
<1> QED BY <1>4, <1>5

LEMMA ParseWalk == IInv /\ WalkInv /\ ParseOption => WalkInv'
<1> SUFFICES ASSUME IInv, WalkInv, ParseOption, ~TakesNextNot(rule) PROVE WalkInv'
  BY DEF WalkInv, ParseOption
<1> DEFINE n == NamePlace(text, it)
           name == text[n].word
<1>1. /\ phase = "parse" /\ it <= Len(text) /\ UNCHANGED <<rule, text, shown, pattern, beside>>
      /\ IF name \notin Known \cup Module \/ (name \in Plain /\ Reversed(n))
         THEN phase' = "failed" /\ UNCHANGED <<it, conditions>>
         ELSE /\ conditions' = IF name \in Module THEN conditions
                    ELSE Append(conditions, ConditionOf(name, ValuesOf(text, n), Reversed(n)))
              /\ it' = ValuesAfter(text, n) + NrOfParameters(name) + 1
              /\ UNCHANGED phase
  BY DEF ParseOption
<1>2. PICK e : Ends(rule, e) /\ \E k \in 0..Len(rule) : it = e[k] + 1 /\ Kept(k)
  BY <1>1 DEF WalkInv, Walked
<1>3. PICK k \in 0..Len(rule) : it = e[k] + 1 /\ Kept(k)
  BY <1>2
<1> DEFINE o == rule[k + 1]
<1>4. /\ k + 1 \in 1..Len(rule) /\ name = o.name
      /\ o.name \in Known \cup Module =>
            /\ Reversed(n) <=> o.bang # "none"
            /\ ValuesOf(text, n) = o.values
            /\ ValuesAfter(text, n) + NrOfParameters(o.name) + 1 = e[k + 1] + 1
  BY <1>1, <1>2, <1>3, OptionRead
<1> HIDE DEF n, name, o
<1>5. CASE name \notin Known \cup Module \/ (name \in Plain /\ Reversed(n))
  <2>1. phase' = "failed"
    BY <1>1, <1>5
  <2>2. Plain \subseteq Known
    BY DEF Known, ByIPClassifier
  <2>3. o.name \notin Known \cup Module \/ (o.name \in Plain /\ o.bang # "none")
    BY <1>4, <1>5, <2>2
  <2>4. k + 1 \in DOMAIN rule
    BY <1>4, RulesAssumption DEF IInv
  <2>5. RefusedForCause'
    BY <1>1, <2>3, <2>4 DEF RefusedForCause, o
  <2> QED BY <2>1, <2>5 DEF WalkInv
<1>6. CASE ~(name \notin Known \cup Module \/ (name \in Plain /\ Reversed(n)))
  <2>1. o.name \in Known \cup Module
    BY <1>4, <1>6
  <2>2. phase' = "parse" /\ it' = e[k + 1] + 1 /\ rule' = rule
    BY <1>1, <1>4, <1>6, <2>1
  <2>3. conditions' = IF o.name \in Module THEN conditions
                      ELSE Append(conditions, ConditionOf(o.name, o.values, Reversed(n)))
    BY <1>1, <1>4, <1>6, <2>1
  <2>4. ConditionOf(o.name, o.values, Reversed(n)) = ConditionOf(o.name, o.values, o.bang # "none")
    <3>1. (Reversed(n) /\ KeepsNot(o.name)) = (o.bang # "none" /\ KeepsNot(o.name))
      BY <1>4, <2>1
    <3> QED BY <3>1, Zenon DEF ConditionOf
  <2>5. Kept(k + 1)'
    BY <1>3, <1>4, <2>2, <2>3, <2>4, KeptMore DEF o
  <2>6. k + 1 \in 0..Len(rule)
    BY <1>4
  <2>7. \E j \in 0..Len(rule') : it' = e[j] + 1 /\ Kept(j)'
    BY <2>2, <2>5, <2>6
  <2>8. Ends(rule', e)
    BY <1>2, <2>2
  <2>9. Walked'
    BY <2>7, <2>8 DEF Walked
  <2> QED BY <2>2, <2>9 DEF WalkInv, RefusedForCause
<1> QED BY <1>5, <1>6

\* Of two conditions beside each other there are two options.
LEMMA TwoOptions ==
    ASSUME IInv, Kept(Len(rule)), NEW c \in 1..Len(conditions), NEW d \in 1..Len(conditions), c # d
    PROVE  \E i, j \in Options : i # j /\ rule[i].name = conditions[c].name
                                       /\ rule[j].name = conditions[d].name
<1>1. \A b \in 1..Len(conditions) : \E i \in Options : Rank(i) = b /\ conditions[b]
          = ConditionOf(rule[i].name, rule[i].values, rule[i].bang # "none")
  BY DEF Kept
<1>2. \A b \in 1..Len(conditions) :
          \E i \in Options : Rank(i) = b /\ rule[i].name = conditions[b].name
  <2> SUFFICES ASSUME NEW b \in 1..Len(conditions)
               PROVE  \E i \in Options : Rank(i) = b /\ rule[i].name = conditions[b].name
    OBVIOUS
  <2>1. PICK i \in Options : Rank(i) = b /\ conditions[b]
            = ConditionOf(rule[i].name, rule[i].values, rule[i].bang # "none")
    BY <1>1
  <2>2. rule[i].name = conditions[b].name
    BY <2>1 DEF ConditionOf
  <2> QED BY <2>1, <2>2
<1> QED BY <1>2

LEMMA KeptSame == UNCHANGED <<rule, conditions>> => (Kept(Len(rule))' <=> Kept(Len(rule)))
BY DEF Kept, Rank, Options

LEMMA ChooseWalk == IInv /\ WalkInv /\ ChooseElements => WalkInv'
<1> SUFFICES ASSUME IInv, WalkInv, ChooseElements, ~TakesNextNot(rule) PROVE WalkInv'
  BY DEF WalkInv, ChooseElements
<1>1. /\ phase = "parse" /\ it > Len(text) /\ UNCHANGED <<rule, text, it, conditions>>
      /\ phase' = IF conditions = <<>> THEN "done"
                  ELSE IF Every({"--ctorigdst"}) THEN "ignored"
                  ELSE IF ~Every(Low \cup {"--state"}) THEN "ip"
                  ELSE IF Some(Low) THEN "low"
                  ELSE IF Len(conditions) = 1 THEN "switch" ELSE "failed"
  BY DEF ChooseElements
<1>2. PICK e : Ends(rule, e) /\ \E k \in 0..Len(rule) : it = e[k] + 1 /\ Kept(k)
  BY <1>1 DEF WalkInv, Walked
<1>3. PICK k \in 0..Len(rule) : it = e[k] + 1 /\ Kept(k)
  BY <1>2
<1>4. k = Len(rule)
  <2>1. SUFFICES ASSUME k # Len(rule) PROVE FALSE
    OBVIOUS
  <2>2. Len(rule) \in Nat /\ text = Text(rule) /\ Len(text) \in Nat /\ Complete(rule[k + 1])
    BY <2>1, RulesAssumption DEF IInv
  <2>3. k + 1 \in 1..Len(rule) /\ (k + 1) - 1 = k
    BY <2>1, <2>2
  <2>4. e[k + 1] = e[k] + HeadLen(rule[k + 1]) + Len(rule[k + 1].values) /\ e[k + 1] <= Len(text)
        /\ e[k] \in Nat
    BY <1>2, <2>2, <2>3 DEF Ends
  <2>5. HeadLen(rule[k + 1]) \in {1, 2} /\ Len(rule[k + 1].values) \in Nat
    BY <2>2 DEF HeadLen, Complete
  <2> QED BY <1>1, <1>3, <2>2, <2>4, <2>5
<1>5. Kept(Len(rule))'
  BY <1>1, <1>3, <1>4, KeptSame
<1>6. phase' = "ip" => ~Every(Low \cup {"--state"})'
  BY <1>1 DEF Every
<1>7. phase' # "parse"
  BY <1>1
<1>8. RefusedForCause'
  <2>1. SUFFICES ASSUME phase' = "failed"
                 PROVE  \E i, j \in Options : i # j /\ rule[i].name = "--state" /\ rule[j].name \notin Low
    BY <1>1 DEF RefusedForCause, Options
  <2>2. conditions # <<>> /\ Every(Low \cup {"--state"}) /\ ~Some(Low) /\ Len(conditions) # 1
    BY <1>1, <2>1
  <2>3. Len(conditions) \in Nat /\ conditions = [i \in 1..Len(conditions) |-> conditions[i]]
    BY DEF IInv, TypeOK
  <2>4. Len(conditions) # 0
    BY <2>2, <2>3
  <2>5. 1 \in 1..Len(conditions) /\ 2 \in 1..Len(conditions) /\ 1 # 2
    BY <2>2, <2>3, <2>4
  <2>6. DOMAIN conditions = 1..Len(conditions)
    BY <2>3
  <2>7. conditions[1].name = "--state" /\ conditions[2].name = "--state"
    BY <2>2, <2>5, <2>6 DEF Every, Some
  <2>8. \E i, j \in Options : i # j /\ rule[i].name = "--state" /\ rule[j].name = "--state"
    BY <1>3, <1>4, <2>5, <2>7, TwoOptions
  <2> QED BY <2>8, Classes
<1> QED BY <1>5, <1>6, <1>7, <1>8 DEF WalkInv

LEMMA PrintIPWalk == IInv /\ WalkInv /\ PrintIP => WalkInv'
<1> SUFFICES ASSUME IInv, WalkInv, PrintIP, ~TakesNextNot(rule) PROVE WalkInv'
  BY DEF WalkInv, PrintIP
<1> DEFINE c == shown + 1
<1>1. /\ phase = "ip" /\ shown < Len(conditions) /\ UNCHANGED <<rule, text, it, conditions>>
      /\ IF conditions[c].name \in Low \cup {"--ctorigdst"} THEN phase' = phase
         ELSE IF CanPrint(conditions[c]) THEN phase' = phase ELSE phase' = "failed"
  BY DEF PrintIP, Next1
<1>2. Kept(Len(rule)) /\ ~Every(Low \cup {"--state"})
  BY <1>1 DEF WalkInv
<1>3. Kept(Len(rule))' /\ ~Every(Low \cup {"--state"})'
  BY <1>1, <1>2, KeptSame DEF Every
<1>4. c \in 1..Len(conditions) /\ DOMAIN conditions = 1..Len(conditions)
  BY <1>1 DEF IInv, TypeOK
<1>5. phase' \in {"ip", "failed"}
  BY <1>1
<1> HIDE DEF c
<1>6. RefusedForCause'
  <2>1. SUFFICES ASSUME phase' = "failed"
                 PROVE  \/ \E i \in DOMAIN rule : rule[i].name \in Type
                              /\ (rule[i].values[1] # "BROADCAST" \/ Broadcast[rule[i].name] = <<>>)
                        \/ \E i, j \in Options : i # j /\ rule[i].name = "--state"
                                                 /\ rule[j].name \notin Low
    BY <1>1 DEF RefusedForCause, Options
  <2>2. ~CanPrint(conditions[c])
    BY <1>1, <2>1
  <2>3. CASE conditions[c].name = "--state"
    <3>1. PICK d \in 1..Len(conditions) : conditions[d].name \notin Low \cup {"--state"}
      BY <1>2, <1>4 DEF Every
    <3>2. c # d
      BY <2>3, <3>1
    <3>3. \E i, j \in Options : i # j /\ rule[i].name = conditions[c].name
                                      /\ rule[j].name = conditions[d].name
      BY <1>2, <1>4, <3>2, TwoOptions
    <3> QED BY <2>3, <3>1, <3>3
  <2>4. CASE conditions[c].name # "--state"
    <3>1. conditions[c].name \in Type
          /\ (conditions[c].values[1] # "BROADCAST" \/ Broadcast[conditions[c].name] = <<>>)
      BY <1>1, <2>1, <2>2, <2>4 DEF CanPrint, NotListed, Low
    <3>2. PICK i \in Options : Rank(i) = c /\ conditions[Rank(i)]
                  = ConditionOf(rule[i].name, rule[i].values, rule[i].bang # "none")
      BY <1>2, <1>4 DEF Kept
    <3>3. conditions[c].name = rule[i].name /\ conditions[c].values = rule[i].values
      BY <3>2 DEF ConditionOf
    <3>4. i \in DOMAIN rule
      BY <3>2 DEF Options
    <3> QED BY <3>1, <3>3, <3>4
  <2> QED BY <2>3, <2>4
<1> QED BY <1>3, <1>5, <1>6 DEF WalkInv

LEMMA PrintLowWalk == IInv /\ WalkInv /\ PrintLow => WalkInv'
<1> SUFFICES ASSUME IInv, WalkInv, PrintLow, ~TakesNextNot(rule) PROVE WalkInv'
  BY DEF WalkInv, PrintLow
<1> DEFINE c == shown + 1
<1>1. /\ phase = "low" /\ shown < Len(conditions) /\ UNCHANGED <<rule, text, it, conditions>>
      /\ phase' \in {"low", "failed"}
      /\ phase' = "failed" => conditions[c].name \in Low /\ ~CanPrint(conditions[c])
  BY DEF PrintLow, Next1
<1>2. Kept(Len(rule)) /\ Kept(Len(rule))'
  BY <1>1, KeptSame DEF WalkInv
<1>3. c \in 1..Len(conditions)
  BY <1>1 DEF IInv, TypeOK
<1> HIDE DEF c
<1>4. RefusedForCause'
  <2>1. SUFFICES ASSUME phase' = "failed"
                 PROVE  \E i \in DOMAIN rule : NotListed(rule[i].name, rule[i].values)
    BY <1>1 DEF RefusedForCause
  <2>2. NotListed(conditions[c].name, conditions[c].values)
    BY <1>1, <2>1, Classes DEF CanPrint, ByIPClassifier
  <2>3. PICK i \in Options : Rank(i) = c /\ conditions[Rank(i)]
                = ConditionOf(rule[i].name, rule[i].values, rule[i].bang # "none")
    BY <1>2, <1>3 DEF Kept
  <2>4. conditions[c].name = rule[i].name /\ conditions[c].values = rule[i].values
    BY <2>3 DEF ConditionOf
  <2>5. i \in DOMAIN rule
    BY <2>3 DEF Options
  <2> QED BY <2>2, <2>4, <2>5
<1> QED BY <1>1, <1>2, <1>4 DEF WalkInv

LEMMA WalkInvariance == Spec => []WalkInv
<1>1. Init => WalkInv
  BY WalkInit
<1>2. IInv /\ WalkInv /\ [Next]_vars => WalkInv'
  <2> SUFFICES ASSUME IInv, WalkInv, [Next]_vars PROVE WalkInv'
    OBVIOUS
  <2>1. CASE ParseOption
    BY <2>1, ParseWalk
  <2>2. CASE ChooseElements
    BY <2>2, ChooseWalk
  <2>3. CASE PrintIP
    BY <2>3, PrintIPWalk
  <2>4. CASE EndIP \/ EndLow \/ PrintSwitch
    <3>1. /\ UNCHANGED <<rule, conditions>> /\ phase \in {"ip", "low", "switch"}
          /\ phase' \in {"low", "done"}
      BY <2>4 DEF EndIP, EndLow, PrintSwitch
    <3> QED BY <3>1, KeptSame DEF WalkInv, RefusedForCause
  <2>5. CASE UNCHANGED vars
    <3>1. UNCHANGED <<rule, it, phase, conditions>>
      BY <2>5 DEF vars
    <3>2. \A k : Kept(k)' <=> Kept(k)
      BY <3>1 DEF Kept, Rank, Options
    <3>3. (Every(Low \cup {"--state"})' <=> Every(Low \cup {"--state"})) /\ Options' = Options
      BY <3>1 DEF Every, Options
    <3>4. Walked' <=> Walked
      BY <3>1, <3>2 DEF Walked
    <3>5. RefusedForCause' <=> RefusedForCause
      BY <3>1, <3>3 DEF RefusedForCause
    <3> QED BY <3>1, <3>2, <3>3, <3>4, <3>5 DEF WalkInv
  <2>6. CASE PrintLow
    BY <2>6, PrintLowWalk
  <2> QED BY <2>1, <2>2, <2>3, <2>4, <2>5, <2>6 DEF Next
<1> QED BY <1>1, <1>2, Invariance, PTL DEF Spec

\* However the options of a rule are ordered, with "!" before or after their names and -m among
\* them: parsing gives back each option that is a condition, with its own values and its own
\* "!", unless a "!" follows a --syn.
THEOREM KeepsOptions == Spec => []OptionsKept
<1>1. IInv /\ WalkInv => OptionsKept
  <2> SUFFICES ASSUME IInv, WalkInv, phase \in {"done", "ignored"}, ~TakesNextNot(rule)
               PROVE  /\ Len(conditions) = Cardinality(Options)
                      /\ \A i \in Options : conditions[Cardinality(Options \cap 1..i)]
                            = ConditionOf(rule[i].name, rule[i].values, rule[i].bang # "none")
    BY DEF OptionsKept
  <2>1. Kept(Len(rule))
    BY DEF WalkInv
  <2>2. Options \cap 1..Len(rule) = Options
    BY RuleOptions DEF IInv
  <2> QED BY <2>1, <2>2 DEF Kept, Rank
<1> QED BY <1>1, Invariance, WalkInvariance, PTL

\* And the generator gives up on a rule only for an option it does not support, an interface
\* that is not in the layout, or a state beside a condition that is not low-level.
THEOREM RefusesForCause == Spec => []RefusedForCause
<1>1. WalkInv => RefusedForCause
  BY DEF WalkInv, RefusedForCause
<1> QED BY <1>1, WalkInvariance, PTL
=============================================================================
