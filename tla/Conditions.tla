----------------------------- MODULE Conditions -----------------------------
(***************************************************************************)
(* From the conditions of one iptables rule to the patterns of the Click   *)
(* elements that stand for them: ConditionFactory.parse walks the tokens   *)
(* of the rule, then Rule.printClickIPClassifier and printClickClassifier  *)
(* print what it made of them, each condition in its own words.  One test  *)
(* of a pattern (dst port 80, not syn) is the set of packets it holds of.  *)
(***************************************************************************)
EXTENDS Naturals, SequencesExt

CONSTANTS
    Packet,      \* packets at a rule: headers, frame and state
    Rules,       \* the conditions of the compiled rules, a sequence of options each
    WithFlag,    \* WithFlag[f]: the packets with TCP flag f
    Broadcast,   \* Broadcast[option]: the packets from, or to, each broadcast address
    Unlisted     \* the name of an interface that network_layout.xml does not list (ppp+, say)

VARIABLES
    rule,        \* the rule, option by option
    text,        \* its tokens
    phase,       \* "parse", the pass that prints, or how it ended
    it,          \* the next token
    conditions,  \* those parsed
    shown,       \* how many of them this pass has been over
    pattern,     \* the IPClassifier's, as its alternatives
    beside       \* the packets the Classifier, or the PaintSwitch, lets through

vars == <<rule, text, phase, it, conditions, shown, pattern, beside>>

-----------------------------------------------------------------------------
(* Options by the class of condition they become.  The values of most are  *)
(* alternatives, each of them tests that hold together (a range of ports   *)
(* is two); --tcp-flags has the flags to look at and those to be set.      *)

Field == {"-p", "-s", "--source", "-d", "--destination", "--tcp-option",
          "--sport", "--source-port", "--dport", "--destination-port"}
List  == {"--sports", "--source-ports", "--dports", "--destination-ports", "--ports"}
Plain == {"--tos", "--ttl-eq", "--ttl-gt", "--ttl-lt", "--dscp"}
Flags == {"--tcp-flags", "--syn"}
Type  == {"--src-type", "--dst-type"}
Interface == {"-i", "--in-interface", "-o", "--out-interface"}
Low   == Interface \cup {"--icmp-type"}
ByIPClassifier == Field \cup List \cup Plain \cup Flags \cup Type
Known == ByIPClassifier \cup Low \cup {"--state", "--ctorigdst"}
Module == {"-m", "--match"}

\* _parameterMap, whose operator[] answers 0 for what is not in it.
NrOfParameters(name) ==
    IF name = "--tcp-flags" THEN 2
    ELSE IF name \in (Known \cup Module \cup {"--protocol"}) \ {"--syn"} THEN 1 ELSE 0

\* TosCondition and the like have no reverse, and the constructors of these drop it.
KeepsNot(name) == name \notin Type \cup Plain \cup {"--state", "--ctorigdst"}

\* Mutant: no constructor drops it.
KeepsEveryNot(name, values, reverse) == [name |-> name, values |-> values, reverse |-> reverse]
ConditionOf(name, values, reverse) ==
    [name |-> name, values |-> values, reverse |-> reverse /\ KeepsNot(name)]

-----------------------------------------------------------------------------
(* The rule's text.  The "!" of an option stands before or after its name. *)

Word(w)  == [word |-> w, value |-> <<>>]
Value(v) == [word |-> "", value |-> v]
Bang     == Word("!")

OptionText(o) ==
    (CASE o.bang = "before" -> <<Bang, Word(o.name)>>
       [] o.bang = "after"  -> <<Word(o.name), Bang>>
       [] OTHER             -> <<Word(o.name)>>)
    \o [i \in DOMAIN o.values |-> Value(o.values[i])]
Text(r) == FlattenSeq([i \in DOMAIN r |-> OptionText(r[i])])

\* An interface of the layout stands for the packets with its MAC address.
Alternatives == Seq(Seq(SUBSET Packet)) \ {<<>>}
NotListed(name, values) == name \in Interface /\ values[1] = Unlisted
Fits(name, values) ==
    IF name = "--tcp-flags"
    THEN values[1] \in Seq(DOMAIN WithFlag) \ {<<>>} /\ values[2] \in SUBSET DOMAIN WithFlag
    ELSE /\ name \in Known \ (Type \cup {"--syn", "--ctorigdst"})
               => NotListed(name, values) \/ values[1] \in Alternatives
         /\ name \in Field \cup Plain => Len(values[1]) = 1 /\ values[1][1] # <<>>

\* iptables-restore accepts the rules: every option has its parameters.
\* Mutant of NamePlace: a "!" before the name is not stepped over.
AtOnce(t, i) == i
NamePlace(t, i)   == IF t[i].word = "!" THEN i + 1 ELSE i
BangFollows(t, n) == n < Len(t) /\ t[n + 1].word = "!"
ValuesAfter(t, n) == IF BangFollows(t, n) THEN n + 1 ELSE n
ValuesOf(t, n)    == [k \in 1..NrOfParameters(t[n].word) |-> t[ValuesAfter(t, n) + k].value]

Complete(o) ==
    /\ o.name # "!" /\ o.bang \in {"none", "before", "after"}
    /\ Len(o.values) \in Nat /\ o.values = [i \in 1..Len(o.values) |-> o.values[i]]
    /\ o.name \in Known \cup Module => Len(o.values) = NrOfParameters(o.name)
ASSUME RulesAssumption ==
    \A r \in Rules :
        /\ Len(r) \in Nat /\ DOMAIN r = 1..Len(r) /\ \A i \in DOMAIN r : Complete(r[i])
        /\ Len(Text(r)) \in Nat /\ DOMAIN Text(r) = 1..Len(Text(r))
        /\ \A n \in DOMAIN Text(r) :
              /\ Text(r)[n].word = "!" => n < Len(Text(r))
              /\ ValuesAfter(Text(r), n) + NrOfParameters(Text(r)[n].word) <= Len(Text(r))
              /\ Fits(Text(r)[n].word, ValuesOf(Text(r), n))
ASSUME WithFlagAssumption ==
    /\ {"syn", "rst", "ack", "fin"} \subseteq DOMAIN WithFlag
    /\ \A f \in DOMAIN WithFlag : WithFlag[f] \subseteq Packet
ASSUME BroadcastAssumption == Broadcast \in [Type -> Seq(SUBSET Packet)]
ASSUME UnlistedAssumption == Unlisted \notin Alternatives

-----------------------------------------------------------------------------
(* What a condition asks for, and what it prints.                          *)

Together(tests) == {p \in Packet : \A i \in DOMAIN tests : p \in tests[i]}
Not(tests) == [i \in DOMAIN tests |-> Packet \ tests[i]]
FlagTests(look, set) ==
    [i \in DOMAIN look |-> IF look[i] \in set THEN WithFlag[look[i]] ELSE Packet \ WithFlag[look[i]]]

Asked(c) ==
    CASE c.name = "--syn"       -> <<FlagTests(<<"syn", "rst", "ack", "fin">>, {"syn"})>>
      [] c.name = "--tcp-flags" -> <<FlagTests(c.values[1], c.values[2])>>
      [] c.name \in Type        -> [i \in DOMAIN Broadcast[c.name] |-> <<Broadcast[c.name][i]>>]
      [] c.name = "--ctorigdst" -> <<<<>>>>
      [] OTHER                  -> c.values[1]
Meets(p, c) == \E i \in DOMAIN Asked(c) : p \in Together(Asked(c)[i])
Satisfied(c) == {p \in Packet : Meets(p, c) # c.reverse}

\* print(): the tests with "or" between the alternatives.  A list reversed is joined by
\* "and", its ranges in parentheses; a range reversed is "< a or > b" without them.
AnyOf(c) == [i \in DOMAIN Asked(c) |-> Together(Asked(c)[i])]
\* Mutants: "and" in a range reversed; a field printed without its "!= ".
PrintedWithAnd(c) == IF c.name \in Field /\ c.reverse THEN <<Together(Not(Asked(c)[1]))>>
                     ELSE AnyOf(c)
PrintedWithoutNot(c) == IF c.name \in Type THEN <<AnyOf(c)[1]>> \o AnyOf(c) ELSE AnyOf(c)
Printed(c) ==
    CASE c.name \in Field /\ c.reverse -> Not(Asked(c)[1])
      [] c.name \in List /\ c.reverse  -> <<Packet \ UNION Range(AnyOf(c))>>
      [] c.name \in Flags /\ c.reverse -> <<Together(Not(Asked(c)[1]))>>
      [] c.name \in Type               -> <<AnyOf(c)[1]>> \o AnyOf(c)
      [] OTHER                         -> AnyOf(c)

\* Tests side by side hold together, and that binds tighter than "or".
Juxtapose(pat, alts) == Front(pat) \o <<Last(pat) \cap Head(alts)>> \o Tail(alts)
Matched(pat) == UNION Range(pat)

-----------------------------------------------------------------------------
Init ==
    /\ rule \in Rules
    /\ text = Text(rule)
    /\ phase = "parse" /\ it = 1
    /\ conditions = <<>>
    /\ shown = 0 /\ pattern = <<Packet>> /\ beside = Packet

\* Mutant: only the "!" before a name is looked for.
OnlyBefore(n) == text[it].word = "!"
Reversed(n)   == text[it].word = "!" \/ BangFollows(text, n)

\* One turn of ConditionFactory.parse; parseCondition exits on an unknown name, and asserts
\* that Plain conditions are not reversed.
ParseOption ==
    /\ phase = "parse" /\ it <= Len(text)
    /\ LET n    == NamePlace(text, it)
           name == text[n].word
       IN /\ IF name \notin Known \cup Module \/ (name \in Plain /\ Reversed(n))
             THEN phase' = "failed" /\ UNCHANGED <<it, conditions>>
             ELSE /\ conditions' = IF name \in Module THEN conditions
                        ELSE Append(conditions, ConditionOf(name, ValuesOf(text, n), Reversed(n)))
                  /\ it' = ValuesAfter(text, n) + NrOfParameters(name) + 1
                  /\ UNCHANGED phase
    /\ UNCHANGED <<rule, text, shown, pattern, beside>>

Some(names) == \E i \in DOMAIN conditions : conditions[i].name \in names
Every(names) == \A i \in DOMAIN conditions : conditions[i].name \in names

\* Chain.printClickClassifiers; getAllowedStates asserts that a state is alone.
ChooseElements ==
    /\ phase = "parse" /\ it > Len(text)
    /\ phase' = IF conditions = <<>> THEN "done"
                ELSE IF Every({"--ctorigdst"}) THEN "ignored"
                ELSE IF ~Every(Low \cup {"--state"}) THEN "ip"
                ELSE IF Some(Low) THEN "low"
                ELSE IF Len(conditions) = 1 THEN "switch" ELSE "failed"
    /\ UNCHANGED <<rule, text, it, conditions, shown, pattern, beside>>

Next1 == conditions[shown + 1]
\* The assertions of print(): of StateCondition, of the address types, and of
\* NetworkLayout.getMacAddress.
CanPrint(c) ==
    /\ c.name # "--state"
    /\ c.name \in Type => c.values[1] = "BROADCAST" /\ Broadcast[c.name] # <<>>
    /\ ~NotListed(c.name, c.values)

\* printClickIPClassifier passes over ignorable and low-level conditions.
PrintIP ==
    /\ phase = "ip" /\ shown < Len(conditions)
    /\ IF Next1.name \in Low \cup {"--ctorigdst"} THEN UNCHANGED <<phase, pattern>>
       ELSE IF CanPrint(Next1) THEN pattern' = Juxtapose(pattern, Printed(Next1)) /\ UNCHANGED phase
       ELSE phase' = "failed" /\ UNCHANGED pattern
    /\ shown' = shown + 1
    /\ UNCHANGED <<rule, text, it, conditions, beside>>

EndIP ==
    /\ phase = "ip" /\ shown = Len(conditions)
    /\ phase' = IF Some(Low) THEN "low" ELSE "done"
    /\ shown' = 0
    /\ UNCHANGED <<rule, text, it, conditions, pattern, beside>>

\* printClickClassifier passes over all others.
PrintLow ==
    /\ phase = "low" /\ shown < Len(conditions)
    /\ IF Next1.name \notin Low THEN UNCHANGED <<phase, beside>>
       ELSE IF CanPrint(Next1) THEN beside' = beside \cap Satisfied(Next1) /\ UNCHANGED phase
       ELSE phase' = "failed" /\ UNCHANGED beside
    /\ shown' = shown + 1
    /\ UNCHANGED <<rule, text, it, conditions, pattern>>

EndLow ==
    /\ phase = "low" /\ shown = Len(conditions)
    /\ phase' = "done"
    /\ UNCHANGED <<rule, text, it, conditions, shown, pattern, beside>>

PrintSwitch ==
    /\ phase = "switch"
    /\ beside' = Satisfied(conditions[1])
    /\ phase' = "done"
    /\ UNCHANGED <<rule, text, it, conditions, shown, pattern>>

-----------------------------------------------------------------------------
Next == ParseOption \/ ChooseElements \/ PrintIP \/ EndIP \/ PrintLow \/ EndLow \/ PrintSwitch
Spec == Init /\ [][Next]_vars

-----------------------------------------------------------------------------
(* Properties.                                                             *)

\* Every parsed condition has values its class can print.
WellFormed(c) ==
    /\ c.name \in Known /\ c.reverse \in BOOLEAN
    /\ c.reverse => KeepsNot(c.name)
    /\ Fits(c.name, c.values)

\* The walk takes conditions that can be printed and never steps past the end of the rule
\* (ConditionFactory.parse compares iterators with != only), and the patterns are never empty.
TypeOK ==
    /\ phase \in {"parse", "ip", "low", "switch", "done", "ignored", "failed"}
    /\ it \in 1..(Len(text) + 1)
    /\ Len(conditions) \in Nat /\ conditions = [i \in 1..Len(conditions) |-> conditions[i]]
    /\ \A i \in DOMAIN conditions : WellFormed(conditions[i])
    /\ shown \in 0..Len(conditions)
    /\ pattern \in Seq(SUBSET Packet) \ {<<>>}
    /\ beside \in SUBSET Packet

\* The "!" before an option that follows --syn is taken for one after --syn.
TakesNextNot(r) ==
    \E i \in 1..(Len(r) - 1) : r[i].name = "--syn" /\ r[i].bang # "after" /\ r[i + 1].bang = "before"

\* The options that are conditions, by their places in the rule.
Options == {i \in DOMAIN rule : rule[i].name \notin Module}
\* ConditionFactory.parse gives back the options of the rule, each with its own values and its
\* own "!", but for the reverse those classes drop and the "!" --syn takes from its neighbour.
OptionsKept ==
    phase \in {"done", "ignored"} /\ ~TakesNextNot(rule) =>
        /\ Len(conditions) = Cardinality(Options)
        /\ \A i \in Options : conditions[Cardinality(Options \cap 1..i)]
                = ConditionOf(rule[i].name, rule[i].values, rule[i].bang # "none")

\* The generator gives up on a rule of iptables only for what it does not support: an option
\* unknown to it, "!" before a Plain one, an interface that is not in the layout, an address
\* type other than BROADCAST or no broadcast address, and a state beside another condition that
\* is not low-level.
RefusedForCause ==
    phase = "failed" /\ ~TakesNextNot(rule) =>
        \/ \E i \in DOMAIN rule :
              \/ rule[i].name \notin Known \cup Module
              \/ rule[i].name \in Plain /\ rule[i].bang # "none"
              \/ rule[i].name \in Type
                 /\ (rule[i].values[1] # "BROADCAST" \/ Broadcast[rule[i].name] = <<>>)
              \/ NotListed(rule[i].name, rule[i].values)
        \/ \E i, j \in Options : i # j /\ rule[i].name = "--state" /\ rule[j].name \notin Low

Asks == {i \in DOMAIN conditions : conditions[i].name # "--ctorigdst"}
Wanted  == {p \in Packet : \A i \in Asks : p \in Satisfied(conditions[i])}
Through == Matched(pattern) \cap beside

\* not a not b is printed for the reverse of "a and b".
FlagsReversed == \E i \in DOMAIN conditions :
    conditions[i].name \in Flags /\ conditions[i].reverse /\ Len(Asked(conditions[i])[1]) > 1
\* No packet that meets the conditions is taken past the rule's target, whatever the
\* conditions and their order, unless several flags are reversed.
NothingMissed == phase = "done" /\ ~FlagsReversed => Wanted \subseteq Through

\* a b or c, read as (a and b) or c.
OrInRule == \E i, j \in DOMAIN conditions :
    /\ i # j /\ {conditions[i].name, conditions[j].name} \subseteq ByIPClassifier
    /\ Len(Printed(conditions[i])) > 1
StateDropped == Some({"--state"}) /\ Some(Low)
\* Only packets that meet all conditions of a rule are given to its target, unless
\* alternatives stand beside another condition or a state beside a low-level one.
NothingAdded == phase = "done" /\ ~OrInRule /\ ~StateDropped => Through \subseteq Wanted

\* What Rule.h says: the target is "the chain jumped to when the condition is satisfied".
OptionCondition(o) == [name |-> o.name, values |-> o.values, reverse |-> o.bang # "none"]
JumpsWhenSatisfied ==
    phase = "done" =>
        Through = {p \in Packet : \A i \in Options :
            rule[i].name # "--ctorigdst" => p \in Satisfied(OptionCondition(rule[i]))}
=============================================================================
