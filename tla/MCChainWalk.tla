---------------------------- MODULE MCChainWalk ----------------------------
(* ChainWalk for TLC: three rulesets that between them have every kind of  *)
(* rule and target, nested user chains, and chains left by ACCEPT.         *)
EXTENDS ChainWalk, TLC

CONSTANTS h1, h2

MCName == BuiltIn \cup Final \cup Special \cup {MasqChain, NoPolicy, "a", "b", "m"}

Of(h)    == {p \in Packet : p.header = h}
InS(s)   == {p \in Packet : p.state \in s}
Cond(kind, holds) == [kind |-> kind, holds |-> holds]
R(text, conds, target) == [text |-> text, conditions |-> conds, target |-> target]
End(rules)  == [policy |-> "ACCEPT", rules |-> rules]
Stop(rules) == [policy |-> "DROP", rules |-> rules]
User(rules) == [policy |-> NoPolicy, rules |-> rules]

EmptyMangle == [c \in BuiltIn |-> End(<<>>)]
EmptyNat    == [c \in {"PREROUTING", "OUTPUT", "POSTROUTING"} |-> End(<<>>)]
EmptyFilter == [c \in {"INPUT", "FORWARD", "OUTPUT"} |-> End(<<>>)]

Ip1  == Cond("ip", Of(h1))
Low1 == Cond("low", Of(h1))
Low2 == Cond("low", Of(h2))
New  == Cond("state", InS({"NEW"}))
Old  == Cond("state", InS({"ESTABLISHED", "RELATED"}))
Odd  == Cond("ignorable", Packet)

\* Chains in chains: a is left by RETURN and by ACCEPT, b by its end and by ACCEPT.
ChainsInChains == [
    mangle |-> [EmptyMangle EXCEPT !["PREROUTING"] = End(<<R("P j a", <<>>, "a")>>),
                                   !["FORWARD"] = End(<<R("F j a", <<New>>, "a")>>)]
               @@ [c \in {"a"} |-> User(<<R("a acc", <<Ip1>>, "ACCEPT")>>)],
    nat    |-> EmptyNat,
    filter |-> [EmptyFilter EXCEPT !["FORWARD"] = Stop(<<R("F j a", <<>>, "a"),
                                                         R("F j b", <<Low2>>, "b")>>),
                                   !["INPUT"] = Stop(<<R("I j b", <<Old>>, "b")>>)]
               @@ [c \in {"a"} |-> User(<<R("a j b", <<Ip1>>, "b"), R("a ret", <<>>, "RETURN"),
                                          R("a drop", <<>>, "DROP")>>)]
               @@ [c \in {"b"} |-> User(<<R("b acc", <<New>>, "ACCEPT")>>)] ]

\* Each kind of classifier; one text twice; rules that are ignored.
RuleKinds == [
    mangle |-> EmptyMangle,
    nat    |-> EmptyNat,
    filter |-> [EmptyFilter EXCEPT
        !["FORWARD"] = Stop(<<R("F log", <<Ip1>>, "ULOG"), R("F odd", <<Odd>>, "ACCEPT"),
                              R("F both", <<Ip1, Odd, Low1>>, "ACCEPT"),
                              R("F both", <<Ip1, Odd, Low1>>, "ACCEPT"),
                              R("F low", <<Low2>>, "REJECT")>>),
        !["OUTPUT"] = Stop(<<R("O odd", <<Odd, Low2>>, "ACCEPT"), R("O all", <<>>, "ACCEPT")>>)] ]

\* Translations, one of them in a user chain; later rules see the new header.
Translations == [
    mangle |-> EmptyMangle,
    nat    |-> [EmptyNat EXCEPT
        !["PREROUTING"] = End(<<R("P dnat", <<Ip1>>, "DNAT"), R("P acc", <<Ip1>>, "ACCEPT"),
                                R("P drop", <<>>, "DROP")>>),
        !["POSTROUTING"] = End(<<R("S j m", <<Low1>>, "m"), R("S snat", <<Ip1>>, "SNAT")>>)]
               @@ [c \in {"m"} |-> User(<<R("m masq", <<>>, "MASQUERADE"),
                                          R("m ret", <<Ip1>>, "RETURN"),
                                          R("m rej", <<>>, "REJECT")>>)],
    filter |-> EmptyFilter ]

\* A built-in chain with a RETURN.
ReturnAtTop == << [mangle |-> EmptyMangle, nat |-> EmptyNat,
    filter |-> [EmptyFilter EXCEPT !["FORWARD"] = Stop(<<R("F ret", <<Ip1>>, "RETURN")>>)]] >>

MCRuleSets == <<ChainsInChains, RuleKinds, Translations>>

\* What the theorems about the walk assume of a ruleset holds of these.
ASSUME RegularAssumption ==
    \A n \in DOMAIN MCRuleSets : \A t \in Table :
        EntryRegular(MCRuleSets[n][t]) /\ EntryTested(MCRuleSets[n][t])
=============================================================================
