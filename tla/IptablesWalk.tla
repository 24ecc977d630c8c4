---------------------------- MODULE IptablesWalk ----------------------------
(***************************************************************************)
(* What a packet's way through the iptables chains promises: rules are met *)
(* in order, a rule's target is taken exactly when all the conditions the  *)
(* program supports hold, a user chain returns to the rule behind the one  *)
(* that jumped, and the end of a built-in chain is its policy.             *)
(***************************************************************************)
EXTENDS RuleTables

VARIABLES
    ruleset, route, pass,   \* the ruleset, the packet's route and its position there
    packet,
    chain, rule,            \* the rule the packet is about to meet
    calls,                  \* the rules to return to, innermost last
    verdict                 \* of the last packet that left

walk == <<ruleset, route, pass, packet, chain, rule, calls, verdict>>

Here   == RuleSets[ruleset][route[pass].table][chain]
AtRule == packet # NoPacket /\ rule <= Len(Here.rules)
This   == Here.rules[rule]

\* All conditions hold, those of unsupported kinds taken for true.
Satisfied(r) ==
    \A i \in DOMAIN r.conditions :
        r.conditions[i].kind = "ignorable" \/ packet \in r.conditions[i].holds
Applies == AtRule /\ ~Ignored(This) /\ Satisfied(This)

At(c, i, cs) == chain' = c /\ rule' = i /\ calls' = cs

Start(p, rt) ==
    /\ packet = NoPacket
    /\ packet' = p /\ route' = rt /\ pass' = 1
    /\ At(rt[1].chain, 1, <<>>)
    /\ UNCHANGED <<ruleset, verdict>>

Skip ==
    /\ AtRule /\ ~Applies
    /\ At(chain, rule + 1, calls)
    /\ UNCHANGED <<ruleset, route, pass, packet, verdict>>

\* ACCEPT leads to the next chain of the route.
Decide(v) ==
    \/ /\ v = "ACCEPT" /\ pass < Len(route)
       /\ pass' = pass + 1
       /\ At(route[pass + 1].chain, 1, <<>>)
       /\ UNCHANGED <<ruleset, route, packet, verdict>>
    \/ /\ v # "ACCEPT" \/ pass = Len(route)
       /\ packet' = NoPacket /\ verdict' = v
       /\ route' = <<>> /\ pass' = 0 /\ At(NoPolicy, 0, <<>>)
       /\ UNCHANGED ruleset

Verdict == Applies /\ This.target \in Final /\ Decide(This.target)

Jump ==
    /\ Applies /\ This.target \notin Final \cup Special
    /\ At(This.target, 1, Append(calls, [chain |-> chain, rule |-> rule + 1]))
    /\ UNCHANGED <<ruleset, route, pass, packet, verdict>>

\* DNAT, SNAT and MASQUERADE change the packet, never its state, and the chain goes on.
Translate ==
    /\ Applies /\ This.target \in {"DNAT", "SNAT", "MASQUERADE"}
    /\ \E h \in Header : packet' = [packet EXCEPT !.header = h]
    /\ At(chain, rule + 1, calls)
    /\ UNCHANGED <<ruleset, route, pass, verdict>>

\* Only a MASQUERADE that knows no interface for the packet loses it.
Lose ==
    /\ Applies /\ This.target = "MASQUERADE"
    /\ packet' = NoPacket /\ verdict' = "LOST"
    /\ route' = <<>> /\ pass' = 0 /\ At(NoPolicy, 0, <<>>)
    /\ UNCHANGED ruleset

\* RETURN, and the end of a chain.
Return ==
    /\ packet # NoPacket
    /\ (Applies /\ This.target = "RETURN") \/ rule = Len(Here.rules) + 1
    /\ \/ /\ calls # <<>>
          /\ At(calls[Len(calls)].chain, calls[Len(calls)].rule, SubSeq(calls, 1, Len(calls) - 1))
          /\ UNCHANGED <<ruleset, route, pass, packet, verdict>>
       \/ /\ calls = <<>>
          /\ Decide(Here.policy)

WalkInit ==
    /\ ruleset \in DOMAIN RuleSets
    /\ packet = NoPacket /\ verdict = "NONE"
    /\ route = <<>> /\ pass = 0
    /\ chain = NoPolicy /\ rule = 0 /\ calls = <<>>

WalkNext ==
    \/ \E p \in Packet : \E rt \in Routes(p.state) : Start(p, rt)
    \/ Skip \/ Verdict \/ Jump \/ Translate \/ Lose \/ Return

WalkSpec == WalkInit /\ [][WalkNext]_walk

=============================================================================
