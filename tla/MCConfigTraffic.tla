-------------------------- MODULE MCConfigTraffic --------------------------
(* ConfigTraffic for TLC: up to two interfaces, with MAC addresses of      *)
(* their own or a common one, or without any address.                      *)
EXTENDS ConfigTraffic

CONSTANTS a, b, x, MaxFlags, MaxExtras, MaxLent

I(n, mac, ip) == [name |-> n, content |-> [mac_address |-> mac, ip_address |-> ip]]
MCInterfaces == {I(1, 1, a), I(1, NoMAC, NoIP), I(2, 2, b), I(2, 1, b)}

P(src, dst, frame) == [src |-> src, dst |-> dst, frame |-> frame]
F(dst, src) == [dst |-> dst, src |-> src]
\* Input, output and forwarded packets, with and without a frame of their own.
MCDumps == {
    [ascii |-> FALSE, packets |-> {P(x, a, NoFrame)}],
    [ascii |-> FALSE, packets |-> {P(a, x, F(1, 1)), P(x, x, F(2, 1))}],
    [ascii |-> FALSE, packets |-> {P(a, b, F(2, 1))}],
    [ascii |-> TRUE,  packets |-> {P(x, a, NoFrame)}] }

\* The bound: the members of a block that neither addresses nor interfaces nor protocol are.
Extras(c) == {m \in {"sourcePort", "destPort", "tcp_flags", "icmp_code", "policy", "dump"} :
                c[m] # NewContent[m]}
\* One block with any elements, in starts that find no bogus.txt.
OneBlock ==
    /\ content # NoBlock => /\ Cardinality(Extras(content)) <= MaxExtras
                            /\ Len(content.tcp_flags) <= MaxFlags
    /\ Len(asked) <= 1 /\ lent = 0 /\ unremoved = 0
    /\ bogus # "none" => by = "this"

\* Blocks that name a dump and the interfaces it passes between, in starts that find what the
\* last one left.
DumpsOnly ==
    /\ content # NoBlock =>
          content = [NewContent EXCEPT !.dump = content.dump,
                         !.inInterface = content.inInterface,
                         !.outInterface = content.outInterface]
    /\ \A k \in DOMAIN contents : contents[k].dump # NoDump
    /\ lent <= MaxLent /\ unremoved <= MaxLent

Bounded == OneBlock \/ DumpsOnly
=============================================================================
