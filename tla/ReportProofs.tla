--------------------------- MODULE ReportProofs ---------------------------
(* Report, for any blocks and texts: TypeOK and NoDangling first; then     *)
(* what the files, the counters and the log have to do with each other at  *)
(* every step of a packet (FullInv), from which FilesExact and LostExact.  *)
EXTENDS Report, InductionLemmas, TLAPS

(* What each place knows of the vectors: CopyBuffer is handed a packet     *)
(* without any and keeps its copy so; behind inputCounter the packet has   *)
(* texts of its own; CopyBuffer's second input is the only way on.         *)
Fresh(p) == p.info = Null /\ p.stack = Null
Holds(p) ==
    /\ p.info \in 1 .. Len(heap) /\ heap[p.info].live
    /\ p.stack # Null => p.stack # p.info /\ heap[p.stack].live
Vectors ==
    /\ place \in {"copy", "input"} => Fresh(packet)
    /\ place \in {"input", "graph", "feedback"} => slot # NoPacket /\ Fresh(slot)
    /\ place \in {"graph", "feedback", "painter", "output"} => Holds(packet)
    /\ place \in {"painter", "output"} => slot = packet /\ packet.stack = Null
IInv == TypeOK /\ Vectors

-----------------------------------------------------------------------------
(* The heap.                                                               *)

USE DEF Null

(* A new vector is behind all others, which stay as they are.              *)
LEMMA Allocated ==
  ASSUME NEW h \in Seq(Vector), NEW s \in Seq(Info),
         NEW g, g = Append(h, [live |-> TRUE, items |-> s])
  PROVE  /\ g \in Seq(Vector) /\ Len(g) = Len(h) + 1
         /\ g[Len(h) + 1].live
         /\ \A i \in 1 .. Len(h) : g[i] = h[i]
<1>1. [live |-> TRUE, items |-> s] \in Vector
  BY DEF Vector
<1> QED
  BY <1>1

(* Freeing a vector leaves the others.                                     *)
LEMMA Freed ==
  ASSUME NEW h \in Seq(Vector), NEW a \in 1 .. Len(h),
         NEW g, g = [h EXCEPT ![a].live = FALSE]
  PROVE  /\ g \in Seq(Vector) /\ Len(g) = Len(h)
         /\ \A i \in 1 .. Len(h) : i # a => g[i] = h[i]
<1>1. h[a] \in Vector
  OBVIOUS
<1>2. [h[a] EXCEPT !.live = FALSE] \in Vector
  BY <1>1 DEF Vector
<1> QED
  BY <1>2

(* A text more changes no vector's liveness.                               *)
LEMMA Written ==
  ASSUME NEW h \in Seq(Vector), NEW a \in 1 .. Len(h), NEW t \in Info,
         NEW g, g = [h EXCEPT ![a].items = Append(@, t)]
  PROVE  /\ g \in Seq(Vector) /\ Len(g) = Len(h)
         /\ \A i \in 1 .. Len(h) : g[i].live = h[i].live
<1>1. h[a] \in Vector
  OBVIOUS
<1>2. h[a].items \in Seq(Info)
  BY <1>1 DEF Vector
<1>3. Append(h[a].items, t) \in Seq(Info)
  BY <1>2
<1>4. /\ [h[a] EXCEPT !.items = Append(@, t)] \in Vector
      /\ [h[a] EXCEPT !.items = Append(@, t)].live = h[a].live
  BY <1>1, <1>3 DEF Vector
<1> QED
  BY <1>4

(* An InfoPainter leaves the packet with a live vector of texts and every  *)
(* other vector as live as it was.                                         *)
LEMMA Painted ==
  ASSUME TypeOK, packet # NoPacket, NEW t \in Info, Paint(packet, t),
         packet.info # Null => heap[packet.info].live
  PROVE  /\ heap' \in Seq(Vector) /\ Len(heap') >= Len(heap)
         /\ packet' \in Packet /\ packet' = [packet EXCEPT !.info = packet'.info]
         /\ packet'.info \in 1 .. Len(heap') /\ heap'[packet'.info].live
         /\ packet.info # Null => packet'.info = packet.info
         /\ packet.info = Null => packet'.info = Len(heap) + 1
         /\ \A i \in 1 .. Len(heap) : heap'[i].live = heap[i].live
<1>1. /\ packet \in Packet /\ heap \in Seq(Vector)
      /\ packet.info \in 0 .. Len(heap)
  BY DEF TypeOK, Pointer
<1>2. CASE packet.info = Null
  <2>1. heap' = Append(heap, [live |-> TRUE, items |-> <<t>>])
    BY <1>2 DEF Paint
  <2>2. packet' = [packet EXCEPT !.info = Len(heap) + 1]
    BY <1>2 DEF Paint
  <2>3. <<t>> \in Seq(Info)
    OBVIOUS
  <2>4. /\ heap' \in Seq(Vector) /\ Len(heap') = Len(heap) + 1
        /\ heap'[Len(heap) + 1].live
        /\ \A i \in 1 .. Len(heap) : heap'[i] = heap[i]
    BY <1>1, <2>1, <2>3, Allocated
  <2>5. packet' \in Packet /\ packet'.info = Len(heap) + 1
    <3>1. Len(heap) + 1 \in Nat
      BY <1>1
    <3> HIDE DEF Null
    <3> QED
      BY <1>1, <2>2, <3>1 DEF Packet
  <2> QED
    BY <1>1, <1>2, <2>2, <2>4, <2>5
<1>3. CASE packet.info # Null
  <2>1. heap' = [heap EXCEPT ![packet.info].items = Append(@, t)] /\ packet' = packet
    BY <1>3 DEF Paint
  <2>2. packet.info \in 1 .. Len(heap)
    BY <1>1, <1>3
  <2>3. /\ heap' \in Seq(Vector) /\ Len(heap') = Len(heap)
        /\ \A i \in 1 .. Len(heap) : heap'[i].live = heap[i].live
    BY <1>1, <2>1, <2>2, Written
  <2>4. packet = [packet EXCEPT !.info = packet.info]
    BY <1>1 DEF Packet
  <2> QED
    BY <1>1, <1>3, <2>1, <2>2, <2>3, <2>4
<1> QED
  BY <1>2, <1>3

-----------------------------------------------------------------------------
(* The steps.                                                              *)

LEMMA Initial == Init => IInv
<1>1. Init => TypeOK
  <2> SUFFICES ASSUME Init PROVE TypeOK
    OBVIOUS
  <2>1. sent \in [Block -> Nat] /\ \A b \in Block : sent[b] <= numPackets[b]
    BY NumPacketsAssumption DEF Init
  <2>2. heap \in Seq(Vector)
    BY DEF Init
  <2>3. counters \in [Verdict -> [BOOLEAN -> Nat]]
    BY DEF Init
  <2>4. \A p \in {packet, slot} \ {NoPacket} : FALSE
    BY DEF Init
  <2>5. place \in Place /\ (place = "idle" <=> ~Carried)
    BY DEF Init, Place, Carried
  <2>6. stops \subseteq Block /\ shared \in BOOLEAN
    BY Zenon DEF Init
  <2>7. inputCounter \in Nat /\ switch \in -1 .. 2
    BY DEF Init
  <2> QED
    BY <2>1, <2>2, <2>3, <2>4, <2>5, <2>6, <2>7 DEF TypeOK
<1>2. Init => Vectors
  BY DEF Init, Vectors
<1> QED
  BY <1>1, <1>2 DEF IInv

LEMMA Sending == ASSUME IInv, NEW b \in Block, Send(b) PROVE IInv'
<1> USE DEF IInv, Send, counts
<1>1. EtherEncap(b) \in Packet /\ Fresh(EtherEncap(b))
  <2>1. inputCounter + 1 \in Nat
    BY DEF TypeOK
  <2>2. Policy[b] \in Verdict
    BY PolicyAssumption
  <2> QED
    BY <2>1, <2>2 DEF EtherEncap, Packet, Fresh
<1>2. sent' \in [Block -> Nat] /\ \A c \in Block : sent'[c] <= numPackets[c]
  <2>1. sent \in [Block -> Nat] /\ \A c \in Block : sent[c] <= numPackets[c]
    BY DEF TypeOK
  <2>2. sent[b] < numPackets[b] /\ sent' = [sent EXCEPT ![b] = @ + 1]
    OBVIOUS
  <2>3. sent[b] \in Nat /\ numPackets[b] \in Nat
    BY <2>1, NumPacketsAssumption
  <2>4. sent' \in [Block -> Nat]
    BY <2>1, <2>2, <2>3
  <2>5. ASSUME NEW c \in Block PROVE sent'[c] <= numPackets[c]
    <3>1. CASE c = b
      BY <3>1, <2>1, <2>2, <2>3
    <3>2. CASE c # b
      BY <3>2, <2>1, <2>2
    <3> QED
      BY <3>1, <3>2
  <2> QED
    BY <2>4, <2>5
<1>3. packet' # NoPacket
  BY <1>1, NoPacketAssumption
<1>4. TypeOK'
  BY <1>1, <1>2, <1>3 DEF TypeOK, Carried, Place, Pointer, Fresh
<1>5. Vectors'
  BY <1>1 DEF Vectors
<1> QED
  BY <1>4, <1>5

LEMMA Stopping == ASSUME IInv, NEW b \in Block, Stop(b) PROVE IInv'
<1> USE DEF IInv, Stop, counts, element
<1>1. TypeOK'
  BY DEF TypeOK, Carried, Pointer
<1>2. Vectors'
  BY DEF Vectors, Holds, Fresh
<1> QED
  BY <1>1, <1>2

LEMMA Copying == ASSUME IInv, Copy PROVE IInv'
<1> USE DEF IInv, Copy, counts, Handled
<1>1. packet # NoPacket
  BY DEF TypeOK, Carried
<1>2. TypeOK'
  BY <1>1 DEF TypeOK, Carried, Place, Pointer
<1>3. Vectors'
  BY <1>1 DEF Vectors
<1> QED
  BY <1>2, <1>3

LEMMA Entering == ASSUME IInv, Input PROVE IInv'
<1> USE DEF IInv, Input, Handled
<1> DEFINE t == [text |-> "PACKET", number |-> inputCounter']
<1>1. packet # NoPacket /\ Fresh(packet) /\ slot # NoPacket /\ Fresh(slot)
  BY DEF TypeOK, Carried, Vectors
<1>2. inputCounter' \in Nat /\ t \in Info
  BY DEF TypeOK, Info
<1>3. Paint(packet, t)
  OBVIOUS
<1>4. /\ heap' \in Seq(Vector) /\ Len(heap') >= Len(heap)
      /\ packet' \in Packet /\ packet' = [packet EXCEPT !.info = packet'.info]
      /\ packet'.info \in 1 .. Len(heap') /\ heap'[packet'.info].live
  <2> HIDE DEF t
  <2> QED
    BY <1>1, <1>2, <1>3, Painted DEF Fresh
<1>5. packet'.stack = Null
  BY <1>1, <1>4 DEF Fresh, TypeOK, Packet
<1>6. TypeOK'
  <2>1. packet' # NoPacket
    BY <1>4, NoPacketAssumption
  <2>2. packet'.info \in Pointer' /\ packet'.stack \in Pointer'
    BY <1>4, <1>5 DEF Pointer
  <2>3. slot' \in Packet /\ slot'.info \in Pointer' /\ slot'.stack \in Pointer'
    BY <1>1, <1>4 DEF TypeOK, Pointer
  <2> QED
    BY <1>2, <1>4, <2>1, <2>2, <2>3 DEF TypeOK, Carried, Place
<1>7. Vectors'
  BY <1>1, <1>4, <1>5 DEF Vectors, Holds, Fresh
<1> QED
  BY <1>6, <1>7

(* What the walk of the tables does to a packet with texts of its own: it  *)
(* still has them, and its copy has no annotation.                         *)
LEMMA InGraph ==
  ASSUME IInv, place \in {"graph", "feedback"}
  PROVE  /\ packet \in Packet /\ slot \in Packet
         /\ packet # NoPacket /\ slot # NoPacket
         /\ Holds(packet) /\ Fresh(slot)
         /\ packet.stack \in 0 .. Len(heap) /\ heap \in Seq(Vector)
BY DEF IInv, TypeOK, Vectors, Carried, Pointer

LEMMA Texting == ASSUME IInv, NEW t \in Text, InfoPainter(t) PROVE IInv'
<1> USE DEF IInv, InfoPainter, counts, Handled
<1> DEFINE i == [text |-> t, number |-> 0]
<1>1. /\ packet \in Packet /\ packet # NoPacket /\ Holds(packet)
      /\ slot \in Packet /\ slot # NoPacket /\ Fresh(slot)
  BY InGraph
<1>2. i \in Info /\ Paint(packet, i)
  BY DEF Info
<1>3. /\ heap' \in Seq(Vector) /\ Len(heap') >= Len(heap)
      /\ packet' \in Packet /\ packet' = [packet EXCEPT !.info = packet'.info]
      /\ packet'.info \in 1 .. Len(heap') /\ heap'[packet'.info].live
      /\ packet'.info = packet.info
      /\ \A k \in 1 .. Len(heap) : heap'[k].live = heap[k].live
  <2> HIDE DEF i
  <2>1. packet.info # Null /\ heap[packet.info].live
    BY <1>1 DEF Holds
  <2> QED
    BY <1>1, <1>2, <2>1, Painted
<1>4. packet'.stack = packet.stack /\ packet.stack \in 0 .. Len(heap)
  BY <1>1, <1>3, InGraph DEF Packet
<1>5. TypeOK'
  <2>1. packet' # NoPacket
    BY <1>3, NoPacketAssumption
  <2>2. packet'.info \in Pointer' /\ packet'.stack \in Pointer'
    BY <1>3, <1>4 DEF Pointer, TypeOK
  <2>3. slot' \in Packet /\ slot'.info \in Pointer' /\ slot'.stack \in Pointer'
    BY <1>1, <1>3 DEF TypeOK, Pointer
  <2> QED
    BY <1>1, <1>3, <2>1, <2>2, <2>3 DEF TypeOK, Carried
<1>6. Vectors'
  BY <1>1, <1>3, <1>4 DEF Vectors, Holds, Fresh, TypeOK
<1> QED
  BY <1>5, <1>6

LEMMA Translating == ASSUME IInv, StaticNat PROVE IInv'
<1> USE DEF IInv, StaticNat, counts, Handled
<1>1. /\ packet \in Packet /\ packet # NoPacket /\ Holds(packet)
      /\ slot \in Packet /\ slot # NoPacket /\ Fresh(slot)
  BY InGraph
<1>2. /\ packet' \in Packet
      /\ packet'.info = packet.info /\ packet'.stack = packet.stack
  BY <1>1 DEF Packet
<1>3. TypeOK'
  <2>1. packet' # NoPacket
    BY <1>2, NoPacketAssumption
  <2> QED
    BY <1>1, <1>2, <2>1 DEF TypeOK, Carried, Pointer
<1>4. Vectors'
  BY <1>1, <1>2 DEF Vectors, Holds, Fresh
<1> QED
  BY <1>3, <1>4

LEMMA Backtracking == ASSUME IInv, BacktrackPainter PROVE IInv'
<1> USE DEF IInv, BacktrackPainter, counts, Handled
<1>1. /\ packet \in Packet /\ packet # NoPacket /\ Holds(packet)
      /\ slot \in Packet /\ slot # NoPacket /\ Fresh(slot)
      /\ heap \in Seq(Vector)
  BY InGraph
<1>2. /\ heap' \in Seq(Vector) /\ Len(heap') = Len(heap) + 1
      /\ heap'[Len(heap) + 1].live
      /\ \A i \in 1 .. Len(heap) : heap'[i] = heap[i]
  <2>1. <<>> \in Seq(Info)
    OBVIOUS
  <2> QED
    BY <1>1, <2>1, Allocated
<1>3. packet' \in Packet /\ packet'.info = packet.info /\ packet'.stack = Len(heap) + 1
  <2>1. Len(heap) + 1 \in Nat
    BY <1>1
  <2> QED
    BY <1>1, <2>1 DEF Packet
<1>4. TypeOK'
  <2>1. packet' # NoPacket
    BY <1>3, NoPacketAssumption
  <2>2. packet'.info \in Pointer' /\ packet'.stack \in Pointer'
    BY <1>1, <1>2, <1>3 DEF Pointer, Holds
  <2>3. slot' \in Packet /\ slot'.info \in Pointer' /\ slot'.stack \in Pointer'
    BY <1>1, <1>2 DEF Fresh, Pointer
  <2> QED
    BY <1>1, <1>2, <1>3, <2>1, <2>2, <2>3 DEF TypeOK, Carried
<1>5. Vectors'
  BY <1>1, <1>2, <1>3 DEF Vectors, Holds, Fresh
<1> QED
  BY <1>4, <1>5

LEMMA Losing == ASSUME IInv, Lose PROVE IInv'
<1> USE DEF IInv, Lose, counts, Handled, Kill
<1>1. slot \in Packet /\ slot # NoPacket
  BY InGraph
<1>2. TypeOK'
  BY <1>1 DEF TypeOK, Carried, Place, Pointer
<1>3. Vectors'
  BY DEF Vectors
<1> QED
  BY <1>2, <1>3

LEMMA Judging == ASSUME IInv, NEW v \in Verdict, Judge(v) PROVE IInv'
<1> USE DEF IInv, Judge, Handled
<1>1. switch' \in -1 .. 2
  BY DEF Output, Number, Verdict
<1>2. counters' \in [Verdict -> [BOOLEAN -> Nat]]
  <2> DEFINE x == ~Faulty(packet, v)
  <2>1. counters \in [Verdict -> [BOOLEAN -> Nat]] /\ x \in BOOLEAN
    BY DEF TypeOK, Faulty
  <2>2. counters' = [counters EXCEPT ![v] = [counters[v] EXCEPT ![x] = counters[v][x] + 1]]
    OBVIOUS
  <2> HIDE DEF x
  <2>3. counters[v] \in [BOOLEAN -> Nat]
    BY <2>1
  <2>4. counters[v][x] + 1 \in Nat
    BY <2>1, <2>3
  <2>5. [counters[v] EXCEPT ![x] = counters[v][x] + 1] \in [BOOLEAN -> Nat]
    BY <2>3, <2>4, Zenon
  <2> QED
    BY <2>1, <2>2, <2>5, Zenon
<1>3. TypeOK'
  BY <1>1, <1>2 DEF TypeOK, Carried, Place, Pointer
<1>4. Vectors'
  BY DEF Vectors, Holds, Fresh
<1> QED
  BY <1>3, <1>4

LEMMA Returning == ASSUME IInv, Feedback PROVE IInv'
<1> USE DEF IInv, Feedback, counts, Handled
<1>1. /\ packet \in Packet /\ packet # NoPacket /\ Holds(packet)
      /\ slot \in Packet /\ slot # NoPacket /\ Fresh(slot)
      /\ packet.stack \in 0 .. Len(heap) /\ heap \in Seq(Vector)
  BY InGraph
<1>2. /\ heap' \in Seq(Vector) /\ Len(heap') = Len(heap)
      /\ heap'[packet.info].live
  <2>1. CASE packet.stack = Null
    BY <1>1, <2>1 DEF Holds
  <2>2. CASE packet.stack # Null
    <3>1. heap' = [heap EXCEPT ![packet.stack].live = FALSE] /\ packet.stack \in 1 .. Len(heap)
      BY <1>1, <2>2
    <3>2. /\ heap' \in Seq(Vector) /\ Len(heap') = Len(heap)
          /\ \A i \in 1 .. Len(heap) : i # packet.stack => heap'[i] = heap[i]
      BY <1>1, <3>1, Freed
    <3> QED
      BY <1>1, <2>2, <3>2 DEF Holds
  <2> QED
    BY <2>1, <2>2
<1>3. /\ packet' \in Packet /\ slot' = packet'
      /\ packet'.info = packet.info /\ packet'.stack = Null
  BY <1>1 DEF Annotated, Packet, Fresh
<1>4. TypeOK'
  <2>1. packet' # NoPacket
    BY <1>3, NoPacketAssumption
  <2>2. packet'.info \in Pointer' /\ packet'.stack \in Pointer'
    BY <1>1, <1>2, <1>3 DEF Pointer, Holds
  <2> QED
    BY <1>2, <1>3, <2>1, <2>2 DEF TypeOK, Carried, Place
<1>5. Vectors'
  BY <1>1, <1>2, <1>3 DEF Vectors, Holds
<1> QED
  BY <1>4, <1>5

(* Behind the CopyBuffer.                                                  *)
LEMMA Behind ==
  ASSUME IInv, place \in {"painter", "output"}
  PROVE  /\ packet \in Packet /\ packet # NoPacket /\ slot = packet
         /\ Holds(packet) /\ packet.stack = Null /\ heap \in Seq(Vector)
BY DEF IInv, TypeOK, Vectors, Carried

LEMMA Relaying == ASSUME IInv, LastPainter PROVE IInv'
<1>1. PICK i \in Info : Paint(packet, i)
  <2>1. [text |-> "", number |-> 0] \in Info
    BY DEF Info
  <2> QED
    BY <2>1 DEF LastPainter
<1>2. /\ place = "painter" /\ place' = "output" /\ slot' = slot /\ shared' = shared
      /\ UNCHANGED <<sent, stops>> /\ UNCHANGED counts
  BY DEF LastPainter, Handled
<1>3. /\ packet \in Packet /\ packet # NoPacket /\ slot = packet
      /\ Holds(packet) /\ packet.stack = Null /\ heap \in Seq(Vector)
  BY <1>2, Behind
<1>4. packet.info # Null /\ heap[packet.info].live
  BY <1>3 DEF Holds
<1>5. packet' = packet
  BY <1>1, <1>4 DEF Paint
<1>6. /\ heap' \in Seq(Vector) /\ Len(heap') >= Len(heap)
      /\ packet'.info \in 1 .. Len(heap') /\ heap'[packet'.info].live
  BY <1>1, <1>3, <1>4, Painted DEF IInv
<1>7. TypeOK'
  <2>1. packet'.info \in Pointer' /\ packet'.stack \in Pointer'
    BY <1>3, <1>5, <1>6 DEF Pointer
  <2> QED
    BY <1>2, <1>3, <1>5, <1>6, <2>1 DEF IInv, TypeOK, Carried, Place, counts
<1>8. Vectors'
  BY <1>2, <1>3, <1>5, <1>6 DEF Vectors, Holds
<1> QED
  BY <1>7, <1>8 DEF IInv

LEMMA Filing == ASSUME IInv, WriteFaulty \/ DiscardCorrect PROVE IInv'
<1> USE DEF IInv, WriteFaulty, DiscardCorrect, counts, Handled, Kill
<1>1. /\ packet \in Packet /\ packet # NoPacket /\ slot = packet
      /\ Holds(packet) /\ packet.stack = Null /\ heap \in Seq(Vector)
  BY Behind
<1>2. heap' \in Seq(Vector) /\ Len(heap') = Len(heap)
  <2>1. CASE WriteFaulty
    <3>1. packet.info \in 1 .. Len(heap) /\ heap' = [heap EXCEPT ![packet.info].live = FALSE]
      BY <1>1, <2>1 DEF Holds
    <3> QED
      BY <1>1, <3>1, Freed
  <2>2. CASE DiscardCorrect
    BY <1>1, <2>2
  <2> QED
    BY <2>1, <2>2
<1>3. TypeOK'
  <2>1. slot' \in Packet /\ slot'.info \in Pointer' /\ slot'.stack \in Pointer'
    BY <1>1, <1>2 DEF Pointer, Holds
  <2> QED
    BY <1>2, <2>1 DEF TypeOK, Carried, Place
<1>4. Vectors'
  BY DEF Vectors
<1> QED
  BY <1>3, <1>4

LEMMA Ending == ASSUME IInv, PrintCounters \/ getUserReport \/ UNCHANGED vars PROVE IInv'
<1> USE DEF IInv, PrintCounters, getUserReport, counts, element, vars
<1>1. TypeOK'
  BY DEF TypeOK, Carried, Pointer
<1>2. Vectors'
  BY DEF Vectors, Holds, Fresh
<1> QED
  BY <1>1, <1>2

LEMMA Inductive == Spec => []IInv
<1>1. ASSUME IInv, [Next]_vars PROVE IInv'
  <2>1. ASSUME NEW b \in Block, Send(b) \/ Stop(b) PROVE IInv'
    BY <1>1, <2>1, Sending, Stopping
  <2>2. CASE Graph
    BY <1>1, <2>2, Texting, Translating, Backtracking, Losing, Judging DEF Graph
  <2>3. CASE Push
    BY <1>1, <2>2, <2>3, Copying, Entering, Returning, Relaying, Filing DEF Push
  <2>4. CASE PrintCounters \/ getUserReport \/ Done \/ UNCHANGED vars
    BY <1>1, <2>4, Ending DEF Done
  <2> QED
    BY <1>1, <2>1, <2>3, <2>4 DEF Next
<1> QED
  BY Initial, <1>1, PTL DEF Spec

-----------------------------------------------------------------------------
(* Variables keep their types: the switch is only told outputs it has, and *)
(* annotations are vectors that were allocated.                            *)
THEOREM TypeCorrect == Spec => []TypeOK
<1>1. IInv => TypeOK
  BY DEF IInv
<1> QED
  BY <1>1, Inductive, PTL

(* No element of the script touches a vector that was freed, whatever the  *)
(* walk of the tables does with the packet.                                *)
THEOREM NeverDangling == Spec => []NoDangling
<1>1. ASSUME IInv PROVE NoDangling
  <2> SUFFICES ASSUME Carried PROVE NoDangling
    BY DEF NoDangling
  <2>1. place \in {"copy", "input", "graph", "feedback", "painter", "output"}
    BY <1>1 DEF IInv, TypeOK, Place
  <2>2. CASE place = "copy"
    BY <1>1, <2>2 DEF IInv, Vectors, Fresh, NoDangling
  <2>3. CASE place = "input"
    BY <1>1, <2>3 DEF IInv, Vectors, Fresh, NoDangling
  <2>4. CASE place \in {"graph", "feedback"}
    BY <1>1, <2>4 DEF IInv, Vectors, Fresh, Holds, NoDangling
  <2>5. CASE place \in {"painter", "output"}
    BY <1>1, <2>5 DEF IInv, Vectors, Holds, NoDangling
  <2> QED
    BY <2>1, <2>2, <2>3, <2>4, <2>5
<1> QED
  BY <1>1, Inductive, PTL

-----------------------------------------------------------------------------
(* The counters and their sums.                                            *)

LEMMA VerdictFinite == IsFiniteSet(Verdict)
<1>1. IsFiniteSet({"ACCEPT"} \cup {"REJECT"})
  BY FS_Singleton, FS_AddElement
<1>2. IsFiniteSet(({"ACCEPT"} \cup {"REJECT"}) \cup {"DROP"})
  BY <1>1, FS_AddElement
<1> QED
  BY <1>2 DEF Verdict

(* The counters of one verdict, one more of them, and their sum.           *)
LEMMA CounterTypes ==
  ASSUME NEW c \in [Verdict -> [BOOLEAN -> Nat]], NEW v \in Verdict
  PROVE  /\ \A x \in BOOLEAN : c[v][x] \in Nat
         /\ c[v][TRUE] \in Nat /\ c[v][FALSE] \in Nat
<1>1. c[v] \in [BOOLEAN -> Nat]
  OBVIOUS
<1>2. TRUE \in BOOLEAN /\ FALSE \in BOOLEAN
  OBVIOUS
<1> QED
  BY <1>1, <1>2, Zenon

CountedIn(c, v, x) == [c EXCEPT ![v] = [c[v] EXCEPT ![x] = c[v][x] + 1]]
OneCell(c, d, v, x) ==
  \A w \in Verdict, y \in BOOLEAN :
     d[w][y] = IF w = v /\ y = x THEN c[w][y] + 1 ELSE c[w][y]
OneTotal(c, d, v) ==
  \A w \in Verdict : d[w][TRUE] + d[w][FALSE]
     = IF w = v THEN c[w][TRUE] + c[w][FALSE] + 1 ELSE c[w][TRUE] + c[w][FALSE]
LEMMA CounterSteps ==
  ASSUME NEW c \in [Verdict -> [BOOLEAN -> Nat]], NEW v \in Verdict, NEW x \in BOOLEAN,
         NEW d, d = CountedIn(c, v, x)
  PROVE  OneCell(c, d, v, x) /\ OneTotal(c, d, v)
<1>1. \A w \in Verdict : c[w] \in [BOOLEAN -> Nat]
  OBVIOUS
<1>2. d[v] = [c[v] EXCEPT ![x] = c[v][x] + 1] /\ \A w \in Verdict : w # v => d[w] = c[w]
  BY DEF CountedIn
<1>3. d[v][x] = c[v][x] + 1 /\ \A y \in BOOLEAN : y # x => d[v][y] = c[v][y]
  BY <1>1, <1>2, Zenon
<1>4. \A w \in Verdict, y \in BOOLEAN :
          d[w][y] = IF w = v /\ y = x THEN c[w][y] + 1 ELSE c[w][y]
  BY <1>2, <1>3, Zenon
<1>5. ASSUME NEW w \in Verdict
      PROVE  d[w][TRUE] + d[w][FALSE]
                = IF w = v THEN c[w][TRUE] + c[w][FALSE] + 1 ELSE c[w][TRUE] + c[w][FALSE]
  <2> DEFINE ct == c[w][TRUE]
             cf == c[w][FALSE]
             dt == d[w][TRUE]
             df == d[w][FALSE]
  <2>1. ct \in Nat /\ cf \in Nat
    BY CounterTypes
  <2>2. CASE w # v
    BY <1>2, <2>2
  <2>3. CASE w = v
    <3>1. (dt = ct + 1 /\ df = cf) \/ (df = cf + 1 /\ dt = ct)
      <4>1. CASE x = TRUE
        <5>1. FALSE \in BOOLEAN /\ FALSE # x
          BY <4>1, Zenon
        <5> QED
          BY <1>3, <2>3, <4>1, <5>1, Zenon
      <4>2. CASE x = FALSE
        <5>1. TRUE \in BOOLEAN /\ TRUE # x
          BY <4>2, Zenon
        <5> QED
          BY <1>3, <2>3, <4>2, <5>1, Zenon
      <4> QED
        BY <4>1, <4>2, Zenon
    <3> HIDE DEF ct, cf, dt, df
    <3>2. dt + df = ct + cf + 1
      BY <2>1, <3>1
    <3>3. c[w][TRUE] + c[w][FALSE] + 1 = d[w][TRUE] + d[w][FALSE]
      BY <3>2, Zenon DEF ct, cf, dt, df
    <3> QED
      BY <2>3, <3>3, Zenon
  <2> QED
    BY <2>2, <2>3
<1> QED
  BY <1>4, <1>5 DEF OneCell, OneTotal

Totals(c) == [v \in Verdict |-> c[v][TRUE] + c[v][FALSE]]
LEMMA TotalTypes ==
  ASSUME NEW c \in [Verdict -> [BOOLEAN -> Nat]]
  PROVE  Totals(c) \in [Verdict -> Nat] /\ Subtracted(c) = SumOver(Totals(c), Verdict)
                                       /\ SumOver(Totals(c), Verdict) \in Nat
<1>1. ASSUME NEW v \in Verdict PROVE c[v][TRUE] + c[v][FALSE] \in Nat
  <2> DEFINE ct == c[v][TRUE]
             cf == c[v][FALSE]
  <2>1. ct \in Nat /\ cf \in Nat
    BY CounterTypes
  <2> HIDE DEF ct, cf
  <2>2. ct + cf \in Nat
    BY <2>1
  <2> QED
    BY <2>2 DEF ct, cf
<1>2. Totals(c) \in [Verdict -> Nat]
  BY <1>1 DEF Totals
<1>3. SumOver(Totals(c), Verdict) \in Nat
  BY <1>2, SumOverOne, VerdictFinite
<1>4. DOMAIN Totals(c) = Verdict
  BY DEF Totals
<1>5. Subtracted(c) = Sum(Totals(c))
  BY DEF Subtracted, Totals
<1> QED
  BY <1>2, <1>3, <1>4, <1>5 DEF Sum, SumOver

LEMMA OneMore ==
  ASSUME NEW c \in [Verdict -> [BOOLEAN -> Nat]], NEW v \in Verdict, NEW x \in BOOLEAN,
         NEW d \in [Verdict -> [BOOLEAN -> Nat]],
         d = CountedIn(c, v, x)
  PROVE  Subtracted(d) = Subtracted(c) + 1
<1>1. \A w \in Verdict : d[w][TRUE] + d[w][FALSE]
                = IF w = v THEN c[w][TRUE] + c[w][FALSE] + 1 ELSE c[w][TRUE] + c[w][FALSE]
  <2>1. OneTotal(c, d, v)
    BY CounterSteps
  <2> QED
    BY <2>1, Zenon DEF OneTotal
<1>2. \A w \in Verdict : Totals(d)[w] = IF w = v THEN Totals(c)[w] + 1 ELSE Totals(c)[w]
  <2>1. \A w \in Verdict : /\ Totals(d)[w] = d[w][TRUE] + d[w][FALSE]
                           /\ Totals(c)[w] = c[w][TRUE] + c[w][FALSE]
    BY Zenon DEF Totals
  <2> QED
    BY <1>1, <2>1
<1>3. Totals(d) \in [Verdict -> Nat] /\ Totals(c) \in [Verdict -> Nat]
  BY TotalTypes
<1>4. Totals(d) = OneMoreAt(Totals(c), v)
  BY <1>2, <1>3 DEF OneMoreAt
<1>5. SumOver(Totals(d), Verdict) = SumOver(Totals(c), Verdict) + 1
  BY <1>3, <1>4, SumOverGrows, VerdictFinite
<1> QED
  BY <1>5, TotalTypes

-----------------------------------------------------------------------------
(* What is counted and filed.                                              *)

Blank    == [text |-> "", number |-> 0]
LogEntry == [id : Nat, policy : Verdict, verdict : Verdict \cup {"LOST"}, info : Seq(Info)]
LogTyped == log \in Seq(LogEntry) /\ files \in [Verdict -> Seq(Entry)]

\* What CopyBuffer holds of the packet, and what the log says of one that was judged.
Judged == place \in {"feedback", "painter", "output"}
Newest == log[Len(log)]
Recorded ==
    /\ place \in {"copy", "input"} => packet.bytes = "sent"
    /\ place \in {"input", "graph"} \/ Judged =>
         slot.id = packet.id /\ slot.paint = packet.paint /\ slot.bytes = "sent"
    /\ Judged =>
         /\ log # <<>> /\ Newest.verdict \in Verdict
         /\ Newest.id = packet.id /\ Newest.policy = packet.paint
         /\ switch = Output(packet, Newest.verdict)
         /\ heap[packet.info].items =
              IF place = "output" THEN Append(Newest.info, Blank) ELSE Newest.info

\* A wrong packet in flight is still to be written; all others are in their files.
Pending(v) == Judged /\ switch = Number[v]
InFile(v)  == {i \in Wrong(v) : Pending(v) => i < Len(log)}
Holding(file, S) ==
    /\ Len(file) = Cardinality(S)
    /\ \A i \in S : file[Cardinality(S \cap 1 .. i)] = AsSent(log[i])
Filed == \A v \in Verdict : Holding(files[v], InFile(v))

\* The packet in flight is not yet counted by inputCounter, or not yet by another counter.
Counted ==
    /\ \A v \in Verdict, expected \in BOOLEAN : counters[v][expected] = Cardinality(Met(v, expected))
    /\ Len(log) = Subtracted(counters) + Cardinality(Lost)
    /\ inputCounter = Len(log) + (IF place = "graph" THEN 1 ELSE 0)
    /\ Sum(sent) = inputCounter + (IF place \in {"copy", "input"} THEN 1 ELSE 0)

\* The counters are printed behind the last packet, and nothing changes them any more.
Ended ==
    /\ \A b \in stops : sent[b] = numPackets[b]
    /\ printed # NoPacket =>
         /\ stops = Block /\ ~Carried
         /\ printed = [input |-> inputCounter, counters |-> counters]
    /\ report # NoPacket =>
         /\ printed # NoPacket
         /\ report = [generated |-> printed.input, counters |-> printed.counters,
                      lost |-> printed.input - Subtracted(printed.counters)]

FullInv == IInv /\ LogTyped /\ Recorded /\ Filed /\ Counted /\ Ended

-----------------------------------------------------------------------------
(* The log and the files.                                                  *)

LEMMA LogGrows ==
  ASSUME LogTyped, NEW e \in LogEntry, log' = Append(log, e)
  PROVE  /\ log' \in Seq(LogEntry) /\ Len(log') = Len(log) + 1 /\ log'[Len(log) + 1] = e
         /\ \A i \in DOMAIN log : log'[i] = log[i]
         /\ \A v \in Verdict, x \in BOOLEAN :
              Met(v, x)' = IF e.verdict = v /\ (e.policy = v) = x
                           THEN Met(v, x) \cup {Len(log) + 1} ELSE Met(v, x)
         /\ Lost' = IF e.verdict = "LOST" THEN Lost \cup {Len(log) + 1} ELSE Lost
<1>1. log \in Seq(LogEntry) /\ DOMAIN log = 1 .. Len(log) /\ Len(log) \in Nat
  BY DEF LogTyped
<1>2. /\ log' \in Seq(LogEntry) /\ Len(log') = Len(log) + 1 /\ log'[Len(log) + 1] = e
      /\ \A i \in DOMAIN log : log'[i] = log[i]
      /\ DOMAIN log' = DOMAIN log \cup {Len(log) + 1} /\ Len(log) + 1 \notin DOMAIN log
  BY <1>1
<1>3. ASSUME NEW v \in Verdict, NEW x \in BOOLEAN
      PROVE  Met(v, x)' = IF e.verdict = v /\ (e.policy = v) = x
                          THEN Met(v, x) \cup {Len(log) + 1} ELSE Met(v, x)
  BY <1>2 DEF Met
<1>4. Lost' = IF e.verdict = "LOST" THEN Lost \cup {Len(log) + 1} ELSE Lost
  BY <1>2 DEF Lost
<1> QED
  BY <1>2, <1>3, <1>4

LEMMA FinitelyMany ==
  ASSUME LogTyped
  PROVE  /\ Len(log) \in Nat /\ DOMAIN log = 1 .. Len(log)
         /\ \A S \in SUBSET DOMAIN log : IsFiniteSet(S) /\ Cardinality(S) \in Nat
         /\ Lost \subseteq DOMAIN log
         /\ \A v \in Verdict, x \in BOOLEAN : Met(v, x) \subseteq DOMAIN log
<1>1. Len(log) \in Nat /\ DOMAIN log = 1 .. Len(log)
  BY DEF LogTyped
<1>2. IsFiniteSet(1 .. Len(log))
  BY <1>1, FS_Interval
<1>3. \A S \in SUBSET DOMAIN log : IsFiniteSet(S) /\ Cardinality(S) \in Nat
  BY <1>1, <1>2, FS_Subset, FS_CardinalityType
<1> QED
  BY <1>1, <1>3 DEF Lost, Met

(* A packet more among those of a file is one more at its end.             *)
LEMMA FileGrows ==
  ASSUME NEW n \in Nat, NEW S \in SUBSET (1 .. n - 1), n > 0,
         NEW file \in Seq(Entry), NEW e \in Entry, Holding(file, S), e = AsSent(log[n])
  PROVE  Holding(Append(file, e), S \cup {n})
<1>1. IsFiniteSet(S) /\ n \notin S /\ \A T \in SUBSET S : IsFiniteSet(T)
  <2>1. IsFiniteSet(1 .. n - 1)
    <3>1. 1 \in Int /\ n - 1 \in Int
      OBVIOUS
    <3> QED
      BY <3>1, FS_Interval
  <2>2. IsFiniteSet(S)
    BY <2>1, FS_Subset
  <2>3. \A T \in SUBSET S : IsFiniteSet(T)
    BY <2>2, FS_Subset
  <2> QED
    BY <2>2, <2>3
<1>2. Cardinality(S) \in Nat /\ Cardinality(S \cup {n}) = Cardinality(S) + 1
  BY <1>1, FS_AddElement, FS_CardinalityType
<1>3. Len(file) = Cardinality(S) /\ \A i \in S : file[Cardinality(S \cap 1 .. i)] = AsSent(log[i])
  BY DEF Holding
<1>4. ASSUME NEW i \in S
      PROVE  Append(file, e)[Cardinality((S \cup {n}) \cap 1 .. i)] = AsSent(log[i])
  <2>1. (S \cup {n}) \cap 1 .. i = S \cap 1 .. i /\ i \in S \cap 1 .. i
    OBVIOUS
  <2>2. Cardinality(S \cap 1 .. i) \in 1 .. Cardinality(S)
    <3> DEFINE T == S \cap 1 .. i
    <3>1. T \in SUBSET S /\ T # {} /\ IsFiniteSet(T)
      BY <1>1, <2>1
    <3> HIDE DEF T
    <3>2. Cardinality(T) \in Nat /\ Cardinality(T) # 0 /\ Cardinality(T) <= Cardinality(S)
      BY <1>1, <3>1, FS_CardinalityType, FS_EmptySet, FS_Subset
    <3> QED
      BY <1>2, <3>2 DEF T
  <2> QED
    BY <1>3, <2>1, <2>2
<1>5. Append(file, e)[Cardinality((S \cup {n}) \cap 1 .. n)] = AsSent(log[n])
  <2>1. \A i \in S \cup {n} : i \in 1 .. n
    OBVIOUS
  <2>2. (S \cup {n}) \cap 1 .. n = S \cup {n}
    BY <2>1
  <2>3. Append(file, e)[Len(file) + 1] = e
    OBVIOUS
  <2> QED
    BY <1>2, <1>3, <2>2, <2>3
<1>6. Len(Append(file, e)) = Cardinality(S \cup {n})
  BY <1>2, <1>3
<1> QED
  BY <1>4, <1>5, <1>6 DEF Holding

(* Numbers of outputs tell verdicts apart.                                 *)
LEMMA NumberTells ==
  ASSUME NEW v \in Verdict, NEW w \in Verdict, NEW p, Output(p, w) = Number[v]
  PROVE  v = w /\ Faulty(p, w)
BY DEF Output, Number, Verdict

LEMMA NumberOutput == \A v \in Verdict : Number[v] # -1
BY DEF Number, Verdict

(* Where no file and nothing filed changes, the files stay right.          *)
LEMMA FilesKept ==
  ASSUME Filed, UNCHANGED files, \A v \in Verdict : InFile(v)' = InFile(v),
         \A v \in Verdict : \A i \in InFile(v) : log'[i] = log[i]
  PROVE  Filed'
<1> SUFFICES ASSUME NEW v \in Verdict PROVE Holding(files[v], InFile(v))'
  BY DEF Filed
<1>1. Holding(files[v], InFile(v))
  BY DEF Filed
<1>2. InFile(v)' = InFile(v) /\ files'[v] = files[v] /\ \A i \in InFile(v) : log'[i] = log[i]
  OBVIOUS
<1> QED
  BY <1>1, <1>2 DEF Holding, AsSent

-----------------------------------------------------------------------------
(* The steps.                                                              *)

LEMMA AllInitial == Init => FullInv
<1> SUFFICES ASSUME Init PROVE FullInv
  OBVIOUS
<1>1. LogTyped
  BY DEF Init, LogTyped
<1>2. Recorded
  BY DEF Init, Recorded, Judged
<1>3. Wrong("ACCEPT") = {} /\ Lost = {} /\ \A v \in Verdict, x \in BOOLEAN : Met(v, x) = {}
  BY DEF Init, Wrong, Met, Lost
<1>4. Filed
  <2> SUFFICES ASSUME NEW v \in Verdict PROVE Holding(files[v], InFile(v))
    BY DEF Filed
  <2>1. InFile(v) = {} /\ files[v] = <<>>
    BY <1>3 DEF Init, InFile, Wrong
  <2> QED
    BY <2>1, FS_EmptySet DEF Holding
<1>5. Subtracted(counters) = 0
  <2>1. counters \in [Verdict -> [BOOLEAN -> Nat]]
    BY DEF Init
  <2>2. \A v \in Verdict : Totals(counters)[v] = 0
    BY DEF Init, Totals
  <2> QED
    BY <2>1, <2>2, TotalTypes, SumOverNone, VerdictFinite
<1>6. Sum(sent) = 0
  <2>1. sent \in [Block -> Nat] /\ DOMAIN sent = Block /\ \A b \in Block : sent[b] = 0
    BY DEF Init
  <2>2. SumOver(sent, Block) = 0
    BY <2>1, SumOverNone, BlockAssumption
  <2> QED
    BY <2>1, <2>2 DEF Sum, SumOver
<1>7. Counted
  <2>1. Cardinality({}) = 0 /\ Len(log) = 0 /\ inputCounter = 0 /\ place = "idle"
    BY FS_EmptySet DEF Init
  <2>2. \A v \in Verdict, x \in BOOLEAN : counters[v][x] = Cardinality(Met(v, x))
    BY <1>3, <2>1 DEF Init
  <2> QED
    BY <1>3, <1>5, <1>6, <2>1, <2>2 DEF Counted
<1>8. Ended
  BY DEF Init, Ended
<1> QED
  BY <1>1, <1>2, <1>4, <1>7, <1>8, Initial DEF FullInv

(* Steps that count, log and file nothing.                                 *)
LEMMA QuietCounts ==
  ASSUME Counted, UNCHANGED <<log, counters, inputCounter, sent>>,
         (place' = "graph") = (place = "graph"),
         (place' \in {"copy", "input"}) = (place \in {"copy", "input"})
  PROVE  Counted'
<1>1. Cardinality(Lost)' = Cardinality(Lost) /\ Len(log)' = Len(log)
  BY DEF Lost
<1>2. Subtracted(counters)' = Subtracted(counters) /\ Sum(sent)' = Sum(sent)
  OBVIOUS
<1>3. \A v \in Verdict, x \in BOOLEAN : Cardinality(Met(v, x))' = Cardinality(Met(v, x))
  BY DEF Met
<1> QED
  BY <1>1, <1>2, <1>3 DEF Counted

(* While a packet is pushed, nothing was printed.                          *)
LEMMA PushEnds ==
  ASSUME IInv, Ended, packet # NoPacket, UNCHANGED <<sent, stops, printed, report>>
  PROVE  Ended'
BY DEF Ended, Carried

LEMMA QuietFiles ==
  ASSUME Filed, UNCHANGED <<log, files>>, \A v \in Verdict : Pending(v)' = Pending(v)
  PROVE  Filed'
<1>1. \A v \in Verdict : InFile(v)' = InFile(v)
  BY DEF InFile, Wrong, Met
<1> QED
  BY <1>1, FilesKept

(* Where the packet is not judged, its numbers leave the files alone.      *)
LEMMA Unjudged ==
  ASSUME Filed, UNCHANGED <<log, files>>, ~Judged, ~Judged'
  PROVE  Filed'
BY QuietFiles DEF Pending

LEMMA SendingAll == ASSUME FullInv, NEW b \in Block, Send(b) PROVE FullInv'
<1> USE DEF FullInv, Send, counts
<1>1. IInv'
  BY Sending
<1>2. place = "idle" /\ packet' = EtherEncap(b) /\ place' = "copy"
  BY DEF IInv, TypeOK, Carried
<1>3. Recorded'
  BY <1>2 DEF Recorded, Judged, EtherEncap
<1>4. Filed'
  BY <1>2, Unjudged DEF Judged
<1>5. Sum(sent') = Sum(sent) + 1 /\ Sum(sent) \in Nat
  <2>1. sent \in [Block -> Nat] /\ sent' = OneMoreAt(sent, b)
    BY DEF IInv, TypeOK, OneMoreAt
  <2>2. sent' \in [Block -> Nat] /\ SumOver(sent', Block) = SumOver(sent, Block) + 1
    <3> HIDE DEF Send
    <3> QED
      BY <2>1, SumOverGrows, BlockAssumption
  <2>3. SumOver(sent, Block) \in Nat
    BY <2>1, SumOverOne, BlockAssumption
  <2>4. DOMAIN sent = Block /\ DOMAIN sent' = Block
    BY <2>1, <2>2
  <2> QED
    BY <2>2, <2>3, <2>4 DEF Sum, SumOver
<1>6. Counted'
  <2>1. Cardinality(Lost)' = Cardinality(Lost) /\ Len(log)' = Len(log)
    BY DEF Lost
  <2>2. Subtracted(counters)' = Subtracted(counters)
    OBVIOUS
  <2>3. \A v \in Verdict, x \in BOOLEAN : Cardinality(Met(v, x))' = Cardinality(Met(v, x))
    BY DEF Met
  <2>4. inputCounter \in Nat
    BY DEF IInv, TypeOK
  <2> QED
    BY <1>2, <1>5, <2>1, <2>2, <2>3, <2>4 DEF Counted
<1>7. Ended'
  <2>1. sent[b] \in Nat /\ numPackets[b] \in Nat /\ sent[b] < numPackets[b]
    BY NumPacketsAssumption DEF IInv, TypeOK
  <2>2. b \notin stops
    BY <2>1 DEF Ended
  <2>3. printed = NoPacket /\ report = NoPacket
    BY <2>2 DEF Ended
  <2>4. \A c \in stops : sent'[c] = sent[c]
    BY <2>2 DEF IInv, TypeOK
  <2> QED
    BY <2>3, <2>4 DEF Ended
<1>8. LogTyped'
  BY DEF LogTyped
<1> QED
  BY <1>1, <1>3, <1>4, <1>6, <1>7, <1>8

LEMMA StoppingAll == ASSUME FullInv, NEW b \in Block, Stop(b) PROVE FullInv'
<1> USE DEF FullInv, Stop, counts, element
<1>1. IInv'
  BY Stopping
<1>2. place = "idle" /\ place' = "idle"
  BY DEF IInv, TypeOK, Carried
<1>3. Recorded'
  BY <1>2 DEF Recorded, Judged
<1>4. Filed'
  BY <1>2, Unjudged DEF Judged
<1>5. Counted'
  BY <1>2, QuietCounts
<1>6. Ended'
  BY DEF Ended, Carried
<1>7. LogTyped'
  BY DEF LogTyped
<1> QED
  BY <1>1, <1>3, <1>4, <1>5, <1>6, <1>7

LEMMA CopyingAll == ASSUME FullInv, Copy PROVE FullInv'
<1> USE DEF FullInv, Copy, counts, Handled
<1>1. IInv'
  BY Copying
<1>2. packet # NoPacket
  BY DEF IInv, TypeOK, Carried
<1>3. Recorded'
  BY DEF Recorded, Judged
<1>4. Filed'
  BY Unjudged DEF Judged
<1>5. Counted'
  BY QuietCounts
<1>6. Ended'
  BY <1>2, PushEnds
<1>7. LogTyped'
  BY DEF LogTyped
<1> QED
  BY <1>1, <1>3, <1>4, <1>5, <1>6, <1>7

(* An InfoPainter leaves everything but the pointer to the texts.          *)
LEMMA PaintKeeps ==
  ASSUME TypeOK, packet # NoPacket, NEW i, Paint(packet, i)
  PROVE  packet'.id = packet.id /\ packet'.paint = packet.paint /\ packet'.bytes = packet.bytes
<1>1. packet \in Packet
  BY DEF TypeOK
<1> QED
  BY <1>1 DEF Paint, Packet

LEMMA EnteringAll == ASSUME FullInv, Input PROVE FullInv'
<1> USE DEF FullInv, Input, Handled
<1>1. IInv'
  BY Entering
<1>2. packet # NoPacket
  BY DEF IInv, TypeOK, Carried
<1>3. packet'.id = packet.id /\ packet'.paint = packet.paint /\ packet'.bytes = packet.bytes
  BY <1>2, PaintKeeps DEF IInv
<1>4. Recorded'
  BY <1>3 DEF Recorded, Judged
<1>5. Filed'
  BY Unjudged DEF Judged
<1>6. Counted'
  <2>1. Cardinality(Lost)' = Cardinality(Lost) /\ Len(log)' = Len(log)
    BY DEF Lost
  <2>2. Subtracted(counters)' = Subtracted(counters) /\ Sum(sent)' = Sum(sent)
    OBVIOUS
  <2>3. \A v \in Verdict, x \in BOOLEAN : Cardinality(Met(v, x))' = Cardinality(Met(v, x))
    BY DEF Met
  <2>4. inputCounter \in Nat /\ place = "input" /\ place' = "graph" /\ inputCounter' = inputCounter + 1
    BY DEF IInv, TypeOK
  <2>5. Len(log) \in Nat
    BY DEF LogTyped
  <2> QED
    BY <2>1, <2>2, <2>3, <2>4, <2>5 DEF Counted
<1>7. Ended'
  BY <1>2, PushEnds
<1>8. LogTyped'
  BY DEF LogTyped
<1> QED
  BY <1>1, <1>4, <1>5, <1>6, <1>7, <1>8

(* In the tables.                                                          *)
LEMMA WalkingAll ==
  ASSUME FullInv, (\E t \in Text : InfoPainter(t)) \/ StaticNat \/ BacktrackPainter
  PROVE  FullInv'
<1> USE DEF FullInv, InfoPainter, StaticNat, BacktrackPainter, counts, Handled
<1>1. IInv'
  BY Texting, Translating, Backtracking
<1>2. packet \in Packet /\ packet # NoPacket /\ place = "graph" /\ place' = "graph" /\ slot' = slot
  BY InGraph
<1>3. packet'.id = packet.id /\ packet'.paint = packet.paint
  <2>1. CASE \E t \in Text : InfoPainter(t)
    BY <1>2, <2>1, PaintKeeps DEF IInv
  <2>2. CASE StaticNat \/ BacktrackPainter
    BY <1>2, <2>2 DEF Packet
  <2> QED
    BY <2>1, <2>2
<1>4. Recorded'
  BY <1>2, <1>3 DEF Recorded, Judged
<1>5. Filed'
  <2>1. UNCHANGED <<log, files>>
    OBVIOUS
  <2> QED
    BY <1>2, <2>1, Unjudged DEF Judged
<1>6. Counted'
  <2>1. UNCHANGED <<log, counters, inputCounter, sent>>
    OBVIOUS
  <2> QED
    BY <1>2, <2>1, QuietCounts
<1>7. Ended'
  <2>1. UNCHANGED <<sent, stops, printed, report>>
    OBVIOUS
  <2> QED
    BY <1>2, <2>1, PushEnds
<1>8. LogTyped'
  BY DEF LogTyped
<1> QED
  BY <1>1, <1>4, <1>5, <1>6, <1>7, <1>8

(* What the log says of a packet that is through.                          *)
LEMMA EntryOf ==
  ASSUME IInv, LogTyped, place = "graph", NEW v \in Verdict \cup {"LOST"}
  PROVE  [id |-> packet.id, policy |-> packet.paint, verdict |-> v,
          info |-> heap[packet.info].items] \in LogEntry
<1>1. packet \in Packet /\ Holds(packet) /\ heap \in Seq(Vector)
  BY InGraph
<1>2. heap[packet.info].items \in Seq(Info)
  <2>1. heap[packet.info] \in Vector
    BY <1>1 DEF Holds
  <2> QED
    BY <2>1 DEF Vector
<1> QED
  BY <1>1, <1>2 DEF LogEntry, Packet

(* While no packet is judged, all wrong ones are in the files; one that is *)
(* logged now is not.                                                      *)
LEMMA LoggedFiles ==
  ASSUME LogTyped, Filed, ~Judged, NEW e \in LogEntry, log' = Append(log, e), UNCHANGED files,
         \A v \in Verdict : e.verdict = v /\ e.policy # v => Pending(v)'
  PROVE  Filed'
<1>1. /\ Len(log) \in Nat /\ Len(log') = Len(log) + 1
      /\ \A i \in DOMAIN log : log'[i] = log[i]
      /\ \A v \in Verdict : Wrong(v)' = IF e.verdict = v /\ (e.policy = v) = FALSE
                               THEN Wrong(v) \cup {Len(log) + 1} ELSE Wrong(v)
  BY LogGrows, FinitelyMany DEF Wrong
<1>2. \A v \in Verdict : InFile(v) = Wrong(v) /\ \A i \in Wrong(v) : i \in 1 .. Len(log)
  BY FinitelyMany DEF InFile, Pending, Wrong
<1>3. ASSUME NEW v \in Verdict PROVE InFile(v)' = InFile(v)
  <2>1. \A i \in Wrong(v) : i < Len(log')
    BY <1>1, <1>2
  <2>2. CASE e.verdict = v /\ e.policy # v
    BY <1>1, <1>2, <2>1, <2>2 DEF InFile
  <2>3. CASE ~(e.verdict = v /\ e.policy # v)
    BY <1>1, <1>2, <2>1, <2>3 DEF InFile
  <2> QED
    BY <2>2, <2>3
<1>4. \A v \in Verdict : \A i \in InFile(v) : log'[i] = log[i]
  BY <1>1, <1>2, FinitelyMany
<1> QED
  BY <1>3, <1>4, FilesKept

LEMMA LosingAll == ASSUME FullInv, Lose PROVE FullInv'
<1> USE DEF FullInv, Lose, counts, Handled, Kill
<1> DEFINE e == [id |-> packet.id, policy |-> packet.paint, verdict |-> "LOST",
                 info |-> heap[packet.info].items]
<1>1. IInv'
  BY Losing
<1>2. e \in LogEntry /\ log' = Append(log, e) /\ e.verdict = "LOST"
  BY EntryOf
<1> HIDE DEF e
<1>3. packet # NoPacket
  BY InGraph
<1>4. Recorded'
  BY DEF Recorded, Judged
<1>5. Filed'
  <2>1. \A v \in Verdict : e.verdict # v
    BY <1>2 DEF Verdict
  <2> QED
    BY <1>2, <2>1, LoggedFiles DEF Judged
<1>6. Counted'
  <2>1. /\ Len(log') = Len(log) + 1 /\ Lost' = Lost \cup {Len(log) + 1}
        /\ \A v \in Verdict, x \in BOOLEAN : Met(v, x)' = Met(v, x)
    BY <1>2, LogGrows DEF Verdict
  <2>2. Len(log) \in Nat /\ Len(log) + 1 \notin Lost /\ IsFiniteSet(Lost) /\ Cardinality(Lost) \in Nat
    BY FinitelyMany
  <2>3. Cardinality(Lost') = Cardinality(Lost) + 1
    BY <2>1, <2>2, FS_AddElement
  <2>4. Subtracted(counters)' = Subtracted(counters) /\ Sum(sent)' = Sum(sent)
    OBVIOUS
  <2>5. \A v \in Verdict, x \in BOOLEAN : counters'[v][x] = Cardinality(Met(v, x)')
    BY <2>1 DEF Counted
  <2>6. Len(log') = Subtracted(counters)' + Cardinality(Lost')
    <3>1. Subtracted(counters) = Len(log) - Cardinality(Lost)
      <4>1. Subtracted(counters) \in Nat
        BY TotalTypes DEF IInv, TypeOK
      <4> QED
        BY <2>2, <4>1 DEF Counted
    <3> QED
      BY <2>1, <2>2, <2>3, <2>4, <3>1
  <2> QED
    BY <2>1, <2>2, <2>4, <2>5, <2>6 DEF Counted
<1>7. Ended'
  BY <1>3, PushEnds
<1>8. LogTyped'
  BY <1>2, LogGrows DEF LogTyped
<1> QED
  BY <1>1, <1>4, <1>5, <1>6, <1>7, <1>8

LEMMA JudgingAll == ASSUME FullInv, NEW v \in Verdict, Judge(v) PROVE FullInv'
<1> USE DEF FullInv, Judge, Handled
<1> DEFINE e == [id |-> packet.id, policy |-> packet.paint, verdict |-> v,
                 info |-> heap[packet.info].items]
<1>1. IInv'
  BY Judging
<1>2. /\ e \in LogEntry /\ log' = Append(log, e) /\ e.verdict = v
      /\ e.id = packet.id /\ e.policy = packet.paint /\ e.info = heap[packet.info].items
  BY EntryOf
<1> HIDE DEF e
<1>3. packet # NoPacket /\ packet \in Packet
  BY InGraph
<1>4. /\ Len(log) \in Nat /\ Len(log') = Len(log) + 1 /\ log'[Len(log)+1] = e /\ log' \in Seq(LogEntry)
      /\ \A w \in Verdict, x \in BOOLEAN :
           Met(w, x)' = IF e.verdict = w /\ (e.policy = w) = x
                        THEN Met(w, x) \cup {Len(log) + 1} ELSE Met(w, x)
      /\ Lost' = Lost
  <2>1. e.verdict # "LOST"
    BY <1>2 DEF Verdict
  <2> QED
    BY <1>2, <2>1, LogGrows, FinitelyMany
<1>5. Recorded'
  <2>1. log' # <<>> /\ Newest' = e
    BY <1>4 DEF Newest
  <2> QED
    BY <1>2, <2>1 DEF Recorded, Judged, Output
<1>6. Filed'
  <2>1. ASSUME NEW w \in Verdict, e.verdict = w, e.policy # w PROVE Pending(w)'
    BY <1>2, <2>1 DEF Pending, Judged, Output, Faulty
  <2> QED
    BY <1>2, <2>1, LoggedFiles DEF Judged
<1>7. Counted'
  <2> DEFINE x == ~Faulty(packet, v)
  <2>1. x \in BOOLEAN /\ x = (e.policy = v) /\ counters \in [Verdict -> [BOOLEAN -> Nat]]
    BY <1>2 DEF IInv, TypeOK, Faulty
  <2>2. counters' = CountedIn(counters, v, x)
    BY DEF CountedIn
  <2> HIDE DEF x
  <2>3. \A w \in Verdict, y \in BOOLEAN :
             counters'[w][y] = IF w = v /\ y = x THEN counters[w][y] + 1 ELSE counters[w][y]
    <3>1. OneCell(counters, counters', v, x)
      BY <2>1, <2>2, CounterSteps
    <3> QED
      BY <3>1, Zenon DEF OneCell
  <2>4. counters' \in [Verdict -> [BOOLEAN -> Nat]]
    BY <1>1 DEF IInv, TypeOK
  <2>5. Subtracted(counters') = Subtracted(counters) + 1
    BY <2>1, <2>2, <2>4, OneMore
  <2>6. ASSUME NEW w \in Verdict, NEW y \in BOOLEAN
        PROVE  counters'[w][y] = Cardinality(Met(w, y)')
    <3>1. IsFiniteSet(Met(w, y)) /\ Len(log) + 1 \notin Met(w, y) /\ Cardinality(Met(w, y)) \in Nat
      BY FinitelyMany
    <3>2. Cardinality(Met(w, y) \cup {Len(log) + 1}) = Cardinality(Met(w, y)) + 1
      BY <3>1, FS_AddElement
    <3>3. counters[w][y] = Cardinality(Met(w, y))
      BY DEF Counted
    <3>4. CASE w = v /\ y = x
      BY <1>2, <1>4, <2>1, <2>3, <3>2, <3>3, <3>4
    <3>5. CASE ~(w = v /\ y = x)
      BY <1>2, <1>4, <2>1, <2>3, <3>3, <3>5
    <3> QED
      BY <3>4, <3>5
  <2>7. Subtracted(counters) \in Nat /\ Cardinality(Lost) \in Nat /\ Lost' = Lost
    BY <1>4, <2>1, TotalTypes, FinitelyMany
  <2>8. Len(log') = Subtracted(counters') + Cardinality(Lost')
    BY <1>4, <2>5, <2>7 DEF Counted
  <2>9. inputCounter' = Len(log') /\ Sum(sent') = inputCounter'
    BY <1>4 DEF Counted
  <2> QED
    BY <1>4, <2>6, <2>8, <2>9 DEF Counted
<1>8. Ended'
  BY <1>3, PushEnds
<1>9. LogTyped'
  BY <1>4 DEF LogTyped
<1> QED
  BY <1>1, <1>5, <1>6, <1>7, <1>8, <1>9

LEMMA ReturningAll == ASSUME FullInv, Feedback PROVE FullInv'
<1> USE DEF FullInv, Feedback, counts, Handled
<1>1. IInv'
  BY Returning
<1>2. /\ packet \in Packet /\ packet # NoPacket /\ Holds(packet)
      /\ slot \in Packet /\ heap \in Seq(Vector) /\ packet.stack \in 0 .. Len(heap)
  BY InGraph
<1>3. /\ packet'.id = packet.id /\ packet'.paint = packet.paint /\ packet'.bytes = "sent"
      /\ packet'.info = packet.info /\ slot' = packet'
  BY <1>2 DEF Recorded, Judged, Annotated, Packet
<1>4. heap'[packet.info].items = heap[packet.info].items
  <2>1. CASE packet.stack = Null
    BY <2>1
  <2>2. CASE packet.stack # Null
    <3>1. heap' = [heap EXCEPT ![packet.stack].live = FALSE] /\ packet.stack \in 1 .. Len(heap)
      BY <1>2, <2>2
    <3>2. \A i \in 1 .. Len(heap) : i # packet.stack => heap'[i] = heap[i]
      BY <1>2, <3>1, Freed
    <3> QED
      BY <1>2, <2>2, <3>2 DEF Holds
  <2> QED
    BY <2>1, <2>2
<1>5. Recorded'
  <2>1. Newest' = Newest /\ log' = log /\ switch' = switch
    BY DEF Newest
  <2>2. Output(packet', Newest.verdict) = Output(packet, Newest.verdict)
    BY <1>3 DEF Output, Faulty
  <2> QED
    BY <1>3, <1>4, <2>1, <2>2 DEF Recorded, Judged
<1>6. Filed'
  BY QuietFiles DEF Pending, Judged
<1>7. Counted'
  BY QuietCounts
<1>8. Ended'
  BY <1>2, PushEnds
<1>9. LogTyped'
  BY DEF LogTyped
<1> QED
  BY <1>1, <1>5, <1>6, <1>7, <1>8, <1>9

LEMMA RelayingAll == ASSUME FullInv, LastPainter PROVE FullInv'
<1> USE DEF FullInv
<1>1. IInv'
  BY Relaying
<1>2. /\ place = "painter" /\ place' = "output" /\ UNCHANGED <<slot, shared, files, log>>
      /\ UNCHANGED counts /\ UNCHANGED <<sent, stops, printed, report>> /\ Paint(packet, Blank)
  BY DEF LastPainter, Handled, Blank
<1>3. /\ packet \in Packet /\ packet # NoPacket /\ slot = packet
      /\ Holds(packet) /\ heap \in Seq(Vector)
  BY <1>2, Behind
<1>4. packet' = packet /\ heap'[packet.info].items = Append(heap[packet.info].items, Blank)
  <2>1. heap' = [heap EXCEPT ![packet.info].items = Append(@, Blank)] /\ packet' = packet
    BY <1>2, <1>3 DEF Paint, Holds
  <2>2. packet.info \in DOMAIN heap /\ heap[packet.info] \in Vector
    BY <1>3 DEF Holds
  <2> QED
    BY <2>1, <2>2 DEF Vector
<1>5. Recorded'
  <2>1. Newest' = Newest /\ log' = log /\ switch' = switch
    BY <1>2 DEF Newest, counts
  <2> QED
    BY <1>2, <1>3, <1>4, <2>1 DEF Recorded, Judged
<1>6. Filed'
  BY <1>2, QuietFiles DEF Pending, Judged, counts
<1>7. Counted'
  BY <1>2, QuietCounts DEF counts
<1>8. Ended'
  BY <1>2, <1>3, PushEnds
<1>9. LogTyped'
  BY <1>2 DEF LogTyped
<1> QED
  BY <1>1, <1>5, <1>6, <1>7, <1>8, <1>9

(* InfoPrinter and ToDump add the packet to the file of its verdict.       *)
LEMMA WritingFiles ==
  ASSUME FullInv, WriteFaulty
  PROVE  Filed' /\ files' \in [Verdict -> Seq(Entry)]
<1> USE DEF FullInv, WriteFaulty, counts, Handled
<1> DEFINE w == Newest.verdict
           e == [id |-> packet.id, bytes |-> packet.bytes, info |-> heap[packet.info].items]
           n == Len(log)
<1>1. /\ packet \in Packet /\ slot = packet /\ Holds(packet) /\ heap \in Seq(Vector)
  BY Behind
<1>2. /\ w \in Verdict /\ switch = Output(packet, w) /\ log # <<>> /\ Judged
      /\ Newest.policy = packet.paint
  BY DEF Recorded, Judged
<1>3. n \in Nat /\ n > 0 /\ n \in DOMAIN log /\ DOMAIN log = 1 .. n
  BY <1>2 DEF LogTyped
<1>4. switch = Number[w] /\ packet.paint # w
  BY <1>2 DEF Output, Faulty
<1>5. e \in Entry /\ e = AsSent(log[n])
  <2>1. heap[packet.info] \in Vector
    BY <1>1 DEF Holds
  <2>2. packet.bytes = "sent" /\ Newest.id = packet.id
        /\ heap[packet.info].items = Append(Newest.info, Blank)
    BY <1>1 DEF Recorded, Judged
  <2> QED
    BY <1>1, <2>1, <2>2 DEF AsSent, Newest, Entry, Packet, Vector, Blank
<1>6. UNCHANGED log /\ files' = [v \in Verdict |-> IF Number[v] # switch THEN files[v]
                                                    ELSE Append(files[v], e)]
  OBVIOUS
<1>7. ~Judged'
  BY DEF Judged, Kill
<1> HIDE DEF e, w, n
<1>8. files' \in [Verdict -> Seq(Entry)]
  BY <1>5, <1>6 DEF LogTyped
<1>9. ASSUME NEW v \in Verdict PROVE Holding(files[v], InFile(v))'
  <2>1. Holding(files[v], InFile(v))
    BY DEF Filed
  <2>2. InFile(v)' = Wrong(v)
    BY <1>6, <1>7 DEF InFile, Wrong, Met, Pending
  <2>3. CASE v = w
    <3>1. InFile(v) = {i \in Wrong(v) : i < n}
      BY <1>2, <1>4, <2>3 DEF InFile, Pending, n
    <3>2. n \in Wrong(v) /\ Wrong(v) \subseteq 1 .. n
      BY <1>2, <1>3, <1>4, <2>3 DEF Wrong, Met, Newest, w, n
    <3>3. Wrong(v) = InFile(v) \cup {n} /\ InFile(v) \in SUBSET (1 .. n - 1)
      BY <1>3, <3>1, <3>2
    <3>4. files[v] \in Seq(Entry)
      BY DEF LogTyped
    <3>5. Holding(Append(files[v], e), Wrong(v))
      BY <1>3, <1>5, <2>1, <3>3, <3>4, FileGrows
    <3>6. files'[v] = Append(files[v], e)
      BY <1>4, <1>6, <2>3
    <3> QED
      BY <1>6, <2>2, <3>5, <3>6 DEF Holding, AsSent
  <2>4. CASE v # w
    <3>1. Number[v] # switch
      BY <1>2, <2>4, NumberTells
    <3>2. InFile(v) = Wrong(v) /\ files'[v] = files[v]
      BY <1>6, <3>1 DEF InFile, Pending
    <3> QED
      BY <1>6, <2>1, <2>2, <3>2 DEF Holding, AsSent
  <2> QED
    BY <2>3, <2>4
<1> QED
  BY <1>8, <1>9 DEF Filed

LEMMA FilingAll == ASSUME FullInv, WriteFaulty \/ DiscardCorrect PROVE FullInv'
<1> USE DEF FullInv
<1>1. IInv'
  BY Filing
<1>2. /\ place = "output" /\ place' = "idle"
      /\ UNCHANGED <<sent, stops, printed, report>> /\ UNCHANGED counts /\ UNCHANGED log
  BY DEF WriteFaulty, DiscardCorrect, Kill, Handled, counts
<1>3. packet # NoPacket
  BY <1>2, Behind
<1>4. Recorded'
  BY <1>2 DEF Recorded, Judged
<1>5. Filed' /\ LogTyped'
  <2>1. CASE WriteFaulty
    BY <1>2, <2>1, WritingFiles DEF LogTyped
  <2>2. CASE DiscardCorrect
    <3>1. UNCHANGED <<log, files>> /\ switch = -1
      BY <2>2 DEF DiscardCorrect
    <3>2. \A v \in Verdict : Pending(v)' = Pending(v)
      BY <1>2, <3>1, NumberOutput DEF Pending, Judged, counts
    <3> QED
      BY <3>1, <3>2, QuietFiles DEF LogTyped
  <2> QED
    BY <2>1, <2>2
<1>6. Counted'
  BY <1>2, QuietCounts DEF counts
<1>7. Ended'
  BY <1>2, <1>3, PushEnds
<1> QED
  BY <1>1, <1>4, <1>5, <1>6, <1>7

LEMMA StutteringAll == ASSUME FullInv, UNCHANGED vars PROVE FullInv'
<1> USE DEF FullInv, vars
<1>1. IInv'
  BY Ending
<1>2. LogTyped' /\ Recorded' /\ Ended'
  BY DEF LogTyped, Recorded, Judged, Newest, Ended, Carried
<1>3. Filed' /\ Counted'
  BY QuietFiles, QuietCounts DEF Pending, Judged
<1> QED
  BY <1>1, <1>2, <1>3

(* The last STOP: all blocks have sent all their packets.                  *)
LEMMA AllStopped ==
  ASSUME TypeOK, Cardinality(stops) >= Pauses
  PROVE  stops = Block
<1>1. IsFiniteSet(stops) /\ Cardinality(stops) <= Cardinality(Block)
      /\ (Cardinality(Block) = Cardinality(stops) => Block = stops)
  BY BlockAssumption, FS_Subset DEF TypeOK
<1>2. Cardinality(stops) \in Nat /\ Cardinality(Block) \in Nat
  BY <1>1, BlockAssumption, FS_CardinalityType
<1> QED
  BY <1>1, <1>2 DEF Pauses

LEMMA PrintingAll == ASSUME FullInv, PrintCounters PROVE FullInv'
<1> USE DEF FullInv, PrintCounters, element, counts
<1>1. IInv'
  BY Ending
<1>2. LogTyped' /\ Recorded'
  BY DEF LogTyped, Recorded, Judged, Newest
<1>3. Filed' /\ Counted'
  BY QuietFiles, QuietCounts DEF Pending, Judged
<1>4. Ended'
  BY AllStopped DEF IInv, Ended, Carried
<1> QED
  BY <1>1, <1>2, <1>3, <1>4

LEMMA ReportingAll == ASSUME FullInv, getUserReport PROVE FullInv'
<1> USE DEF FullInv, getUserReport, element, counts
<1>1. IInv'
  BY Ending
<1>2. ~Carried /\ place = "idle" /\ printed.counters = counters
  BY DEF Ended, IInv, TypeOK
<1>3. LogTyped' /\ Recorded'
  BY <1>2 DEF LogTyped, Recorded, Judged
<1>4. Filed'
  <2> SUFFICES ASSUME NEW v \in Verdict PROVE Holding(files[v], InFile(v))'
    BY DEF Filed
  <2>1. InFile(v)' = Wrong(v) /\ InFile(v) = Wrong(v)
    BY <1>2 DEF InFile, Wrong, Met, Pending, Judged
  <2>2. Holding(files[v], Wrong(v))
    BY <2>1 DEF Filed
  <2>3. CASE v \in Removed(printed.counters)
    <3>1. Cardinality(Wrong(v)) = 0
      BY <1>2, <2>3 DEF Removed, Counted, Wrong
    <3>2. Wrong(v) = {}
      BY <3>1, FinitelyMany, FS_EmptySet DEF Wrong
    <3>3. files'[v] = <<>>
      BY <2>3
    <3> QED
      BY <2>1, <3>2, <3>3, FS_EmptySet DEF Holding
  <2>4. CASE v \notin Removed(printed.counters)
    BY <2>1, <2>2, <2>4 DEF Holding, AsSent
  <2> QED
    BY <2>3, <2>4
<1>5. Counted'
  BY QuietCounts
<1>6. Ended'
  BY DEF Ended, Carried
<1> QED
  BY <1>1, <1>3, <1>4, <1>5, <1>6

LEMMA FullInductive == Spec => []FullInv
<1>1. ASSUME FullInv, [Next]_vars PROVE FullInv'
  <2>1. ASSUME NEW b \in Block, Send(b) \/ Stop(b) PROVE FullInv'
    BY <1>1, <2>1, SendingAll, StoppingAll
  <2>2. CASE Graph
    BY <1>1, <2>2, WalkingAll, LosingAll, JudgingAll DEF Graph
  <2>3. CASE Push
    BY <1>1, <2>2, <2>3, CopyingAll, EnteringAll, ReturningAll, RelayingAll, FilingAll DEF Push
  <2>4. CASE PrintCounters \/ getUserReport \/ Done \/ UNCHANGED vars
    BY <1>1, <2>4, PrintingAll, ReportingAll, StutteringAll DEF Done
  <2> QED
    BY <1>1, <2>1, <2>3, <2>4 DEF Next
<1> QED
  BY AllInitial, <1>1, PTL DEF Spec

-----------------------------------------------------------------------------
(* Between two packets the three files hold exactly the packets that met   *)
(* their verdict against the policy, in order and as they were sent,       *)
(* whatever the firewall made of them (CopyBuffer, InfoPrinter, ToDump);   *)
(* the report removes only files without one (Statistics.getUserReport).   *)
THEOREM FilesCorrect == Spec => []FilesExact
<1>1. ASSUME FullInv PROVE FilesExact
  <2> SUFFICES ASSUME ~Carried, NEW v \in Verdict PROVE Holding(files[v], Wrong(v))
    BY DEF FilesExact, Holding
  <2>1. place = "idle"
    BY <1>1 DEF FullInv, IInv, TypeOK
  <2>2. InFile(v) = Wrong(v)
    BY <2>1 DEF InFile, Pending, Judged
  <2> QED
    BY <1>1, <2>2 DEF FullInv, Filed
<1> QED
  BY <1>1, FullInductive, PTL

(* The report accounts for every packet of every block, and what it calls  *)
(* lost was: the counters are printed only when the last source stopped.   *)
THEOREM LostCorrect == Spec => []LostExact
<1>1. ASSUME FullInv PROVE LostExact
  <2> SUFFICES ASSUME report # NoPacket PROVE LostExact
    BY DEF LostExact
  <2>1. /\ stops = Block /\ ~Carried /\ printed = [input |-> inputCounter, counters |-> counters]
        /\ report = [generated |-> printed.input, counters |-> printed.counters,
                     lost |-> printed.input - Subtracted(printed.counters)]
    BY <1>1 DEF FullInv, Ended
  <2>2. place = "idle"
    BY <1>1, <2>1 DEF FullInv, IInv, TypeOK
  <2>3. report.generated = Sum(numPackets)
    <3>1. sent = numPackets
      BY <1>1, <2>1, NumPacketsAssumption DEF FullInv, Ended, IInv, TypeOK
    <3>2. inputCounter = Sum(sent)
      BY <1>1, <2>2 DEF FullInv, Counted, IInv, TypeOK
    <3> QED
      BY <2>1, <3>1, <3>2
  <2>4. \A v \in Verdict, x \in BOOLEAN : report.counters[v][x] = Cardinality(Met(v, x))
    BY <1>1, <2>1 DEF FullInv, Counted
  <2>5. report.lost = Cardinality(Lost)
    <3>1. Subtracted(counters) \in Nat /\ Cardinality(Lost) \in Nat
      BY <1>1, TotalTypes, FinitelyMany DEF FullInv, IInv, TypeOK
    <3> QED
      BY <1>1, <2>1, <2>2, <3>1 DEF FullInv, Counted, LogTyped
  <2> QED
    BY <2>3, <2>4, <2>5 DEF LostExact
<1> QED
  BY <1>1, FullInductive, PTL

=============================================================================
