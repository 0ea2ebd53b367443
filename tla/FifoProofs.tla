----------------------------- MODULE FifoProofs ------------------------------
(***************************************************************************)
(* Proofs about Fifo for every set of producers and every ring size: it is *)
(* a Disruptor, so that what DisruptorProofs proves of one holds of it.    *)
(***************************************************************************)
EXTENDS Fifo, TLAPS

D == INSTANCE DisruptorProofs WITH
  Consumers <- {Consumer}, Barrier <- RingBarrier, CommitPolicy <- "Shared", BatchSizes <- {1},
  cursor <- RingCursor, claim <- head - 1, ring <- RingSlots, pc <- RingPc, slot <- RingSlot,
  todo <- RingBarrier, seen <- RingSeen, it <- RingIt, end <- RingEnd, got <- RingGot

------------------------------------------------------------------------------
(* The threads, barriers and policy are such as Disruptor assumes.         *)
LEMMA RingAssumptions ==
  D!SizeAssumption /\ D!ThreadAssumption /\ D!BarrierAssumption /\ D!PolicyAssumption
<1>1. D!SizeAssumption
  BY SizeAssumption DEF D!SizeAssumption
<1>2. D!ThreadAssumption
  <2>1. <<Consumer>> \in Seq({Consumer}) /\ Len(<<Consumer>>) = 1 /\ <<Consumer>>[1] = Consumer
    OBVIOUS
  <2>2. D!IsFiniteSet({Consumer})
    <3>1. \A s \in {Consumer} : \E n \in 1 .. Len(<<Consumer>>) : <<Consumer>>[n] = s
      BY ONLY <2>1
    <3> QED
      BY <2>1, <3>1 DEF D!IsFiniteSet
  <2> QED
    BY ThreadAssumption, <2>2 DEF D!ThreadAssumption
<1>3. D!PolicyAssumption
  BY DEF D!PolicyAssumption
<1>4. D!BarrierAssumption
  <2>1. D!Threads = Threads /\ D!Cursors = {Consumer, Published}
    BY DEF D!Threads, D!Cursors, Threads
  <2>2. RingBarrier \in [D!Threads -> (SUBSET D!Cursors) \ {{}}]
    BY <2>1 DEF RingBarrier
  <2>3. RingBarrier[Consumer] = {Published}
    BY DEF RingBarrier, Threads
  <2>4. ASSUME NEW p \in Producers PROVE RingBarrier[p] = {Consumer}
    BY ThreadAssumption DEF RingBarrier, Threads
  <2>5. Published \in D!Behind(Consumer) /\ Consumer \notin D!Behind(Consumer)
    <3>1. Published \in D!Behind(Consumer)
      BY <2>1, <2>3 DEF D!Behind
    <3>2. {Published} \in SUBSET D!Cursors /\ {Published} \cap {Consumer} = {} /\ Consumer # Published
      BY <2>1, ThreadAssumption
    <3>3. Consumer \notin D!Behind(Consumer)
      BY <2>3, <3>2 DEF D!Behind
    <3> QED
      BY <3>1, <3>3
  <2>6. ASSUME NEW p \in Producers PROVE Consumer \in D!Behind(p)
    BY <2>1, <2>4 DEF D!Behind
  <2> QED
    BY <2>2, <2>4, <2>5, <2>6 DEF D!BarrierAssumption
<1> QED
  BY <1>1, <1>2, <1>3, <1>4

(* Division with remainder.                                                *)
LEMMA Remainder ==
  ASSUME NEW k \in Nat
  PROVE  Index(k) \in 0 .. Size - 1 /\ k \div Size \in Nat /\ k = Size * (k \div Size) + Index(k)
  BY SizeAssumption DEF Index

LEMMA LapsApart ==
  ASSUME NEW a \in Nat, NEW b \in Nat, a > b
  PROVE  Size * a - Size * b >= Size
<1>1. Size * (a - b) >= Size
  BY SizeAssumption
<1> QED
  BY <1>1, SizeAssumption

LEMMA RemainderUnique ==
  ASSUME NEW k \in Nat, NEW q \in Nat, NEW r \in 0 .. Size - 1, k = Size * q + r
  PROVE  Index(k) = r
<1> DEFINE d == k \div Size
<1>1. Index(k) \in 0 .. Size - 1 /\ d \in Nat /\ k = Size * d + Index(k)
  BY Remainder
<1> HIDE DEF d
<1>2. Size * q \in Nat /\ Size * d \in Nat /\ Size \in Nat \ {0}
  BY <1>1, SizeAssumption
<1>3. ~(q > d)
  BY <1>1, <1>2, LapsApart
<1>4. ~(d > q)
  BY <1>1, <1>2, LapsApart
<1>5. q = d
  BY <1>1, <1>3, <1>4
<1> QED
  BY <1>1, <1>2, <1>5

(* Turning the ring by one place: Disruptor's slot s is kept where the     *)
(* Fifo keeps s + 1.                                                       *)
LEMMA IndexShift ==
  ASSUME NEW s \in Nat \ {0}
  PROVE  /\ Index(s) \in 0 .. Size - 1 /\ Index(s - 1) \in 0 .. Size - 1
         /\ \A i \in 0 .. Size - 1 : Index(i + 1) \in 0 .. Size - 1
         /\ \A i \in 0 .. Size - 1 : Index(i + 1) = Index(s) <=> i = Index(s - 1)
<1>1. s \in Nat /\ s - 1 \in Nat /\ Size \in Nat \ {0}
  BY SizeAssumption
<1>2. \A i \in 0 .. Size - 1 : Index(i + 1) = IF i = Size - 1 THEN 0 ELSE i + 1
  BY SizeAssumption DEF Index
<1>3. Index(s) = IF Index(s - 1) = Size - 1 THEN 0 ELSE Index(s - 1) + 1
  <2> DEFINE d == (s - 1) \div Size
             r == Index(s - 1)
  <2>1. r \in 0 .. Size - 1 /\ d \in Nat /\ s - 1 = Size * d + r
    BY <1>1, Remainder
  <2> HIDE DEF d, r
  <2>2. CASE r = Size - 1
    <3>1. s = Size * (d + 1) + 0
      BY <1>1, <2>1, <2>2
    <3>2. d + 1 \in Nat /\ 0 \in 0 .. Size - 1
      BY <1>1, <2>1
    <3>3. Index(s) = 0
      BY ONLY <1>1, <3>1, <3>2, RemainderUnique
    <3> QED
      BY <2>2, <3>3 DEF r
  <2>3. CASE r # Size - 1
    <3>1. s = Size * d + (r + 1) /\ r + 1 \in 0 .. Size - 1
      BY <1>1, <2>1, <2>3
    <3>2. Index(s) = r + 1
      BY ONLY <1>1, <2>1, <3>1, RemainderUnique
    <3> QED
      BY <2>3, <3>2 DEF r
  <2> QED
    BY <2>2, <2>3
<1>4. Index(s) \in 0 .. Size - 1 /\ Index(s - 1) \in 0 .. Size - 1
  BY <1>1, Remainder
<1> QED
  BY ONLY <1>1, <1>2, <1>3, <1>4

------------------------------------------------------------------------------
(* The types the refinement needs, without the histories.                  *)
Shape ==
  /\ head \in Nat /\ tail \in Nat \ {0} /\ cursor \in Nat
  /\ ring \in [0 .. Size - 1 -> Msgs \cup {NoMsg}]
  /\ pc \in [Producers -> {"idle", "claiming", "writing", "committing", "advancing"}]
  /\ slot \in [Producers -> Nat \ {0}]
  /\ msg \in [Producers -> Msgs \cup {NoMsg}]
  /\ at \in {"claiming", "reading", "releasing"}
  /\ head # 0

LEMMA InitShape == Init => Shape
  BY SizeAssumption DEF Init, Shape

LEMMA NextShape == ASSUME Shape, [Next]_vars PROVE Shape'
<1> USE DEF Shape
<1>1. ASSUME NEW p \in Producers, NEW m \in Msgs, ClaimHead(p, m) PROVE Shape'
  BY <1>1 DEF ClaimHead
<1>2. ASSUME NEW p \in Producers, PutStep(p) PROVE Shape'
  <2>1. CASE PassHead(p)
    BY <2>1 DEF PassHead
  <2>2. CASE WriteSlot(p)
    <3>1. ring' \in [0 .. Size - 1 -> Msgs \cup {NoMsg}]
      BY <2>2 DEF WriteSlot
    <3> QED
      BY <2>2, <3>1 DEF WriteSlot
  <2>3. CASE AwaitTurn(p)
    BY <2>3 DEF AwaitTurn
  <2>4. CASE AdvanceCursor(p)
    BY <2>4 DEF AdvanceCursor
  <2> QED
    BY <1>2, <2>1, <2>2, <2>3, <2>4 DEF PutStep
<1>3. CASE GetStep
  BY <1>3 DEF GetStep, ClaimTail, ReadSlot, CommitTail
<1>4. CASE UNCHANGED vars
  BY <1>4 DEF vars
<1> QED
  BY <1>1, <1>2, <1>3, <1>4 DEF Next

------------------------------------------------------------------------------
(* The mapped state at a thread.                                           *)

LEMMA AtProducer ==
  ASSUME NEW p \in Producers
  PROVE  /\ p \in Threads /\ p # Consumer /\ RingPc[p] = pc[p] /\ RingSlot[p] = slot[p] - 1
         /\ RingBarrier[p] = {Consumer} /\ RingCursor[Consumer] = tail - 1
         /\ RingCursor[Published] = cursor
  BY ThreadAssumption DEF RingPc, RingSlot, RingBarrier, RingCursor, Threads

LEMMA AtConsumer ==
  /\ Consumer \in Threads
  /\ RingPc[Consumer] = IF at = "claiming" THEN "claiming" ELSE "reading"
  /\ RingBarrier[Consumer] = {Published}
  /\ RingCursor[Consumer] = tail - 1 /\ RingCursor[Published] = cursor
  /\ RingIt[Consumer] = IF at = "releasing" THEN tail ELSE tail - 1
  /\ RingEnd[Consumer] = IF at = "claiming" THEN tail - 1 ELSE tail
  /\ RingGot[Consumer] = got
  BY ThreadAssumption DEF RingPc, RingBarrier, RingCursor, RingIt, RingEnd, RingGot, Threads

(* What moves when a producer moves on.                                    *)
LEMMA PcMoves ==
  ASSUME Shape, NEW p \in Producers, NEW l, pc' = [pc EXCEPT ![p] = l], UNCHANGED at
  PROVE  RingPc' = [RingPc EXCEPT ![p] = l]
  BY ThreadAssumption DEF RingPc, Threads, Shape

(* The parts of the mapped state that depend on each counter.              *)
LEMMA Unmoved ==
  /\ UNCHANGED <<tail, cursor>> => UNCHANGED RingCursor
  /\ UNCHANGED ring => UNCHANGED RingSlots
  /\ UNCHANGED <<pc, at>> => UNCHANGED RingPc
  /\ UNCHANGED slot => UNCHANGED RingSlot
  /\ UNCHANGED <<tail, at>> => UNCHANGED <<RingIt, RingEnd>>
  /\ UNCHANGED got => UNCHANGED RingGot
  /\ UNCHANGED <<RingBarrier, RingSeen>>
  BY DEF RingCursor, RingSlots, RingPc, RingSlot, RingIt, RingEnd, RingGot, RingBarrier, RingSeen, Index

------------------------------------------------------------------------------
(* Every step of the Fifo is the step of Disruptor of the same place.      *)

LEMMA ClaimHeadIs ==
  ASSUME Shape, NEW p \in Producers, NEW m \in Msgs, ClaimHead(p, m)
  PROVE  Ring!ClaimSlot(p, m)
<1>1. /\ pc[p] = "idle" /\ head < Size + 1 + MaxPuts
      /\ slot' = [slot EXCEPT ![p] = head] /\ head' = head + 1
      /\ msg' = [msg EXCEPT ![p] = m] /\ pc' = [pc EXCEPT ![p] = "claiming"]
      /\ UNCHANGED <<tail, cursor, ring, at, log, got>>
  BY DEF ClaimHead
<1>2. RingPc' = [RingPc EXCEPT ![p] = "claiming"]
  BY <1>1, PcMoves
<1>3. RingSlot' = [RingSlot EXCEPT ![p] = head - 1]
  BY <1>1 DEF RingSlot, Shape
<1>4. head - 1 < Size + MaxPuts /\ head' - 1 = (head - 1) + 1
  BY <1>1, SizeAssumption DEF Shape
<1> QED
  BY <1>1, <1>2, <1>3, <1>4, AtProducer, Unmoved DEF Ring!ClaimSlot

LEMMA PassHeadIs ==
  ASSUME Shape, NEW p \in Producers, PassHead(p)
  PROVE  Ring!PassClaim(p, Consumer)
<1>1. /\ pc[p] = "claiming" /\ ~(tail <= slot[p] - Size)
      /\ pc' = [pc EXCEPT ![p] = "writing"]
      /\ UNCHANGED <<head, tail, cursor, ring, slot, msg, at, log, got>>
  BY DEF PassHead, LapsTail
<1>2. RingPc' = [RingPc EXCEPT ![p] = "writing"]
  BY <1>1, PcMoves
<1>3. Ring!Least(p, Consumer) = tail - 1 /\ Ring!WrapAt(p) = slot[p] - 1 - Size
  BY AtProducer DEF Ring!Least, Ring!WrapAt
<1>4. tail - 1 > slot[p] - 1 - Size
  BY <1>1, SizeAssumption DEF Shape
<1>5. Ring!LeastReturns(p, Consumer)
  <2>1. RingBarrier = [RingBarrier EXCEPT ![p] = RingBarrier[p]]
    BY DEF RingBarrier
  <2> QED
    BY <1>1, <2>1, AtProducer, Unmoved DEF Ring!LeastReturns, Ring!InLeast
<1> QED
  BY <1>1, <1>2, <1>3, <1>4, <1>5, Unmoved DEF Ring!PassClaim

LEMMA WriteSlotIs ==
  ASSUME Shape, NEW p \in Producers, WriteSlot(p)
  PROVE  Ring!WriteSlot(p)
<1>1. /\ pc[p] = "writing" /\ ring' = [ring EXCEPT ![Index(slot[p])] = msg[p]]
      /\ pc' = [pc EXCEPT ![p] = "committing"]
      /\ UNCHANGED <<head, tail, cursor, slot, msg, at, log, got>>
  BY DEF WriteSlot
<1>2. RingPc' = [RingPc EXCEPT ![p] = "committing"]
  BY <1>1, PcMoves
<1>3. RingSlots' = [RingSlots EXCEPT ![Index(slot[p] - 1)] = msg[p]]
  <2>1. slot[p] \in Nat \ {0} /\ ring \in [0 .. Size - 1 -> Msgs \cup {NoMsg}]
    BY DEF Shape
  <2>2. ASSUME NEW i \in 0 .. Size - 1
        PROVE  ring'[Index(i + 1)] = IF i = Index(slot[p] - 1) THEN msg[p] ELSE ring[Index(i + 1)]
    BY <1>1, <2>1, IndexShift
  <2>3. RingSlots' = [i \in 0 .. Size - 1 |-> ring'[Index(i + 1)]]
    BY DEF RingSlots, Index
  <2>4. RingSlots = [i \in 0 .. Size - 1 |-> ring[Index(i + 1)]]
    BY DEF RingSlots
  <2> QED
    BY ONLY <2>2, <2>3, <2>4
<1>4. Ring!Index(RingSlot[p]) = Index(slot[p] - 1)
  BY AtProducer DEF Ring!Index, Index
<1> QED
  BY <1>1, <1>2, <1>3, <1>4, AtProducer, Unmoved DEF Ring!WriteSlot

LEMMA AwaitTurnIs ==
  ASSUME Shape, NEW p \in Producers, AwaitTurn(p)
  PROVE  Ring!AwaitTurn(p)
<1>1. /\ pc[p] = "committing" /\ ~(cursor < slot[p] - 1)
      /\ pc' = [pc EXCEPT ![p] = "advancing"]
      /\ UNCHANGED <<head, tail, cursor, ring, slot, msg, at, log, got>>
  BY DEF AwaitTurn, EarlierPending
<1>2. RingPc' = [RingPc EXCEPT ![p] = "advancing"]
  BY <1>1, PcMoves
<1>3. ~Ring!ShouldSpin(p)
  BY <1>1, AtProducer DEF Ring!ShouldSpin
<1> QED
  BY <1>1, <1>2, <1>3, AtProducer, Unmoved DEF Ring!AwaitTurn

LEMMA AdvanceCursorIs ==
  ASSUME Shape, NEW p \in Producers, AdvanceCursor(p)
  PROVE  Ring!AdvanceCursor(p)
<1>1. /\ pc[p] = "advancing" /\ cursor' = cursor + 1 /\ log' = Append(log, msg[p])
      /\ pc' = [pc EXCEPT ![p] = "idle"]
      /\ UNCHANGED <<head, tail, ring, slot, msg, at, got>>
  BY DEF AdvanceCursor
<1>2. RingPc' = [RingPc EXCEPT ![p] = "idle"]
  BY <1>1, PcMoves
<1>3. RingCursor' = [RingCursor EXCEPT ![Published] = RingCursor[Published] + 1]
  <2>1. [RingCursor EXCEPT ![Published] = cursor + 1]
          = [c \in {Consumer, Published} |-> IF c = Consumer THEN tail - 1 ELSE cursor + 1]
    BY ThreadAssumption DEF RingCursor
  <2>2. RingCursor' = [c \in {Consumer, Published} |-> IF c = Consumer THEN tail - 1 ELSE cursor + 1]
    BY <1>1 DEF RingCursor
  <2> QED
    BY <2>1, <2>2, AtProducer
<1> QED
  BY <1>1, <1>2, <1>3, AtProducer, Unmoved DEF Ring!AdvanceCursor

LEMMA ClaimTailIs ==
  ASSUME Shape, ClaimTail
  PROVE  Ring!ClaimBatch(Consumer, Published)
<1>1. /\ at = "claiming" /\ at' = "reading" /\ ~(cursor < tail)
      /\ UNCHANGED <<head, tail, cursor, ring, pc, slot, msg, log, got>>
  BY DEF ClaimTail, Empty
<1>2. Ring!Least(Consumer, Published) = cursor
  BY AtConsumer DEF Ring!Least
<1>3. cursor > tail - 1 /\ cursor \in Nat /\ tail \in Nat
  BY <1>1 DEF Shape
<1>4. tail \in Ring!BatchEnds(Consumer, cursor)
  <2>1. Ring!Min2(cursor, tail - 1 + 1) = tail
    BY <1>1, <1>3 DEF Ring!Min2
  <2> QED
    BY <2>1, AtConsumer DEF Ring!BatchEnds
<1>5. /\ RingEnd' = [RingEnd EXCEPT ![Consumer] = tail]
      /\ RingIt' = [RingIt EXCEPT ![Consumer] = tail - 1]
  BY <1>1 DEF RingEnd, RingIt
<1>6. RingPc' = [RingPc EXCEPT ![Consumer] = "reading"]
  BY <1>1 DEF RingPc, Threads
<1>7. Ring!LeastReturns(Consumer, Published)
  <2>1. RingBarrier = [RingBarrier EXCEPT ![Consumer] = RingBarrier[Consumer]]
    BY DEF RingBarrier
  <2> QED
    BY <1>1, <2>1, AtConsumer, Unmoved DEF Ring!LeastReturns, Ring!InLeast
<1> QED
  BY <1>1, <1>2, <1>3, <1>4, <1>5, <1>6, <1>7, AtConsumer, Unmoved DEF Ring!ClaimBatch

LEMMA ReadSlotIs ==
  ASSUME Shape, ReadSlot
  PROVE  Ring!ReadSlot(Consumer)
<1>1. /\ at = "reading" /\ at' = "releasing" /\ got' = Append(got, ring[Index(tail)])
      /\ UNCHANGED <<head, tail, cursor, ring, pc, slot, msg, log>> /\ tail \in Nat \ {0}
  BY DEF ReadSlot, Shape
<1>2. RingSlots[Ring!Index(tail - 1)] = ring[Index(tail)]
  <2>1. Index(tail - 1) \in 0 .. Size - 1 /\ Index(Index(tail - 1) + 1) = Index(tail)
    BY <1>1, IndexShift
  <2>2. RingSlots[Index(tail - 1)] = ring[Index(Index(tail - 1) + 1)]
    BY ONLY <2>1 DEF RingSlots
  <2>3. Ring!Index(tail - 1) = Index(tail - 1)
    BY DEF Ring!Index, Index
  <2> QED
    BY <2>1, <2>2, <2>3
<1>3. RingGot' = [RingGot EXCEPT ![Consumer] = Append(got, ring[Index(tail)])]
  BY <1>1 DEF RingGot
<1>4. RingIt' = [RingIt EXCEPT ![Consumer] = tail - 1 + 1] /\ RingEnd' = RingEnd
  BY <1>1 DEF RingIt, RingEnd
<1>5. RingPc' = RingPc
  BY <1>1 DEF RingPc
<1>6. RingIt[Consumer] = tail - 1 /\ RingEnd[Consumer] = tail /\ tail - 1 # tail
      /\ RingPc[Consumer] = "reading" /\ RingGot[Consumer] = got
  BY <1>1, AtConsumer
<1> QED
  BY <1>1, <1>2, <1>3, <1>4, <1>5, <1>6, Unmoved DEF Ring!ReadSlot

LEMMA CommitTailIs ==
  ASSUME Shape, CommitTail
  PROVE  Ring!ReleaseBatch(Consumer)
<1>1. /\ at = "releasing" /\ at' = "claiming" /\ tail' = tail + 1 /\ tail \in Nat
      /\ UNCHANGED <<head, cursor, ring, pc, slot, msg, log, got>>
  BY DEF CommitTail, Shape
<1>2. RingCursor' = [RingCursor EXCEPT ![Consumer] = tail]
  <2>1. [RingCursor EXCEPT ![Consumer] = tail]
          = [c \in {Consumer, Published} |-> IF c = Consumer THEN tail ELSE cursor]
    BY ThreadAssumption DEF RingCursor
  <2>2. RingCursor' = [c \in {Consumer, Published} |-> IF c = Consumer THEN tail ELSE cursor]
    BY <1>1 DEF RingCursor
  <2> QED
    BY <2>1, <2>2
<1>3. RingIt' = RingIt /\ RingEnd' = RingEnd
  BY <1>1 DEF RingIt, RingEnd
<1>4. RingPc' = [RingPc EXCEPT ![Consumer] = "claiming"]
  BY <1>1 DEF RingPc, Threads
<1>5. RingIt[Consumer] = tail /\ RingEnd[Consumer] = tail /\ RingPc[Consumer] = "reading"
  BY <1>1, AtConsumer
<1> QED
  BY <1>1, <1>2, <1>3, <1>4, <1>5, Unmoved DEF Ring!ReleaseBatch

LEMMA InitIs == Init => Ring!Init
<1> SUFFICES ASSUME Init PROVE Ring!Init
  OBVIOUS
<1> USE ThreadAssumption, SizeAssumption
<1>1. RingCursor = [c \in Ring!Cursors |-> Size]
  BY DEF RingCursor, Ring!Cursors, Init
<1>2. RingSlots = [i \in 0 .. Size - 1 |-> NoMsg]
  <2>1. \A i \in 0 .. Size - 1 : Index(i + 1) \in 0 .. Size - 1
    BY DEF Index
  <2> QED
    BY <2>1 DEF RingSlots, Init
<1>3. RingPc = [t \in Ring!Threads |-> IF t \in Producers THEN "idle" ELSE "claiming"]
  BY DEF RingPc, Ring!Threads, Threads, Init
<1>4. RingSlot = [p \in Producers |-> Size]
  BY DEF RingSlot, Init
<1>5. RingSeen = [t \in Ring!Threads |-> Size]
  BY DEF RingSeen, Ring!Threads, Threads
<1>6. RingIt = [c \in {Consumer} |-> Size] /\ RingEnd = [c \in {Consumer} |-> Size]
      /\ RingGot = [c \in {Consumer} |-> <<>>]
  BY DEF RingIt, RingEnd, RingGot, Init
<1> QED
  BY <1>1, <1>2, <1>3, <1>4, <1>5, <1>6 DEF Ring!Init, Init

LEMMA NextIs ==
  ASSUME Shape, [Next]_vars
  PROVE  [Ring!Next]_Ring!vars
<1>1. ASSUME NEW p \in Producers, NEW m \in Msgs, ClaimHead(p, m) PROVE Ring!Next
  BY <1>1, ClaimHeadIs DEF Ring!Next
<1>2. ASSUME NEW p \in Producers, PutStep(p) PROVE Ring!Next
  <2>1. Ring!PutStep(p)
    BY <1>2, PassHeadIs, WriteSlotIs, AwaitTurnIs, AdvanceCursorIs DEF PutStep, Ring!PutStep
  <2> QED
    BY <2>1 DEF Ring!Next
<1>3. CASE GetStep
  <2>1. Published \in Ring!Cursors
    BY DEF Ring!Cursors
  <2>2. Ring!GetStep(Consumer)
    BY <1>3, <2>1, ClaimTailIs, ReadSlotIs, CommitTailIs DEF GetStep, Ring!GetStep
  <2> QED
    BY <2>2 DEF Ring!Next
<1>4. CASE UNCHANGED vars
  BY <1>4, Unmoved DEF vars, Ring!vars
<1> QED
  BY <1>1, <1>2, <1>3, <1>4 DEF Next

------------------------------------------------------------------------------
(* fifo.h, "the same techniques as the Disruptor": in every behaviour the  *)
(* Fifo does what a Disruptor with one consumer and the Shared policy may. *)
THEOREM ImplementsRing == Spec => RingPromise
<1>1. Spec => []Shape
  BY InitShape, NextShape, PTL DEF Spec
<1>2. Init => Ring!Init
  BY InitIs
<1>3. Shape /\ [Next]_vars => [Ring!Next]_Ring!vars
  BY NextIs
<1> QED
  BY <1>1, <1>2, <1>3, PTL DEF Spec, RingPromise, Ring!Spec

(* The instance of DisruptorProofs is of the same state as that of         *)
(* Disruptor: once expanded, their definitions are the same formulas.      *)
LEMMA SameRing == Spec => D!Spec
<1>1. Ring!Init => D!Init
  BY DEF Ring!Init, D!Init, Ring!Cursors, D!Cursors, Ring!Threads, D!Threads
<1>2. [Ring!Next]_Ring!vars => [D!Next]_D!vars
  BY DEF Ring!Cursors, D!Cursors, Ring!Index, D!Index, Ring!Min2, D!Min2, Ring!InLeast,
     D!InLeast, Ring!Least, D!Least, Ring!LeastReturns, D!LeastReturns, Ring!LoadCursor,
     D!LoadCursor, Ring!ClaimSlot, D!ClaimSlot, Ring!WrapAt, D!WrapAt, Ring!SpinOnClaim,
     D!SpinOnClaim, Ring!PassClaim, D!PassClaim, Ring!WriteSlot, D!WriteSlot, Ring!ShouldSpin,
     D!ShouldSpin, Ring!AwaitTurn, D!AwaitTurn, Ring!AdvanceCursor, D!AdvanceCursor,
     Ring!PutStep, D!PutStep, Ring!SpinOnGet, D!SpinOnGet, Ring!BatchEnds, D!BatchEnds,
     Ring!ClaimBatch, D!ClaimBatch, Ring!ReadSlot, D!ReadSlot, Ring!ReleaseBatch,
     D!ReleaseBatch, Ring!GetStep, D!GetStep, Ring!Next, D!Next, Ring!vars, D!vars
<1> QED
  BY <1>1, <1>2, ImplementsRing, PTL DEF RingPromise, Ring!Spec, D!Spec

(* fifo.h, claimHead and commitHead with any number of producers: a put    *)
(* never writes over a message still to get, nor over another put.         *)
THEOREM NeverOverwrites == Spec => []NoOverwrite
<1>1. D!NoOverwrite => NoOverwrite
  BY DEF D!NoOverwrite, NoOverwrite, Ring!NoOverwrite, D!MayWrite, Ring!MayWrite, D!Index, Ring!Index
<1>2. D!Spec => []D!NoOverwrite
  BY RingAssumptions, D!NeverOverwrites, PTL
<1> QED
  BY <1>1, <1>2, SameRing, PTL

(* fifo.h, get: what was put, in the order of the commits, each once.      *)
THEOREM GetsInOrder == Spec => []GetsWhatWasPut
<1>1. D!ReadsTheLog => GetsWhatWasPut
  BY DEF D!ReadsTheLog, GetsWhatWasPut, Ring!ReadsTheLog
<1>2. D!Spec => []D!ReadsTheLog
  BY RingAssumptions, D!ReadsInOrder, PTL
<1> QED
  BY <1>1, <1>2, SameRing, PTL

(* fifo.h, claimHead, commitHead and claimTail: the three loops that wait  *)
(* for each other never wait in a circle, for any number of producers.     *)
THEOREM NeverLocksUp == Spec => []NoStandoff
<1>1. Shape /\ D!TypeOK /\ D!NoStandoff => NoStandoff
  <2> SUFFICES ASSUME Shape, D!TypeOK, D!NoStandoff,
                      NEW q \in Producers, pc[q] # "idle", GetHeldUp
               PROVE  \E p \in Producers : pc[p] # "idle" /\ ~PutHeldUp(p)
    BY DEF NoStandoff
  <2>1. D!Holding(q)
    BY AtProducer DEF D!Holding
  <2>2. D!GetHeldUp(Consumer)
    <3>1. at = "claiming" /\ cursor < tail /\ cursor \in Nat /\ tail \in Nat
      BY DEF GetHeldUp, Empty, Shape
    <3>2. cursor <= tail - 1
      BY ONLY <3>1
    <3>3. /\ RingPc[Consumer] = "claiming" /\ Published \in RingBarrier[Consumer]
          /\ RingCursor[Published] <= RingCursor[Consumer]
      BY <3>1, <3>2, AtConsumer
    <3> QED
      BY ONLY <3>3 DEF D!GetHeldUp
  <2>3. PICK p \in Producers : D!Holding(p) /\ ~D!PutHeldUp(p)
    BY <2>1, <2>2 DEF D!NoStandoff
  <2>4. pc[p] # "idle" /\ ~PutHeldUp(p)
    <3>1. /\ RingPc[p] = pc[p] /\ RingSlot[p] = slot[p] - 1 /\ Consumer \in RingBarrier[p]
          /\ RingCursor[Consumer] = tail - 1 /\ RingCursor[Published] = cursor
      BY AtProducer
    <3>2. /\ tail \in Nat /\ cursor \in Nat /\ slot[p] \in Nat /\ Size \in Nat
      BY SizeAssumption DEF Shape
    <3>3. pc[p] # "idle" /\ ~(pc[p] = "claiming" /\ tail - 1 <= (slot[p] - 1) - Size)
          /\ ~(pc[p] = "committing" /\ cursor < slot[p] - 1)
      BY ONLY <2>3, <3>1 DEF D!Holding, D!PutHeldUp, D!WrapAt, D!ShouldSpin
    <3>4. tail <= slot[p] - Size => tail - 1 <= (slot[p] - 1) - Size
      BY ONLY <3>2
    <3> QED
      BY ONLY <3>3, <3>4 DEF PutHeldUp, LapsTail, EarlierPending
  <2> QED
    BY <2>4
<1>2. Spec => []Shape
  BY InitShape, NextShape, PTL DEF Spec
<1>3. D!Spec => []D!TypeOK /\ []D!NoStandoff
  BY RingAssumptions, D!TypeCorrect, D!NeverLocksUp, PTL
<1> QED
  BY <1>1, <1>2, <1>3, SameRing, PTL

(* Type correctness: in particular get never returns a slot that was never *)
(* written.                                                                *)
THEOREM TypeCorrect == Spec => []TypeOK
<1>1. Shape /\ D!TypeOK => TypeOK
  <2> SUFFICES ASSUME Shape, D!TypeOK PROVE TypeOK
    OBVIOUS
  <2>1. log \in Seq(Msgs) /\ RingGot \in [{Consumer} -> Seq(Msgs)]
    BY DEF D!TypeOK
  <2>2. got \in Seq(Msgs)
    BY <2>1, AtConsumer
  <2>3. ASSUME NEW p \in Producers, pc[p] # "idle" PROVE msg[p] \in Msgs
    BY <2>3, AtProducer DEF D!TypeOK
  <2> QED
    BY <2>1, <2>2, <2>3 DEF Shape, TypeOK
<1>2. Spec => []Shape
  BY InitShape, NextShape, PTL DEF Spec
<1>3. D!Spec => []D!TypeOK
  BY RingAssumptions, D!TypeCorrect, PTL
<1> QED
  BY <1>1, <1>2, <1>3, SameRing, PTL
==============================================================================
