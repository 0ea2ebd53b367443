--------------------------- MODULE DisruptorProofs ---------------------------
(***************************************************************************)
(* Proofs about Disruptor for every ring size, every set of threads and    *)
(* every barrier graph that meets BarrierAssumption.                       *)
(***************************************************************************)
EXTENDS Disruptor, FiniteSetTheorems, WellFoundedInduction, TLAPS

------------------------------------------------------------------------------
(* Index(i): two slots less than a lap apart are stored in different       *)
(* places.                                                                 *)

LEMMA DivMod ==
  ASSUME NEW i \in Nat
  PROVE  /\ i \div Size \in Nat
         /\ Index(i) \in 0 .. Size - 1
         /\ i = Size * (i \div Size) + Index(i)
  BY SizeAssumption DEF Index

LEMMA LapsApart ==
  ASSUME NEW a \in Nat, NEW b \in Nat, a > b
  PROVE  Size * a - Size * b >= Size
<1>1. Size * (a - b) >= Size
  BY SizeAssumption
<1> QED
  BY <1>1, SizeAssumption

LEMMA IndexInjective ==
  ASSUME NEW i \in Nat, NEW j \in Nat, i < j, j - i < Size
  PROVE  Index(i) # Index(j)
<1> DEFINE a == i \div Size
           b == j \div Size
<1>1. /\ i = Size * a + Index(i) /\ a \in Nat /\ Index(i) \in Nat
      /\ j = Size * b + Index(j) /\ b \in Nat /\ Index(j) \in Nat
  BY DivMod
<1> HIDE DEF a, b
<1>2. SUFFICES ASSUME Index(i) = Index(j) PROVE FALSE
  OBVIOUS
<1>3. j - i = Size * b - Size * a
  BY <1>1, <1>2, SizeAssumption
<1>4. b > a
  BY <1>1, <1>3, SizeAssumption
<1> QED
  BY <1>1, <1>3, <1>4, LapsApart, SizeAssumption

------------------------------------------------------------------------------
(* The cursors a thread follows.                                           *)

LEMMA BehindClosed ==
  ASSUME NEW t \in Threads
  PROVE  /\ Behind(t) \subseteq Cursors
         /\ Barrier[t] \subseteq Behind(t)
         /\ \A b \in Behind(t) \cap Consumers : Barrier[b] \subseteq Behind(t)
  BY BarrierAssumption DEF Behind, Cursors, Threads

(* Following is following directly or through a consumer of the barrier.   *)
LEMMA BehindSplit ==
  ASSUME NEW t \in Threads, NEW d \in Behind(t), d \notin Barrier[t]
  PROVE  \E b \in Barrier[t] \cap Consumers : d \in Behind(b)
<1> DEFINE S == Barrier[t] \cup UNION {Behind(b) : b \in Barrier[t] \cap Consumers}
<1>1. S \in SUBSET Cursors
  BY BarrierAssumption DEF Behind, Threads
<1>2. ASSUME NEW b \in S \cap Consumers PROVE Barrier[b] \subseteq S
  <2>1. CASE b \in Barrier[t]
    BY <2>1, BehindClosed DEF Threads
  <2>2. CASE b \notin Barrier[t]
    <3>1. PICK e \in Barrier[t] \cap Consumers : b \in Behind(e)
      BY <1>2, <2>2
    <3> QED
      BY <1>2, <3>1, BehindClosed DEF Threads
  <2> QED
    BY <2>1, <2>2
<1>3. d \in S
  BY <1>1, <1>2 DEF Behind
<1> QED
  BY <1>3
------------------------------------------------------------------------------
(* Consequences of the invariant that the steps below use.                 *)

(* No consumer, and no cursor of a barrier, is ahead of the ring's cursor. *)
LEMMA BehindPublished ==
  ASSUME TypeOK, CursorsOrdered
  PROVE  /\ \A c \in Consumers : cursor[c] <= cursor[Published]
         /\ \A t \in Threads : \A b \in Barrier[t] :
              b \in Cursors /\ cursor[b] <= cursor[Published]
  BY BarrierAssumption DEF TypeOK, CursorsOrdered, Cursors, Threads

(* What least() returns bounds every cursor it has loaded.                 *)
LEMMA LeastIsBound ==
  ASSUME TypeOK, LoadsAreBounds, NEW t \in Threads, NEW b \in todo[t]
  PROVE  /\ b \in Barrier[t] /\ b \in Cursors
         /\ Least(t, b) \in Nat
         /\ \A d \in (Barrier[t] \ todo[t]) \cup {b} : Least(t, b) <= cursor[d]
<1>1. b \in Barrier[t] /\ Barrier[t] \subseteq Cursors
  BY BarrierAssumption DEF LoadsAreBounds
<1>2. seen[t] \in Nat /\ \A d \in Cursors : cursor[d] \in Nat
  BY DEF TypeOK
<1>3. CASE todo[t] = Barrier[t]
  BY <1>1, <1>2, <1>3 DEF Least
<1>4. CASE todo[t] # Barrier[t]
  <2>1. Least(t, b) \in Nat /\ Least(t, b) <= seen[t] /\ Least(t, b) <= cursor[b]
    BY <1>1, <1>2, <1>4 DEF Least, Min2
  <2> QED
    BY <1>1, <1>2, <2>1 DEF LoadsAreBounds
<1> QED
  BY <1>1, <1>3, <1>4

(* A cursor bound that holds for a whole barrier holds for every consumer  *)
(* the thread follows.                                                     *)
LEMMA BoundReachesAll ==
  ASSUME TypeOK, CursorsOrdered, NEW t \in Threads, NEW n \in Nat,
         \A b \in Barrier[t] : n <= cursor[b],
         NEW d \in Behind(t)
  PROVE  n <= cursor[d]
<1>1. CASE d \in Barrier[t]
  BY <1>1
<1>2. CASE d \notin Barrier[t]
  <2>1. PICK b \in Barrier[t] \cap Consumers : d \in Behind(b)
    BY <1>2, BehindSplit
  <2>2. n <= cursor[b] /\ cursor[b] <= cursor[d]
    BY <2>1 DEF CursorsOrdered
  <2>3. d \in Cursors /\ b \in Cursors
    BY <2>1, BehindClosed DEF Cursors
  <2> QED
    BY <2>2, <2>3 DEF TypeOK
<1> QED
  BY <1>1, <1>2

------------------------------------------------------------------------------
(* The invariant holds initially.                                          *)
LEMMA InitIInv == Init => IInv
<1> SUFFICES ASSUME Init PROVE IInv
  OBVIOUS
<1> USE SizeAssumption, ThreadAssumption DEF Init
<1>1. TypeOK
  BY BarrierAssumption DEF TypeOK, Threads, Cursors
<1>2. CursorsOrdered
  BY BehindClosed DEF CursorsOrdered, Cursors, Threads
<1>3. LoadsAreBounds
  BY BarrierAssumption DEF LoadsAreBounds, Threads
<1>4. BatchesBounded
  BY DEF BatchesBounded, Threads, Cursors
<1>5. SlotsHeld /\ ClaimsClear /\ CommitIsMine
  BY DEF SlotsHeld, ClaimsClear, CommitIsMine, Holding, MayWrite, Threads, Cursors
<1>6. RingHolds
  BY DEF RingHolds, HasWritten, Threads, Cursors
<1>7. HistoriesAligned /\ ReadsTheLog
  BY DEF HistoriesAligned, ReadsTheLog, Cursors
<1> QED
  BY <1>1, <1>2, <1>3, <1>4, <1>5, <1>6, <1>7 DEF IInv

------------------------------------------------------------------------------
(* Steps inside least().                                                   *)

LEMMA LoadCursorKeeps ==
  ASSUME IInv, NEW t \in Threads, NEW b \in Cursors, LoadCursor(t, b)
  PROVE  IInv'
<1> USE DEF IInv, LoadCursor
<1>0. Least(t, b) \in Nat /\ \A d \in (Barrier[t] \ todo[t]) \cup {b} : Least(t, b) <= cursor[d]
  BY LeastIsBound
<1>1. TypeOK'
  BY <1>0 DEF TypeOK
<1>2. LoadsAreBounds'
  BY <1>0 DEF LoadsAreBounds, TypeOK
<1>3. CursorsOrdered' /\ BatchesBounded' /\ SlotsHeld' /\ ClaimsClear'
  BY DEF CursorsOrdered, BatchesBounded, SlotsHeld, ClaimsClear, Holding, MayWrite, WrapAt
<1>4. RingHolds' /\ HistoriesAligned' /\ CommitIsMine' /\ ReadsTheLog'
  BY DEF RingHolds, HasWritten, HistoriesAligned, CommitIsMine, ReadsTheLog
<1> QED
  BY <1>1, <1>2, <1>3, <1>4

(* Another turn of a spin loop changes nothing but the loads to make.      *)
LEMMA SpinKeeps ==
  ASSUME IInv, NEW t \in Threads, NEW b \in Cursors,
         LeastReturns(t, b), UNCHANGED <<cursor, pc, it, end>>
  PROVE  IInv'
<1> USE DEF IInv, LeastReturns
<1>1. TypeOK'
  BY BarrierAssumption DEF TypeOK
<1>2. LoadsAreBounds'
  BY BarrierAssumption DEF LoadsAreBounds, TypeOK
<1>3. CursorsOrdered' /\ BatchesBounded' /\ SlotsHeld' /\ ClaimsClear'
  BY DEF CursorsOrdered, BatchesBounded, SlotsHeld, ClaimsClear, Holding, MayWrite, WrapAt
<1>4. RingHolds' /\ HistoriesAligned' /\ CommitIsMine' /\ ReadsTheLog'
  BY DEF RingHolds, HasWritten, HistoriesAligned, CommitIsMine, ReadsTheLog
<1> QED
  BY <1>1, <1>2, <1>3, <1>4
------------------------------------------------------------------------------
(* Producer steps.                                                         *)

LEMMA ClaimSlotKeeps ==
  ASSUME IInv, NEW p \in Producers, NEW m \in Msgs, ClaimSlot(p, m)
  PROVE  IInv'
<1> USE DEF IInv, ClaimSlot
<1>0. p \in Threads /\ p \notin Consumers
  BY ThreadAssumption DEF Threads
<1>1. TypeOK'
  <2>1. claim' \in Nat /\ slot' \in [Producers -> Nat]
    BY DEF TypeOK
  <2>2. msg' \in [Producers -> Msgs \cup {NoMsg}] /\ msg'[p] = m
        /\ \A q \in Producers : q # p => msg'[q] = msg[q]
    BY DEF TypeOK
  <2>3. /\ pc' \in [Threads -> {"idle", "claiming", "writing", "committing", "advancing", "reading"}]
        /\ pc'[p] = "claiming" /\ \A t \in Threads : t # p => pc'[t] = pc[t]
    BY <1>0 DEF TypeOK
  <2>4. todo' \in [Threads -> SUBSET Cursors] /\ seen' \in [Threads -> Nat]
    BY <1>0, ThreadAssumption, SizeAssumption DEF TypeOK
  <2>5. UNCHANGED <<cursor, ring, it, end, log, got>> /\ TypeOK
    OBVIOUS
  <2> QED
    BY ONLY <1>0, <2>1, <2>2, <2>3, <2>4, <2>5 DEF TypeOK, Threads
<1>2. CursorsOrdered' /\ LoadsAreBounds'
  BY DEF CursorsOrdered, LoadsAreBounds
<1>3. BatchesBounded'
  BY <1>0, ThreadAssumption DEF BatchesBounded, TypeOK, Threads
<1>4. SlotsHeld'
  <2>1. cursor[Published] \in Nat /\ claim \in Nat
    BY DEF TypeOK, Cursors
  <2> QED
    BY <1>0, <2>1 DEF SlotsHeld, Holding, TypeOK, Threads
<1>5. ClaimsClear' /\ CommitIsMine'
  BY <1>0 DEF ClaimsClear, CommitIsMine, MayWrite, WrapAt, TypeOK, Threads
<1>6. RingHolds'
  BY <1>0 DEF RingHolds, HasWritten, TypeOK, Threads
<1>7. HistoriesAligned' /\ ReadsTheLog'
  BY DEF HistoriesAligned, ReadsTheLog
<1> QED
  BY <1>1, <1>2, <1>3, <1>4, <1>5, <1>6, <1>7

(* The barrier covers every consumer, so all have released the slot a lap  *)
(* behind once least() is past wrapAt.                                     *)
LEMMA PassClaimKeeps ==
  ASSUME IInv, NEW p \in Producers, NEW b \in Cursors, PassClaim(p, b)
  PROVE  IInv'
<1> USE DEF IInv, PassClaim, LeastReturns
<1>0. p \in Threads /\ p \notin Consumers
  BY ThreadAssumption DEF Threads
<1>1. TypeOK'
  BY <1>0, ThreadAssumption, BarrierAssumption DEF TypeOK, Threads, InLeast
<1>2. CursorsOrdered' /\ LoadsAreBounds'
  BY BarrierAssumption DEF CursorsOrdered, LoadsAreBounds, TypeOK
<1>3. BatchesBounded'
  BY <1>0 DEF BatchesBounded, TypeOK, Threads
<1>4. SlotsHeld'
  BY <1>0 DEF SlotsHeld, Holding, TypeOK, Threads, InLeast
<1>5. ClaimsClear'
  <2>1. Least(p, b) \in Nat /\ \A d \in Barrier[p] : Least(p, b) <= cursor[d]
    BY <1>0, LeastIsBound DEF LoadsAreBounds
  <2>2. \A c \in Consumers : Least(p, b) <= cursor[c]
    BY <1>0, <2>1, BoundReachesAll, BarrierAssumption
  <2>3. slot[p] \in Nat /\ Size \in Nat /\ \A c \in Consumers : cursor[c] \in Nat
    BY SizeAssumption DEF TypeOK, Cursors
  <2>4. \A c \in Consumers : cursor[c] > WrapAt(p)
    BY <2>1, <2>2, <2>3 DEF WrapAt
  <2> QED
    BY <1>0, <2>4 DEF ClaimsClear, MayWrite, WrapAt, TypeOK, Threads
<1>6. RingHolds' /\ CommitIsMine'
  BY <1>0 DEF RingHolds, HasWritten, CommitIsMine, TypeOK, Threads
<1>7. HistoriesAligned' /\ ReadsTheLog'
  BY DEF HistoriesAligned, ReadsTheLog
<1> QED
  BY <1>1, <1>2, <1>3, <1>4, <1>5, <1>6, <1>7

(* The slot being written shares its storage with no slot that some        *)
(* consumer has not released, nor with another that was written.           *)
LEMMA WritersApart ==
  ASSUME IInv, NEW p \in Producers, MayWrite(p)
  PROVE  /\ \A c \in Consumers : \A i \in cursor[c] .. cursor[Published] - 1 :
              Index(i) # Index(slot[p])
         /\ \A q \in Producers \ {p} : MayWrite(q) => Index(slot[q]) # Index(slot[p])
<1> USE DEF IInv
<1>0. /\ slot[p] \in Nat /\ cursor[Published] \in Nat /\ Size \in Nat
      /\ \A c \in Consumers : cursor[c] \in Nat
      /\ cursor[Published] <= slot[p]
  BY SizeAssumption DEF TypeOK, Cursors, SlotsHeld, MayWrite, Holding
<1>1. ASSUME NEW c \in Consumers, NEW i \in cursor[c] .. cursor[Published] - 1
      PROVE  Index(i) # Index(slot[p])
  <2>1. i \in Nat /\ i < slot[p] /\ slot[p] - i < Size
    BY <1>0, <1>1 DEF ClaimsClear, WrapAt
  <2> QED
    BY <1>0, <2>1, IndexInjective
<1>2. ASSUME NEW q \in Producers \ {p}, MayWrite(q)
      PROVE  Index(slot[q]) # Index(slot[p])
  <2>1. PICK c \in Consumers : TRUE
    BY ThreadAssumption
  <2>2. cursor[c] <= cursor[Published]
    BY BehindPublished
  <2>3. /\ slot[q] \in Nat /\ slot[q] # slot[p]
        /\ cursor[Published] <= slot[q]
    BY <1>2 DEF TypeOK, SlotsHeld, MayWrite, Holding
  <2>4. slot[p] < cursor[c] + Size /\ slot[q] < cursor[c] + Size
    BY <1>0, <1>2, <2>3 DEF ClaimsClear, WrapAt
  <2>5. CASE slot[q] < slot[p]
    BY <1>0, <2>2, <2>3, <2>4, <2>5, IndexInjective
  <2>6. CASE slot[p] < slot[q]
    BY <1>0, <2>2, <2>3, <2>4, <2>6, IndexInjective
  <2> QED
    BY <1>0, <2>3, <2>5, <2>6
<1> QED
  BY <1>1, <1>2

LEMMA WriteSlotKeeps ==
  ASSUME IInv, NEW p \in Producers, WriteSlot(p)
  PROVE  IInv'
<1> USE DEF IInv, WriteSlot
<1>0. p \in Threads /\ p \notin Consumers /\ MayWrite(p)
  BY ThreadAssumption DEF Threads, MayWrite
<1>1. TypeOK'
  BY <1>0, DivMod DEF TypeOK, Threads
<1>2. CursorsOrdered' /\ LoadsAreBounds'
  BY DEF CursorsOrdered, LoadsAreBounds
<1>3. BatchesBounded'
  BY <1>0 DEF BatchesBounded, TypeOK, Threads
<1>4. SlotsHeld' /\ ClaimsClear' /\ CommitIsMine'
  BY <1>0 DEF SlotsHeld, ClaimsClear, CommitIsMine, Holding, MayWrite, WrapAt, TypeOK, Threads
<1>5. RingHolds'
  <2>1. /\ ring'[Index(slot[p])] = msg[p]
        /\ \A i \in Nat : Index(i) # Index(slot[p]) => ring'[Index(i)] = ring[Index(i)]
    BY DivMod DEF TypeOK
  <2>2. ASSUME NEW q \in Producers, HasWritten(q)'
        PROVE  ring'[Index(slot[q])] = msg[q]
    <3>1. CASE q = p
      BY <2>1, <3>1
    <3>2. CASE q # p
      <4>1. HasWritten(q) /\ MayWrite(q) /\ slot[q] \in Nat
        BY <1>0, <2>2, <3>2 DEF HasWritten, MayWrite, TypeOK, Threads
      <4>2. Index(slot[q]) # Index(slot[p])
        BY <1>0, <3>2, <4>1, WritersApart
      <4> QED
        BY <2>1, <4>1, <4>2 DEF RingHolds
    <3> QED
      BY <3>1, <3>2
  <2>3. ASSUME NEW i \in Size .. cursor[Published] - 1,
               NEW c \in Consumers, cursor[c] <= i
        PROVE  ring'[Index(i)] = log[i - Size + 1]
    <3>1. i \in Nat /\ i \in cursor[c] .. cursor[Published] - 1
      BY <2>3, SizeAssumption DEF TypeOK, Cursors
    <3>2. Index(i) # Index(slot[p])
      BY <1>0, <3>1, WritersApart
    <3> QED
      BY <2>1, <2>3, <3>1, <3>2 DEF RingHolds
  <2> QED
    BY <2>2, <2>3 DEF RingHolds, HasWritten
<1>6. HistoriesAligned' /\ ReadsTheLog'
  BY DEF HistoriesAligned, ReadsTheLog
<1> QED
  BY <1>1, <1>2, <1>3, <1>4, <1>5, <1>6

(* Shared: the spin ends at or after the slot, and the slot is not behind  *)
(* the cursor.  Unique: the only producer holds the only uncommitted slot. *)
LEMMA AwaitTurnKeeps ==
  ASSUME IInv, NEW p \in Producers, AwaitTurn(p)
  PROVE  IInv'
<1> USE DEF IInv, AwaitTurn
<1>0. p \in Threads /\ p \notin Consumers /\ Holding(p)
  BY ThreadAssumption DEF Threads, Holding
<1>1. TypeOK'
  BY <1>0 DEF TypeOK, Threads
<1>2. CursorsOrdered' /\ LoadsAreBounds'
  BY DEF CursorsOrdered, LoadsAreBounds
<1>3. BatchesBounded'
  BY <1>0 DEF BatchesBounded, TypeOK, Threads
<1>4. SlotsHeld' /\ ClaimsClear'
  BY <1>0 DEF SlotsHeld, ClaimsClear, Holding, MayWrite, WrapAt, TypeOK, Threads
<1>5. RingHolds'
  BY <1>0 DEF RingHolds, HasWritten, TypeOK, Threads
<1>6. CommitIsMine'
  <2>1. /\ slot[p] \in Nat /\ cursor[Published] \in Nat /\ claim \in Nat
        /\ slot[p] \in cursor[Published] .. claim - 1
    BY <1>0 DEF TypeOK, Cursors, SlotsHeld
  <2>2. cursor[Published] = slot[p]
    <3>1. CASE CommitPolicy = "Shared"
      BY <2>1, <3>1 DEF ShouldSpin
    <3>2. CASE CommitPolicy = "Unique"
      <4>1. cursor[Published] \in cursor[Published] .. claim - 1
        BY <2>1
      <4>2. PICK q \in Producers : slot[q] = cursor[Published]
        BY <4>1 DEF SlotsHeld
      <4> QED
        BY <3>2, <4>2, PolicyAssumption
    <3> QED
      BY <3>1, <3>2, PolicyAssumption
  <2>3. \A q \in Producers \ {p} : pc[q] # "advancing"
    BY <1>0, <2>2 DEF CommitIsMine, SlotsHeld, Holding
  <2> QED
    BY <1>0, <2>2, <2>3 DEF CommitIsMine, TypeOK, Threads
<1>7. HistoriesAligned' /\ ReadsTheLog'
  BY DEF HistoriesAligned, ReadsTheLog
<1> QED
  BY <1>1, <1>2, <1>3, <1>4, <1>5, <1>6, <1>7

(* The cursor passes the slot of the one producer whose turn it is, and    *)
(* the message it wrote there is the one appended to the log.              *)
LEMMA AdvanceCursorKeeps ==
  ASSUME IInv, NEW p \in Producers, AdvanceCursor(p)
  PROVE  IInv'
<1> USE DEF IInv, AdvanceCursor
<1>0. /\ p \in Threads /\ p \notin Consumers /\ Holding(p) /\ HasWritten(p)
      /\ Published \in Cursors /\ Published \notin Consumers
  BY ThreadAssumption DEF Threads, Cursors, Holding, HasWritten
<1>1. /\ cursor[Published] \in Nat /\ slot[p] = cursor[Published]
      /\ cursor'[Published] = cursor[Published] + 1
      /\ \A c \in Consumers : cursor'[c] = cursor[c] /\ cursor[c] \in Nat
      /\ \A d \in Cursors : cursor[d] \in Nat /\ cursor'[d] >= cursor[d]
      /\ cursor[Published] >= Size /\ Size \in Nat \ {0}
      /\ msg[p] \in Msgs /\ log \in Seq(Msgs)
  BY <1>0, SizeAssumption DEF TypeOK, Cursors, CommitIsMine, SlotsHeld
<1>2. TypeOK'
  BY <1>0, <1>1 DEF TypeOK, Threads
<1>3. CursorsOrdered'
  <2> SUFFICES ASSUME NEW c \in Consumers, NEW d \in Behind(c)
               PROVE  cursor'[c] <= cursor'[d]
    BY DEF CursorsOrdered
  <2>1. cursor[c] <= cursor[d] /\ d \in Cursors
    BY BehindClosed DEF CursorsOrdered, Threads
  <2> QED
    BY <1>1, <2>1
<1>4. LoadsAreBounds'
  <2> SUFFICES ASSUME NEW t \in Threads
               PROVE  /\ todo[t] # {} /\ todo[t] \subseteq Barrier[t]
                      /\ \A b \in Barrier[t] \ todo[t] : seen[t] <= cursor'[b]
    BY DEF LoadsAreBounds
  <2>1. seen[t] \in Nat /\ Barrier[t] \subseteq Cursors
    BY BarrierAssumption DEF TypeOK
  <2> QED
    BY <1>1, <2>1 DEF LoadsAreBounds
<1>5. BatchesBounded'
  <2> SUFFICES ASSUME NEW c \in Consumers
               PROVE  /\ cursor[c] <= it[c]
                      /\ pc'[c] = "reading" =>
                           it[c] <= end[c] /\ \A b \in Barrier[c] : end[c] <= cursor'[b]
                      /\ pc'[c] = "claiming" => it[c] = cursor[c]
    BY <1>1 DEF BatchesBounded
  <2>1. pc'[c] = pc[c] /\ end[c] \in Nat /\ Barrier[c] \subseteq Cursors
    BY <1>0, BarrierAssumption DEF TypeOK, Threads
  <2> QED
    BY <1>1, <2>1 DEF BatchesBounded
<1>6. SlotsHeld'
  <2>1. /\ claim \in Nat /\ claim > cursor[Published]
        /\ \A q \in Producers : Holding(q)' <=> (Holding(q) /\ q # p)
    <3>1. claim \in Nat /\ claim > cursor[Published]
      BY <1>0, <1>1 DEF TypeOK, SlotsHeld
    <3>2. ASSUME NEW q \in Producers PROVE Holding(q)' <=> (Holding(q) /\ q # p)
      BY <1>0 DEF TypeOK, Holding, Threads
    <3> QED
      BY <3>1, <3>2
  <2>2. \A q \in Producers : Holding(q) /\ q # p => slot[q] \in cursor'[Published] .. claim - 1
    BY <1>0, <1>1, <2>1 DEF SlotsHeld, TypeOK
  <2>3. \A i \in cursor'[Published] .. claim - 1 :
           \E q \in Producers : Holding(q) /\ q # p /\ slot[q] = i
    BY <1>1, <2>1 DEF SlotsHeld
  <2>4. Size <= cursor'[Published] /\ cursor'[Published] <= claim
    BY ONLY <1>1, <2>1
  <2>5. ASSUME NEW q \in Producers, Holding(q)'
        PROVE  /\ slot'[q] \in cursor'[Published] .. claim' - 1
               /\ \A r \in Producers \ {q} : Holding(r)' => slot'[r] # slot'[q]
    <3>1. Holding(q) /\ q # p
      BY <2>1, <2>5
    <3>2. \A r \in Producers \ {q} : Holding(r) => slot[r] # slot[q]
      BY <3>1 DEF SlotsHeld
    <3> QED
      BY <2>1, <2>2, <3>1, <3>2
  <2>6. ASSUME NEW i \in cursor'[Published] .. claim' - 1
        PROVE  \E q \in Producers : Holding(q)' /\ slot'[q] = i
    BY <2>1, <2>3, <2>6
  <2> QED
    BY <2>4, <2>5, <2>6 DEF SlotsHeld
<1>7. ClaimsClear' /\ CommitIsMine'
  BY <1>0, <1>1 DEF ClaimsClear, CommitIsMine, MayWrite, WrapAt, TypeOK, Threads
<1>8. Len(log) = cursor[Published] - Size /\ Len(log') = Len(log) + 1
      /\ \A k \in 1 .. Len(log) : log'[k] = log[k]
      /\ log'[Len(log) + 1] = msg[p]
  BY <1>1 DEF HistoriesAligned
<1>9. RingHolds'
  <2>1. \A q \in Producers : HasWritten(q)' => HasWritten(q)
    BY <1>0 DEF HasWritten, TypeOK, Threads
  <2>2. ASSUME NEW i \in Size .. cursor'[Published] - 1,
               NEW c \in Consumers, cursor[c] <= i
        PROVE  ring[Index(i)] = log'[i - Size + 1]
    <3>1. CASE i = cursor[Published]
      BY <1>0, <1>1, <1>8, <3>1 DEF RingHolds
    <3>2. CASE i # cursor[Published]
      <4>1. i \in Size .. cursor[Published] - 1 /\ i - Size + 1 \in 1 .. Len(log)
        BY <1>1, <1>8, <3>2
      <4> QED
        BY <1>8, <2>2, <4>1 DEF RingHolds
    <3> QED
      BY <3>1, <3>2
  <2> QED
    BY <1>1, <2>1, <2>2 DEF RingHolds, HasWritten
<1>10. HistoriesAligned'
  BY <1>1, <1>8 DEF HistoriesAligned
<1>11. ReadsTheLog'
  <2> SUFFICES ASSUME NEW c \in Consumers
               PROVE  /\ Len(got[c]) <= Len(log')
                      /\ \A k \in 1 .. Len(got[c]) : got[c][k] = log'[k]
    BY DEF ReadsTheLog
  <2>1. Len(got[c]) \in Nat /\ Len(log) \in Nat
    BY DEF TypeOK
  <2> QED
    BY <1>8, <2>1 DEF ReadsTheLog
<1> QED
  BY <1>2, <1>3, <1>4, <1>5, <1>6, <1>7, <1>9, <1>10, <1>11

------------------------------------------------------------------------------
(* Consumer steps.                                                         *)

LEMMA ClaimBatchKeeps ==
  ASSUME IInv, NEW c \in Consumers, NEW b \in Cursors, ClaimBatch(c, b)
  PROVE  IInv'
<1> USE DEF IInv, ClaimBatch, LeastReturns
<1>0. c \in Threads /\ c \notin Producers /\ cursor[c] \in Nat
  BY ThreadAssumption DEF Threads, TypeOK, Cursors
<1>1. Least(c, b) \in Nat /\ \A d \in Barrier[c] : d \in Cursors /\ Least(c, b) <= cursor[d]
  BY <1>0, LeastIsBound, BehindPublished DEF LoadsAreBounds
<1>2. PICK e \in BatchEnds(c, Least(c, b)) : end' = [end EXCEPT ![c] = e]
  OBVIOUS
<1>3. e \in Nat /\ cursor[c] < e /\ e <= Least(c, b)
  BY <1>0, <1>1, ThreadAssumption DEF BatchEnds, Min2
<1>4. TypeOK'
  BY <1>0, <1>2, <1>3, BarrierAssumption DEF TypeOK, Threads
<1>5. CursorsOrdered' /\ LoadsAreBounds'
  BY BarrierAssumption DEF CursorsOrdered, LoadsAreBounds, TypeOK
<1>6. BatchesBounded'
  <2> SUFFICES ASSUME NEW d \in Consumers
               PROVE  /\ cursor[d] <= it'[d]
                      /\ pc'[d] = "reading" =>
                           it'[d] <= end'[d] /\ \A a \in Barrier[d] : end'[d] <= cursor[a]
                      /\ pc'[d] = "claiming" => it'[d] = cursor[d]
    BY DEF BatchesBounded
  <2>1. CASE d = c
    <3>1. \A a \in Barrier[c] : cursor[a] \in Nat
      BY <1>1 DEF TypeOK
    <3> QED
      BY <1>0, <1>1, <1>2, <1>3, <2>1, <3>1 DEF TypeOK, Threads
  <2>2. CASE d # c
    BY <1>0, <1>2, <2>2 DEF BatchesBounded, TypeOK, Threads
  <2> QED
    BY <2>1, <2>2
<1>7. SlotsHeld' /\ ClaimsClear' /\ CommitIsMine' /\ RingHolds'
  <2>1. \A p \in Producers : pc'[p] = pc[p]
    BY <1>0 DEF TypeOK
  <2>2. UNCHANGED <<cursor, claim, ring, slot, msg, log>>
    OBVIOUS
  <2>3. SlotsHeld' /\ ClaimsClear' /\ CommitIsMine'
    BY ONLY IInv, <2>1, <2>2 DEF IInv, SlotsHeld, ClaimsClear, CommitIsMine, Holding, MayWrite, WrapAt
  <2>4. RingHolds'
    BY ONLY IInv, <2>1, <2>2 DEF IInv, RingHolds, HasWritten, Index
  <2> QED
    BY <2>3, <2>4
<1>8. HistoriesAligned' /\ ReadsTheLog'
  BY <1>0 DEF HistoriesAligned, ReadsTheLog, BatchesBounded, InLeast, TypeOK
<1> QED
  BY <1>4, <1>5, <1>6, <1>7, <1>8

(* The slot under the iterator is committed and not released by this       *)
(* consumer, so the ring still holds its message.                          *)
LEMMA ReadSlotKeeps ==
  ASSUME IInv, NEW c \in Consumers, ReadSlot(c)
  PROVE  IInv'
<1> USE DEF IInv, ReadSlot
<1>0. /\ c \in Threads /\ cursor[c] \in Nat /\ it[c] \in Nat /\ end[c] \in Nat
      /\ cursor[Published] \in Nat /\ Size \in Nat \ {0}
      /\ got[c] \in Seq(Msgs) /\ log \in Seq(Msgs)
  BY SizeAssumption DEF Threads, TypeOK, Cursors
<1>1. cursor[c] <= it[c] /\ it[c] < end[c] /\ end[c] <= cursor[Published]
  <2>1. PICK b \in Barrier[c] : TRUE
    BY <1>0, BarrierAssumption
  <2>2. end[c] <= cursor[b] /\ cursor[b] <= cursor[Published] /\ cursor[b] \in Nat
    BY <1>0, <2>1, BehindPublished DEF BatchesBounded, TypeOK
  <2>3. cursor[c] <= it[c] /\ it[c] <= end[c] /\ it[c] # end[c]
    BY DEF BatchesBounded
  <2> QED
    BY ONLY <1>0, <2>2, <2>3
<1>2. /\ Len(got[c]) = it[c] - Size /\ Len(log) = cursor[Published] - Size
      /\ Len(got[c]) \in Nat /\ Len(log) \in Nat
  BY <1>0 DEF HistoriesAligned
<1>3. it[c] \in Size .. cursor[Published] - 1 /\ it[c] - Size + 1 \in 1 .. Len(log)
  <2>1. Size <= it[c] /\ it[c] <= cursor[Published] - 1
    BY ONLY <1>0, <1>1, <1>2
  <2>2. it[c] - Size + 1 <= Len(log)
    BY ONLY <1>0, <1>2, <2>1
  <2> QED
    BY ONLY <1>0, <2>1, <2>2
<1>4. ring[Index(it[c])] = log[Len(got[c]) + 1] /\ log[Len(got[c]) + 1] \in Msgs
  <2>1. ring[Index(it[c])] = log[it[c] - Size + 1]
    BY <1>1, <1>3 DEF RingHolds
  <2>2. log[it[c] - Size + 1] \in Msgs
    BY <1>0, <1>3
  <2> QED
    BY <1>2, <2>1, <2>2
<1>5. TypeOK'
  <2>1. got' \in [Consumers -> Seq(Msgs)]
    <3>1. ring[Index(it[c])] \in Msgs /\ got \in [Consumers -> Seq(Msgs)]
      BY <1>4 DEF TypeOK
    <3>2. Append(got[c], ring[Index(it[c])]) \in Seq(Msgs)
      BY ONLY <1>0, <3>1
    <3>3. got' = [got EXCEPT ![c] = Append(got[c], ring[Index(it[c])])]
      OBVIOUS
    <3> QED
      BY ONLY <3>1, <3>2, <3>3
  <2>2. it' \in [Consumers -> Nat]
    BY <1>0 DEF TypeOK
  <2>3. UNCHANGED <<cursor, claim, ring, pc, slot, msg, todo, seen, end, log>> /\ TypeOK
    OBVIOUS
  <2> QED
    BY ONLY <2>1, <2>2, <2>3 DEF TypeOK
<1>6. CursorsOrdered' /\ LoadsAreBounds' /\ SlotsHeld' /\ ClaimsClear' /\ CommitIsMine' /\ RingHolds'
  BY DEF CursorsOrdered, LoadsAreBounds, SlotsHeld, ClaimsClear, CommitIsMine, RingHolds,
         Holding, MayWrite, HasWritten, WrapAt
<1>7. BatchesBounded'
  <2>1. /\ it \in [Consumers -> Nat] /\ it' = [it EXCEPT ![c] = it[c] + 1]
        /\ pc[c] = "reading" /\ UNCHANGED <<cursor, pc, end>> /\ BatchesBounded
    BY DEF TypeOK
  <2>2. ASSUME NEW d \in Consumers, d # c PROVE it'[d] = it[d]
    BY ONLY <2>1, <2>2
  <2>3. it'[c] = it[c] + 1 /\ cursor[c] <= it[c] + 1 /\ it[c] + 1 <= end[c]
    BY ONLY <1>0, <1>1, <2>1
  <2> QED
    BY ONLY <1>0, <2>1, <2>2, <2>3 DEF BatchesBounded
(* What was read is one more message of the log, the next one. *)
<1>8. /\ Len(got'[c]) = Len(got[c]) + 1
      /\ \A k \in 1 .. Len(got'[c]) : got'[c][k] = log[k]
      /\ Len(got'[c]) <= Len(log)
      /\ it'[c] = it[c] + 1
  <2>1. got'[c] = Append(got[c], log[Len(got[c]) + 1]) /\ it'[c] = it[c] + 1
    BY <1>4 DEF TypeOK
  <2>2. Len(got'[c]) = Len(got[c]) + 1
        /\ \A k \in 1 .. Len(got[c]) + 1 :
             got'[c][k] = IF k = Len(got[c]) + 1 THEN log[Len(got[c]) + 1] ELSE got[c][k]
    BY ONLY <1>0, <1>4, <2>1
  <2>3. \A k \in 1 .. Len(got[c]) : got[c][k] = log[k]
    BY DEF ReadsTheLog
  <2>4. Len(got[c]) + 1 <= Len(log)
    BY ONLY <1>0, <1>2, <1>3
  <2> QED
    BY ONLY <1>2, <2>1, <2>2, <2>3, <2>4
<1>9. HistoriesAligned'
  <2>1. Len(got'[c]) = it'[c] - Size
    BY ONLY <1>0, <1>2, <1>8
  <2>2. ASSUME NEW d \in Consumers, d # c PROVE got'[d] = got[d] /\ it'[d] = it[d]
    BY <2>2 DEF TypeOK
  <2> QED
    BY <2>1, <2>2 DEF HistoriesAligned
<1>10. ReadsTheLog'
  <2> SUFFICES ASSUME NEW d \in Consumers
               PROVE  /\ Len(got'[d]) <= Len(log)
                      /\ \A k \in 1 .. Len(got'[d]) : got'[d][k] = log[k]
    BY DEF ReadsTheLog
  <2>1. CASE d = c
    BY <1>8, <2>1
  <2>2. CASE d # c
    BY <2>2 DEF ReadsTheLog, TypeOK
  <2> QED
    BY <2>1, <2>2
<1> QED
  BY <1>5, <1>6, <1>7, <1>9, <1>10

(* The released batch is behind every cursor of the barrier, hence behind  *)
(* everything the consumer follows.                                        *)
LEMMA ReleaseBatchKeeps ==
  ASSUME IInv, NEW c \in Consumers, ReleaseBatch(c)
  PROVE  IInv'
<1> USE DEF IInv, ReleaseBatch
<1>0. /\ c \in Threads /\ c \in Cursors /\ c # Published /\ c \notin Producers
      /\ \A d \in Cursors : cursor[d] \in Nat
      /\ end[c] \in Nat /\ cursor[c] <= end[c]
      /\ \A b \in Barrier[c] : end[c] <= cursor[b]
  BY ThreadAssumption DEF Threads, Cursors, TypeOK, BatchesBounded
<1>1. /\ cursor'[c] = end[c]
      /\ \A d \in Cursors : d # c => cursor'[d] = cursor[d]
      /\ \A d \in Cursors : cursor'[d] \in Nat /\ cursor[d] <= cursor'[d]
  BY <1>0 DEF TypeOK
<1>2. TypeOK'
  BY <1>0 DEF TypeOK, Threads
<1>3. CursorsOrdered'
  <2> SUFFICES ASSUME NEW e \in Consumers, NEW d \in Behind(e)
               PROVE  cursor'[e] <= cursor'[d]
    BY DEF CursorsOrdered
  <2>1. d \in Cursors /\ e \in Cursors /\ cursor[e] <= cursor[d]
    BY BehindClosed DEF CursorsOrdered, Threads, Cursors
  <2>2. CASE e = c
    <3>1. end[c] <= cursor[d]
      BY <1>0, <2>2, BoundReachesAll
    <3> QED
      BY <1>0, <1>1, <2>1, <2>2, <3>1
  <2>3. CASE e # c
    BY <1>0, <1>1, <2>1, <2>3
  <2> QED
    BY <2>2, <2>3
<1>4. LoadsAreBounds'
  <2> SUFFICES ASSUME NEW t \in Threads
               PROVE  /\ todo[t] # {} /\ todo[t] \subseteq Barrier[t]
                      /\ \A b \in Barrier[t] \ todo[t] : seen[t] <= cursor'[b]
    BY DEF LoadsAreBounds
  <2>1. seen[t] \in Nat /\ Barrier[t] \subseteq Cursors
    BY BarrierAssumption DEF TypeOK
  <2> QED
    BY <1>0, <1>1, <2>1 DEF LoadsAreBounds
<1>5. BatchesBounded'
  <2> SUFFICES ASSUME NEW d \in Consumers
               PROVE  /\ cursor'[d] <= it[d]
                      /\ pc'[d] = "reading" =>
                           it[d] <= end[d] /\ \A a \in Barrier[d] : end[d] <= cursor'[a]
                      /\ pc'[d] = "claiming" => it[d] = cursor'[d]
    BY DEF BatchesBounded
  <2>1. CASE d = c
    BY <1>0, <1>1, <2>1 DEF TypeOK
  <2>2. CASE d # c
    <3>1. /\ pc'[d] = pc[d] /\ cursor'[d] = cursor[d] /\ end[d] \in Nat
          /\ Barrier[d] \subseteq Cursors
      BY <1>0, <1>1, <2>2, BarrierAssumption DEF TypeOK, Threads, Cursors
    <3> QED
      BY <1>0, <1>1, <3>1 DEF BatchesBounded
  <2> QED
    BY <2>1, <2>2
<1>6. SlotsHeld' /\ CommitIsMine'
  BY <1>0, <1>1 DEF SlotsHeld, CommitIsMine, Holding, TypeOK, Threads, Cursors
<1>7. ClaimsClear'
  <2>1. \A q \in Producers : slot[q] \in Nat /\ pc'[q] = pc[q]
    BY <1>0 DEF TypeOK, Threads
  <2> QED
    BY <1>0, <1>1, <2>1, SizeAssumption DEF ClaimsClear, MayWrite, WrapAt, Cursors
<1>8. RingHolds'
  <2>1. cursor'[Published] = cursor[Published] /\ \A q \in Producers : pc'[q] = pc[q]
    BY <1>0, <1>1 DEF Cursors, TypeOK, Threads
  <2>2. \A i \in Size .. cursor[Published] - 1 : \A d \in Consumers :
           cursor'[d] <= i => cursor[d] <= i
    BY <1>0, <1>1, SizeAssumption DEF Cursors
  <2> QED
    BY <2>1, <2>2 DEF RingHolds, HasWritten
<1>9. HistoriesAligned' /\ ReadsTheLog'
  BY <1>0, <1>1 DEF HistoriesAligned, ReadsTheLog, Cursors
<1> QED
  BY <1>2, <1>3, <1>4, <1>5, <1>6, <1>7, <1>8, <1>9
------------------------------------------------------------------------------
(* Every step keeps the invariant.                                         *)
LEMMA NextIInv == IInv /\ [Next]_vars => IInv'
<1> SUFFICES ASSUME IInv, [Next]_vars PROVE IInv'
  OBVIOUS
<1>1. ASSUME NEW p \in Producers, NEW m \in Msgs, ClaimSlot(p, m) PROVE IInv'
  BY <1>1, ClaimSlotKeeps
<1>2. ASSUME NEW p \in Producers, PutStep(p) PROVE IInv'
  <2>0. p \in Threads /\ Consumers \subseteq Cursors
    BY DEF Threads, Cursors
  <2>1. ASSUME NEW b \in Consumers, LoadCursor(p, b) PROVE IInv'
    BY <2>0, <2>1, LoadCursorKeeps
  <2>2. ASSUME NEW b \in Consumers, SpinOnClaim(p, b) PROVE IInv'
    BY <2>0, <2>2, SpinKeeps DEF SpinOnClaim
  <2>3. ASSUME NEW b \in Consumers, PassClaim(p, b) PROVE IInv'
    BY <2>0, <2>3, PassClaimKeeps
  <2> QED
    BY <1>2, <2>1, <2>2, <2>3, WriteSlotKeeps, AwaitTurnKeeps, AdvanceCursorKeeps DEF PutStep
<1>3. ASSUME NEW c \in Consumers, GetStep(c) PROVE IInv'
  <2>0. c \in Threads
    BY DEF Threads
  <2>1. ASSUME NEW b \in Cursors, LoadCursor(c, b) PROVE IInv'
    BY <2>0, <2>1, LoadCursorKeeps
  <2>2. ASSUME NEW b \in Cursors, SpinOnGet(c, b) PROVE IInv'
    BY <2>0, <2>2, SpinKeeps DEF SpinOnGet
  <2> QED
    BY <1>3, <2>1, <2>2, ClaimBatchKeeps, ReadSlotKeeps, ReleaseBatchKeeps DEF GetStep
<1>4. CASE UNCHANGED vars
  <2> USE <1>4 DEF IInv, vars
  <2>1. TypeOK' /\ CursorsOrdered' /\ LoadsAreBounds' /\ BatchesBounded'
    BY DEF TypeOK, CursorsOrdered, LoadsAreBounds, BatchesBounded
  <2>2. SlotsHeld' /\ ClaimsClear' /\ RingHolds'
    BY DEF SlotsHeld, ClaimsClear, RingHolds, Holding, MayWrite, HasWritten, WrapAt
  <2>3. HistoriesAligned' /\ CommitIsMine' /\ ReadsTheLog'
    BY DEF HistoriesAligned, CommitIsMine, ReadsTheLog
  <2> QED
    BY <2>1, <2>2, <2>3
<1> QED
  BY <1>1, <1>2, <1>3, <1>4 DEF Next

(* The inductive invariant holds in every reachable state.                 *)
THEOREM Invariance == Spec => []IInv
  BY InitIInv, NextIInv, PTL DEF Spec

(* The variables keep their types, for every ring and every thread set.    *)
THEOREM TypeCorrect == Spec => []TypeOK
<1>1. IInv => TypeOK
  BY DEF IInv
<1> QED
  BY <1>1, Invariance, PTL

(* Put::claim never lets a producer write where a consumer has still to    *)
(* read, or where another producer may write.                              *)
THEOREM NeverOverwrites == Spec => []NoOverwrite
<1>1. IInv => NoOverwrite
  BY WritersApart DEF NoOverwrite
<1> QED
  BY <1>1, Invariance, PTL

(* Put::commit advances the cursor over the caller's own slot, so commits  *)
(* happen in claim order without a compare-and-swap.                       *)
THEOREM CommitsInTurn == Spec => []CommitIsMine
<1>1. IInv => CommitIsMine
  BY DEF IInv
<1> QED
  BY <1>1, Invariance, PTL

(* Every consumer reads the committed messages, all of them, in order.     *)
THEOREM ReadsInOrder == Spec => []ReadsTheLog
<1>1. IInv => ReadsTheLog
  BY DEF IInv
<1> QED
  BY <1>1, Invariance, PTL

(* No consumer reads a message before those it follows have released it.   *)
LEMMA UpstreamFirst == IInv => ReadAfterUpstream
<1> SUFFICES ASSUME IInv, NEW c \in Consumers, NEW b \in Behind(c)
             PROVE  it[c] <= cursor[b]
  BY DEF ReadAfterUpstream
<1> USE DEF IInv
<1>1. c \in Threads /\ it[c] \in Nat /\ end[c] \in Nat
  BY DEF Threads, TypeOK
<1>2. CASE pc[c] = "claiming"
  BY <1>2 DEF BatchesBounded, CursorsOrdered
<1>3. CASE pc[c] = "reading"
  <2>1. it[c] <= end[c] /\ \A d \in Barrier[c] : end[c] <= cursor[d]
    BY <1>3 DEF BatchesBounded
  <2>2. end[c] <= cursor[b]
    BY <1>1, <2>1, BoundReachesAll
  <2>3. cursor[b] \in Nat
    BY <1>1, BehindClosed DEF TypeOK
  <2> QED
    BY <1>1, <2>1, <2>2, <2>3
<1> QED
  BY <1>2, <1>3 DEF TypeOK

(* OrderRingServer routes no order that is not journaled, whatever the     *)
(* batches of the two threads.                                             *)
THEOREM UpstreamReadsFirst == Spec => []ReadAfterUpstream
  BY UpstreamFirst, Invariance, PTL

------------------------------------------------------------------------------
(* No step moves a cursor back.                                            *)
LEMMA StepsGoForward ==
  ASSUME IInv, Next
  PROVE  /\ \A c \in Consumers : cursor'[c] >= cursor[c]
         /\ cursor'[Published] \in {cursor[Published], cursor[Published] + 1}
<1> USE DEF IInv
<1>1. Published \notin Consumers /\ \A d \in Cursors : cursor[d] \in Nat
  BY ThreadAssumption DEF TypeOK
<1>2. ASSUME NEW p \in Producers, AdvanceCursor(p)
      PROVE  cursor' = [cursor EXCEPT ![Published] = cursor[Published] + 1]
  BY <1>2 DEF AdvanceCursor
<1>3. ASSUME NEW c \in Consumers, ReleaseBatch(c)
      PROVE  cursor' = [cursor EXCEPT ![c] = end[c]] /\ end[c] >= cursor[c]
  BY <1>3 DEF ReleaseBatch, BatchesBounded, TypeOK
<1>4. ASSUME NEW p \in Producers, PutStep(p) PROVE AdvanceCursor(p) \/ UNCHANGED cursor
  BY <1>4 DEF PutStep, LoadCursor, SpinOnClaim, PassClaim, WriteSlot, AwaitTurn
<1>5. ASSUME NEW c \in Consumers, GetStep(c) PROVE ReleaseBatch(c) \/ UNCHANGED cursor
  BY <1>5 DEF GetStep, LoadCursor, SpinOnGet, ClaimBatch, ReadSlot
<1>6. ASSUME NEW p \in Producers, NEW m \in Msgs, ClaimSlot(p, m) PROVE UNCHANGED cursor
  BY <1>6 DEF ClaimSlot
<1>7. CASE UNCHANGED cursor
  BY <1>1, <1>7 DEF Cursors
<1>8. CASE \E p \in Producers : AdvanceCursor(p)
  <2>1. cursor' = [cursor EXCEPT ![Published] = cursor[Published] + 1]
    BY <1>2, <1>8
  <2> QED
    BY <1>1, <2>1 DEF Cursors, TypeOK
<1>9. CASE \E c \in Consumers : ReleaseBatch(c)
  <2>1. PICK c \in Consumers : ReleaseBatch(c)
    BY <1>9
  <2>2. cursor' = [cursor EXCEPT ![c] = end[c]] /\ end[c] >= cursor[c]
    BY <1>3, <2>1
  <2> QED
    BY <1>1, <2>2 DEF Cursors, TypeOK
<1> QED
  BY ONLY Next, <1>4, <1>5, <1>6, <1>7, <1>8, <1>9 DEF Next

(* The rule that lets a producer act on a barrier value it loaded earlier. *)
THEOREM GoForward == Spec => CursorsNeverGoBack
<1>1. IInv /\ [Next]_vars =>
        [/\ \A c \in Consumers : cursor'[c] >= cursor[c]
         /\ cursor'[Published] \in {cursor[Published], cursor[Published] + 1}]_vars
  BY StepsGoForward
<1> QED
  BY <1>1, Invariance, PTL DEF Spec, CursorsNeverGoBack

------------------------------------------------------------------------------
(* The ring implements the stream it promises.                             *)

(* A commit publishes a message, and no consumer is a whole ring behind.   *)
LEMMA CommitPublishes ==
  ASSUME IInv, NEW p \in Producers, AdvanceCursor(p)
  PROVE  Promise!Publish(msg[p]) /\ msg[p] \in Msgs
<1> USE DEF IInv, AdvanceCursor
<1>1. /\ msg[p] \in Msgs /\ slot[p] = cursor[Published] /\ slot[p] \in Nat
      /\ Len(log) = cursor[Published] - Size
  BY ThreadAssumption DEF TypeOK, CommitIsMine, HistoriesAligned
<1>2. ASSUME NEW c \in Consumers
      PROVE  Len(log) < Len(got[c]) + Size
  <2>1. cursor[c] > slot[p] - Size /\ cursor[c] <= it[c] /\ Len(got[c]) = it[c] - Size
    BY DEF ClaimsClear, MayWrite, WrapAt, BatchesBounded, HistoriesAligned
  <2>2. cursor[c] \in Nat /\ it[c] \in Nat /\ Size \in Nat \ {0}
    BY SizeAssumption DEF TypeOK, Cursors
  <2> QED
    BY <1>1, <2>1, <2>2
<1> QED
  BY <1>1, <1>2 DEF Promise!Publish

LEMMA AppendAdds ==
  ASSUME NEW S, NEW s \in Seq(S), NEW e
  PROVE  /\ Len(Append(s, e)) = Len(s) + 1 /\ Len(s) \in Nat
         /\ Append(s, e)[Len(s) + 1] = e
  OBVIOUS

(* A read delivers the next message, which the consumers upstream read.    *)
LEMMA ReadDelivers ==
  ASSUME IInv, NEW c \in Consumers, ReadSlot(c)
  PROVE  Promise!Deliver(c)
<1>0. IInv'
  BY ReadSlotKeeps
<1> USE DEF IInv, ReadSlot
<1>1. /\ got[c] \in Seq(Msgs) /\ got' = [got EXCEPT ![c] = Append(@, ring[Index(it[c])])]
      /\ got'[c] = Append(got[c], ring[Index(it[c])])
  BY DEF TypeOK
<1>2. /\ Len(got'[c]) = Len(got[c]) + 1 /\ Len(got[c]) \in Nat
      /\ got'[c][Len(got[c]) + 1] = ring[Index(it[c])]
  BY ONLY <1>1, AppendAdds
<1>3. Len(got[c]) < Len(log) /\ ring[Index(it[c])] = log[Len(got[c]) + 1]
  <2>1. Len(log) \in Nat /\ log' = log
    BY DEF TypeOK
  <2>2. Len(got'[c]) <= Len(log') /\ \A k \in 1 .. Len(got'[c]) : got'[c][k] = log'[k]
    BY <1>0 DEF ReadsTheLog
  <2>3. Len(got[c]) + 1 \in 1 .. Len(got'[c])
    BY <1>2
  <2> QED
    BY <1>2, <2>1, <2>2, <2>3
<1>4. ASSUME NEW b \in Barrier[c] \cap Consumers
      PROVE  Len(got[c]) < Len(got[b])
  <2>1. it'[c] <= cursor[b]
    <3>1. it[c] <= end[c] /\ it[c] # end[c] /\ end[c] <= cursor[b] /\ it'[c] = it[c] + 1
      BY DEF BatchesBounded, TypeOK
    <3>2. it[c] \in Nat /\ end[c] \in Nat /\ cursor[b] \in Nat
      BY DEF TypeOK, Cursors
    <3> QED
      BY <3>1, <3>2
  <2>2. /\ it'[c] = it[c] + 1 /\ cursor[b] <= it[b]
        /\ Len(got[b]) = it[b] - Size /\ Len(got[c]) = it[c] - Size
        /\ it[b] \in Nat /\ it[c] \in Nat /\ cursor[b] \in Nat /\ Size \in Nat
    BY SizeAssumption DEF TypeOK, BatchesBounded, HistoriesAligned, Cursors
  <2> QED
    BY <2>1, <2>2
<1> QED
  BY <1>1, <1>3, <1>4 DEF Promise!Deliver

(* The ring promises Stream: what its consumers read is one bounded        *)
(* sequence of messages, seen in full and in order by each of them.        *)
THEOREM ImplementsStream == Spec => StreamPromise
<1>1. Init => Promise!Init
  BY DEF Init, Promise!Init
<1>2. IInv /\ [Next]_vars => [Promise!Next]_(Promise!vars)
  <2> SUFFICES ASSUME IInv, [Next]_vars PROVE [Promise!Next]_(Promise!vars)
    OBVIOUS
  <2>1. ASSUME NEW p \in Producers, AdvanceCursor(p) PROVE Promise!Next
    BY <2>1, CommitPublishes DEF Promise!Next
  <2>2. ASSUME NEW c \in Consumers, ReadSlot(c) PROVE Promise!Next
    BY <2>2, ReadDelivers DEF Promise!Next
  <2>3. ASSUME NEW p \in Producers, NEW m \in Msgs, ClaimSlot(p, m) PROVE UNCHANGED <<log, got>>
    BY <2>3 DEF ClaimSlot
  <2>4. ASSUME NEW p \in Producers, PutStep(p) PROVE AdvanceCursor(p) \/ UNCHANGED <<log, got>>
    BY <2>4 DEF PutStep, LoadCursor, SpinOnClaim, PassClaim, LeastReturns, WriteSlot, AwaitTurn
  <2>5. ASSUME NEW c \in Consumers, GetStep(c) PROVE ReadSlot(c) \/ UNCHANGED <<log, got>>
    BY <2>5 DEF GetStep, LoadCursor, SpinOnGet, ClaimBatch, LeastReturns, ReleaseBatch
  <2>6. CASE UNCHANGED vars
    BY <2>6 DEF vars, Promise!vars
  <2> QED
    BY <2>1, <2>2, <2>3, <2>4, <2>5, <2>6 DEF Next, Promise!vars
<1> QED
  BY <1>1, <1>2, Invariance, PTL DEF Spec, StreamPromise, Promise!Spec

------------------------------------------------------------------------------
(* Waits end somewhere: of the consumers that are furthest back, one       *)
(* follows none of the others.                                             *)

LEMMA LeastNumber ==
  ASSUME NEW T \in SUBSET Nat, T # {}
  PROVE  \E m \in T : \A k \in T : m <= k
<1>1. IsWellFoundedOn(OpToRel(<, Nat), Nat)
  BY NatLessThanWellFounded
<1>2. PICK m \in T : \A k \in T : ~ (<<k, m>> \in OpToRel(<, Nat))
  BY <1>1, WFMin
<1>3. \A k \in T : ~(k < m)
  BY <1>2 DEF OpToRel
<1> QED
  BY <1>3

(* Who follows a consumer follows strictly more than that one does.        *)
LEMMA FollowsMore ==
  ASSUME NEW c \in Consumers, NEW b \in Barrier[c] \cap Consumers
  PROVE  /\ IsFiniteSet(Behind(b)) /\ IsFiniteSet(Behind(c))
         /\ Cardinality(Behind(b)) \in Nat /\ Cardinality(Behind(c)) \in Nat
         /\ Cardinality(Behind(b)) < Cardinality(Behind(c))
<1>1. b \in Threads /\ c \in Threads
  BY DEF Threads
<1>2. IsFiniteSet(Cursors)
  BY ThreadAssumption, FS_AddElement DEF Cursors
<1>3. IsFiniteSet(Behind(b)) /\ IsFiniteSet(Behind(c))
  BY <1>1, <1>2, BehindClosed, FS_Subset
<1>4. Behind(b) \subseteq Behind(c)
  <2>1. Behind(c) \in SUBSET Cursors /\ Barrier[b] \subseteq Behind(c)
        /\ \A d \in Behind(c) \cap Consumers : Barrier[d] \subseteq Behind(c)
    BY <1>1, BehindClosed
  <2> QED
    BY ONLY <2>1 DEF Behind
<1>5. b \in Behind(c) /\ b \notin Behind(b)
  BY <1>1, BehindClosed, BarrierAssumption
<1>6. /\ Cardinality(Behind(b)) <= Cardinality(Behind(c))
      /\ Cardinality(Behind(c)) = Cardinality(Behind(b)) => Behind(c) = Behind(b)
  BY <1>3, <1>4, FS_Subset
<1>7. Cardinality(Behind(b)) \in Nat /\ Cardinality(Behind(c)) \in Nat
  BY <1>3, FS_CardinalityType
<1>8. Cardinality(Behind(b)) # Cardinality(Behind(c))
  BY <1>5, <1>6
<1> QED
  BY <1>3, <1>6, <1>7, <1>8

LEMMA NotAllFollow ==
  ASSUME NEW T \in SUBSET Consumers, T # {}
  PROVE  \E c \in T : Barrier[c] \cap T = {}
<1> DEFINE K == {Cardinality(Behind(c)) : c \in T}
<1>1. SUFFICES ASSUME \A c \in T : Barrier[c] \cap T # {} PROVE FALSE
  OBVIOUS
<1>2. \A c \in T : \E b \in T :
        /\ Cardinality(Behind(b)) \in Nat /\ Cardinality(Behind(c)) \in Nat
        /\ Cardinality(Behind(b)) < Cardinality(Behind(c))
  <2> SUFFICES ASSUME NEW c \in T
               PROVE  \E b \in T :
                        /\ Cardinality(Behind(b)) \in Nat /\ Cardinality(Behind(c)) \in Nat
                        /\ Cardinality(Behind(b)) < Cardinality(Behind(c))
    OBVIOUS
  <2>1. PICK b \in T : b \in Barrier[c] \cap Consumers
    BY <1>1
  <2> QED
    BY <2>1, FollowsMore
<1>3. K \in SUBSET Nat /\ K # {}
  BY <1>2
<1>4. PICK m \in K : \A k \in K : m <= k
  <2> HIDE DEF K
  <2> QED
    BY <1>3, LeastNumber
<1>5. PICK c \in T : m = Cardinality(Behind(c))
  BY <1>4
<1>6. PICK b \in T : Cardinality(Behind(b)) \in Nat /\ m \in Nat /\ Cardinality(Behind(b)) < m
  BY <1>2, <1>5
<1>7. m <= Cardinality(Behind(b))
  BY <1>4
<1> QED
  BY ONLY <1>6, <1>7

(* When something is unread, some consumer can read.                       *)
LEMMA ReaderGoesOn ==
  ASSUME TypeOK, CursorsOrdered, NEW d \in Consumers, cursor[d] # cursor[Published]
  PROVE  \E c \in Consumers : ~GetHeldUp(c)
<1> DEFINE K == {cursor[c] : c \in Consumers}
<1>1. /\ \A b \in Cursors : cursor[b] \in Nat
      /\ Consumers \subseteq Cursors /\ Published \in Cursors
      /\ \A c \in Consumers : cursor[c] <= cursor[Published]
  BY BehindPublished DEF TypeOK, Cursors
<1>2. K \in SUBSET Nat /\ K # {} /\ cursor[d] \in K
  BY <1>1
<1>3. PICK m \in K : \A k \in K : m <= k
  <2> HIDE DEF K
  <2> QED
    BY <1>2, LeastNumber
<1> DEFINE T == {c \in Consumers : cursor[c] = m}
<1>4. T \in SUBSET Consumers /\ T # {}
  BY <1>3
<1>5. PICK c \in T : Barrier[c] \cap T = {}
  BY <1>4, NotAllFollow
<1>6. m \in Nat /\ m < cursor[Published]
  <2>1. m <= cursor[d] /\ m \in Nat
    BY <1>2, <1>3
  <2>2. cursor[d] < cursor[Published] /\ cursor[d] \in Nat /\ cursor[Published] \in Nat
    BY <1>1
  <2> QED
    BY ONLY <2>1, <2>2
<1>7. ASSUME NEW b \in Barrier[c] PROVE ~(cursor[b] <= cursor[c])
  <2>1. b \in Cursors
    BY <1>5, BarrierAssumption DEF Threads
  <2>2. CASE b = Published
    BY <1>1, <1>5, <1>6, <2>2
  <2>3. CASE b \in Consumers
    <3>1. cursor[b] # m /\ m <= cursor[b] /\ cursor[b] \in Nat /\ cursor[c] = m
      BY <1>1, <1>3, <1>5, <2>3
    <3> QED
      BY ONLY <1>6, <3>1
  <2> QED
    BY <2>1, <2>2, <2>3 DEF Cursors
<1> QED
  BY <1>5, <1>7 DEF GetHeldUp

(* When everything is read, the producer of the next slot can go on.       *)
LEMMA WriterGoesOn ==
  ASSUME IInv, \A c \in Consumers : cursor[c] = cursor[Published],
         NEW q \in Producers, Holding(q)
  PROVE  \E p \in Producers : Holding(p) /\ ~PutHeldUp(p)
<1>1. TypeOK /\ SlotsHeld
  BY DEF IInv
<1>2. /\ cursor[Published] \in Nat /\ claim \in Nat
      /\ slot[q] \in cursor[Published] .. claim - 1
  BY <1>1 DEF TypeOK, SlotsHeld, Cursors
<1>3. cursor[Published] \in cursor[Published] .. claim - 1
  BY ONLY <1>2
<1>4. PICK p \in Producers : Holding(p) /\ slot[p] = cursor[Published]
  BY <1>1, <1>3 DEF SlotsHeld
<1>5. ASSUME NEW b \in Barrier[p] PROVE ~(cursor[b] <= WrapAt(p))
  <2>1. cursor[b] = cursor[Published]
    BY BarrierAssumption
  <2> QED
    BY <1>2, <1>4, <2>1, SizeAssumption DEF WrapAt
<1>6. ~ShouldSpin(p)
  BY <1>2, <1>4 DEF ShouldSpin
<1> QED
  BY <1>4, <1>5, <1>6 DEF PutHeldUp

(* The ring never locks up, whatever the barrier graph, the ring's size and*)
(* the number of producers: some thread that has something to do can go on.*)
THEOREM NeverLocksUp == Spec => []NoStandoff
<1>1. IInv => NoStandoff
  <2> SUFFICES ASSUME IInv PROVE NoStandoff
    OBVIOUS
  <2>1. CASE \E c \in Consumers : cursor[c] # cursor[Published]
    BY <2>1, ReaderGoesOn DEF IInv, NoStandoff
  <2>2. CASE \A c \in Consumers : cursor[c] = cursor[Published]
    BY <2>2, WriterGoesOn DEF NoStandoff
  <2> QED
    BY <2>1, <2>2
<1> QED
  BY <1>1, Invariance, PTL
==============================================================================
