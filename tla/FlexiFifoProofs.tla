--------------------------- MODULE FlexiFifoProofs ----------------------------
(***************************************************************************)
(* Proofs about FlexiFifo, for any producers, consumers, sizes of the ring *)
(* and of the Queues: slots are conserved and the window between head and  *)
(* tail is kept, although slots are given back out of turn.                *)
(***************************************************************************)
EXTENDS FlexiFifo, FiniteSetTheorems, TLAPS

------------------------------------------------------------------------------
(* What Append and Tail do to the slots of a Queue.                        *)

LEMMA AppendRange ==
  ASSUME NEW s \in Seq(Nat), NEW n \in Nat
  PROVE  /\ Append(s, n) \in Seq(Nat) /\ Len(Append(s, n)) = Len(s) + 1
         /\ \A i \in 1 .. Len(s) : Append(s, n)[i] = s[i]
         /\ Append(s, n)[Len(s) + 1] = n
         /\ Range(Append(s, n)) = Range(s) \cup {n}
<1>1. /\ Append(s, n) \in Seq(Nat) /\ Len(Append(s, n)) = Len(s) + 1
      /\ \A i \in 1 .. Len(s) : Append(s, n)[i] = s[i]
      /\ Append(s, n)[Len(s) + 1] = n
  OBVIOUS
<1>2. DOMAIN Append(s, n) = 1 .. Len(s) + 1 /\ DOMAIN s = 1 .. Len(s) /\ Len(s) \in Nat
  BY <1>1
<1>3. ASSUME NEW m \in Range(Append(s, n)) PROVE m \in Range(s) \cup {n}
  BY <1>1, <1>2, <1>3 DEF Range
<1>4. ASSUME NEW m \in Range(s) \cup {n} PROVE m \in Range(Append(s, n))
  <2>1. CASE m = n
    BY <1>1, <1>2, <2>1 DEF Range
  <2>2. CASE m \in Range(s)
    <3>1. PICK i \in 1 .. Len(s) : m = s[i]
      BY <1>2, <2>2 DEF Range
    <3>2. i \in DOMAIN Append(s, n) /\ Append(s, n)[i] = m
      BY <1>1, <1>2, <3>1
    <3> QED
      BY <3>2 DEF Range
  <2> QED
    BY <1>4, <2>1, <2>2
<1> QED
  BY <1>1, <1>3, <1>4

Ascends(s) == \A i, j \in 1 .. Len(s) : i < j => s[i] < s[j]

LEMMA TailRange ==
  ASSUME NEW s \in Seq(Nat), s # <<>>, Ascends(s)
  PROVE  /\ Tail(s) \in Seq(Nat) /\ Len(Tail(s)) = Len(s) - 1
         /\ Head(s) \in Range(s)
         /\ Range(Tail(s)) = Range(s) \ {Head(s)}
         /\ \A n \in Range(Tail(s)) : Head(s) < n
         /\ Ascends(Tail(s))
<1>1. /\ Tail(s) \in Seq(Nat) /\ Len(Tail(s)) = Len(s) - 1 /\ Len(s) \in Nat \ {0}
      /\ \A i \in 1 .. Len(Tail(s)) : Tail(s)[i] = s[i + 1]
      /\ Head(s) = s[1]
  OBVIOUS
<1>2. DOMAIN Tail(s) = 1 .. Len(s) - 1 /\ DOMAIN s = 1 .. Len(s)
  BY <1>1
<1>3. \A i \in 1 .. Len(s) : s[i] \in Nat
  OBVIOUS
<1>4. \A i \in 2 .. Len(s) : s[1] < s[i]
  BY <1>1 DEF Ascends
<1>5. ASSUME NEW n \in Range(Tail(s)) PROVE n \in Range(s) /\ Head(s) < n /\ n # Head(s)
  <2>1. PICK i \in 1 .. Len(s) - 1 : n = Tail(s)[i]
    BY <1>2, <1>5 DEF Range
  <2>2. i + 1 \in 2 .. Len(s) /\ n = s[i + 1]
    BY <1>1, <2>1
  <2>3. n \in Range(s)
    BY <1>2, <2>2 DEF Range
  <2> QED
    BY <1>1, <1>3, <1>4, <2>2, <2>3
<1>6. ASSUME NEW n \in Range(s), n # Head(s) PROVE n \in Range(Tail(s))
  <2>1. PICK i \in 1 .. Len(s) : n = s[i]
    BY <1>2, <1>6 DEF Range
  <2>2. i # 1 /\ i - 1 \in 1 .. Len(s) - 1
    BY <1>1, <1>6, <2>1
  <2>3. Tail(s)[i - 1] = n
    BY <1>1, <2>1, <2>2
  <2> QED
    BY <1>2, <2>2, <2>3 DEF Range
<1>7. Head(s) \in Range(s)
  BY <1>1, <1>2 DEF Range
<1>8. Ascends(Tail(s))
  BY <1>1 DEF Ascends
<1> QED
  BY <1>1, <1>5, <1>6, <1>7, <1>8

(* A Queue of the invariant, and a slot of it.                             *)
LEMMA QueueFacts ==
  ASSUME TypeOK, QueuesAscend, NEW c \in Consumers
  PROVE  /\ pendingCommits[c] \in Seq(Nat) /\ Len(pendingCommits[c]) \in Nat
         /\ Range(pendingCommits[c]) \subseteq Nat
         /\ Ascends(pendingCommits[c])
         /\ pc[c] = "popping" => pendingCommits[c] # <<>>
         /\ slot[c] \in Nat
<1>1. pendingCommits[c] \in Seq(Nat) /\ slot[c] \in Nat
  BY DEF TypeOK, Threads
<1>2. DOMAIN pendingCommits[c] = 1 .. Len(pendingCommits[c])
  BY <1>1
<1>3. Range(pendingCommits[c]) \subseteq Nat
  BY <1>1, <1>2 DEF Range
<1> QED
  BY <1>1, <1>3 DEF QueuesAscend, Ascends

------------------------------------------------------------------------------
(* Type correctness.                                                       *)

LEMMA TypeInit == Init => TypeOK
BY SizeAssumption DEF Init, TypeOK, Threads

LEMMA TypeOfProducer ==
  ASSUME TypeOK, NEW p \in Producers, ClaimHead(p) \/ PutStep(p)
  PROVE  TypeOK'
<1> USE DEF TypeOK, Threads, Goto
<1>1. CASE ClaimHead(p)
  BY <1>1 DEF ClaimHead
<1>2. CASE PassHead(p)
  BY <1>2 DEF PassHead
<1>3. CASE AwaitHead(p)
  BY <1>3 DEF AwaitHead
<1>4. CASE AdvanceHead(p)
  BY <1>4 DEF AdvanceHead
<1> QED
  BY <1>1, <1>2, <1>3, <1>4 DEF PutStep

(* The Queue of one consumer gets another value.                           *)
LEMMA TypeOfQueue ==
  ASSUME TypeOK, NEW c \in Consumers, NEW q \in Seq(Nat), Len(q) <= Pending,
         pendingCommits' = [pendingCommits EXCEPT ![c] = q]
  PROVE  /\ pendingCommits' \in [Consumers -> Seq(Nat)]
         /\ \A d \in Consumers : Len(pendingCommits'[d]) <= Pending
BY DEF TypeOK

LEMMA TypeOfConsumer ==
  ASSUME TypeOK, QueuesAscend, NEW c \in Consumers,
         CallCommit(c) \/ CallClaim(c) \/ CallStep(c)
  PROVE  TypeOK'
<1> DEFINE q == pendingCommits[c]
<1>0. /\ q \in Seq(Nat) /\ Len(q) \in Nat /\ Len(q) <= Pending /\ slot[c] \in Nat
      /\ c \in Threads
  BY QueueFacts DEF TypeOK, Threads
<1>1. CASE CallCommit(c)
  BY <1>0, <1>1 DEF CallCommit, TypeOK, Goto
<1>2. CASE CallClaim(c)
  BY <1>0, <1>2 DEF CallClaim, TypeOK, Goto
<1>3. CASE GiveUp(c)
  <2>1. /\ pc' \in [Threads -> {"idle", "waiting", "using", "advancing", "trying", "popping",
                                 "committing", "releasing", "claiming"}]
        /\ claiming' \subseteq Consumers
    BY <1>0, <1>3 DEF GiveUp, CommitReturns, TypeOK, Goto
  <2>2. CASE c \notin claiming \/ ~Full(c)
    BY <1>3, <2>1, <2>2 DEF GiveUp, CommitReturns, TypeOK
  <2>3. CASE c \in claiming /\ Full(c)
    <3>1. q # <<>>
      BY <1>0, <2>3, SizeAssumption DEF Full
    <3>2. Head(q) \in Nat /\ Tail(q) \in Seq(Nat) /\ Len(Tail(q)) <= Pending
      BY <1>0, <3>1, QueueFacts, TailRange, SizeAssumption
    <3>3. /\ pendingCommits' = [pendingCommits EXCEPT ![c] = Tail(q)]
          /\ slot' = [slot EXCEPT ![c] = Head(q)]
      BY <1>3, <2>3 DEF GiveUp, CommitReturns
    <3>4. /\ pendingCommits' \in [Consumers -> Seq(Nat)]
          /\ \A d \in Consumers : Len(pendingCommits'[d]) <= Pending
      BY <3>2, <3>3, TypeOfQueue
    <3> QED
      BY <1>0, <1>3, <2>1, <3>2, <3>3, <3>4 DEF GiveUp, TypeOK
  <2> QED
    BY <2>2, <2>3
<1>4. CASE Try(c)
  BY <1>0, <1>4 DEF Try, TypeOK, Goto
<1>5. CASE Pop(c)
  <2>1. q # <<>>
    BY <1>5, QueueFacts DEF Pop
  <2>2. Tail(q) \in Seq(Nat) /\ Len(Tail(q)) <= Pending
    BY <1>0, <2>1, QueueFacts, TailRange, SizeAssumption
  <2>3. pendingCommits' = [pendingCommits EXCEPT ![c] = Tail(q)]
    BY <1>5 DEF Pop
  <2>4. /\ pendingCommits' \in [Consumers -> Seq(Nat)]
        /\ \A d \in Consumers : Len(pendingCommits'[d]) <= Pending
    BY <2>2, <2>3, TypeOfQueue
  <2> QED
    BY <1>0, <1>5, <2>4 DEF Pop, TypeOK, Goto
<1>6. CASE AwaitTail(c)
  BY <1>0, <1>6 DEF AwaitTail, TypeOK, Goto
<1>7. CASE AdvanceTail(c)
  BY <1>0, <1>7 DEF AdvanceTail, TypeOK, Goto
<1>8. CASE ClaimTail(c)
  BY <1>0, <1>8 DEF ClaimTail, TypeOK, Goto
<1>9. CASE PassTail(c)
  <2>1. Len(q) < Pending
    BY <1>9 DEF PassTail, QueuesAscend
  <2>2. Append(q, slot[c]) \in Seq(Nat) /\ Len(Append(q, slot[c])) <= Pending
    BY <1>0, <2>1, AppendRange, SizeAssumption
  <2>3. pendingCommits' = [pendingCommits EXCEPT ![c] = Append(q, slot[c])]
    BY <1>9 DEF PassTail
  <2>4. /\ pendingCommits' \in [Consumers -> Seq(Nat)]
        /\ \A d \in Consumers : Len(pendingCommits'[d]) <= Pending
    BY <2>2, <2>3, TypeOfQueue
  <2> QED
    BY <1>0, <1>9, <2>4 DEF PassTail, TypeOK, Goto
<1> QED
  BY <1>1, <1>2, <1>3, <1>4, <1>5, <1>6, <1>7, <1>8, <1>9 DEF CallStep
------------------------------------------------------------------------------
(* What the steps do to the outstanding slots.                             *)

(* The slot a consumer claims was not outstanding.                         *)
LEMMA OutstandingBounded ==
  ASSUME SlotsConserved
  PROVE  AllOutstanding \subseteq Size .. tailClaim - 1
BY DEF SlotsConserved, AllOutstanding

(* A step that moves a slot from hand to Queue or back, or none.           *)
LEMMA ConservedSame ==
  ASSUME SlotsConserved, tailClaim' = tailClaim, tail' = tail,
         \A c \in Consumers : Outstanding(c)' = Outstanding(c) /\ Holdings(c)' = Holdings(c)
  PROVE  SlotsConserved' /\ AllOutstanding' = AllOutstanding
<1>1. AllOutstanding' = AllOutstanding
  BY DEF AllOutstanding
<1> QED
  BY <1>1 DEF SlotsConserved

(* A step that takes the next slot.                                        *)
LEMMA ConservedClaim ==
  ASSUME TypeOK, Size <= tailClaim, SlotsConserved, NEW c \in Consumers,
         tailClaim' = tailClaim + 1, tail' = tail,
         Outstanding(c)' = Outstanding(c) \cup {tailClaim}, Holdings(c)' = Holdings(c) + 1,
         \A d \in Consumers \ {c} : Outstanding(d)' = Outstanding(d) /\ Holdings(d)' = Holdings(d)
  PROVE  SlotsConserved' /\ AllOutstanding' = AllOutstanding \cup {tailClaim}
<1>1. AllOutstanding' = AllOutstanding \cup {tailClaim}
  BY DEF AllOutstanding
<1>2. Size \in Nat /\ tailClaim \in Nat /\ tail \in Nat
  BY SizeAssumption DEF TypeOK
<1>3. tailClaim \notin AllOutstanding /\ IsFiniteSet(AllOutstanding)
  <2>1. AllOutstanding \subseteq Size .. tailClaim - 1
    BY OutstandingBounded
  <2>2. IsFiniteSet(Size .. tailClaim - 1)
    BY <1>2, FS_Interval
  <2>3. IsFiniteSet(AllOutstanding)
    BY <2>1, <2>2, FS_Subset
  <2> QED
    BY <1>2, <2>1, <2>3
<1>4. tailClaim' - tail' = Cardinality(AllOutstanding')
  <2>1. Cardinality(AllOutstanding \cup {tailClaim}) = Cardinality(AllOutstanding) + 1
    BY <1>3, FS_AddElement
  <2>2. tailClaim - tail = Cardinality(AllOutstanding)
    BY DEF SlotsConserved
  <2> QED
    BY <1>1, <1>2, <2>1, <2>2
<1>5. tailClaim \notin Outstanding(c) /\ IsFiniteSet(Outstanding(c))
  BY <1>3, FS_Subset DEF AllOutstanding
<1>6. Cardinality(Outstanding(c) \cup {tailClaim}) = Cardinality(Outstanding(c)) + 1
  BY <1>5, FS_AddElement
<1>7. ASSUME NEW d \in Consumers
      PROVE  /\ Outstanding(d)' \subseteq Size .. tailClaim' - 1
             /\ Cardinality(Outstanding(d)') = Holdings(d)'
             /\ \A e \in Consumers \ {d} : Outstanding(d)' \cap Outstanding(e)' = {}
  <2>1. Outstanding(d)' \subseteq Size .. tailClaim' - 1
    <3>1. Outstanding(d)' \subseteq AllOutstanding \cup {tailClaim}
      BY DEF AllOutstanding
    <3> QED
      BY <1>2, <3>1, OutstandingBounded
  <2>2. Cardinality(Outstanding(d)') = Holdings(d)'
    BY <1>6 DEF SlotsConserved
  <2>3. ASSUME NEW e \in Consumers \ {d} PROVE Outstanding(d)' \cap Outstanding(e)' = {}
    <3>1. Outstanding(d) \cap Outstanding(e) = {}
      BY DEF SlotsConserved
    <3>2. tailClaim \notin Outstanding(d) /\ tailClaim \notin Outstanding(e)
      BY <1>3 DEF AllOutstanding
    <3>3. d = c => Outstanding(e)' = Outstanding(e)
      OBVIOUS
    <3>4. d # c => Outstanding(d)' = Outstanding(d)
      OBVIOUS
    <3>5. Outstanding(e)' = Outstanding(e) \/ Outstanding(e)' = Outstanding(e) \cup {tailClaim}
      OBVIOUS
    <3>6. CASE d = c
      BY <3>1, <3>2, <3>3, <3>6
    <3>7. CASE d # c
      BY <3>1, <3>2, <3>4, <3>5, <3>7
    <3> QED
      BY <3>6, <3>7
  <2> QED
    BY <2>1, <2>2, <2>3
<1> QED
  BY <1>1, <1>4, <1>7 DEF SlotsConserved

(* A step that gives one back.                                             *)
LEMMA ConservedGive ==
  ASSUME TypeOK, SlotsConserved, NEW c \in Consumers, NEW n \in Outstanding(c),
         tailClaim' = tailClaim, tail' = tail + 1,
         Outstanding(c)' = Outstanding(c) \ {n}, Holdings(c)' = Holdings(c) - 1,
         \A d \in Consumers \ {c} : Outstanding(d)' = Outstanding(d) /\ Holdings(d)' = Holdings(d)
  PROVE  SlotsConserved' /\ AllOutstanding' = AllOutstanding \ {n}
<1>1. ASSUME NEW d \in Consumers \ {c} PROVE n \notin Outstanding(d)
  BY DEF SlotsConserved
<1>2. AllOutstanding' = AllOutstanding \ {n}
  BY <1>1 DEF AllOutstanding
<1>3. Size \in Nat /\ tailClaim \in Nat /\ tail \in Nat
  BY SizeAssumption DEF TypeOK
<1>4. n \in AllOutstanding /\ IsFiniteSet(AllOutstanding)
  <2>1. AllOutstanding \subseteq Size .. tailClaim - 1
    BY OutstandingBounded
  <2>2. IsFiniteSet(Size .. tailClaim - 1)
    BY <1>3, FS_Interval
  <2> QED
    BY <2>1, <2>2, FS_Subset DEF AllOutstanding
<1>5. tailClaim' - tail' = Cardinality(AllOutstanding')
  <2>1. Cardinality(AllOutstanding \ {n}) = Cardinality(AllOutstanding) - 1
    BY <1>4, FS_RemoveElement
  <2>2. tailClaim - tail = Cardinality(AllOutstanding)
    BY DEF SlotsConserved
  <2> QED
    BY <1>2, <1>3, <2>1, <2>2
<1>6. IsFiniteSet(Outstanding(c))
  BY <1>4, FS_Subset DEF AllOutstanding
<1>7. Cardinality(Outstanding(c) \ {n}) = Cardinality(Outstanding(c)) - 1
  BY <1>6, FS_RemoveElement
<1>8. ASSUME NEW d \in Consumers
      PROVE  /\ Outstanding(d)' \subseteq Size .. tailClaim' - 1
             /\ Cardinality(Outstanding(d)') = Holdings(d)'
             /\ \A e \in Consumers \ {d} : Outstanding(d)' \cap Outstanding(e)' = {}
  <2>1. \A e \in Consumers : Outstanding(e)' \subseteq Outstanding(e)
    OBVIOUS
  <2>2. Cardinality(Outstanding(d)') = Holdings(d)'
    BY <1>7 DEF SlotsConserved
  <2> QED
    BY <2>1, <2>2 DEF SlotsConserved
<1> QED
  BY <1>2, <1>5, <1>8 DEF SlotsConserved

------------------------------------------------------------------------------
(* Which of the three each action is.                                      *)

(* Only the slot, the place and the Queue of a consumer tell what it holds.*)
LEMMA OthersHold ==
  ASSUME NEW d \in Consumers,
         pc'[d] = pc[d], slot'[d] = slot[d], pendingCommits'[d] = pendingCommits[d]
  PROVE  Outstanding(d)' = Outstanding(d) /\ Holdings(d)' = Holdings(d)
BY DEF Outstanding, Holdings, InHand

LEMMA ProducerHolds ==
  ASSUME TypeOK, NEW p \in Producers, ClaimHead(p) \/ PutStep(p)
  PROVE  /\ tailClaim' = tailClaim /\ tail' = tail /\ pendingCommits' = pendingCommits
         /\ claiming' = claiming /\ head' \in {head, head + 1}
         /\ \A d \in Consumers : pc'[d] = pc[d] /\ slot'[d] = slot[d]
<1>1. \A d \in Consumers : d # p /\ d \in Threads
  BY ThreadAssumption DEF Threads
<1>2. CASE ClaimHead(p)
  BY <1>1, <1>2 DEF ClaimHead, TypeOK, Goto
<1>3. CASE PassHead(p)
  BY <1>1, <1>3 DEF PassHead, TypeOK, Goto
<1>4. CASE AwaitHead(p)
  BY <1>1, <1>4 DEF AwaitHead, TypeOK, Goto
<1>5. CASE AdvanceHead(p)
  BY <1>1, <1>5 DEF AdvanceHead, TypeOK, Goto
<1> QED
  BY <1>2, <1>3, <1>4, <1>5 DEF PutStep

(* A consumer leaves the head, the producers and the other consumers alone.*)
LEMMA ConsumerAlone ==
  ASSUME TypeOK, NEW c \in Consumers, CallCommit(c) \/ CallClaim(c) \/ CallStep(c)
  PROVE  /\ head' = head /\ headClaim' = headClaim
         /\ \A t \in Threads \ {c} : pc'[t] = pc[t] /\ slot'[t] = slot[t]
         /\ \A d \in Consumers \ {c} : pendingCommits'[d] = pendingCommits[d]
<1> USE DEF TypeOK, Goto
<1>1. CASE CallCommit(c)
  BY <1>1 DEF CallCommit
<1>2. CASE CallClaim(c)
  BY <1>2 DEF CallClaim
<1>3. CASE GiveUp(c)
  BY <1>3 DEF GiveUp, CommitReturns
<1>4. CASE Try(c)
  BY <1>4 DEF Try
<1>5. CASE Pop(c)
  BY <1>5 DEF Pop
<1>6. CASE AwaitTail(c)
  BY <1>6 DEF AwaitTail
<1>7. CASE AdvanceTail(c)
  BY <1>7 DEF AdvanceTail
<1>8. CASE ClaimTail(c)
  BY <1>8 DEF ClaimTail
<1>9. CASE PassTail(c)
  BY <1>9 DEF PassTail
<1> QED
  BY <1>1, <1>2, <1>3, <1>4, <1>5, <1>6, <1>7, <1>8, <1>9 DEF CallStep

LEMMA OthersOfConsumer ==
  ASSUME TypeOK, NEW c \in Consumers, CallCommit(c) \/ CallClaim(c) \/ CallStep(c)
  PROVE  \A d \in Consumers \ {c} : Outstanding(d)' = Outstanding(d) /\ Holdings(d)' = Holdings(d)
BY ConsumerAlone, OthersHold DEF Threads

(* A step of a consumer that neither claims nor gives back.                *)
LEMMA MovesKeep ==
  ASSUME TypeOK, QueuesAscend, NEW c \in Consumers,
         CallCommit(c) \/ CallClaim(c) \/ GiveUp(c) \/ Try(c) \/ AwaitTail(c) \/ PassTail(c)
  PROVE  /\ Outstanding(c)' = Outstanding(c) /\ Holdings(c)' = Holdings(c)
         /\ tailClaim' = tailClaim /\ tail' = tail
<1> DEFINE q == pendingCommits[c]
<1>0. /\ c \in Threads /\ q \in Seq(Nat) /\ Len(q) \in Nat /\ Ascends(q) /\ slot[c] \in Nat
  BY QueueFacts DEF Threads
<1>1. CASE CallCommit(c) \/ CallClaim(c) \/ Try(c) \/ AwaitTail(c)
  <2>1. /\ pendingCommits' = pendingCommits /\ slot' = slot
        /\ tailClaim' = tailClaim /\ tail' = tail
    BY <1>1 DEF CallCommit, CallClaim, Try, AwaitTail
  <2>2. InHand(c)' = InHand(c)
    BY <1>0, <1>1 DEF CallCommit, CallClaim, Try, AwaitTail, InHand, TypeOK, Goto
  <2> QED
    BY <2>1, <2>2 DEF Outstanding, Holdings
<1>2. CASE GiveUp(c)
  <2>1. /\ ~InHand(c) /\ tailClaim' = tailClaim /\ tail' = tail
    BY <1>2 DEF GiveUp, InHand
  <2>2. CASE c \notin claiming \/ ~Full(c)
    <3>1. pendingCommits' = pendingCommits /\ ~InHand(c)'
      BY <1>0, <1>2, <2>2 DEF GiveUp, CommitReturns, Goto, InHand, TypeOK
    <3> QED
      BY <2>1, <3>1 DEF Outstanding, Holdings
  <2>3. CASE c \in claiming /\ Full(c)
    <3>1. q # <<>>
      BY <1>0, <2>3, SizeAssumption DEF Full
    <3>2. /\ pendingCommits'[c] = Tail(q) /\ slot'[c] = Head(q) /\ InHand(c)'
      BY <1>0, <1>2, <2>3 DEF GiveUp, CommitReturns, Goto, InHand, TypeOK
    <3>3. /\ Range(q) = Range(Tail(q)) \cup {Head(q)} /\ Len(Tail(q)) = Len(q) - 1
      BY <1>0, <3>1, TailRange
    <3>4. /\ Outstanding(c) = Range(q) /\ Outstanding(c)' = Range(Tail(q)) \cup {Head(q)}
          /\ Holdings(c) = Len(q) + 0 /\ Holdings(c)' = Len(Tail(q)) + 1
      BY <2>1, <3>2 DEF Outstanding, Holdings
    <3> QED
      BY <1>0, <2>1, <3>3, <3>4
  <2> QED
    BY <2>2, <2>3
<1>3. CASE PassTail(c)
  <2>1. /\ InHand(c) /\ tailClaim' = tailClaim /\ tail' = tail
    BY <1>3 DEF PassTail, InHand
  <2>2. /\ pendingCommits'[c] = Append(q, slot[c]) /\ ~InHand(c)'
    BY <1>0, <1>3 DEF PassTail, Goto, InHand, TypeOK
  <2>3. Range(Append(q, slot[c])) = Range(q) \cup {slot[c]} /\ Len(Append(q, slot[c])) = Len(q) + 1
    BY <1>0, AppendRange
  <2>4. /\ Outstanding(c) = Range(q) \cup {slot[c]}
        /\ Outstanding(c)' = Range(Append(q, slot[c])) \cup {}
        /\ Holdings(c) = Len(q) + 1 /\ Holdings(c)' = Len(Append(q, slot[c])) + 0
    BY <2>1, <2>2 DEF Outstanding, Holdings
  <2> QED
    BY <1>0, <2>1, <2>3, <2>4
<1> QED
  BY <1>1, <1>2, <1>3

(* ClaimTail.                                                              *)
LEMMA ClaimTakes ==
  ASSUME TypeOK, QueuesAscend, NEW c \in Consumers, ClaimTail(c)
  PROVE  /\ Outstanding(c)' = Outstanding(c) \cup {tailClaim} /\ Holdings(c)' = Holdings(c) + 1
         /\ tailClaim' = tailClaim + 1 /\ tail' = tail
<1>1. c \in Threads /\ Len(pendingCommits[c]) \in Nat
  BY QueueFacts DEF Threads
<1>2. /\ ~InHand(c) /\ InHand(c)' /\ slot'[c] = tailClaim /\ pendingCommits' = pendingCommits
      /\ tailClaim' = tailClaim + 1 /\ tail' = tail
  BY <1>1 DEF ClaimTail, InHand, TypeOK, Goto
<1>3. /\ Outstanding(c) = Range(pendingCommits[c])
      /\ Outstanding(c)' = Range(pendingCommits[c]) \cup {tailClaim}
      /\ Holdings(c) = Len(pendingCommits[c]) + 0 /\ Holdings(c)' = Len(pendingCommits[c]) + 1
  BY <1>2 DEF Outstanding, Holdings
<1> QED
  BY <1>1, <1>2, <1>3

(* Pop gives back the oldest of the Queue, AdvanceTail the slot in hand.   *)
LEMMA PopGives ==
  ASSUME TypeOK, QueuesAscend, NEW c \in Consumers, Pop(c)
  PROVE  LET n == Head(pendingCommits[c]) IN
         /\ n \in Outstanding(c) /\ n < head
         /\ Outstanding(c)' = Outstanding(c) \ {n} /\ Holdings(c)' = Holdings(c) - 1
         /\ tailClaim' = tailClaim /\ tail' = tail + 1
<1> DEFINE q == pendingCommits[c]
<1>1. /\ c \in Threads /\ q \in Seq(Nat) /\ Len(q) \in Nat /\ Ascends(q) /\ q # <<>>
  BY QueueFacts DEF Pop, Threads
<1>2. /\ ~InHand(c) /\ ~InHand(c)' /\ pendingCommits'[c] = Tail(q)
      /\ tailClaim' = tailClaim /\ tail' = tail + 1
  BY <1>1 DEF Pop, InHand, TypeOK, Goto
<1>3. /\ Head(q) \in Range(q) /\ Range(Tail(q)) = Range(q) \ {Head(q)}
      /\ Len(Tail(q)) = Len(q) - 1
  BY <1>1, TailRange
<1>4. Head(q) < head
  BY <1>3 DEF QueuesAscend
<1>5. /\ Outstanding(c) = Range(q) /\ Outstanding(c)' = Range(Tail(q))
      /\ Holdings(c) = Len(q) + 0 /\ Holdings(c)' = Len(Tail(q)) + 0
  BY <1>2 DEF Outstanding, Holdings
<1> QED
  BY <1>1, <1>2, <1>3, <1>4, <1>5

LEMMA AdvanceGives ==
  ASSUME TypeOK, QueuesAscend, NEW c \in Consumers, AdvanceTail(c)
  PROVE  /\ slot[c] \in Outstanding(c) /\ slot[c] < head
         /\ Outstanding(c)' = Outstanding(c) \ {slot[c]} /\ Holdings(c)' = Holdings(c) - 1
         /\ tailClaim' = tailClaim /\ tail' = tail + 1
<1> DEFINE q == pendingCommits[c]
<1>1. c \in Threads /\ Len(q) \in Nat /\ slot[c] \in Nat /\ Range(q) \subseteq Nat
  BY QueueFacts DEF Threads
<1>2. /\ pc[c] = "releasing" /\ InHand(c) /\ ~InHand(c)' /\ pendingCommits' = pendingCommits
      /\ tailClaim' = tailClaim /\ tail' = tail + 1
  BY <1>1 DEF AdvanceTail, InHand, TypeOK, Goto
<1>3. slot[c] < head /\ slot[c] \notin Range(q)
  BY <1>1, <1>2 DEF QueuesAscend
<1>4. /\ Outstanding(c) = Range(q) \cup {slot[c]} /\ Outstanding(c)' = Range(q)
      /\ Holdings(c) = Len(q) + 1 /\ Holdings(c)' = Len(q) + 0
  BY <1>2 DEF Outstanding, Holdings
<1> QED
  BY <1>1, <1>2, <1>3, <1>4

(* What a step does to all outstanding slots: nothing, or it claims one    *)
(* more, or it gives back one that is committed.                           *)
LEMMA ConservedKept ==
  ASSUME IInv, [Next]_vars
  PROVE  /\ SlotsConserved'
         /\ \/ AllOutstanding' = AllOutstanding /\ tailClaim' = tailClaim /\ tail' = tail
            \/ /\ AllOutstanding' = AllOutstanding \cup {tailClaim}
               /\ tailClaim' = tailClaim + 1 /\ tail' = tail
            \/ /\ \E n \in AllOutstanding : n < head /\ AllOutstanding' = AllOutstanding \ {n}
               /\ tailClaim' = tailClaim /\ tail' = tail + 1
<1> USE DEF IInv
<1>1. CASE UNCHANGED vars
  <2>1. /\ tailClaim' = tailClaim /\ tail' = tail
        /\ \A d \in Consumers : Outstanding(d)' = Outstanding(d) /\ Holdings(d)' = Holdings(d)
    BY <1>1, OthersHold DEF vars
  <2> QED
    BY <2>1, ConservedSame
<1>2. ASSUME NEW p \in Producers, ClaimHead(p) \/ PutStep(p) PROVE SlotsConserved' /\ AllOutstanding' = AllOutstanding /\ tailClaim' = tailClaim /\ tail' = tail
  <2>1. /\ tailClaim' = tailClaim /\ tail' = tail
        /\ \A d \in Consumers : Outstanding(d)' = Outstanding(d) /\ Holdings(d)' = Holdings(d)
    BY <1>2, ProducerHolds, OthersHold
  <2> QED
    BY <2>1, ConservedSame
<1>3. ASSUME NEW c \in Consumers,
             CallCommit(c) \/ CallClaim(c) \/ GiveUp(c) \/ Try(c) \/ AwaitTail(c) \/ PassTail(c)
      PROVE  /\ SlotsConserved' /\ AllOutstanding' = AllOutstanding
             /\ tailClaim' = tailClaim /\ tail' = tail
  <2>1. \A d \in Consumers \ {c} : Outstanding(d)' = Outstanding(d) /\ Holdings(d)' = Holdings(d)
    BY <1>3, OthersOfConsumer DEF CallStep
  <2>2. /\ tailClaim' = tailClaim /\ tail' = tail
        /\ Outstanding(c)' = Outstanding(c) /\ Holdings(c)' = Holdings(c)
    BY <1>3, MovesKeep
  <2>3. \A d \in Consumers : Outstanding(d)' = Outstanding(d) /\ Holdings(d)' = Holdings(d)
    BY <2>1, <2>2
  <2> QED
    BY <2>2, <2>3, ConservedSame
<1>4. ASSUME NEW c \in Consumers, ClaimTail(c)
      PROVE  /\ SlotsConserved' /\ AllOutstanding' = AllOutstanding \cup {tailClaim}
             /\ tailClaim' = tailClaim + 1 /\ tail' = tail
  <2>1. \A d \in Consumers \ {c} : Outstanding(d)' = Outstanding(d) /\ Holdings(d)' = Holdings(d)
    BY <1>4, OthersOfConsumer DEF CallStep
  <2> QED
    BY <1>4, <2>1, ClaimTakes, ConservedClaim
<1>5. ASSUME NEW c \in Consumers, Pop(c) \/ AdvanceTail(c)
      PROVE  /\ SlotsConserved' /\ tailClaim' = tailClaim /\ tail' = tail + 1
             /\ \E n \in AllOutstanding : n < head /\ AllOutstanding' = AllOutstanding \ {n}
  <2>1. \A d \in Consumers \ {c} : Outstanding(d)' = Outstanding(d) /\ Holdings(d)' = Holdings(d)
    BY <1>5, OthersOfConsumer DEF CallStep
  <2>2. PICK n \in Outstanding(c) :
          /\ n < head /\ Outstanding(c)' = Outstanding(c) \ {n} /\ Holdings(c)' = Holdings(c) - 1
          /\ tailClaim' = tailClaim /\ tail' = tail + 1
    BY <1>5, PopGives, AdvanceGives
  <2>3. SlotsConserved' /\ AllOutstanding' = AllOutstanding \ {n}
    BY <2>1, <2>2, ConservedGive
  <2>4. n \in AllOutstanding
    BY DEF AllOutstanding
  <2> QED
    BY <2>2, <2>3, <2>4
<1> QED
  BY <1>1, <1>2, <1>3, <1>4, <1>5 DEF Next, CallStep

------------------------------------------------------------------------------
(* The head.                                                               *)

LEMMA HeadKept ==
  ASSUME IInv, NEW p \in Producers, ClaimHead(p) \/ PutStep(p)
  PROVE  HeadHeld' /\ WritersNear'
<1>0. /\ p \in Threads /\ headClaim \in Nat /\ head \in Nat /\ tail \in Nat /\ Size \in Nat
      /\ \A q \in Producers : q \in Threads /\ slot[q] \in Nat
      /\ HeadHeld /\ WritersNear /\ TypeOK
  BY SizeAssumption DEF IInv, TypeOK, Threads
<1>1. CASE ClaimHead(p)
  <2>1. /\ pc[p] = "idle" /\ pc' = [pc EXCEPT ![p] = "waiting"]
        /\ slot' = [slot EXCEPT ![p] = headClaim] /\ headClaim' = headClaim + 1
        /\ head' = head /\ tail' = tail
    BY <1>1 DEF ClaimHead, Goto
  <2>2. /\ pc'[p] = "waiting" /\ slot'[p] = headClaim
        /\ \A q \in Producers \ {p} : pc'[q] = pc[q] /\ slot'[q] = slot[q]
    BY <1>0, <2>1 DEF TypeOK
  <2>3. HeadPolicy = "Unique" => headClaim = head
    BY <1>0, <2>1, ThreadAssumption DEF HeadHeld
  <2>4. ASSUME NEW q \in Producers, pc'[q] # "idle"
        PROVE  /\ slot'[q] \in head' .. headClaim' - 1
               /\ \A r \in Producers \ {q} : pc'[r] # "idle" => slot'[r] # slot'[q]
               /\ pc'[q] = "advancing" => slot'[q] = head'
    BY <1>0, <2>1, <2>2, <2>4 DEF HeadHeld
  <2>5. HeadHeld'
    BY <1>0, <2>1, <2>2, <2>3, <2>4 DEF HeadHeld
  <2>6. WritersNear'
    BY <1>0, <2>1, <2>2 DEF WritersNear
  <2> QED
    BY <2>5, <2>6
<1>2. CASE PassHead(p)
  <2>1. /\ pc[p] = "waiting" /\ slot[p] < tail + Size /\ pc' = [pc EXCEPT ![p] = "using"]
        /\ UNCHANGED <<headClaim, head, tail, slot>>
    BY <1>0, <1>2 DEF PassHead, LapsTail, Goto
  <2>2. /\ pc'[p] = "using" /\ \A q \in Producers \ {p} : pc'[q] = pc[q]
    BY <1>0, <2>1 DEF TypeOK
  <2> QED
    BY <1>0, <2>1, <2>2 DEF HeadHeld, WritersNear
<1>3. CASE AwaitHead(p)
  <2>1. /\ pc[p] = "using" /\ ~EarlierUncommitted(p) /\ pc' = [pc EXCEPT ![p] = "advancing"]
        /\ UNCHANGED <<headClaim, head, tail, slot>>
    BY <1>3 DEF AwaitHead, Goto
  <2>2. /\ pc'[p] = "advancing" /\ \A q \in Producers \ {p} : pc'[q] = pc[q]
    BY <1>0, <2>1 DEF TypeOK
  <2>3. slot[p] = head
    <3>1. slot[p] \in head .. headClaim - 1
      BY <1>0, <2>1 DEF HeadHeld
    <3>2. CASE HeadPolicy = "Shared"
      BY <1>0, <2>1, <3>1, <3>2 DEF EarlierUncommitted
    <3>3. CASE HeadPolicy = "Unique"
      BY <1>0, <3>1, <3>3 DEF HeadHeld
    <3> QED
      BY <3>2, <3>3, ThreadAssumption
  <2> QED
    BY <1>0, <2>1, <2>2, <2>3 DEF HeadHeld, WritersNear
<1>4. CASE AdvanceHead(p)
  <2>1. /\ pc[p] = "advancing" /\ pc' = [pc EXCEPT ![p] = "idle"] /\ head' = head + 1
        /\ UNCHANGED <<headClaim, tail, slot>>
    BY <1>4 DEF AdvanceHead, Goto
  <2>2. /\ pc'[p] = "idle" /\ \A q \in Producers \ {p} : pc'[q] = pc[q]
    BY <1>0, <2>1 DEF TypeOK
  <2>3. slot[p] = head /\ head < headClaim /\ slot[p] < tail + Size
    BY <1>0, <2>1 DEF HeadHeld, WritersNear
  <2>4. ASSUME NEW q \in Producers, pc'[q] # "idle"
        PROVE  /\ slot'[q] \in head' .. headClaim' - 1
               /\ \A r \in Producers \ {q} : pc'[r] # "idle" => slot'[r] # slot'[q]
               /\ pc'[q] = "advancing" => slot'[q] = head'
    <3>1. q # p /\ pc[q] # "idle" /\ pc[p] # "idle"
      BY <2>1, <2>2, <2>4
    <3>2. slot[q] # slot[p] /\ slot[q] \in head .. headClaim - 1
      BY <1>0, <3>1 DEF HeadHeld
    <3>3. pc[q] # "advancing"
      BY <1>0, <2>3, <3>1, <3>2 DEF HeadHeld
    <3>4. slot[q] \in head + 1 .. headClaim - 1
      BY <1>0, <2>3, <3>2
    <3> QED
      BY <1>0, <2>1, <2>2, <3>1, <3>3, <3>4 DEF HeadHeld
  <2>5. HeadPolicy = "Unique" => headClaim' = head'
    BY <1>0, <2>1, <2>3 DEF HeadHeld
  <2>6. HeadHeld'
    BY <1>0, <2>1, <2>3, <2>4, <2>5 DEF HeadHeld
  <2>7. WritersNear'
    BY <1>0, <2>1, <2>2, <2>3 DEF WritersNear
  <2> QED
    BY <2>6, <2>7
<1> QED
  BY <1>1, <1>2, <1>3, <1>4 DEF PutStep

(* The consumers only move the tail forward.                               *)
LEMMA HeadLeftAlone ==
  ASSUME IInv, NEW c \in Consumers, CallCommit(c) \/ CallClaim(c) \/ CallStep(c),
         tail' \in {tail, tail + 1}
  PROVE  HeadHeld' /\ WritersNear'
<1>1. /\ head' = head /\ headClaim' = headClaim
      /\ \A p \in Producers : pc'[p] = pc[p] /\ slot'[p] = slot[p] /\ slot[p] \in Nat
      /\ tail \in Nat /\ Size \in Nat /\ head \in Nat
  BY ConsumerAlone, ThreadAssumption, SizeAssumption DEF IInv, TypeOK, Threads
<1>2. HeadHeld'
  BY <1>1 DEF IInv, HeadHeld
<1>3. WritersNear'
  <2>1. head' <= tail' + Size
    <3>1. head <= tail + Size
      BY DEF IInv, WritersNear
    <3>2. head' = head /\ tail \in Nat /\ Size \in Nat /\ head \in Nat
      BY <1>1
    <3>3. CASE tail' = tail
      BY <3>1, <3>2, <3>3
    <3>4. CASE tail' = tail + 1
      BY <3>1, <3>2, <3>4
    <3> QED
      BY <3>3, <3>4
  <2>2. ASSUME NEW p \in Producers, pc'[p] \in {"using", "advancing"}
        PROVE  slot'[p] < tail' + Size
    <3>1. pc[p] \in {"using", "advancing"} /\ slot'[p] = slot[p] /\ slot[p] \in Nat
      BY <1>1, <2>2
    <3>2. slot[p] < tail + Size
      BY <3>1 DEF IInv, WritersNear
    <3> QED
      BY <1>1, <3>1, <3>2
  <2> QED
    BY <2>1, <2>2 DEF WritersNear
<1> QED
  BY <1>2, <1>3

------------------------------------------------------------------------------
(* The Queues.                                                             *)

(* What QueuesAscend says of one consumer.                                 *)
QueueAscends(c) ==
  /\ Ascends(pendingCommits[c])
  /\ \A n \in Range(pendingCommits[c]) :
       /\ n < head
       /\ pc[c] = "waiting" => n < slot[c]
       /\ pc[c] \in {"committing", "releasing"} => slot[c] < n
  /\ pc[c] \in {"using", "committing", "releasing"} => slot[c] < head
  /\ pc[c] = "popping" => pendingCommits[c] # <<>>
  /\ pc[c] \in {"claiming", "waiting", "committing", "releasing"} =>
       Len(pendingCommits[c]) < Pending

LEMMA EachAscends == QueuesAscend <=> \A c \in Consumers : QueueAscends(c)
BY DEF QueuesAscend, QueueAscends, Ascends

(* A consumer that does nothing keeps its Queue while the head goes on.    *)
LEMMA OthersAscend ==
  ASSUME TypeOK, QueuesAscend, NEW d \in Consumers, head' \in {head, head + 1},
         pc'[d] = pc[d], slot'[d] = slot[d], pendingCommits'[d] = pendingCommits[d]
  PROVE  QueueAscends(d)'
<1>1. /\ QueueAscends(d) /\ head \in Nat /\ Range(pendingCommits[d]) \subseteq Nat /\ slot[d] \in Nat
  BY EachAscends, QueueFacts DEF TypeOK
<1> QED
  BY <1>1 DEF QueueAscends

LEMMA CallerAscends ==
  ASSUME IInv, NEW c \in Consumers, CallCommit(c) \/ CallClaim(c) \/ CallStep(c)
  PROVE  QueueAscends(c)'
<1> DEFINE q == pendingCommits[c]
<1>0. /\ c \in Threads /\ q \in Seq(Nat) /\ Len(q) \in Nat /\ Len(q) <= Pending
      /\ Range(q) \subseteq Nat /\ Ascends(q) /\ slot[c] \in Nat
      /\ head \in Nat /\ head' = head /\ tailClaim \in Nat /\ Pending \in Nat \ {0}
      /\ QueueAscends(c) /\ TypeOK
  BY QueueFacts, ConsumerAlone, EachAscends, SizeAssumption DEF IInv, TypeOK, Threads
<1>1. CASE CallCommit(c)
  <2>1. pendingCommits' = pendingCommits /\ slot' = slot /\ pc'[c] = "trying"
    BY <1>0, <1>1 DEF CallCommit, Goto, TypeOK
  <2> QED
    BY <1>0, <2>1 DEF QueueAscends
<1>2. CASE CallClaim(c)
  <2>1. /\ pendingCommits' = pendingCommits /\ slot' = slot
        /\ pc'[c] = "trying" \/ (q = <<>> /\ pc'[c] = "claiming")
    BY <1>0, <1>2 DEF CallClaim, Goto, TypeOK
  <2> QED
    BY <1>0, <2>1 DEF QueueAscends
<1>3. CASE GiveUp(c)
  <2>1. CASE c \notin claiming \/ ~Full(c)
    <3>1. /\ pendingCommits' = pendingCommits /\ slot' = slot
          /\ pc'[c] = "idle" \/ (Len(q) # Pending /\ pc'[c] = "claiming")
      BY <1>0, <1>3, <2>1 DEF GiveUp, CommitReturns, Full, Goto, TypeOK
    <3> QED
      BY <1>0, <3>1 DEF QueueAscends
  <2>2. CASE c \in claiming /\ Full(c)
    <3>1. q # <<>>
      BY <1>0, <2>2 DEF Full
    <3>2. /\ pendingCommits'[c] = Tail(q) /\ slot'[c] = Head(q) /\ pc'[c] = "committing"
      BY <1>0, <1>3, <2>2 DEF GiveUp, CommitReturns, Goto, TypeOK
    <3>3. /\ Head(q) \in Range(q) /\ Range(Tail(q)) = Range(q) \ {Head(q)}
          /\ Len(Tail(q)) = Len(q) - 1 /\ Ascends(Tail(q))
          /\ \A n \in Range(Tail(q)) : Head(q) < n
      BY <1>0, <3>1, TailRange
    <3> QED
      BY <1>0, <3>2, <3>3 DEF QueueAscends
  <2> QED
    BY <2>1, <2>2
<1>4. CASE Try(c)
  <2>1. pendingCommits' = pendingCommits /\ slot' = slot /\ pc'[c] = "popping" /\ q # <<>>
    BY <1>0, <1>4 DEF Try, Goto, TypeOK
  <2> QED
    BY <1>0, <2>1 DEF QueueAscends
<1>5. CASE Pop(c)
  <2>1. pendingCommits'[c] = Tail(q) /\ slot' = slot /\ pc'[c] = "trying" /\ q # <<>>
    BY <1>0, <1>5 DEF Pop, Goto, TypeOK, QueueAscends
  <2>2. Range(Tail(q)) = Range(q) \ {Head(q)} /\ Ascends(Tail(q))
    BY <1>0, <2>1, TailRange
  <2> QED
    BY <1>0, <2>1, <2>2 DEF QueueAscends
<1>6. CASE AwaitTail(c)
  <2>1. /\ pendingCommits' = pendingCommits /\ slot' = slot
        /\ pc[c] = "committing" /\ pc'[c] = "releasing"
    BY <1>0, <1>6 DEF AwaitTail, Goto, TypeOK
  <2> QED
    BY <1>0, <2>1 DEF QueueAscends
<1>7. CASE AdvanceTail(c)
  <2>1. /\ pendingCommits' = pendingCommits /\ slot' = slot
        /\ pc[c] = "releasing" /\ pc'[c] = "claiming"
    BY <1>0, <1>7 DEF AdvanceTail, Goto, TypeOK
  <2> QED
    BY <1>0, <2>1 DEF QueueAscends
<1>8. CASE ClaimTail(c)
  <2>1. /\ pendingCommits' = pendingCommits /\ slot'[c] = tailClaim
        /\ pc[c] = "claiming" /\ pc'[c] = "waiting"
    BY <1>0, <1>8 DEF ClaimTail, Goto, TypeOK
  <2>2. ASSUME NEW n \in Range(q) PROVE n < tailClaim
    <3>1. n \in Outstanding(c)
      BY DEF Outstanding
    <3> QED
      BY <1>0, <3>1, SizeAssumption DEF IInv, SlotsConserved
  <2> QED
    BY <1>0, <2>1, <2>2 DEF QueueAscends
<1>9. CASE PassTail(c)
  <2>1. /\ pendingCommits'[c] = Append(q, slot[c]) /\ slot' = slot /\ slot[c] < head
        /\ pc[c] = "waiting" /\ pc'[c] = "using"
    BY <1>0, <1>9 DEF PassTail, Uncommitted, Goto, TypeOK
  <2>2. /\ Len(Append(q, slot[c])) = Len(q) + 1
        /\ \A i \in 1 .. Len(q) : Append(q, slot[c])[i] = q[i]
        /\ Append(q, slot[c])[Len(q) + 1] = slot[c]
        /\ Range(Append(q, slot[c])) = Range(q) \cup {slot[c]}
    BY <1>0, AppendRange
  <2>3. \A i \in 1 .. Len(q) : q[i] \in Range(q) /\ q[i] < slot[c]
    <3>1. \A i \in 1 .. Len(q) : q[i] \in Range(q)
      BY <1>0 DEF Range
    <3> QED
      BY <1>0, <2>1, <3>1 DEF QueueAscends
  <2>4. Ascends(Append(q, slot[c]))
    <3>1. ASSUME NEW i \in 1 .. Len(q) + 1, NEW j \in 1 .. Len(q) + 1, i < j
          PROVE  Append(q, slot[c])[i] < Append(q, slot[c])[j]
      <4>1. i \in 1 .. Len(q) /\ Append(q, slot[c])[i] = q[i]
        BY <1>0, <2>2, <3>1
      <4>2. CASE j = Len(q) + 1
        BY <2>2, <2>3, <4>1, <4>2
      <4>3. CASE j # Len(q) + 1
        <5>1. j \in 1 .. Len(q)
          BY <1>0, <4>3
        <5>2. Append(q, slot[c])[j] = q[j] /\ q[i] < q[j]
          BY <1>0, <2>2, <3>1, <4>1, <5>1 DEF Ascends
        <5> QED
          BY <4>1, <5>2
      <4> QED
        BY <4>2, <4>3
    <3> QED
      BY <2>2, <3>1 DEF Ascends
  <2> QED
    BY <1>0, <2>1, <2>2, <2>4 DEF QueueAscends
<1> QED
  BY <1>1, <1>2, <1>3, <1>4, <1>5, <1>6, <1>7, <1>8, <1>9 DEF CallStep

------------------------------------------------------------------------------
(* The inductive invariant.                                                *)

LEMMA IInvInit == Init => IInv
<1> SUFFICES ASSUME Init PROVE IInv
  OBVIOUS
<1>1. TypeOK
  BY TypeInit
<1>2. ASSUME NEW c \in Consumers
      PROVE  Outstanding(c) = {} /\ Holdings(c) = 0 /\ QueueAscends(c)
  <2>1. pc[c] = "idle" /\ pendingCommits[c] = <<>>
    BY DEF Init, Threads
  <2>2. Range(pendingCommits[c]) = {} /\ Len(pendingCommits[c]) = 0
    BY <2>1 DEF Range
  <2> QED
    BY <2>1, <2>2 DEF Outstanding, Holdings, InHand, QueueAscends, Ascends
<1>3. AllOutstanding = {}
  BY <1>2 DEF AllOutstanding
<1>4. SlotsConserved
  BY <1>2, <1>3, FS_EmptySet, SizeAssumption DEF SlotsConserved, Init
<1>5. HeadHeld /\ WritersNear /\ NoneBackEarly
  BY SizeAssumption DEF HeadHeld, WritersNear, NoneBackEarly, Init, Threads
<1>6. QueuesAscend
  BY <1>2, EachAscends
<1> QED
  BY <1>1, <1>4, <1>5, <1>6, SizeAssumption DEF IInv, Init

LEMMA IInvNext == IInv /\ [Next]_vars => IInv'
<1> SUFFICES ASSUME IInv, [Next]_vars PROVE IInv'
  OBVIOUS
<1>0. /\ head \in Nat /\ tail \in Nat /\ tailClaim \in Nat /\ Size \in Nat
      /\ Size <= head /\ Size <= tail /\ Size <= tailClaim
  BY SizeAssumption DEF IInv, TypeOK
<1>1. TypeOK' /\ HeadHeld' /\ WritersNear' /\ QueuesAscend' /\ head' \in {head, head + 1}
  <2>1. CASE UNCHANGED vars
    <3>1. TypeOK' /\ HeadHeld' /\ WritersNear' /\ head' = head
      BY <2>1 DEF IInv, vars, TypeOK, HeadHeld, WritersNear
    <3>2. QueuesAscend'
      BY <2>1 DEF IInv, vars, QueuesAscend
    <3> QED
      BY <3>1, <3>2
  <2>2. ASSUME NEW p \in Producers, ClaimHead(p) \/ PutStep(p)
        PROVE  TypeOK' /\ HeadHeld' /\ WritersNear' /\ QueuesAscend' /\ head' \in {head, head + 1}
    <3>1. TypeOK' /\ HeadHeld' /\ WritersNear'
      BY <2>2, TypeOfProducer, HeadKept DEF IInv
    <3>2. ASSUME NEW d \in Consumers PROVE QueueAscends(d)'
      BY <2>2, ProducerHolds, OthersAscend DEF IInv
    <3>3. QueuesAscend'
      BY <3>2 DEF QueuesAscend, QueueAscends, Ascends
    <3> QED
      BY <2>2, <3>1, <3>3, ProducerHolds DEF IInv
  <2>3. ASSUME NEW c \in Consumers, CallCommit(c) \/ CallClaim(c) \/ CallStep(c)
        PROVE  TypeOK' /\ HeadHeld' /\ WritersNear' /\ QueuesAscend' /\ head' \in {head, head + 1}
    <3>1. tail' \in {tail, tail + 1}
      BY ConservedKept
    <3>2. TypeOK' /\ HeadHeld' /\ WritersNear'
      BY <2>3, <3>1, TypeOfConsumer, HeadLeftAlone DEF IInv
    <3>3. ASSUME NEW d \in Consumers PROVE QueueAscends(d)'
      BY <2>3, ConsumerAlone, OthersAscend, CallerAscends DEF IInv, Threads
    <3>4. QueuesAscend'
      BY <3>3 DEF QueuesAscend, QueueAscends, Ascends
    <3> QED
      BY <2>3, <3>2, <3>4, ConsumerAlone DEF IInv
  <2> QED
    BY <2>1, <2>2, <2>3 DEF Next
<1>2. SlotsConserved' /\ Size <= head' /\ Size <= tail' /\ Size <= tailClaim'
  BY <1>0, <1>1, ConservedKept
<1>3. NoneBackEarly'
  <2> SUFFICES ASSUME NEW n \in Size .. tailClaim' - 1, n >= head'
               PROVE  n \in AllOutstanding'
    BY DEF NoneBackEarly
  <2>1. n >= head
    BY <1>0, <1>1
  <2>2. n \in Size .. tailClaim - 1 => n \in AllOutstanding
    BY <2>1 DEF IInv, NoneBackEarly
  <2> QED
    BY <1>0, <2>1, <2>2, ConservedKept
<1> QED
  BY <1>1, <1>2, <1>3 DEF IInv

(* IInv is an invariant.  SlotsConserved says nothing of the order in which*)
(* a Queue holds its slots, of which those given back are committed, nor   *)
(* of the head: the other parts do.                                        *)
THEOREM Invariance == Spec => []IInv
BY IInvInit, IInvNext, PTL DEF Spec

(* Slots claimed at the tail are neither lost nor with two consumers, and  *)
(* the tail counts those given back, whatever the order of tryCommit.      *)
THEOREM Conserves == Spec => []SlotsConserved
<1>1. IInv => SlotsConserved
  BY DEF IInv
<1> QED
  BY <1>1, Invariance, PTL

(* The tail stays behind the head: the slots between them are outstanding. *)
LEMMA TailBehindHead ==
  ASSUME IInv
  PROVE  tail <= head
<1>0. /\ head \in Nat /\ tail \in Nat /\ tailClaim \in Nat /\ Size \in Nat
      /\ Size <= head /\ head <= headClaim
      /\ tailClaim - tail = Cardinality(AllOutstanding)
  BY SizeAssumption DEF IInv, TypeOK, SlotsConserved, HeadHeld
<1>1. IsFiniteSet(AllOutstanding) /\ Cardinality(AllOutstanding) \in Nat
  <2>1. IsFiniteSet(Size .. tailClaim - 1)
    BY <1>0, FS_Interval
  <2>2. IsFiniteSet(AllOutstanding)
    BY <2>1, OutstandingBounded, FS_Subset DEF IInv
  <2> QED
    BY <2>2, FS_CardinalityType
<1>2. CASE tailClaim <= head
  BY <1>0, <1>1, <1>2
<1>3. CASE head < tailClaim
  <2>1. head .. tailClaim - 1 \subseteq AllOutstanding
    BY <1>0 DEF IInv, NoneBackEarly
  <2>2. Cardinality(head .. tailClaim - 1) <= Cardinality(AllOutstanding)
    BY <1>1, <2>1, FS_Subset
  <2>3. head \in Int /\ tailClaim - 1 \in Int
    BY <1>0
  <2>4. Cardinality(head .. tailClaim - 1) = tailClaim - head
    BY <1>0, <1>3, <2>3, FS_Interval
  <2> QED
    BY <1>0, <1>1, <2>2, <2>4
<1> QED
  BY <1>0, <1>2, <1>3

(* head and tail keep their distance, and a slot is used only once it is   *)
(* committed, by any number of threads at both ends.                       *)
THEOREM KeepsWindow == Spec => []Window
<1>1. IInv => Window
  <2> SUFFICES ASSUME IInv PROVE Window
    OBVIOUS
  <2>1. tail <= head
    BY TailBehindHead
  <2>2. UsesCommitted
    BY DEF IInv, UsesCommitted, HeadHeld, QueuesAscend, TypeOK, Threads
  <2> QED
    BY <2>1, <2>2 DEF IInv, Window, HeadHeld, WritersNear
<1> QED
  BY <1>1, Invariance, PTL

(* The variables keep their types; no Queue is asked to hold more than its *)
(* slots.                                                                  *)
THEOREM TypeCorrect == Spec => []TypeOK
<1>1. IInv => TypeOK
  BY DEF IInv
<1> QED
  BY <1>1, Invariance, PTL

------------------------------------------------------------------------------
(* Nobody waits for ever on the others.                                    *)

LEMMA CoveredNext ==
  ASSUME IInv, HeadCovered, [Next]_vars
  PROVE  HeadCovered'
<1>0. /\ head \in Nat /\ headClaim \in Nat /\ TypeOK /\ HeadHeld
      /\ \A q \in Producers : q \in Threads /\ slot[q] \in Nat
  BY DEF IInv, TypeOK, Threads
<1>1. ASSUME head' = head, headClaim' = headClaim,
             \A p \in Producers : slot'[p] = slot[p] /\ (pc[p] # "idle" => pc'[p] # "idle")
      PROVE  HeadCovered'
  BY <1>1 DEF HeadCovered
<1>2. CASE UNCHANGED vars
  BY <1>1, <1>2 DEF vars
<1>3. ASSUME NEW p \in Producers, ClaimHead(p) PROVE HeadCovered'
  <2>1. /\ pc[p] = "idle" /\ pc'[p] = "waiting" /\ slot'[p] = headClaim
        /\ headClaim' = headClaim + 1 /\ head' = head
        /\ \A q \in Producers \ {p} : pc'[q] = pc[q] /\ slot'[q] = slot[q]
    BY <1>0, <1>3 DEF ClaimHead, Goto, TypeOK
  <2> SUFFICES ASSUME NEW n \in head .. headClaim
               PROVE  \E q \in Producers : pc'[q] # "idle" /\ slot'[q] = n
    BY <1>0, <2>1 DEF HeadCovered
  <2>2. CASE n = headClaim
    BY <2>1, <2>2
  <2>3. CASE n # headClaim
    <3>1. n \in head .. headClaim - 1
      BY <1>0, <2>3
    <3>2. PICK q \in Producers : pc[q] # "idle" /\ slot[q] = n
      BY <3>1 DEF HeadCovered
    <3> QED
      BY <2>1, <3>2
  <2> QED
    BY <2>2, <2>3
<1>4. ASSUME NEW p \in Producers, PassHead(p) \/ AwaitHead(p) PROVE HeadCovered'
  <2>1. /\ head' = head /\ headClaim' = headClaim /\ slot' = slot
        /\ \A q \in Producers : pc[q] # "idle" => pc'[q] # "idle"
    BY <1>0, <1>4 DEF PassHead, AwaitHead, Goto, TypeOK
  <2> QED
    BY <1>1, <2>1
<1>5. ASSUME NEW p \in Producers, AdvanceHead(p) PROVE HeadCovered'
  <2>1. /\ pc[p] = "advancing" /\ head' = head + 1 /\ headClaim' = headClaim /\ slot' = slot
        /\ \A q \in Producers \ {p} : pc'[q] = pc[q]
    BY <1>0, <1>5 DEF AdvanceHead, Goto, TypeOK
  <2>2. slot[p] = head
    BY <2>1, <1>0 DEF HeadHeld
  <2> SUFFICES ASSUME NEW n \in head + 1 .. headClaim - 1
               PROVE  \E q \in Producers : pc'[q] # "idle" /\ slot'[q] = n
    BY <2>1 DEF HeadCovered
  <2>3. n \in head .. headClaim - 1 /\ n # head
    BY <1>0
  <2>4. PICK q \in Producers : pc[q] # "idle" /\ slot[q] = n
    BY <2>3 DEF HeadCovered
  <2>5. q # p
    BY <2>2, <2>3, <2>4
  <2> QED
    BY <2>1, <2>4, <2>5
<1>6. ASSUME NEW c \in Consumers, CallCommit(c) \/ CallClaim(c) \/ CallStep(c)
      PROVE  HeadCovered'
  <2>1. /\ head' = head /\ headClaim' = headClaim
        /\ \A t \in Threads \ {c} : pc'[t] = pc[t] /\ slot'[t] = slot[t]
    BY <1>0, <1>6, ConsumerAlone
  <2>2. \A p \in Producers : p \in Threads \ {c}
    BY ThreadAssumption DEF Threads
  <2> QED
    BY <1>1, <2>1, <2>2
<1> QED
  BY <1>2, <1>3, <1>4, <1>5, <1>6 DEF Next, PutStep

LEMMA Covered == Spec => []HeadCovered
<1>1. Init => HeadCovered
  BY SizeAssumption DEF Init, HeadCovered
<1> QED
  BY <1>1, CoveredNext, Invariance, PTL DEF Spec

LEMMA OutstandingFinite ==
  ASSUME IInv
  PROVE  /\ IsFiniteSet(AllOutstanding) /\ AllOutstanding \subseteq Size .. tailClaim - 1
         /\ Cardinality(AllOutstanding) = tailClaim - tail
         /\ Size \in Nat /\ tail \in Nat /\ tailClaim \in Nat /\ head \in Nat
         /\ Size <= tail /\ Size <= head /\ Size <= tailClaim
<1>0. /\ Size \in Nat /\ tail \in Nat /\ tailClaim \in Nat /\ head \in Nat
      /\ Size <= tail /\ Size <= head /\ Size <= tailClaim
      /\ Cardinality(AllOutstanding) = tailClaim - tail
  BY SizeAssumption DEF IInv, TypeOK, SlotsConserved
<1>1. AllOutstanding \subseteq Size .. tailClaim - 1
  BY OutstandingBounded DEF IInv
<1>2. IsFiniteSet(Size .. tailClaim - 1)
  BY <1>0, FS_Interval
<1> QED
  BY <1>0, <1>1, <1>2, FS_Subset

(* The consumer with the oldest slot is not held up giving it back.        *)
LEMMA GiversGoOn ==
  ASSUME IInv, Consumers # {}, \A c \in Consumers : pc[c] = "committing" /\ EarlierTaken(c)
  PROVE  FALSE
<1> DEFINE late == tail + 2 .. tailClaim - 1
<1>1. \A c \in Consumers : /\ Outstanding(c) = Range(pendingCommits[c]) \cup {slot[c]}
                           /\ slot[c] \in Nat /\ tail < slot[c] - 1
                           /\ \A n \in Range(pendingCommits[c]) : n \in Nat /\ slot[c] < n
  <2> SUFFICES ASSUME NEW c \in Consumers
               PROVE  /\ Outstanding(c) = Range(pendingCommits[c]) \cup {slot[c]}
                      /\ slot[c] \in Nat /\ tail < slot[c] - 1
                      /\ \A n \in Range(pendingCommits[c]) : n \in Nat /\ slot[c] < n
    OBVIOUS
  <2>1. slot[c] \in Nat /\ Range(pendingCommits[c]) \subseteq Nat
    BY QueueFacts DEF IInv
  <2>2. \A n \in Range(pendingCommits[c]) : slot[c] < n
    BY DEF IInv, QueuesAscend
  <2> QED
    BY <2>1, <2>2 DEF Outstanding, InHand, EarlierTaken
<1>2. /\ AllOutstanding \subseteq Size .. tailClaim - 1
      /\ Cardinality(AllOutstanding) = tailClaim - tail
      /\ tail \in Nat /\ tailClaim \in Nat
  BY OutstandingFinite
<1>3. \A c \in Consumers : \A n \in Outstanding(c) : n >= tail + 2
  BY <1>1, <1>2
<1>4. AllOutstanding \subseteq late
  <2>1. \A n \in AllOutstanding : n >= tail + 2
    BY <1>3 DEF AllOutstanding
  <2>2. \A n \in AllOutstanding : n \in Int /\ n <= tailClaim - 1
    BY <1>2
  <2> QED
    BY <1>2, <2>1, <2>2
<1>5. PICK c \in Consumers : slot[c] \in late
  <2>1. PICK c \in Consumers : TRUE
    OBVIOUS
  <2>2. slot[c] \in AllOutstanding
    BY <1>1 DEF AllOutstanding
  <2> QED
    BY <1>4, <2>1, <2>2
<1>6. tail + 2 \in Int /\ tailClaim - 1 \in Int /\ tail + 2 <= tailClaim - 1
  BY <1>2, <1>5
<1>7. IsFiniteSet(late) /\ Cardinality(late) = tailClaim - 1 - (tail + 2) + 1
  BY <1>6, FS_Interval
<1>8. Cardinality(AllOutstanding) <= Cardinality(late)
  BY <1>4, <1>7, FS_Subset
<1> QED
  BY <1>2, <1>7, <1>8

(* The places a consumer's outstanding slots can be at: one for each of its*)
(* Queue, and the first one left for the slot in hand.                     *)
At(c, i) == IF i <= Len(pendingCommits[c]) THEN pendingCommits[c][i] ELSE slot[c]

LEMMA HasPlace ==
  ASSUME IInv, NEW c \in Consumers, NEW n \in Outstanding(c)
  PROVE  \E i \in 1 .. Pending : At(c, i) = n
<1>0. /\ pendingCommits[c] \in Seq(Nat) /\ Len(pendingCommits[c]) \in Nat
      /\ Len(pendingCommits[c]) <= Pending /\ Pending \in Nat \ {0}
  BY QueueFacts, SizeAssumption DEF IInv, TypeOK
<1>1. CASE n \in Range(pendingCommits[c])
  <2>1. DOMAIN pendingCommits[c] = 1 .. Len(pendingCommits[c])
    BY <1>0
  <2>2. PICK i \in 1 .. Len(pendingCommits[c]) : n = pendingCommits[c][i]
    BY <1>1, <2>1 DEF Range
  <2>3. i \in 1 .. Pending /\ i <= Len(pendingCommits[c])
    BY <1>0, <2>2
  <2> QED
    BY <2>2, <2>3 DEF At
<1>2. CASE n \notin Range(pendingCommits[c])
  <2>1. InHand(c) /\ n = slot[c]
    BY <1>2 DEF Outstanding
  <2>2. Len(pendingCommits[c]) < Pending
    BY <2>1 DEF InHand, IInv, QueuesAscend
  <2>3. /\ Len(pendingCommits[c]) + 1 \in 1 .. Pending
        /\ ~(Len(pendingCommits[c]) + 1 <= Len(pendingCommits[c]))
    BY <1>0, <2>2
  <2> QED
    BY <2>1, <2>3 DEF At
<1> QED
  BY <1>1, <1>2

(* A full ring leaves no consumer waiting for a message, if it has as many *)
(* slots as the Queues: one waiting has a place of its Queue left.         *)
LEMMA FullRingReturns ==
  ASSUME IInv, IsFiniteSet(Consumers), Cardinality(Consumers) * Pending <= Size,
         head = tail + Size, NEW c \in Consumers, pc[c] = "waiting", Uncommitted(c)
  PROVE  FALSE
<1> DEFINE new == head .. tailClaim - 1
           held == AllOutstanding \ new
           places == Consumers \X (1 .. Pending)
           last == <<c, Pending>>
           taken == {d \in places : At(d[1], d[2]) \in held}
           at == [d \in taken |-> At(d[1], d[2])]
<1>0. /\ AllOutstanding \subseteq Size .. tailClaim - 1 /\ IsFiniteSet(AllOutstanding)
      /\ Cardinality(AllOutstanding) = tailClaim - tail
      /\ Size \in Nat /\ tail \in Nat /\ tailClaim \in Nat /\ head \in Nat
      /\ Size <= head /\ Pending \in Nat \ {0}
  BY OutstandingFinite, SizeAssumption
<1>1. slot[c] \in AllOutstanding /\ slot[c] \in new
  <2>1. slot[c] \in AllOutstanding
    BY DEF AllOutstanding, Outstanding, InHand
  <2>2. head <= slot[c]
    BY DEF Uncommitted
  <2>3. slot[c] \in Size .. tailClaim - 1
    BY <1>0, <2>1
  <2>4. slot[c] \in new
    BY ONLY <1>0, <2>2, <2>3 DEF new
  <2> QED
    BY <2>1, <2>4
<1>2. Cardinality(held) = Size
  <2>1. new \subseteq AllOutstanding
    BY <1>0 DEF IInv, NoneBackEarly
  <2>2. AllOutstanding \cap new = new
    BY <2>1
  <2>3. head \in Int /\ tailClaim - 1 \in Int /\ head <= tailClaim - 1
    BY <1>0, <1>1
  <2>4. Cardinality(new) = tailClaim - 1 - head + 1
    BY <2>3, FS_Interval
  <2>5. Cardinality(held) = Cardinality(AllOutstanding) - Cardinality(AllOutstanding \cap new)
    BY <1>0, FS_Difference
  <2>6. Cardinality(held) = (tailClaim - tail) - (tailClaim - 1 - head + 1)
    BY ONLY <1>0, <2>2, <2>4, <2>5
  <2> QED
    BY ONLY <1>0, <2>6, head = tail + Size
<1>3. at \in Surjection(taken, held)
  <2>1. at \in [taken -> held]
    OBVIOUS
  <2>2. ASSUME NEW n \in held PROVE \E d \in taken : at[d] = n
    <3>1. PICK e \in Consumers : n \in Outstanding(e)
      BY DEF AllOutstanding
    <3>2. PICK i \in 1 .. Pending : At(e, i) = n
      BY <3>1, HasPlace
    <3>3. <<e, i>> \in taken /\ at[<<e, i>>] = n
      BY <3>2
    <3> QED
      BY <3>3
  <2> HIDE DEF at, taken, held
  <2> QED
    BY <2>1, <2>2 DEF Surjection
<1>4. IsFiniteSet(places) /\ Cardinality(places) = Cardinality(Consumers) * Pending
  <2>1. Pending \in Int /\ 1 \in Int /\ ~(1 > Pending) /\ Pending - 1 + 1 = Pending
    BY <1>0
  <2>2. IsFiniteSet(1 .. Pending) /\ Cardinality(1 .. Pending) = Pending
    BY <2>1, FS_Interval
  <2> QED
    BY <2>2, FS_Product
<1>5. last \in places /\ last \notin taken
  <2>1. Len(pendingCommits[c]) < Pending /\ Len(pendingCommits[c]) \in Nat
    BY QueueFacts DEF IInv, QueuesAscend
  <2>2. At(c, Pending) = slot[c]
    BY <1>0, <2>1 DEF At
  <2> QED
    BY <1>0, <1>1, <2>2
<1> HIDE DEF at, taken, held, places, last
<1>6. taken \subseteq places \ {last}
  BY <1>5 DEF taken
<1>7. IsFiniteSet(places \ {last}) /\ Cardinality(places \ {last}) = Cardinality(places) - 1
  BY <1>4, <1>5, FS_RemoveElement
<1>8. IsFiniteSet(taken) /\ Cardinality(taken) <= Cardinality(places \ {last})
  BY <1>6, <1>7, FS_Subset
<1>9. Cardinality(held) <= Cardinality(taken)
  BY <1>3, <1>8, FS_Surjection
<1>10. Cardinality(taken) \in Nat /\ Cardinality(places) \in Nat
  BY <1>4, <1>8, FS_CardinalityType
<1> QED
  BY <1>0, <1>2, <1>4, <1>7, <1>8, <1>9, <1>10

(* The waits at the two ends never close a circle, for any number of       *)
(* producers and consumers, if the ring has as many slots as the Queues.   *)
THEOREM NeverLocksUp ==
  ASSUME IsFiniteSet(Consumers), Consumers # {}, Cardinality(Consumers) * Pending <= Size
  PROVE  Spec => []NoStandoff
<1>1. ASSUME IInv, HeadCovered, ~NoStandoff PROVE FALSE
  <2>0. /\ head \in Nat /\ headClaim \in Nat /\ tail \in Nat /\ Size \in Nat
        /\ HeadHeld /\ WritersNear /\ TypeOK
    BY <1>1, SizeAssumption DEF IInv, TypeOK
  <2>1. /\ \E p \in Producers : pc[p] # "idle"
        /\ \A p \in Producers : pc[p] # "idle" => PutHeldUp(p)
        /\ \A c \in Consumers : CallHeldUp(c)
    BY <1>1 DEF NoStandoff
  <2>2. head \in head .. headClaim - 1
    BY <2>0, <2>1 DEF HeadHeld
  <2>3. PICK p \in Producers : pc[p] # "idle" /\ slot[p] = head
    BY <1>1, <2>2 DEF HeadCovered
  <2>4. LapsTail(p)
    BY <2>0, <2>1, <2>3 DEF PutHeldUp, EarlierUncommitted
  <2>5. head = tail + Size
    BY <2>0, <2>3, <2>4 DEF LapsTail, WritersNear
  <2>6. CASE \E c \in Consumers : pc[c] = "waiting" /\ Uncommitted(c)
    BY <1>1, <2>5, <2>6, FullRingReturns
  <2>7. CASE ~\E c \in Consumers : pc[c] = "waiting" /\ Uncommitted(c)
    BY <1>1, <2>1, <2>7, GiversGoOn DEF CallHeldUp
  <2> QED
    BY <2>6, <2>7
<1>2. IInv /\ HeadCovered => NoStandoff
  BY <1>1
<1> QED
  BY <1>2, Invariance, Covered, PTL
==============================================================================
