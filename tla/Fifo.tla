-------------------------------- MODULE Fifo ---------------------------------
(***************************************************************************)
(* The lock-free queue of include/L3/util/fifo.h: "constructed using the   *)
(* same techniques as the Disruptor", with the producers' claim counter,   *)
(* the cursor of what is committed and the one consumer's tail in one      *)
(* object.  _head and _tail name the next slot and start at size + 1,      *)
(* _cursor names the last committed one and starts at size.                *)
(*                                                                         *)
(* put(m) is claimHead, a copy, commitHead; get() is claimTail, a copy,    *)
(* commitTail.  Each access to an atomic another thread uses, and each     *)
(* copy, is a step; another turn of a spin loop changes nothing and is     *)
(* none.  claimTail claims nothing, so the queue has one consumer.         *)
(***************************************************************************)
EXTENDS Integers, Sequences

CONSTANTS
  Producers, \* threads that put
  Consumer,  \* the thread that gets
  Size,      \* slots in the ring
  Msgs,
  NoMsg,     \* what a slot holds before the first put
  MaxPuts,   \* bound: puts started in a behaviour
  Published  \* the name Disruptor gives to _cursor

ASSUME SizeAssumption == Size \in Nat \ {0} /\ MaxPuts \in Nat

ASSUME ThreadAssumption ==
  /\ Consumer \notin Producers
  /\ Published # Consumer
  /\ NoMsg \notin Msgs

VARIABLES
  head,   \* _head
  tail,   \* _tail
  cursor, \* _cursor
  ring,   \* _ring
  pc,     \* where each producer is in put
  slot,   \* Put::_slot of each producer
  msg,    \* what each producer puts
  at,     \* where the consumer is in get
  log,    \* history: the messages in commit order
  got     \* history: what get has returned

vars == <<head, tail, cursor, ring, pc, slot, msg, at, log, got>>

Index(i) == i % Size

Init ==
  /\ head = Size + 1
  /\ tail = Size + 1
  /\ cursor = Size
  /\ ring = [i \in 0 .. Size - 1 |-> NoMsg]
  /\ pc = [p \in Producers |-> "idle"]
  /\ slot = [p \in Producers |-> Size + 1]
  /\ msg = [p \in Producers |-> NoMsg]
  /\ at = "claiming"
  /\ log = <<>>
  /\ got = <<>>

------------------------------------------------------------------------------
(* put.                                                                    *)

(* claimHead: the fetch_add.                                               *)
ClaimHead(p, m) ==
  /\ pc[p] = "idle"
  /\ head < Size + 1 + MaxPuts
  /\ slot' = [slot EXCEPT ![p] = head]
  /\ head' = head + 1
  /\ msg' = [msg EXCEPT ![p] = m]
  /\ pc' = [pc EXCEPT ![p] = "claiming"]
  /\ UNCHANGED <<tail, cursor, ring, at, log, got>>

(* Mutant: the test lets head catch up with the slot tail stands on.       *)
LapsTailOneLate(p) == tail < slot[p] - Size

(* claimHead: the condition of its loop.                                   *)
LapsTail(p) == tail <= slot[p] - Size

(* claimHead: the loop ends.                                               *)
PassHead(p) ==
  /\ pc[p] = "claiming"
  /\ ~LapsTail(p)
  /\ pc' = [pc EXCEPT ![p] = "writing"]
  /\ UNCHANGED <<head, tail, cursor, ring, slot, msg, at, log, got>>

(* Put::operator=: the copy.                                               *)
WriteSlot(p) ==
  /\ pc[p] = "writing"
  /\ ring' = [ring EXCEPT ![Index(slot[p])] = msg[p]]
  /\ pc' = [pc EXCEPT ![p] = "committing"]
  /\ UNCHANGED <<head, tail, cursor, slot, msg, at, log, got>>

(* Mutants: commitHead without its --slot, and with one too many.          *)
WaitsForItself(p) == cursor < slot[p]
WaitsTooLittle(p) == cursor < slot[p] - 2

(* commitHead: an earlier put is not committed yet.                        *)
EarlierPending(p) == cursor < slot[p] - 1

(* commitHead: the loop ends.                                              *)
AwaitTurn(p) ==
  /\ pc[p] = "committing"
  /\ ~EarlierPending(p)
  /\ pc' = [pc EXCEPT ![p] = "advancing"]
  /\ UNCHANGED <<head, tail, cursor, ring, slot, msg, at, log, got>>

(* commitHead: the fetch_add, outside any CAS.                             *)
AdvanceCursor(p) ==
  /\ pc[p] = "advancing"
  /\ cursor' = cursor + 1
  /\ log' = Append(log, msg[p])
  /\ pc' = [pc EXCEPT ![p] = "idle"]
  /\ UNCHANGED <<head, tail, ring, slot, msg, at, got>>

------------------------------------------------------------------------------
(* get.  Nobody else writes _tail, so the slot of a Get is its value.      *)

(* Mutant: the reader's test as if tail counted from cursor's start.       *)
EmptyOneSoon == cursor < tail + 1

(* claimTail: the condition of its loop.                                   *)
Empty == cursor < tail

(* claimTail: the loop ends.                                               *)
ClaimTail ==
  /\ at = "claiming"
  /\ ~Empty
  /\ at' = "reading"
  /\ UNCHANGED <<head, tail, cursor, ring, pc, slot, msg, log, got>>

(* Get::operator const value_type&: the copy.                              *)
ReadSlot ==
  /\ at = "reading"
  /\ got' = Append(got, ring[Index(tail)])
  /\ at' = "releasing"
  /\ UNCHANGED <<head, tail, cursor, ring, pc, slot, msg, log>>

(* Get::~Get: commitTail.                                                  *)
CommitTail ==
  /\ at = "releasing"
  /\ tail' = tail + 1
  /\ at' = "claiming"
  /\ UNCHANGED <<head, cursor, ring, pc, slot, msg, log, got>>

------------------------------------------------------------------------------
PutStep(p) == PassHead(p) \/ WriteSlot(p) \/ AwaitTurn(p) \/ AdvanceCursor(p)

GetStep == ClaimTail \/ ReadSlot \/ CommitTail

Next ==
  \/ \E p \in Producers, m \in Msgs : ClaimHead(p, m)
  \/ \E p \in Producers : PutStep(p)
  \/ GetStep

Spec == Init /\ [][Next]_vars

(* Every thread goes on with the put or get it is in, and the consumer     *)
(* gets again and again.                                                   *)
Fairness == WF_vars(GetStep) /\ \A p \in Producers : WF_vars(PutStep(p))

FairSpec == Spec /\ Fairness
------------------------------------------------------------------------------
(* Type correctness.                                                       *)
TypeOK ==
  /\ head \in Nat /\ tail \in Nat \ {0} /\ cursor \in Nat
  /\ ring \in [0 .. Size - 1 -> Msgs \cup {NoMsg}]
  /\ pc \in [Producers -> {"idle", "claiming", "writing", "committing", "advancing"}]
  /\ slot \in [Producers -> Nat \ {0}]
  /\ msg \in [Producers -> Msgs \cup {NoMsg}]
  /\ \A p \in Producers : pc[p] # "idle" => msg[p] \in Msgs
  /\ at \in {"claiming", "reading", "releasing"}
  /\ log \in Seq(Msgs) /\ got \in Seq(Msgs)

------------------------------------------------------------------------------
(* Properties.                                                             *)

(* fifo.h: "the same techniques as the Disruptor".  The Fifo is a          *)
(* Disruptor with the Shared policy and one consumer whose batches are of  *)
(* one message: _head and _tail count one more than its claim and its      *)
(* reader's cursor, _cursor as much as its cursor, and every slot is kept  *)
(* one place further in the ring.                                          *)
Threads == Producers \cup {Consumer}
RingBarrier == [t \in Threads |-> IF t = Consumer THEN {Published} ELSE {Consumer}]
RingCursor == [c \in {Consumer, Published} |-> IF c = Consumer THEN tail - 1 ELSE cursor]
RingSlots == [i \in 0 .. Size - 1 |-> ring[Index(i + 1)]]
RingPc == [t \in Threads |-> IF t # Consumer THEN pc[t]
                             ELSE IF at = "claiming" THEN "claiming" ELSE "reading"]
RingSlot == [p \in Producers |-> slot[p] - 1]
RingSeen == [t \in Threads |-> Size]
RingIt == [c \in {Consumer} |-> IF at = "releasing" THEN tail ELSE tail - 1]
RingEnd == [c \in {Consumer} |-> IF at = "claiming" THEN tail - 1 ELSE tail]
RingGot == [c \in {Consumer} |-> got]

Ring == INSTANCE Disruptor WITH
  Consumers <- {Consumer}, Barrier <- RingBarrier, CommitPolicy <- "Shared", BatchSizes <- {1},
  cursor <- RingCursor, claim <- head - 1, ring <- RingSlots, pc <- RingPc, slot <- RingSlot,
  todo <- RingBarrier, seen <- RingSeen, it <- RingIt, end <- RingEnd, got <- RingGot

RingPromise == Ring!Spec

(* fifo.h, claimHead: "we cannot write to it until we are sure we will not *)
(* overwrite data that has not yet been consumed".  No producer that may   *)
(* write is on the storage of a message still to get or of another put.    *)
NoOverwrite == Ring!NoOverwrite

(* What get has returned is what was put, in the order of the commits,     *)
(* none lost, repeated or torn: the off-by-one of head, tail and cursor    *)
(* is the same in the three tests.                                         *)
GetsWhatWasPut == Ring!ReadsTheLog

(* The waits of claimHead and commitHead for the consumer and for earlier  *)
(* puts, and that of claimTail, never close a circle: while a put is under *)
(* way, a put that does not wait or the consumer can go on.                *)
PutHeldUp(p) ==
  \/ pc[p] = "claiming" /\ LapsTail(p)
  \/ pc[p] = "committing" /\ EarlierPending(p)
GetHeldUp == at = "claiming" /\ Empty
NoStandoff ==
  (\E p \in Producers : pc[p] # "idle") =>
    ~GetHeldUp \/ \E p \in Producers : pc[p] # "idle" /\ ~PutHeldUp(p)

(* A put that has begun ends, whatever the other producers do.             *)
PutReturns == \A p \in Producers : pc[p] = "claiming" ~> pc[p] = "idle"

(* Whatever is committed is got, the last message too.                     *)
GetDrains == \A n \in 1 .. MaxPuts : Len(log) = n ~> Len(got) >= n
==============================================================================
