------------------------------ MODULE Disruptor ------------------------------
(***************************************************************************)
(* The lock-free ring that carries orders between threads                  *)
(* (include/L3/static/{put,get,barrier,sequence,disruptor}.h, util/ring.h).*)
(*                                                                         *)
(* A producer thread runs  Put() = m :  claim a slot number, spin until    *)
(* the consumers its barrier lists have released the slot one lap behind,  *)
(* copy the message, spin until every earlier slot is committed, advance   *)
(* the ring's cursor.  A consumer thread runs  for(m : Get()) :  spin      *)
(* until every cursor of its barrier is ahead of its own, read the batch   *)
(* slot by slot, then store the end of the batch in its own cursor.        *)
(*                                                                         *)
(* Each atomic load, store and fetch_add on a shared cursor, and each      *)
(* message copy, is a step of its own; what a thread does in between is    *)
(* local and belongs to the step before it.                                *)
(***************************************************************************)
EXTENDS Integers, Sequences, FiniteSets

CONSTANTS
  Producers,     \* threads that Put
  Consumers,     \* threads that Get, each one a Get type with its own cursor
  Published,     \* the name, in a barrier, of the ring's own cursor
  Barrier,       \* thread -> the cursors its Barrier<...> lists
  CommitPolicy,  \* "Shared" or "Unique"
  BatchSizes,    \* the maxBatchSize arguments given to Get(maxBatchSize)
  Size,          \* slots in the ring
  Msgs,          \* messages
  NoMsg,         \* what a ring slot holds before the first write
  MaxPuts        \* bound: Puts started in a behaviour

Threads == Producers \cup Consumers
Cursors == Consumers \cup {Published}

(* The cursors a thread follows, directly or through other consumers: the  *)
(* least set that holds its barrier and the barriers of its members.       *)
Behind(t) ==
  {d \in Cursors : \A S \in SUBSET Cursors :
     (/\ Barrier[t] \subseteq S
      /\ \A b \in S \cap Consumers : Barrier[b] \subseteq S) => d \in S}

ASSUME SizeAssumption == Size \in Nat \ {0} /\ MaxPuts \in Nat

ASSUME ThreadAssumption ==
  /\ Consumers # {} /\ IsFiniteSet(Consumers)
  /\ Producers \cap Consumers = {}
  /\ Published \notin Consumers
  /\ BatchSizes \subseteq Nat \ {0}
  /\ NoMsg \notin Msgs

(* Every chain of barriers starts at the ring's cursor, and the producers' *)
(* barrier ends every chain.  No consumer follows itself: a barrier names  *)
(* Get types, and a type's arguments are declared before it.               *)
ASSUME BarrierAssumption ==
  /\ Barrier \in [Threads -> (SUBSET Cursors) \ {{}}]
  /\ \A p \in Producers : Barrier[p] \subseteq Consumers /\ Consumers \subseteq Behind(p)
  /\ \A c \in Consumers : Published \in Behind(c) /\ c \notin Behind(c)

ASSUME PolicyAssumption ==
  /\ CommitPolicy \in {"Shared", "Unique"}
  /\ CommitPolicy = "Unique" => \A p, q \in Producers : p = q

VARIABLES
  cursor,  \* Disruptor::cursor and the Get::cursors
  claim,   \* Put::cursor, the next slot to claim
  ring,    \* the slots
  pc,      \* where each thread is
  slot,    \* the slot each producer claimed
  msg,     \* the message each producer is putting
  todo,    \* the cursors of its barrier a thread has still to load
  seen,    \* the least cursor it has loaded so far
  it, end, \* each consumer's position in its batch, and the batch's end
  log,     \* history: the messages in commit order
  got      \* history: what each consumer has read

vars == <<cursor, claim, ring, pc, slot, msg, todo, seen, it, end, log, got>>

Index(i) == i % Size

Init ==
  /\ cursor = [c \in Cursors |-> Size]
  /\ claim = Size
  /\ ring = [i \in 0 .. Size - 1 |-> NoMsg]
  /\ pc = [t \in Threads |-> IF t \in Producers THEN "idle" ELSE "claiming"]
  /\ slot = [p \in Producers |-> Size]
  /\ msg = [p \in Producers |-> NoMsg]
  /\ todo = Barrier
  /\ seen = [t \in Threads |-> Size]
  /\ it = [c \in Consumers |-> Size]
  /\ end = [c \in Consumers |-> Size]
  /\ log = <<>>
  /\ got = [c \in Consumers |-> <<>>]

------------------------------------------------------------------------------
(* Barrier<...>::least() loads the listed cursors one after the other, in  *)
(* an order C++ leaves open, and returns the smallest value it met.        *)

Min2(a, b) == IF a <= b THEN a ELSE b

(* Mutant: only the cursor loaded last counts.                             *)
LastLoaded(t, b) == cursor[b]

(* The running minimum once cursor b is loaded too.                        *)
Least(t, b) == IF todo[t] = Barrier[t] THEN cursor[b] ELSE Min2(seen[t], cursor[b])

InLeast(t) == pc[t] = "claiming"

(* A load that is not the last one of a call of least().                   *)
LoadCursor(t, b) ==
  /\ InLeast(t)
  /\ b \in todo[t]
  /\ todo[t] # {b}
  /\ seen' = [seen EXCEPT ![t] = Least(t, b)]
  /\ todo' = [todo EXCEPT ![t] = @ \ {b}]
  /\ UNCHANGED <<cursor, claim, ring, pc, slot, msg, it, end, log, got>>

(* Mutant: the next call goes on from the minimum of this one.             *)
LeastGoesStale(t, b) ==
  /\ InLeast(t)
  /\ todo[t] = {b}
  /\ UNCHANGED <<claim, ring, slot, msg, todo, seen, log, got>>

(* The last load: least() returns Least(t, b); the next call starts over.  *)
LeastReturns(t, b) ==
  /\ InLeast(t)
  /\ todo[t] = {b}
  /\ todo' = [todo EXCEPT ![t] = Barrier[t]]
  /\ UNCHANGED <<claim, ring, slot, msg, seen, log, got>>

------------------------------------------------------------------------------
(* Put::claim: fetch_add on Put::cursor.  The caller's message is fixed.   *)
ClaimSlot(p, m) ==
  /\ pc[p] = "idle"
  /\ claim < Size + MaxPuts
  /\ slot' = [slot EXCEPT ![p] = claim]
  /\ claim' = claim + 1
  /\ msg' = [msg EXCEPT ![p] = m]
  /\ pc' = [pc EXCEPT ![p] = "claiming"]
  /\ UNCHANGED <<cursor, ring, todo, seen, it, end, log, got>>

WrapAt(p) == slot[p] - Size

(* Put::claim: another turn of  while(Barrier::least() <= wrapAt).         *)
SpinOnClaim(p, b) ==
  /\ LeastReturns(p, b)
  /\ Least(p, b) <= WrapAt(p)
  /\ UNCHANGED <<cursor, pc, it, end>>

(* Put::claim: the loop ends and claim returns the slot.                   *)
PassClaim(p, b) ==
  /\ LeastReturns(p, b)
  /\ Least(p, b) > WrapAt(p)
  /\ pc' = [pc EXCEPT ![p] = "writing"]
  /\ UNCHANGED <<cursor, it, end>>

(* Mutant: the message goes where the ring's cursor stands.                *)
WriteAtCursor(p) ==
  /\ pc[p] = "writing"
  /\ ring' = [ring EXCEPT ![Index(cursor[Published])] = msg[p]]
  /\ pc' = [pc EXCEPT ![p] = "committing"]
  /\ UNCHANGED <<cursor, claim, slot, msg, todo, seen, it, end, log, got>>

(* Put::operator=: copy the message into the ring.                         *)
WriteSlot(p) ==
  /\ pc[p] = "writing"
  /\ ring' = [ring EXCEPT ![Index(slot[p])] = msg[p]]
  /\ pc' = [pc EXCEPT ![p] = "committing"]
  /\ UNCHANGED <<cursor, claim, slot, msg, todo, seen, it, end, log, got>>

(* Mutant: the Unique policy with several producers.                       *)
NeverSpin(p) == FALSE

(* CommitPolicy::operator(): Unique never spins, Shared spins while an     *)
(* earlier slot is not committed.                                          *)
ShouldSpin(p) == CommitPolicy = "Shared" /\ cursor[Published] < slot[p]

(* Put::commit: the spin ends.                                             *)
AwaitTurn(p) ==
  /\ pc[p] = "committing"
  /\ ~ShouldSpin(p)
  /\ pc' = [pc EXCEPT ![p] = "advancing"]
  /\ UNCHANGED <<cursor, claim, ring, slot, msg, todo, seen, it, end, log, got>>

(* Mutant: publish every slot claimed so far.                              *)
PublishClaimed(p) ==
  /\ pc[p] = "advancing"
  /\ cursor' = [cursor EXCEPT ![Published] = claim]
  /\ log' = Append(log, msg[p])
  /\ pc' = [pc EXCEPT ![p] = "idle"]
  /\ UNCHANGED <<claim, ring, slot, msg, todo, seen, it, end, got>>

(* Put::commit: fetch_add on Disruptor::cursor, outside any CAS.           *)
AdvanceCursor(p) ==
  /\ pc[p] = "advancing"
  /\ cursor' = [cursor EXCEPT ![Published] = @ + 1]
  /\ log' = Append(log, msg[p])
  /\ pc' = [pc EXCEPT ![p] = "idle"]
  /\ UNCHANGED <<claim, ring, slot, msg, todo, seen, it, end, got>>

------------------------------------------------------------------------------
(* Get::claim: another turn of  while((end = least()) <= begin);  it is    *)
(* also a Get(noBlock) that finds nothing, whose destructor stores nothing.*)
SpinOnGet(c, b) ==
  /\ LeastReturns(c, b)
  /\ Least(c, b) <= cursor[c]
  /\ UNCHANGED <<cursor, pc, it, end>>

(* Mutants: a batch that goes one slot too far, or stops one too early.    *)
EndsPastBarrier(c, least) == {least + 1}
EndsOneShort(c, least) == {least - 1}

(* The ends a Get can have: all that least() allows, or maxBatchSize.      *)
BatchEnds(c, least) == {least} \cup {Min2(least, cursor[c] + n) : n \in BatchSizes}

(* Get::Get: a non-empty batch [begin, end).                               *)
ClaimBatch(c, b) ==
  /\ LeastReturns(c, b)
  /\ Least(c, b) > cursor[c]
  /\ \E e \in BatchEnds(c, Least(c, b)) : end' = [end EXCEPT ![c] = e]
  /\ it' = [it EXCEPT ![c] = cursor[c]]
  /\ pc' = [pc EXCEPT ![c] = "reading"]
  /\ UNCHANGED cursor

(* The loop body on *it, then ++it.                                        *)
ReadSlot(c) ==
  /\ pc[c] = "reading"
  /\ it[c] # end[c]
  /\ got' = [got EXCEPT ![c] = Append(@, ring[Index(it[c])])]
  /\ it' = [it EXCEPT ![c] = @ + 1]
  /\ UNCHANGED <<cursor, claim, ring, pc, slot, msg, todo, seen, end, log>>

(* Get::~Get: the whole batch is released at once.                         *)
ReleaseBatch(c) ==
  /\ pc[c] = "reading"
  /\ it[c] = end[c]
  /\ cursor' = [cursor EXCEPT ![c] = end[c]]
  /\ pc' = [pc EXCEPT ![c] = "claiming"]
  /\ UNCHANGED <<claim, ring, slot, msg, todo, seen, it, end, log, got>>

------------------------------------------------------------------------------
(* A producer inside a Put, after its claim of a slot number.              *)
PutStep(p) ==
  \/ \E b \in Consumers :
       \/ LoadCursor(p, b)
       \/ SpinOnClaim(p, b)
       \/ PassClaim(p, b)
  \/ WriteSlot(p)
  \/ AwaitTurn(p)
  \/ AdvanceCursor(p)

GetStep(c) ==
  \/ \E b \in Cursors :
       \/ LoadCursor(c, b)
       \/ SpinOnGet(c, b)
       \/ ClaimBatch(c, b)
  \/ ReadSlot(c)
  \/ ReleaseBatch(c)

Next ==
  \/ \E p \in Producers, m \in Msgs : ClaimSlot(p, m)
  \/ \E p \in Producers : PutStep(p)
  \/ \E c \in Consumers : GetStep(c)

Spec == Init /\ [][Next]_vars

(* The operating system keeps scheduling every thread: a Put that is under *)
(* way and a Get loop go on.  Nothing makes a producer start another Put.  *)
Fairness ==
  /\ \A p \in Producers : WF_vars(PutStep(p))
  /\ \A c \in Consumers : WF_vars(GetStep(c))

FairSpec == Spec /\ Fairness
------------------------------------------------------------------------------
(* Type correctness.                                                       *)
TypeOK ==
  /\ cursor \in [Cursors -> Nat]
  /\ claim \in Nat
  /\ ring \in [0 .. Size - 1 -> Msgs \cup {NoMsg}]
  /\ pc \in [Threads -> {"idle", "claiming", "writing", "committing", "advancing", "reading"}]
  /\ \A p \in Producers : pc[p] # "reading"
  /\ \A c \in Consumers : pc[c] \in {"claiming", "reading"}
  /\ slot \in [Producers -> Nat]
  /\ msg \in [Producers -> Msgs \cup {NoMsg}]
  /\ \A p \in Producers : pc[p] # "idle" => msg[p] \in Msgs
  /\ todo \in [Threads -> SUBSET Cursors]
  /\ seen \in [Threads -> Nat]
  /\ it \in [Consumers -> Nat]
  /\ end \in [Consumers -> Nat]
  /\ log \in Seq(Msgs)
  /\ got \in [Consumers -> Seq(Msgs)]

------------------------------------------------------------------------------
(* The parts of the inductive invariant.                                   *)

Holding(p) == pc[p] # "idle"
MayWrite(p) == pc[p] \in {"writing", "committing", "advancing"}
HasWritten(p) == pc[p] \in {"committing", "advancing"}

(* No consumer's cursor is ahead of a cursor it follows.                   *)
CursorsOrdered ==
  \A c \in Consumers : \A d \in Behind(c) : cursor[c] <= cursor[d]

(* A running minimum is a lower bound of the cursors it is made of.        *)
LoadsAreBounds ==
  \A t \in Threads :
    /\ todo[t] # {} /\ todo[t] \subseteq Barrier[t]
    /\ \A b \in Barrier[t] \ todo[t] : seen[t] <= cursor[b]

(* A batch lies behind every cursor of the consumer's barrier.             *)
BatchesBounded ==
  \A c \in Consumers :
    /\ cursor[c] <= it[c]
    /\ pc[c] = "reading" => it[c] <= end[c] /\ \A b \in Barrier[c] : end[c] <= cursor[b]
    /\ pc[c] = "claiming" => it[c] = cursor[c]

(* The slots between the ring's cursor and the claim cursor are held by    *)
(* the producers inside a Put, one each.                                   *)
SlotsHeld ==
  /\ Size <= cursor[Published] /\ cursor[Published] <= claim
  /\ \A p \in Producers : Holding(p) => slot[p] \in cursor[Published] .. claim - 1
  /\ \A p, q \in Producers : Holding(p) /\ Holding(q) /\ slot[p] = slot[q] => p = q
  /\ \A i \in cursor[Published] .. claim - 1 : \E p \in Producers : Holding(p) /\ slot[p] = i

(* Every consumer has released the slot one lap behind one being written.  *)
ClaimsClear ==
  \A p \in Producers : MayWrite(p) => \A c \in Consumers : cursor[c] > WrapAt(p)

(* The ring holds what was committed until every consumer has released it, *)
(* and what was written until it is committed.                             *)
RingHolds ==
  /\ \A p \in Producers : HasWritten(p) => ring[Index(slot[p])] = msg[p]
  /\ \A i \in Size .. cursor[Published] - 1 :
       (\E c \in Consumers : cursor[c] <= i) => ring[Index(i)] = log[i - Size + 1]

(* The histories are as long as the cursors say.                           *)
HistoriesAligned ==
  /\ Len(log) = cursor[Published] - Size
  /\ \A c \in Consumers : Len(got[c]) = it[c] - Size

------------------------------------------------------------------------------
(* Properties.                                                             *)

(* put.h, Put::claim: "we cannot write to it until we are sure we will not *)
(* overwrite data that has not yet been consumed".  A producer that may    *)
(* write is never on the storage of a slot a consumer has still to read or *)
(* is reading, nor on that of another producer that may write.             *)
NoOverwrite ==
  \A p \in Producers : MayWrite(p) =>
    /\ \A c \in Consumers : \A i \in cursor[c] .. cursor[Published] - 1 :
         Index(i) # Index(slot[p])
    /\ \A q \in Producers \ {p} : MayWrite(q) => Index(slot[q]) # Index(slot[p])

(* put.h, Put::commit: "No need to CAS. Only we could have been waiting    *)
(* for this particular cursor value".  Whoever is about to advance the     *)
(* ring's cursor commits exactly the slot it claimed, and is alone.        *)
CommitIsMine ==
  \A p \in Producers : pc[p] = "advancing" =>
    /\ cursor[Published] = slot[p]
    /\ \A q \in Producers \ {p} : pc[q] # "advancing"

(* Get, in each consumer: what it has read is the committed sequence, from *)
(* its start, in order, with nothing lost, repeated or torn.               *)
ReadsTheLog ==
  \A c \in Consumers :
    /\ Len(got[c]) <= Len(log)
    /\ \A k \in 1 .. Len(got[c]) : got[c][k] = log[k]

(* The barrier of a Get (OrderRingServer.cpp: ROUTE_ORDER_GET behind       *)
(* JOURNAL_ORDER_GET): a consumer reads a message only once every consumer *)
(* it follows has read it and released its whole batch.                    *)
ReadAfterUpstream ==
  \A c \in Consumers : \A b \in Behind(c) : it[c] <= cursor[b]

(* L3/util/README: a cursor "will never go backwards", which is why put.h  *)
(* lets a producer act on a value of the barrier it loaded earlier.  And   *)
(* the ring's cursor publishes one slot at a time.                         *)
CursorsNeverGoBack ==
  [][/\ \A c \in Consumers : cursor'[c] >= cursor[c]
     /\ cursor'[Published] \in {cursor[Published], cursor[Published] + 1}]_vars

(* A thread is held up when the cursors it waits for, as they are, would   *)
(* keep it in its loop.                                                    *)
PutHeldUp(p) ==
  \/ pc[p] = "claiming" /\ \E b \in Barrier[p] : cursor[b] <= WrapAt(p)
  \/ pc[p] = "committing" /\ ShouldSpin(p)

GetHeldUp(c) == pc[c] = "claiming" /\ \E b \in Barrier[c] : cursor[b] <= cursor[c]

(* The waits of put.h and get.h, for a slot, for a turn and for a message, *)
(* never close a circle: while a Put is under way or something is unread,  *)
(* some thread is inside a Put or a Get and not held up.                   *)
NoStandoff ==
  \/ \A p \in Producers : ~Holding(p)
     /\ \A c \in Consumers : cursor[c] = cursor[Published]
  \/ \E p \in Producers : Holding(p) /\ ~PutHeldUp(p)
  \/ \E c \in Consumers : ~GetHeldUp(c)

(* The inductive invariant: what every step preserves and every safety     *)
(* property above follows from.                                            *)
IInv ==
  /\ TypeOK
  /\ CursorsOrdered
  /\ LoadsAreBounds
  /\ BatchesBounded
  /\ SlotsHeld
  /\ ClaimsClear
  /\ RingHolds
  /\ HistoriesAligned
  /\ CommitIsMine
  /\ ReadsTheLog

(* A Put that has begun ends, whatever the other producers do, as long as  *)
(* every thread keeps running.                                             *)
PutReturns == \A p \in Producers : pc[p] = "claiming" ~> pc[p] = "idle"

(* What the ring promises, and that every message reaches every consumer.  *)
Promise == INSTANCE Stream WITH Consumers <- Consumers, Barrier <- Barrier,
                                Size <- Size, Msgs <- Msgs, log <- log, got <- got
StreamPromise == Promise!Spec
StreamDelivers == Promise!FairSpec
==============================================================================
