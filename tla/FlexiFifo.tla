------------------------------ MODULE FlexiFifo ------------------------------
(***************************************************************************)
(* The pluggable queue of include/L3/util/flexififo.h with a shared tail:  *)
(* producers claim and commit slots at the head, consumers claim slots one *)
(* each at the tail and give them back in order, SharedConsumer keeping    *)
(* those it could not give back yet in a small Queue.                      *)
(*                                                                         *)
(* The queue hands out slot numbers and nothing else (its ring is a        *)
(* private base), so the model has no messages: what matters is who may    *)
(* touch which slot when.  Each access to an atomic another thread uses is *)
(* a step; another turn of a spin loop changes nothing and is none.        *)
(* UniqueTail has no commit(slot), which FlexiFifo calls, and is left out. *)
(***************************************************************************)
EXTENDS Integers, Sequences, FiniteSets, Functions

CONSTANTS
  Producers,  \* threads that claim and commit at the head
  Consumers,  \* threads with a SharedConsumer each
  HeadPolicy, \* "Unique" or "Shared"
  Size,       \* slots in the ring
  Pending,    \* slots of a SharedConsumer's Queue, 2 ^ commits
  MaxPuts     \* bound: claims at the head in a behaviour

ASSUME SizeAssumption == Size \in Nat \ {0} /\ Pending \in Nat \ {0} /\ MaxPuts \in Nat

ASSUME ThreadAssumption ==
  /\ Producers \cap Consumers = {}
  /\ HeadPolicy \in {"Unique", "Shared"}
  /\ HeadPolicy = "Unique" => \A p, q \in Producers : p = q

VARIABLES
  headClaim,      \* _head._claim
  head,           \* _head._head
  tailClaim,      \* _tail._claim
  tail,           \* _tail._tail
  pc,             \* where each thread is
  slot,           \* the slot its call under way is about
  pendingCommits, \* SharedConsumer::_pendingCommits, oldest first
  claiming        \* the consumers whose commit() was called by claim()

vars == <<headClaim, head, tailClaim, tail, pc, slot, pendingCommits, claiming>>

Threads == Producers \cup Consumers

Init ==
  /\ headClaim = Size /\ head = Size
  /\ tailClaim = Size /\ tail = Size
  /\ pc = [t \in Threads |-> "idle"]
  /\ slot = [t \in Threads |-> Size]
  /\ pendingCommits = [c \in Consumers |-> <<>>]
  /\ claiming = {}

Goto(t, l) == pc' = [pc EXCEPT ![t] = l]

------------------------------------------------------------------------------
(* The head.                                                               *)

(* UniqueHead::claim, SharedHead::claim: the fetch_add.                    *)
ClaimHead(p) ==
  /\ pc[p] = "idle"
  /\ headClaim < Size + MaxPuts
  /\ slot' = [slot EXCEPT ![p] = headClaim]
  /\ headClaim' = headClaim + 1
  /\ Goto(p, "waiting")
  /\ UNCHANGED <<head, tailClaim, tail, pendingCommits, claiming>>

LapsTail(p) == tail <= slot[p] - Size

(* claim: the loop on the tail ends.                                       *)
PassHead(p) ==
  /\ pc[p] = "waiting"
  /\ ~LapsTail(p)
  /\ Goto(p, "using")
  /\ UNCHANGED <<headClaim, head, tailClaim, tail, slot, pendingCommits, claiming>>

(* Mutant: a shared head commits like a unique one.                        *)
NeverEarlier(p) == FALSE

(* SharedHead::commit: an earlier slot is not committed.                   *)
EarlierUncommitted(p) == HeadPolicy = "Shared" /\ head < slot[p]

(* commit: the caller has written the slot, and the loop ends.             *)
AwaitHead(p) ==
  /\ pc[p] = "using"
  /\ ~EarlierUncommitted(p)
  /\ Goto(p, "advancing")
  /\ UNCHANGED <<headClaim, head, tailClaim, tail, slot, pendingCommits, claiming>>

(* commit: the fetch_add.                                                  *)
AdvanceHead(p) ==
  /\ pc[p] = "advancing"
  /\ head' = head + 1
  /\ Goto(p, "idle")
  /\ UNCHANGED <<headClaim, tailClaim, tail, slot, pendingCommits, claiming>>

------------------------------------------------------------------------------
(* The tail.  A consumer is "using" the slot it claimed last until it      *)
(* calls commit() or claim(); "idle" then.                                 *)

(* SharedConsumer::commit, called by the user.                             *)
CallCommit(c) ==
  /\ pc[c] \in {"idle", "using"}
  /\ pendingCommits[c] # <<>>
  /\ Goto(c, "trying")
  /\ UNCHANGED <<headClaim, head, tailClaim, tail, slot, pendingCommits, claiming>>

(* SharedConsumer::claim, which first calls commit() if anything is pending*)
CallClaim(c) ==
  /\ pc[c] \in {"idle", "using"}
  /\ IF pendingCommits[c] # <<>>
     THEN Goto(c, "trying") /\ claiming' = claiming \cup {c}
     ELSE Goto(c, "claiming") /\ UNCHANGED claiming
  /\ UNCHANGED <<headClaim, head, tailClaim, tail, slot, pendingCommits>>

(* SharedTail::tryCommit: the test.                                        *)
MyTurn(c) == tail = Head(pendingCommits[c]) - 1

Full(c) == Len(pendingCommits[c]) = Pending

(* commit() is over: back to the user, or on with claim(), which gives the *)
(* oldest slot back for good if the Queue is full.                         *)
CommitReturns(c) ==
  /\ claiming' = claiming \ {c}
  /\ IF c \notin claiming
     THEN Goto(c, "idle") /\ UNCHANGED <<slot, pendingCommits>>
     ELSE IF Full(c)
     THEN /\ Goto(c, "committing")
          /\ slot' = [slot EXCEPT ![c] = Head(pendingCommits[c])]
          /\ pendingCommits' = [pendingCommits EXCEPT ![c] = Tail(@)]
     ELSE Goto(c, "claiming") /\ UNCHANGED <<slot, pendingCommits>>

(* tryCommit returns false, or nothing is pending.                         *)
GiveUp(c) ==
  /\ pc[c] = "trying"
  /\ ~(pendingCommits[c] # <<>> /\ MyTurn(c))
  /\ CommitReturns(c)
  /\ UNCHANGED <<headClaim, head, tailClaim, tail>>

(* tryCommit: the test succeeds.                                           *)
Try(c) ==
  /\ pc[c] = "trying"
  /\ pendingCommits[c] # <<>>
  /\ MyTurn(c)
  /\ Goto(c, "popping")
  /\ UNCHANGED <<headClaim, head, tailClaim, tail, slot, pendingCommits, claiming>>

(* tryCommit: the fetch_add; then pop(), and the next one.                 *)
Pop(c) ==
  /\ pc[c] = "popping"
  /\ tail' = tail + 1
  /\ pendingCommits' = [pendingCommits EXCEPT ![c] = Tail(@)]
  /\ Goto(c, "trying")
  /\ UNCHANGED <<headClaim, head, tailClaim, slot, claiming>>

(* Mutant: the loop waits for the slot itself to be given back.            *)
EarlierTakenStrict(c) == tail < slot[c] + 1

(* SharedTail::commit: the condition of its loop.                          *)
EarlierTaken(c) == tail < slot[c] - 1

(* SharedTail::commit: the loop ends.                                      *)
AwaitTail(c) ==
  /\ pc[c] = "committing"
  /\ ~EarlierTaken(c)
  /\ Goto(c, "releasing")
  /\ UNCHANGED <<headClaim, head, tailClaim, tail, slot, pendingCommits, claiming>>

(* SharedTail::commit: the fetch_add.                                      *)
AdvanceTail(c) ==
  /\ pc[c] = "releasing"
  /\ tail' = tail + 1
  /\ Goto(c, "claiming")
  /\ UNCHANGED <<headClaim, head, tailClaim, slot, pendingCommits, claiming>>

(* Mutant: two consumers may read the claim before either adds to it.      *)
PeekTail(c) ==
  /\ pc[c] = "claiming"
  /\ slot' = [slot EXCEPT ![c] = tail]
  /\ tailClaim' = tailClaim + 1
  /\ Goto(c, "waiting")
  /\ UNCHANGED <<headClaim, head, tail, pendingCommits, claiming>>

(* SharedTail::claim: the fetch_add.                                       *)
ClaimTail(c) ==
  /\ pc[c] = "claiming"
  /\ slot' = [slot EXCEPT ![c] = tailClaim]
  /\ tailClaim' = tailClaim + 1
  /\ Goto(c, "waiting")
  /\ UNCHANGED <<headClaim, head, tail, pendingCommits, claiming>>

(* SharedTail::claim: the condition of its loop.                           *)
Uncommitted(c) == head <= slot[c]

(* SharedTail::claim returns; SharedConsumer::claim remembers the slot.    *)
PassTail(c) ==
  /\ pc[c] = "waiting"
  /\ ~Uncommitted(c)
  /\ pendingCommits' = [pendingCommits EXCEPT ![c] = Append(@, slot[c])]
  /\ Goto(c, "using")
  /\ UNCHANGED <<headClaim, head, tailClaim, tail, slot, claiming>>

------------------------------------------------------------------------------
PutStep(p) == PassHead(p) \/ AwaitHead(p) \/ AdvanceHead(p)

(* The inside of a call of a SharedConsumer.                               *)
CallStep(c) ==
  GiveUp(c) \/ Try(c) \/ Pop(c) \/ AwaitTail(c) \/ AdvanceTail(c) \/ ClaimTail(c) \/ PassTail(c)

Next ==
  \/ \E p \in Producers : ClaimHead(p) \/ PutStep(p)
  \/ \E c \in Consumers : CallCommit(c) \/ CallClaim(c) \/ CallStep(c)

Spec == Init /\ [][Next]_vars

(* Every call goes on, and every consumer claims again and again.          *)
Fairness ==
  /\ \A p \in Producers : WF_vars(PutStep(p))
  /\ \A c \in Consumers : WF_vars(CallStep(c)) /\ SF_vars(CallClaim(c))

FairSpec == Spec /\ Fairness
------------------------------------------------------------------------------
(* Type correctness.  The Queue is never asked to hold more than it can.    *)
TypeOK ==
  /\ headClaim \in Nat /\ head \in Nat /\ tailClaim \in Nat /\ tail \in Nat
  /\ pc \in [Threads -> {"idle", "waiting", "using", "advancing", "trying", "popping",
                         "committing", "releasing", "claiming"}]
  /\ slot \in [Threads -> Nat]
  /\ pendingCommits \in [Consumers -> Seq(Nat)]
  /\ \A c \in Consumers : Len(pendingCommits[c]) <= Pending
  /\ claiming \subseteq Consumers

------------------------------------------------------------------------------
(* The parts of the inductive invariant.                                   *)

(* The slots a consumer has claimed and not given back, and how many times *)
(* it holds one: in its Queue, or as the slot its call is about.           *)
InHand(c) == pc[c] \in {"waiting", "committing", "releasing"}
Outstanding(c) == Range(pendingCommits[c]) \cup (IF InHand(c) THEN {slot[c]} ELSE {})
Holdings(c) == Len(pendingCommits[c]) + (IF InHand(c) THEN 1 ELSE 0)
AllOutstanding == UNION {Outstanding(c) : c \in Consumers}

(* The slots claimed at the head are held by one producer each until they  *)
(* are committed, in their order; a unique head has at most one of them.   *)
HeadHeld ==
  /\ head <= headClaim
  /\ \A p \in Producers : pc[p] # "idle" =>
       /\ slot[p] \in head .. headClaim - 1
       /\ \A q \in Producers \ {p} : pc[q] # "idle" => slot[q] # slot[p]
       /\ pc[p] = "advancing" => slot[p] = head
  /\ HeadPolicy = "Unique" =>
       headClaim = head \/ \E p \in Producers : pc[p] # "idle" /\ headClaim = head + 1

(* A slot being written is less than a lap ahead of the tail.              *)
WritersNear ==
  /\ head <= tail + Size
  /\ \A p \in Producers : pc[p] \in {"using", "advancing"} => slot[p] < tail + Size

(* A Queue holds committed slots in the order they were claimed.           *)
QueuesAscend ==
  \A c \in Consumers :
    /\ \A i, j \in 1 .. Len(pendingCommits[c]) :
         i < j => pendingCommits[c][i] < pendingCommits[c][j]
    /\ \A n \in Range(pendingCommits[c]) :
         /\ n < head
         /\ pc[c] = "waiting" => n < slot[c]
         /\ pc[c] \in {"committing", "releasing"} => slot[c] < n
    /\ pc[c] \in {"using", "committing", "releasing"} => slot[c] < head
    /\ pc[c] = "popping" => pendingCommits[c] # <<>>
    /\ pc[c] \in {"claiming", "waiting", "committing", "releasing"} =>
         Len(pendingCommits[c]) < Pending

(* What has been claimed before it is committed is not given back.         *)
NoneBackEarly == \A n \in Size .. tailClaim - 1 : n >= head => n \in AllOutstanding

------------------------------------------------------------------------------
(* Properties.                                                             *)

(* A slot claimed at the tail is with one consumer until that consumer     *)
(* gives it back, whoever gives back what in between: none is held twice,  *)
(* and the tail counts exactly those given back.                           *)
SlotsConserved ==
  /\ \A c \in Consumers :
       /\ Outstanding(c) \subseteq Size .. tailClaim - 1
       /\ Cardinality(Outstanding(c)) = Holdings(c)
       /\ \A d \in Consumers \ {c} : Outstanding(c) \cap Outstanding(d) = {}
  /\ tailClaim - tail = Cardinality(AllOutstanding)

(* A consumer uses a slot only once it is written, and no two producers    *)
(* have the same.                                                          *)
UsesCommitted ==
  /\ \A c \in Consumers : pc[c] = "using" => slot[c] < head
  /\ \A p \in Producers : pc[p] \in {"using", "advancing"} =>
       /\ head <= slot[p]
       /\ \A q \in Producers \ {p} : pc[q] \in {"using", "advancing"} => slot[q] # slot[p]

(* util/README: "tail cannot catch up with head", "head cannot get so far  *)
(* ahead of tail that it wraps around the ring".  The order in which slots *)
(* are given back does not matter for it.                                  *)
Window ==
  /\ tail <= head /\ head <= headClaim /\ head <= tail + Size
  /\ \A p \in Producers : pc[p] \in {"using", "advancing"} => slot[p] < tail + Size
  /\ UsesCommitted

(* The inductive invariant.                                                *)
IInv ==
  /\ TypeOK /\ Size <= head /\ Size <= tail /\ Size <= tailClaim
  /\ HeadHeld /\ WritersNear /\ QueuesAscend /\ NoneBackEarly
  /\ SlotsConserved

(* Nobody writes the storage of a slot a consumer is using.                *)
NoOverwrite ==
  \A p \in Producers, c \in Consumers :
    pc[p] \in {"using", "advancing"} /\ pc[c] = "using" => slot[p] % Size # slot[c] % Size

(* Each slot claimed at the head and not committed has a producer at it.   *)
HeadCovered == \A n \in head .. headClaim - 1 : \E p \in Producers : pc[p] # "idle" /\ slot[p] = n

(* The waits of the claims and commits at either end for each other never  *)
(* close a circle, although a SharedConsumer may wait for a message with   *)
(* slots it has not given back in its Queue, and gives one back only when  *)
(* the tail stands just before it: it takes a ring with as many slots as   *)
(* the Queues.                                                             *)
PutHeldUp(p) ==
  \/ pc[p] = "waiting" /\ LapsTail(p)
  \/ pc[p] = "using" /\ EarlierUncommitted(p)
CallHeldUp(c) ==
  \/ pc[c] = "waiting" /\ Uncommitted(c)
  \/ pc[c] = "committing" /\ EarlierTaken(c)
NoStandoff ==
  (\E p \in Producers : pc[p] # "idle") =>
    \/ \E p \in Producers : pc[p] # "idle" /\ ~PutHeldUp(p)
    \/ \E c \in Consumers : ~CallHeldUp(c)

(* A claim at the head returns and its commit ends, if the ring has as many*)
(* slots as the consumers' Queues: SharedConsumer::claim returns with what *)
(* it could not give back still in its Queue.                              *)
PutReturns == \A p \in Producers : pc[p] = "waiting" ~> pc[p] = "idle"
==============================================================================
