------------------------------- MODULE Readers -------------------------------
(***************************************************************************)
(* The three ways a thread reads rings in include/L3/static:               *)
(*   "consume"  consume(checkEOS, f) of consume.h takes batch after batch  *)
(*              off a ring until a CheckEOS(n) has seen n ends of stream;  *)
(*   "select"   select() of selector.h looks at the Get of each handler in *)
(*              turn, without waiting, and hands it what is there, at most *)
(*              a batch of it when a size is given;                        *)
(*   "writer"   Logger::Writer of logger.h writes the messages any thread  *)
(*              logs, until stop() has lowered m_running.                  *)
(*                                                                         *)
(* A ring is that of Disruptor with this reader alone behind it: a Put     *)
(* that has room, and a Get, are a step each.                              *)
(***************************************************************************)
EXTENDS Integers, Sequences, FiniteSets

CONSTANTS
  Rings,     \* how many rings select reads; the other loops read ring 1
  Msgs,      \* messages that are not the end of stream
  eos,       \* the end of stream
  Counts,    \* the arguments n of CheckEOS
  Width,     \* how many values a size_t has
  Limits,    \* the batch sizes given to select
  Unlimited, \* stands for no batch size
  Size,      \* slots in each ring
  MaxPuts    \* bound: messages put on a ring, the farewell aside

ASSUME ReadersAssumption ==
  /\ Rings \in Nat \ {0} /\ Size \in Nat \ {0} /\ MaxPuts \in Nat
  /\ eos \notin Msgs
  /\ Width \in Nat \ {0} /\ Counts \subseteq 0 .. Width - 1
  /\ Limits \subseteq (Nat \ {0}) \cup {Unlimited}

VARIABLES
  loop,       \* which of the loops the thread runs
  log,        \* the messages on each ring, in commit order
  released,   \* Get::cursor of each ring
  pc,         \* "idle", "checking", "claiming", "handling", "testing", "ended"
  at,         \* the ring of the Get at hand
  it, end,    \* the position in its batch, and the batch's end
  arg,        \* the argument of the call: n, or the batch size
  _remaining, \* CheckEOS::_remaining
  m_running,  \* Writer::m_running
  stop,       \* how far Writer::stop is: "before", "said" or "done"
  from,       \* history: released when the call began
  there,      \* history: what each ring had had by then
  handled,    \* history: the positions of each ring f was called with
  lost        \* history: the positions of ring 1 released unhandled

vars == <<loop, log, released, pc, at, it, end, arg, _remaining, m_running, stop,
          from, there, handled, lost>>
writer == <<m_running, stop>>
call == <<arg, _remaining, from, there>>

Init ==
  /\ loop \in {"consume", "select", "writer"}
  /\ log = [r \in 1 .. Rings |-> <<>>]
  /\ released = [r \in 1 .. Rings |-> 0]
  /\ pc = IF loop = "writer" THEN "checking" ELSE "idle"
  /\ at = 1 /\ it = 0 /\ end = 0
  /\ arg = 0 /\ _remaining = 0
  /\ m_running = TRUE /\ stop = "before"
  /\ from = released /\ there = released
  /\ handled = [r \in 1 .. Rings |-> <<>>]
  /\ lost = {}

------------------------------------------------------------------------------
HasRoom(r) == Len(log[r]) < released[r] + Size

OnRing(r, m) ==
  /\ HasRoom(r)
  /\ log' = [log EXCEPT ![r] = Append(@, m)]
  /\ UNCHANGED <<loop, released, pc, at, it, end, call, m_running, handled, lost>>

(* The rings the loop reads, and what it can tell apart on them.           *)
Read == IF loop = "select" THEN 1 .. Rings ELSE {1}
Carried == IF loop = "consume" THEN Msgs \cup {eos} ELSE Msgs

(* A producer's Put() = m; for the writer, Logger::~Logger.                *)
Put(r, m) ==
  /\ r \in Read /\ m \in Carried
  /\ Len(log[r]) < MaxPuts + (IF stop = "before" THEN 0 ELSE 1)
  /\ OnRing(r, m)
  /\ UNCHANGED stop

(* Writer::stop: a message, then the flag.                                 *)
StopSays(m) ==
  /\ loop = "writer"
  /\ stop = "before"
  /\ m \in Msgs
  /\ OnRing(1, m)
  /\ stop' = "said"

StopLowers ==
  /\ stop = "said"
  /\ m_running' = FALSE
  /\ stop' = "done"
  /\ UNCHANGED <<loop, log, released, pc, at, it, end, call, handled, lost>>

------------------------------------------------------------------------------
Begin(a) ==
  /\ arg' = a
  /\ from' = released
  /\ there' = [r \in 1 .. Rings |-> Len(log[r])]
  /\ pc' = "claiming"
  /\ UNCHANGED <<loop, log, released, at, it, end, writer, handled, lost>>

(* CheckEOS checkEOS(n); consume<Get>(checkEOS, f).                        *)
Consume(n) ==
  /\ loop = "consume" /\ pc = "idle"
  /\ _remaining' = n
  /\ Begin(n)

(* select(batchSize, handlers...), or Selector::select().                  *)
Select(batchSize) ==
  /\ loop = "select" /\ pc = "idle"
  /\ UNCHANGED _remaining
  /\ Begin(batchSize)

(* Mutant: the loop never looks at the flag.                               *)
CheckNothing ==
  /\ pc = "checking"
  /\ pc' = "claiming"
  /\ UNCHANGED <<loop, log, released, at, it, end, call, writer, handled, lost>>

(* Writer::operator(): while(m_running).                                   *)
CheckRunning ==
  /\ pc = "checking"
  /\ pc' = IF m_running THEN "claiming" ELSE "ended"
  /\ UNCHANGED <<loop, log, released, at, it, end, call, writer, handled, lost>>

(* The batch of Get(), Get(noBlock) and Get(maxBatchSize, noBlock); none   *)
(* while a Get that waits has nothing.                                     *)
Available == IF loop = "select" THEN TRUE ELSE released[at] < Len(log[at])

BatchEnd ==
  IF loop = "select" /\ arg # Unlimited /\ Len(log[at]) > released[at] + arg
  THEN released[at] + arg ELSE Len(log[at])

Claim ==
  /\ pc = "claiming"
  /\ Available
  /\ it' = released[at]
  /\ end' = BatchEnd
  /\ pc' = "handling"
  /\ UNCHANGED <<loop, log, released, at, call, writer, handled, lost>>

(* f(msg), and ++ on the iterator; the stream of the Writer.               *)
Handle ==
  /\ pc = "handling"
  /\ it < end
  /\ handled' = [handled EXCEPT ![at] = Append(@, it + 1)]
  /\ it' = it + 1
  /\ pc' = IF loop = "consume" THEN "testing" ELSE "handling"
  /\ UNCHANGED <<loop, log, released, at, end, call, writer, lost>>

(* Mutant: the test comes before the count.                                *)
EndsBeforeCount == log[at][it] = eos /\ _remaining = 0

(* CheckEOS::operator(): m == eos && !--_remaining, in a size_t.           *)
Ends == log[at][it] = eos /\ (_remaining - 1) % Width = 0

Count ==
  /\ _remaining' = IF log[at][it] = eos THEN (_remaining - 1) % Width ELSE _remaining
  /\ UNCHANGED <<loop, log, at, it, end, arg, from, there, writer, handled>>

GoOn ==
  /\ pc = "testing"
  /\ ~Ends
  /\ Count
  /\ pc' = "handling"
  /\ UNCHANGED <<released, lost>>

(* Mutant: only what has been handled is released.                         *)
ReturnFromHere ==
  /\ pc = "testing"
  /\ Ends
  /\ Count
  /\ released' = [released EXCEPT ![at] = it]
  /\ lost' = lost \cup (it + 1 .. end)
  /\ pc' = "idle"

(* consume returns from the middle of its loop, and Get's destructor       *)
(* releases the whole batch.                                               *)
Return ==
  /\ pc = "testing"
  /\ Ends
  /\ Count
  /\ released' = [released EXCEPT ![at] = end]
  /\ lost' = lost \cup (it + 1 .. end)
  /\ pc' = "idle"

(* Mutant: the cursor goes where the ring's is.                            *)
ReleaseAll ==
  /\ pc = "handling"
  /\ it = end
  /\ released' = [released EXCEPT ![at] = Len(log[at])]
  /\ UNCHANGED <<loop, log, it, end, call, writer, handled, lost>>

(* The Get goes out of scope.                                              *)
Release ==
  /\ pc = "handling"
  /\ it = end
  /\ released' = [released EXCEPT ![at] = end]
  /\ UNCHANGED <<loop, log, it, end, call, writer, handled, lost>>

(* Mutant: a select that has found something returns.                      *)
NextOrReturn ==
  IF loop # "select" \/ it # from[at] \/ at = Rings THEN 1 ELSE at + 1

(* select goes on to the next handler's ring; the others have only one.    *)
NextRing == IF loop = "select" /\ at < Rings THEN at + 1 ELSE 1

(* ... and the loop goes on.                                               *)
ReleaseBatch ==
  /\ Release
  /\ at' = NextRing
  /\ pc' = CASE loop = "consume" -> "claiming"
             [] loop = "writer" -> "checking"
             [] loop = "select" -> IF at' = 1 THEN "idle" ELSE "claiming"

------------------------------------------------------------------------------
ReaderStep == CheckRunning \/ Claim \/ Handle \/ GoOn \/ Return \/ ReleaseBatch

SelectAny == \E batchSize \in Limits : Select(batchSize)

Next ==
  \/ \E r \in 1 .. Rings, m \in Msgs \cup {eos} : Put(r, m)
  \/ \E m \in Msgs : StopSays(m)
  \/ StopLowers
  \/ \E n \in Counts : Consume(n)
  \/ SelectAny
  \/ ReaderStep

Spec == Init /\ [][Next]_vars

(* A loop that runs goes on, and so does a stop() that has begun; a thread *)
(* that selects does it again and again.  Nothing obliges a thread to call *)
(* consume another time, to put, or to stop the Writer.                    *)
FairSpec == Spec /\ WF_vars(ReaderStep) /\ WF_vars(SelectAny) /\ WF_vars(StopLowers)
------------------------------------------------------------------------------
(* Type correctness.                                                       *)
TypeOK ==
  /\ loop \in {"consume", "select", "writer"}
  /\ log \in [1 .. Rings -> Seq(Msgs \cup {eos})]
  /\ released \in [1 .. Rings -> Nat] /\ it \in Nat /\ end \in Nat
  /\ pc \in {"idle", "checking", "claiming", "handling", "testing", "ended"}
  /\ at \in 1 .. Rings
  /\ arg \in Counts \cup Limits \cup {0} /\ _remaining \in 0 .. Width - 1
  /\ m_running \in BOOLEAN /\ stop \in {"before", "said", "done"}
  /\ from \in [1 .. Rings -> Nat] /\ there \in [1 .. Rings -> Nat]
  /\ handled \in [1 .. Rings -> Seq(Nat)] /\ lost \subseteq Nat

------------------------------------------------------------------------------
(* The parts of the inductive invariant.                                   *)

Handled(r) == {handled[r][i] : i \in 1 .. Len(handled[r])}

(* The ends of stream among positions i to j.                              *)
Eos(i, j) == Cardinality({p \in i .. j : log[1][p] = eos})

(* How many ends of stream a CheckEOS(n) waits for: a zero is decremented  *)
(* before it is tested, and stands for all the values of a size_t.         *)
Due == IF arg = 0 THEN Width ELSE arg

(* Which steps each loop has, and the rings it leaves alone.               *)
Control ==
  /\ loop # "select" => at = 1
  /\ pc = "idle" => at = 1 /\ loop # "writer"
  /\ pc \in {"checking", "ended"} => loop = "writer"
  /\ pc = "testing" => loop = "consume"
  /\ loop = "consume" => arg \in 0 .. Width - 1
  /\ loop = "select" /\ pc # "idle" => arg \in Limits
  /\ \A r \in (1 .. Rings) \ Read : log[r] = <<>> /\ handled[r] = <<>> /\ released[r] = 0

Cursors ==
  /\ \A r \in 1 .. Rings : released[r] <= Len(log[r]) /\ Len(log[r]) <= released[r] + Size
  /\ pc \in {"handling", "testing"} => released[at] <= it /\ it <= end /\ end <= Len(log[at])
  /\ pc = "testing" => released[at] < it

(* How far the reader of a ring has got.                                   *)
Reached(r) == IF pc \in {"handling", "testing"} /\ r = at THEN it ELSE released[r]

(* What has been handled: everything so far that was not lost, in order.   *)
Given ==
  /\ lost \subseteq 1 .. released[1]
  /\ loop # "consume" => lost = {}
  /\ \A r \in 1 .. Rings :
       /\ Handled(r) = (1 .. Reached(r)) \ lost
       /\ \A i, j \in 1 .. Len(handled[r]) : i < j => handled[r][i] < handled[r][j]

(* The last position whose message CheckEOS has been shown.                *)
Tested == IF pc = "testing" THEN it - 1 ELSE IF pc = "claiming" THEN released[1] ELSE it

(* _remaining is what is left of Due, in a size_t.                         *)
Counted ==
  loop = "consume" =>
    /\ from[1] <= released[1] /\ it <= Len(log[1])
    /\ pc # "idle" =>
         /\ Eos(from[1] + 1, Tested) < Due
         /\ _remaining = IF arg = 0 /\ Eos(from[1] + 1, Tested) = 0 THEN 0
                         ELSE Due - Eos(from[1] + 1, Tested)
    /\ pc = "claiming" => it = released[1] \/ (it <= from[1] /\ from[1] = released[1])
    /\ pc = "idle" => it <= released[1]
    /\ pc = "idle" /\ it > 0 => Eos(from[1] + 1, it) = Due /\ log[1][it] = eos

(* A select() that has released ring r up to position p has served it.     *)
Served(r, p) ==
  IF arg = Unlimited THEN p >= there[r]
  ELSE p \in from[r] .. from[r] + arg /\ (p < from[r] + arg => p >= there[r])

(* The rings before the one at hand have been served, the others not yet.  *)
Selected ==
  loop = "select" =>
    /\ \A r \in 1 .. Rings : from[r] <= there[r] /\ there[r] <= Len(log[r])
    /\ pc = "handling" => Served(at, end)
    /\ pc # "idle" => /\ \A r \in 1 .. at - 1 : Served(r, released[r])
                      /\ \A r \in at .. Rings : released[r] = from[r]
    /\ pc = "idle" /\ arg # 0 => \A r \in 1 .. Rings : Served(r, released[r])

(* The inductive invariant.                                                *)
IInv == TypeOK /\ Control /\ Cursors /\ Given /\ Counted /\ Selected

------------------------------------------------------------------------------
(* Properties.                                                             *)

(* Whatever the loop, each position a reader has released was given to f   *)
(* once and in order, before its slot was written again; or it stood, in   *)
(* the same batch, behind the end of stream that made consume return, and  *)
(* no call will ever see it.                                               *)
AccountedFor ==
  \A r \in 1 .. Rings :
    /\ \A i, j \in 1 .. Len(handled[r]) : i < j => handled[r][i] < handled[r][j]
    /\ 1 .. released[r] \subseteq Handled(r) \cup (IF loop = "consume" THEN lost ELSE {})
    /\ Handled(r) \cap lost = {} \/ loop # "consume"
    /\ \A p \in 1 .. Len(log[r]) - Size : p \in Handled(r) \cup lost

(* A call of consume stops at its n-th end of stream and at no other:      *)
(* those of its earlier batches count, those of the calls before do not.   *)
StopsAtNth ==
  loop = "consume" =>
    /\ pc \in {"handling", "claiming"} => Eos(from[1] + 1, it) < Due
    /\ pc = "testing" => Eos(from[1] + 1, it - 1) < Due
    /\ pc = "idle" /\ it > 0 => Eos(from[1] + 1, it) = Due /\ log[1][it] = eos

(* A ring that keeps filling does not keep a selecting thread from the     *)
(* others: when select() returns, every handler has been given what was on *)
(* its ring at the call, or as much of it as was asked for and never more. *)
EachServed ==
  loop = "select" /\ pc = "idle" /\ arg # 0 =>
    \A r \in 1 .. Rings : Served(r, released[r])

(* consume returns once its ends of stream are on the ring; select returns *)
(* whatever rings are empty and however fast the others fill; and once the *)
(* flag is down the Writer ends as soon as there is something to read.     *)
LoopEnds ==
  /\ (loop = "consume" /\ pc # "idle" /\ Eos(from[1] + 1, Len(log[1])) >= Due) ~> pc = "idle"
  /\ (loop = "select" /\ pc # "idle") ~> pc = "idle"
  /\ (~m_running /\ released[1] < Len(log[1])) ~> pc = "ended"

(* Everything put on a ring one selects from is handled, and everything    *)
(* logged is written unless the Writer has been stopped by then.           *)
KeepsUp ==
  \A r \in 1 .. Rings, k \in 1 .. MaxPuts + 1 :
    (loop # "consume" /\ Len(log[r]) >= k) ~> (Len(handled[r]) >= k \/ ~m_running)
==============================================================================
