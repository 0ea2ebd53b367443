------------------------- MODULE MatchServiceProofs --------------------------
(***************************************************************************)
(* Proofs about Wire and MatchService, for any orders, any greatest int and*)
(* any sizes of the ring and of the pipe: a command read back gives the    *)
(* order it was made from, the orders of the pipe reach the book complete  *)
(* and in order, the book of the service is that of OrderBook, so that what*)
(* is proved there holds here, and none of the lots of an order is lost.   *)
(***************************************************************************)
EXTENDS MatchService, OrderBookProofs, WellFoundedInduction

------------------------------------------------------------------------------
(* The command string.                                                     *)

(* An order as cmdStr can write it, with the numbers it may hold.          *)
Writable(Numbers, Words) ==
  [sequence : Numbers, type : {"Ask", "Bid", "Cancel"}, matchType : {"Market", "Limit"},
   code : Words, quantity : Nat, price : Nat]

LEMMA Tokens ==
  ASSUME NEW Words, NEW Numbers, NEW o \in Writable(Numbers, Words)
  PROVE  /\ Len(CmdStr(o)) = 7
         /\ CmdStr(o)[1] = Word("ORDER")
         /\ CmdStr(o)[2] = Number(o.sequence)
         /\ CmdStr(o)[3] = Word(TypeWord[o.type])
         /\ CmdStr(o)[4] = Word(MatchTypeWord[o.matchType])
         /\ CmdStr(o)[5] = Word(o.code)
         /\ CmdStr(o)[6] = Number(o.quantity)
         /\ CmdStr(o)[7] = Number(o.price)
  BY DEF CmdStr

(* No word stands for two values.                                          *)
LEMMA MeaningOfType ==
  ASSUME NEW v \in {"Ask", "Bid", "Cancel"}
  PROVE  /\ v \in DOMAIN TypeWord
         /\ Meaning(TypeWord, Word(TypeWord[v])) = v
<1>1. DOMAIN TypeWord = {"Ask", "Bid", "Cancel"}
  BY DEF TypeWord
<1>2. \A u, w \in {"Ask", "Bid", "Cancel"} : TypeWord[u] = TypeWord[w] => u = w
  BY DEF TypeWord
<1>3. \A u \in DOMAIN TypeWord : Spells(TypeWord, u, Word(TypeWord[v])) <=> u = v
  BY <1>1, <1>2 DEF Spells, Word
<1> QED
  BY <1>1, <1>3 DEF Meaning

LEMMA MeaningOfMatchType ==
  ASSUME NEW v \in {"Market", "Limit"}
  PROVE  /\ v \in DOMAIN MatchTypeWord
         /\ Meaning(MatchTypeWord, Word(MatchTypeWord[v])) = v
<1>1. DOMAIN MatchTypeWord = {"Market", "Limit"}
  BY DEF MatchTypeWord
<1>2. \A u, w \in {"Market", "Limit"} : MatchTypeWord[u] = MatchTypeWord[w] => u = w
  BY DEF MatchTypeWord
<1>3. \A u \in DOMAIN MatchTypeWord : Spells(MatchTypeWord, u, Word(MatchTypeWord[v])) <=> u = v
  BY <1>1, <1>2 DEF Spells, Word
<1> QED
  BY <1>1, <1>3 DEF Meaning

(* All seven tokens of a command are accepted, if its number is an int.    *)
LEMMA AllAccepted ==
  ASSUME NEW Words, NEW Numbers, NEW o \in Writable(Numbers, Words),
         o.sequence <= IntMax
  PROVE  Accepted(CmdStr(o)) = 7
<1> DEFINE s == CmdStr(o)
<1>1. \A k \in 1 .. 7 : Accepts(k, s[k])
  <2> SUFFICES ASSUME NEW k \in 1 .. 7 PROVE Accepts(k, s[k])
    OBVIOUS
  <2>1. CASE k = 1
    BY <2>1, Tokens DEF Accepts
  <2>2. CASE k = 2
    BY <2>2, Tokens DEF Accepts, Number, IsNumber
  <2>3. CASE k = 3
    <3>1. o.type \in DOMAIN TypeWord
      BY MeaningOfType DEF Writable
    <3>2. Spells(TypeWord, o.type, s[3])
      BY Tokens DEF Spells
    <3> QED
      BY <2>3, <3>1, <3>2 DEF Accepts
  <2>4. CASE k = 4
    <3>1. o.matchType \in DOMAIN MatchTypeWord
      BY MeaningOfMatchType DEF Writable
    <3>2. Spells(MatchTypeWord, o.matchType, s[4])
      BY Tokens DEF Spells
    <3> QED
      BY <2>4, <3>1, <3>2 DEF Accepts
  <2>5. CASE k = 5
    BY <2>5 DEF Accepts
  <2>6. CASE k = 6
    BY <2>6, Tokens DEF Accepts, Number, IsNumber
  <2>7. CASE k = 7
    BY <2>7, Tokens DEF Accepts, Number, IsNumber
  <2> QED
    BY <2>1, <2>2, <2>3, <2>4, <2>5, <2>6, <2>7
<1>2. Len(s) = 7
  BY Tokens
<1> HIDE DEF s
<1>3. \A n \in 0 .. 7 :
        (/\ n <= Len(s) /\ \A k \in 1 .. n : Accepts(k, s[k])
         /\ n = 7 \/ n = Len(s) \/ ~Accepts(n + 1, s[n + 1])) <=> n = 7
  BY <1>1, <1>2
<1>4. Accepted(s) = 7
  BY <1>3 DEF Accepted
<1> QED
  BY <1>4 DEF s

(* What fromCmdStr reads of the string that cmdStr wrote is the order it   *)
(* was written from, whatever the order it reads into held before, and     *)
(* nothing is thrown, as long as the number is an int.                     *)
THEOREM RoundTrip ==
  ASSUME NEW Words, NEW Numbers, NEW o \in Writable(Numbers, Words),
         o.sequence <= IntMax, NEW old
  PROVE  FromCmdStr(old, CmdStr(o)) = o /\ ~Throws(CmdStr(o))
<1>1. Accepted(CmdStr(o)) = 7
  BY AllAccepted
<1>2. /\ Meaning(TypeWord, CmdStr(o)[3]) = o.type
      /\ Meaning(MatchTypeWord, CmdStr(o)[4]) = o.matchType
  BY Tokens, MeaningOfType, MeaningOfMatchType DEF Writable
<1>3. /\ CmdStr(o)[2][2] = o.sequence /\ CmdStr(o)[5][2] = o.code
      /\ CmdStr(o)[6][2] = o.quantity /\ CmdStr(o)[7][2] = o.price
  BY Tokens DEF Number, Word
<1>4. FromCmdStr(old, CmdStr(o)) =
        [sequence |-> o.sequence, type |-> o.type, matchType |-> o.matchType,
         code |-> o.code, quantity |-> o.quantity, price |-> o.price]
  BY <1>1, <1>2, <1>3 DEF FromCmdStr
<1>5. FromCmdStr(old, CmdStr(o)) = o
  BY <1>4 DEF Writable
<1> QED
  BY <1>1, <1>5 DEF Throws

(* A number that is no int is refused by std::stoi before any field of the *)
(* order has changed: cmdStr writes numbers fromCmdStr cannot read.        *)
THEOREM WideNumber ==
  ASSUME NEW Words, NEW o \in Writable(Nat, Words), o.sequence > IntMax,
         NEW old \in Writable(Nat, Words)
  PROVE  Throws(CmdStr(o)) /\ FromCmdStr(old, CmdStr(o)) = old
<1> DEFINE s == CmdStr(o)
<1>1. Accepts(1, s[1]) /\ Len(s) = 7
  BY Tokens DEF Accepts
<1>2. ~Accepts(2, s[2])
  <2>1. s[2][2] = o.sequence /\ o.sequence \in Nat
    BY Tokens DEF Number, Writable
  <2> QED
    BY <2>1, IntAssumption DEF Accepts
<1> HIDE DEF s
<1>3. \A n \in 0 .. 7 :
        (/\ n <= Len(s) /\ \A k \in 1 .. n : Accepts(k, s[k])
         /\ n = 7 \/ n = Len(s) \/ ~Accepts(n + 1, s[n + 1])) <=> n = 1
  BY <1>1, <1>2
<1>4. Accepted(s) = 1
  BY <1>3 DEF Accepted
<1>5. FromCmdStr(old, s) =
        [sequence |-> old.sequence, type |-> old.type, matchType |-> old.matchType,
         code |-> old.code, quantity |-> old.quantity, price |-> old.price]
  BY <1>4 DEF FromCmdStr
<1>6. FromCmdStr(old, s) = old
  BY <1>5 DEF Writable
<1> QED
  BY <1>4, <1>6 DEF s, Throws

------------------------------------------------------------------------------
(* The orders that arrive.                                                 *)

LEMMA ArrivingOrder ==
  ASSUME NEW r \in Requests, NEW k \in 1 .. MaxOrders
  PROVE  LET o == WithCode(Numbered(r, k)) IN
         /\ o \in Arriving /\ o \in Writable(Nat, {Code})
         /\ o.sequence = k /\ k <= IntMax
         /\ Body(o) = r
<1> DEFINE o == WithCode(Numbered(r, k))
<1>1. r \in [type : {"Ask", "Bid", "Cancel"}, matchType : {"Market", "Limit"},
             price : Nat, quantity : Nat \ {0}]
  BY RequestAssumption
<1>2. k \in Nat /\ k <= IntMax
  BY BoundAssumption, ServiceAssumption, IntAssumption
<1>3. o = [sequence |-> k, type |-> r.type, matchType |-> r.matchType, code |-> Code,
           quantity |-> r.quantity, price |-> r.price]
  BY DEF WithCode, Numbered
<1>4. o \in Writable(Nat, {Code}) /\ o.sequence = k
  BY <1>1, <1>2, <1>3 DEF Writable
<1>5. Body(o) = [type |-> r.type, matchType |-> r.matchType, price |-> r.price,
                 quantity |-> r.quantity]
  BY <1>3 DEF Body
<1>6. Body(o) = r
  BY <1>1, <1>5
<1>7. o \in Arriving
  BY DEF Arriving
<1> QED
  BY <1>2, <1>4, <1>6, <1>7

(* What is known of any order on its way.                                  *)
LEMMA OfArriving ==
  ASSUME NEW o \in Arriving
  PROVE  /\ o.sequence \in 1 .. MaxOrders
         /\ Body(o) \in Requests
         /\ CmdStr(o) \in Commands /\ CmdStr(o) # NoRequest /\ ~Throws(CmdStr(o))
         /\ \A old : FromCmdStr(old, CmdStr(o)) = o
<1>1. PICK r \in Requests, k \in 1 .. MaxOrders : o = WithCode(Numbered(r, k))
  BY DEF Arriving
<1>2. /\ o \in Writable(Nat, {Code}) /\ o.sequence = k /\ o.sequence <= IntMax
      /\ Body(o) = r
  BY <1>1, ArrivingOrder
<1>3. CmdStr(o) \in Commands /\ CmdStr(o) # NoRequest
  BY ServiceAssumption DEF Commands
<1>4. \A old : FromCmdStr(old, CmdStr(o)) = o /\ ~Throws(CmdStr(o))
  BY <1>2, RoundTrip
<1> QED
  BY <1>2, <1>3, <1>4

------------------------------------------------------------------------------
(* Sequences.                                                              *)

LEMMA AppendElements ==
  ASSUME NEW S, NEW s \in Seq(S), NEW e \in S
  PROVE  /\ Append(s, e) \in Seq(S)
         /\ Len(s) \in Nat /\ Len(Append(s, e)) = Len(s) + 1
         /\ \A i \in 1 .. Len(s) : Append(s, e)[i] = s[i]
         /\ Append(s, e)[Len(s) + 1] = e
  OBVIOUS

(* Coming is the request that is held, then the pipe.                      *)
LEMMA ComingIs ==
  ASSUME ServiceTypeOK
  PROVE  /\ request = NoRequest => Coming = inbox
         /\ request # NoRequest =>
              /\ Len(Coming) = Len(inbox) + 1
              /\ Coming[1] = request
              /\ \A i \in 1 .. Len(inbox) : Coming[i + 1] = inbox[i]
<1>1. inbox \in Seq(Commands) /\ Len(inbox) \in Nat
  BY DEF ServiceTypeOK
<1>2. CASE request = NoRequest
  BY <1>1, <1>2 DEF Coming, Held
<1>3. CASE request # NoRequest
  <2>1. request \in Commands /\ Coming = <<request>> \o inbox
    BY <1>3 DEF Coming, Held, ServiceTypeOK
  <2> QED
    BY <1>1, <1>3, <2>1
<1> QED
  BY <1>2, <1>3

(* The same of the next state.                                             *)
LEMMA ComingIsPrime ==
  ASSUME ServiceTypeOK'
  PROVE  /\ request' = NoRequest => Coming' = inbox'
         /\ request' # NoRequest =>
              /\ Len(Coming') = Len(inbox') + 1
              /\ Coming'[1] = request'
              /\ \A i \in 1 .. Len(inbox') : Coming'[i + 1] = inbox'[i]
<1>1. inbox' \in Seq(Commands) /\ Len(inbox') \in Nat
  BY DEF ServiceTypeOK
<1>2. CASE request' = NoRequest
  BY <1>1, <1>2 DEF Coming, Held
<1>3. CASE request' # NoRequest
  <2>1. request' \in Commands /\ Coming' = <<request'>> \o inbox'
    BY <1>3 DEF Coming, Held, ServiceTypeOK
  <2> QED
    BY <1>1, <1>3, <2>1
<1> QED
  BY <1>2, <1>3

LEMMA ServiceLengths ==
  ASSUME ServiceTypeOK
  PROVE  /\ Len(inbox) \in Nat /\ Len(log) \in Nat /\ Len(accepted) \in Nat
         /\ Len(Coming) \in Nat
         /\ released \in Nat /\ taken \in Nat /\ end \in Nat
<1>1. Len(inbox) \in Nat /\ Len(log) \in Nat /\ Len(accepted) \in Nat
  BY DEF ServiceTypeOK
<1>2. Len(Coming) \in Nat
  BY <1>1, ComingIs
<1>3. released \in Nat /\ taken \in Nat /\ end \in Nat
  BY DEF ServiceTypeOK
<1> QED
  BY <1>1, <1>2, <1>3

------------------------------------------------------------------------------
(* The inductive invariant: how each action keeps it.                      *)

LEMMA ServiceInitIInv == ServiceInit => ServiceIInv
<1> SUFFICES ASSUME ServiceInit PROVE ServiceIInv
  OBVIOUS
<1>1. ServiceTypeOK
  BY ServiceAssumption, BoundAssumption DEF ServiceInit, ServiceTypeOK
<1>2. Cursors
  BY ServiceAssumption DEF ServiceInit, Cursors
<1>3. Coming = <<>>
  BY <1>1, ComingIs DEF ServiceInit
<1>4. NothingLost
  BY <1>3 DEF ServiceInit, NothingLost
<1> QED
  BY <1>1, <1>2, <1>4, ServiceAssumption DEF ServiceInit, Init, ServiceIInv

LEMMA DeliverKeeps ==
  ASSUME ServiceIInv, NEW r \in Requests, Deliver(r)
  PROVE  ServiceIInv'
<1>1. /\ ServiceTypeOK /\ Cursors /\ NothingLost /\ Len(inbox) <= HighWater
      /\ sequence \in 1 .. next
      /\ \A i \in 1 .. Len(accepted) : accepted[i].sequence < next
      /\ next \in 1 .. MaxOrders /\ next' = next + 1
      /\ UNCHANGED <<vars, request, orderTemplate, log, released, taken, end>>
  BY BoundAssumption DEF ServiceIInv, Deliver, ServiceTypeOK
<1>2. UNCHANGED sequence
  BY <1>1 DEF vars
<1> DEFINE o == WithCode(Numbered(r, next))
<1>3. o \in Arriving /\ o.sequence = next
  BY <1>1, ArrivingOrder
<1>4. CASE Len(inbox) < HighWater
  <2>1. inbox' = Append(inbox, CmdStr(o)) /\ accepted' = Append(accepted, o)
    BY <1>4 DEF Deliver
  <2> HIDE DEF o
  <2>2. CmdStr(o) \in Commands /\ ~Throws(CmdStr(o))
    BY <1>3, OfArriving
  <2>3. /\ inbox' \in Seq(Commands) /\ Len(inbox') = Len(inbox) + 1
        /\ \A i \in 1 .. Len(inbox) : inbox'[i] = inbox[i]
        /\ inbox'[Len(inbox) + 1] = CmdStr(o)
    BY <1>1, <2>1, <2>2, AppendElements DEF ServiceTypeOK
  <2>4. /\ accepted' \in Seq(Arriving) /\ Len(accepted') = Len(accepted) + 1
        /\ \A i \in 1 .. Len(accepted) : accepted'[i] = accepted[i]
        /\ accepted'[Len(accepted) + 1] = o
    BY <1>1, <1>3, <2>1, AppendElements DEF ServiceTypeOK
  <2>5. ServiceTypeOK'
    BY <1>1, <2>3, <2>4, BoundAssumption DEF ServiceTypeOK
  <2>6. /\ Len(Coming') = Len(Coming) + 1
        /\ \A i \in 1 .. Len(Coming) : Coming'[i] = Coming[i]
        /\ Coming'[Len(Coming) + 1] = CmdStr(o)
    <3>1. CASE request = NoRequest
      BY <1>1, <2>3, <2>5, <3>1, ComingIs, ComingIsPrime
    <3>2. CASE request # NoRequest
      <4>1. /\ Len(Coming) = Len(inbox) + 1 /\ Len(Coming') = Len(inbox') + 1
            /\ Coming[1] = request /\ Coming'[1] = request
        BY <1>1, <2>5, <3>2, ComingIs, ComingIsPrime
      <4>2. ASSUME NEW i \in 2 .. Len(inbox) + 1
            PROVE  Coming'[i] = Coming[i]
        <5>1. i - 1 \in 1 .. Len(inbox) /\ (i - 1) + 1 = i /\ i - 1 \in 1 .. Len(inbox')
          BY <1>1, <2>3, ServiceLengths
        <5>2. Coming[i] = inbox[i - 1] /\ Coming'[i] = inbox'[i - 1]
          BY <1>1, <2>5, <3>2, <5>1, ComingIs, ComingIsPrime
        <5> QED
          BY <2>3, <5>1, <5>2
      <4>3. Coming'[Len(inbox) + 2] = CmdStr(o)
        <5>1. Len(inbox) + 1 \in 1 .. Len(inbox') /\ (Len(inbox) + 1) + 1 = Len(inbox) + 2
          BY <1>1, <2>3, ServiceLengths
        <5>2. Coming'[(Len(inbox) + 1) + 1] = inbox'[Len(inbox) + 1]
          BY <1>1, <2>5, <3>2, <5>1, ComingIsPrime
        <5> QED
          BY <2>3, <5>1, <5>2
      <4> QED
        BY <1>1, <2>3, <4>1, <4>2, <4>3, ServiceLengths
    <3> QED
      BY <3>1, <3>2
  <2>7. NothingLost'
    <3>1. Len(accepted) = Len(log) + Len(Coming)
      BY <1>1 DEF NothingLost
    <3>2. Len(accepted') = Len(log') + Len(Coming')
      BY <1>1, <2>4, <2>6, <3>1, ServiceLengths
    <3>3. ASSUME NEW i \in 1 .. Len(accepted')
          PROVE  IF i <= Len(log') THEN log'[i] = accepted'[i]
                 ELSE Coming'[i - Len(log')] = CmdStr(accepted'[i])
                      /\ ~Throws(Coming'[i - Len(log')])
      <4>1. CASE i \in 1 .. Len(accepted)
        <5>1. i - Len(log) \in 1 .. Len(Coming) \/ i <= Len(log)
          BY <1>1, <3>1, <4>1, ServiceLengths
        <5> QED
          BY <1>1, <2>4, <2>6, <4>1, <5>1 DEF NothingLost
      <4>2. CASE i = Len(accepted) + 1
        <5>1. i > Len(log) /\ i - Len(log) = Len(Coming) + 1
          BY <1>1, <3>1, <4>2, ServiceLengths
        <5> QED
          BY <1>1, <2>2, <2>4, <2>6, <4>2, <5>1, ServiceLengths
      <4> QED
        BY <1>1, <2>4, <4>1, <4>2, ServiceLengths
    <3>4. ASSUME NEW i \in 1 .. Len(accepted'), NEW j \in 1 .. Len(accepted'), i < j
          PROVE  accepted'[i].sequence < accepted'[j].sequence
      <4>1. CASE j \in 1 .. Len(accepted)
        <5>1. i \in 1 .. Len(accepted)
          BY <1>1, <3>4, <4>1, ServiceLengths
        <5> QED
          BY <1>1, <2>4, <3>4, <4>1, <5>1 DEF NothingLost
      <4>2. CASE j = Len(accepted) + 1
        <5>1. i \in 1 .. Len(accepted)
          BY <1>1, <3>4, <4>2, ServiceLengths
        <5> QED
          BY <1>1, <1>3, <2>4, <4>2, <5>1
      <4> QED
        BY <1>1, <2>4, <4>1, <4>2, ServiceLengths
    <3>5. ASSUME NEW i \in taken' + 1 .. Len(accepted')
          PROVE  accepted'[i].sequence >= sequence'
      <4>1. CASE i = Len(accepted) + 1
        BY <1>1, <1>2, <1>3, <2>4, <4>1
      <4>2. CASE i # Len(accepted) + 1
        <5>1. i \in taken + 1 .. Len(accepted) /\ i \in 1 .. Len(accepted)
          BY <1>1, <2>4, <4>2, ServiceLengths
        <5> QED
          BY <1>1, <1>2, <2>4, <5>1 DEF NothingLost
      <4> QED
        BY <4>1, <4>2
    <3> QED
      BY <3>2, <3>3, <3>4, <3>5 DEF NothingLost
  <2>8. \A i \in 1 .. Len(accepted') : accepted'[i].sequence < next'
    <3> SUFFICES ASSUME NEW i \in 1 .. Len(accepted')
                 PROVE  accepted'[i].sequence < next + 1
      BY <1>1
    <3>1. CASE i = Len(accepted) + 1
      BY <1>1, <1>3, <2>4, <3>1
    <3>2. CASE i \in 1 .. Len(accepted)
      <4>1. accepted[i].sequence \in Int
        BY <1>1, <3>2, OfArriving DEF ServiceTypeOK
      <4> QED
        BY <1>1, <2>4, <3>2, <4>1
    <3> QED
      BY <1>1, <2>4, <3>1, <3>2, ServiceLengths
  <2>9. Cursors' /\ Len(inbox') <= HighWater
    BY <1>1, <1>4, <2>3, ServiceLengths, ServiceAssumption DEF Cursors
  <2> QED
    BY <1>1, <1>2, <2>5, <2>7, <2>8, <2>9 DEF ServiceIInv
<1>5. CASE ~(Len(inbox) < HighWater)
  <2>1. UNCHANGED <<inbox, accepted>>
    BY <1>5 DEF Deliver
  <2>2. ServiceTypeOK' /\ Cursors'
    BY <1>1, <2>1, BoundAssumption DEF ServiceTypeOK, Cursors
  <2>3. Coming' = Coming
    BY <1>1, <2>1 DEF Coming, Held
  <2>4. NothingLost'
    BY <1>1, <1>2, <2>1, <2>3 DEF NothingLost
  <2>5. \A i \in 1 .. Len(accepted) : accepted[i].sequence < next + 1
    <3> SUFFICES ASSUME NEW i \in 1 .. Len(accepted)
                 PROVE  accepted[i].sequence < next + 1
      OBVIOUS
    <3>1. accepted[i].sequence \in Int
      BY <1>1, OfArriving DEF ServiceTypeOK
    <3> QED
      BY <1>1, <3>1
  <2> QED
    BY <1>1, <1>2, <2>1, <2>2, <2>4, <2>5 DEF ServiceIInv
<1> QED
  BY <1>4, <1>5

LEMMA ReceiveKeeps ==
  ASSUME ServiceIInv, Receive
  PROVE  ServiceIInv'
<1>1. /\ ServiceTypeOK /\ Cursors /\ NothingLost /\ Len(inbox) <= HighWater
      /\ sequence \in 1 .. next
      /\ \A i \in 1 .. Len(accepted) : accepted[i].sequence < next
      /\ request = NoRequest /\ inbox # <<>>
      /\ request' = Head(inbox) /\ inbox' = Tail(inbox)
      /\ UNCHANGED <<vars, next, orderTemplate, log, released, taken, end, accepted>>
  BY DEF ServiceIInv, Receive
<1>2. UNCHANGED sequence
  BY <1>1 DEF vars
<1>3. /\ Len(inbox) \in Nat \ {0} /\ inbox' \in Seq(Commands)
      /\ Len(inbox') = Len(inbox) - 1 /\ request' = inbox[1] /\ inbox[1] \in Commands
      /\ \A i \in 1 .. Len(inbox') : inbox'[i] = inbox[i + 1]
  BY <1>1 DEF ServiceTypeOK
<1>4. request' # NoRequest
  BY <1>3, ServiceAssumption
<1>5. ServiceTypeOK'
  BY <1>1, <1>3 DEF ServiceTypeOK
<1>6. Coming = inbox
  BY <1>1, ComingIs
<1>7. /\ Len(Coming') = Len(Coming)
      /\ \A i \in 1 .. Len(Coming) : Coming'[i] = Coming[i]
  <2>1. Len(Coming') = Len(inbox) /\ Coming'[1] = inbox[1]
    BY <1>3, <1>4, <1>5, ComingIsPrime
  <2>2. ASSUME NEW i \in 2 .. Len(inbox)
        PROVE  Coming'[i] = inbox[i]
    <3>1. i - 1 \in 1 .. Len(inbox') /\ (i - 1) + 1 = i
      BY <1>3
    <3>2. Coming'[(i - 1) + 1] = inbox'[i - 1]
      BY <1>4, <1>5, <3>1, ComingIsPrime
    <3> QED
      BY <1>3, <3>1, <3>2
  <2> QED
    BY <1>3, <1>6, <2>1, <2>2
<1>8. NothingLost'
  <2>1. \A i \in 1 .. Len(accepted) : i <= Len(log) \/ i - Len(log) \in 1 .. Len(Coming)
    BY <1>1, ServiceLengths DEF NothingLost
  <2> QED
    BY <1>1, <1>2, <1>7, <2>1 DEF NothingLost
<1>9. Cursors' /\ Len(inbox') <= HighWater
  BY <1>1, <1>3, ServiceAssumption DEF Cursors
<1> QED
  BY <1>1, <1>2, <1>5, <1>8, <1>9 DEF ServiceIInv

LEMMA FillKeeps ==
  ASSUME ServiceIInv, Fill
  PROVE  ServiceIInv'
<1> DEFINE o == FromCmdStr(orderTemplate, request)
<1>1. /\ ServiceTypeOK /\ Cursors /\ NothingLost /\ Len(inbox) <= HighWater
      /\ sequence \in 1 .. next
      /\ \A i \in 1 .. Len(accepted) : accepted[i].sequence < next
      /\ request # NoRequest /\ Len(log) < released + Size
      /\ orderTemplate' = o /\ log' = Append(log, o)
      /\ request' = NoRequest
      /\ UNCHANGED <<vars, next, inbox, released, taken, end, accepted>>
  BY DEF ServiceIInv, Fill, HasRoom
<1>2. UNCHANGED sequence
  BY <1>1 DEF vars
<1>3. Len(Coming) = Len(inbox) + 1 /\ Coming[1] = request
  BY <1>1, ComingIs
<1>4. /\ Len(log) + 1 \in 1 .. Len(accepted) /\ Len(accepted) = Len(log) + Len(Coming)
      /\ request = CmdStr(accepted[Len(log) + 1])
  <2>1. Len(accepted) = Len(log) + Len(Coming)
    BY <1>1 DEF NothingLost
  <2>2. Len(log) + 1 \in 1 .. Len(accepted)
    BY <1>1, <1>3, <2>1, ServiceLengths
  <2>3. ~(Len(log) + 1 <= Len(log)) /\ (Len(log) + 1) - Len(log) = 1
    BY <1>1, ServiceLengths
  <2>4. Coming[(Len(log) + 1) - Len(log)] = CmdStr(accepted[Len(log) + 1])
    BY <1>1, <2>2, <2>3 DEF NothingLost
  <2> QED
    BY <1>3, <2>1, <2>2, <2>3, <2>4
<1>5. accepted[Len(log) + 1] \in Arriving
  BY <1>1, <1>4 DEF ServiceTypeOK
<1>6. o = accepted[Len(log) + 1]
  BY <1>4, <1>5, OfArriving
<1> HIDE DEF o
<1>7. /\ log' \in Seq(Arriving) /\ Len(log') = Len(log) + 1
      /\ \A i \in 1 .. Len(log) : log'[i] = log[i]
      /\ log'[Len(log) + 1] = accepted[Len(log) + 1]
  BY <1>1, <1>5, <1>6, AppendElements DEF ServiceTypeOK
<1>8. ServiceTypeOK'
  BY <1>1, <1>5, <1>6, <1>7 DEF ServiceTypeOK
<1>9. Coming' = inbox
  BY <1>1, <1>8, ComingIsPrime
<1>10. NothingLost'
  <2>1. Len(accepted') = Len(log') + Len(Coming')
    BY <1>1, <1>3, <1>4, <1>7, <1>9, ServiceLengths
  <2>2. ASSUME NEW i \in 1 .. Len(accepted)
        PROVE  IF i <= Len(log') THEN log'[i] = accepted[i]
               ELSE inbox[i - Len(log')] = CmdStr(accepted[i])
                    /\ ~Throws(inbox[i - Len(log')])
    <3>1. CASE i <= Len(log)
      BY <1>1, <1>7, <3>1, ServiceLengths DEF NothingLost
    <3>2. CASE i = Len(log) + 1
      BY <1>1, <1>7, <3>2, ServiceLengths
    <3>3. CASE i > Len(log) + 1
      <4>1. i - Len(log') \in 1 .. Len(inbox) /\ (i - Len(log')) + 1 = i - Len(log)
            /\ ~(i <= Len(log')) /\ ~(i <= Len(log))
        BY <1>1, <1>3, <1>4, <1>7, <3>3, ServiceLengths
      <4>2. Coming[i - Len(log)] = inbox[i - Len(log')]
        BY <1>1, <4>1, ComingIs
      <4>3. Coming[i - Len(log)] = CmdStr(accepted[i]) /\ ~Throws(Coming[i - Len(log)])
        BY <1>1, <4>1 DEF NothingLost
      <4> QED
        BY <4>1, <4>2, <4>3
    <3> QED
      BY <1>1, <3>1, <3>2, <3>3, ServiceLengths
  <2> QED
    BY <1>1, <1>2, <1>9, <2>1, <2>2 DEF NothingLost
<1>11. Cursors'
  BY <1>1, <1>7, ServiceLengths, ServiceAssumption DEF Cursors
<1> QED
  BY <1>1, <1>2, <1>8, <1>10, <1>11 DEF ServiceIInv

LEMMA ClaimBatchKeeps ==
  ASSUME ServiceIInv, ClaimBatch
  PROVE  ServiceIInv'
<1>1. /\ ServiceTypeOK /\ Cursors /\ NothingLost /\ Len(inbox) <= HighWater
      /\ sequence \in 1 .. next
      /\ \A i \in 1 .. Len(accepted) : accepted[i].sequence < next
      /\ taken = end /\ released < Len(log) /\ end' = Len(log)
      /\ UNCHANGED <<vars, next, inbox, request, orderTemplate, log, released, taken, accepted>>
  BY DEF ServiceIInv, ClaimBatch
<1>2. UNCHANGED sequence
  BY <1>1 DEF vars
<1>3. ServiceTypeOK' /\ Cursors'
  BY <1>1, ServiceLengths, ServiceAssumption DEF ServiceTypeOK, Cursors
<1>4. Coming' = Coming
  BY <1>1 DEF Coming, Held
<1> QED
  BY <1>1, <1>2, <1>3, <1>4 DEF NothingLost, ServiceIInv

(* The order that is taken has a number the book has not seen, below those *)
(* still to come.                                                          *)
LEMMA NextIsNew ==
  ASSUME ServiceIInv, taken < end
  PROVE  /\ taken + 1 \in 1 .. Len(log) /\ taken + 1 \in 1 .. Len(accepted)
         /\ NextOrder = accepted[taken + 1] /\ NextOrder \in Arriving
         /\ NextOrder.sequence \in sequence .. MaxOrders
         /\ \A i \in taken + 2 .. Len(accepted) : NextOrder.sequence + 1 <= accepted[i].sequence
<1>1. /\ ServiceTypeOK /\ Cursors /\ NothingLost /\ sequence \in Nat
  BY DEF ServiceIInv, ServiceTypeOK
<1>2. taken + 1 \in 1 .. Len(log) /\ taken + 1 \in 1 .. Len(accepted)
      /\ taken + 1 \in taken + 1 .. Len(accepted)
  BY <1>1, ServiceLengths DEF Cursors, NothingLost
<1>3. NextOrder = accepted[taken + 1] /\ NextOrder \in Arriving
  BY <1>1, <1>2 DEF NextOrder, NothingLost, ServiceTypeOK
<1>4. NextOrder.sequence \in 1 .. MaxOrders /\ NextOrder.sequence >= sequence
  BY <1>1, <1>2, <1>3, OfArriving DEF NothingLost
<1>5. ASSUME NEW i \in taken + 2 .. Len(accepted)
      PROVE  NextOrder.sequence + 1 <= accepted[i].sequence
  <2>1. i \in 1 .. Len(accepted) /\ taken + 1 < i
    BY <1>1, ServiceLengths
  <2>2. NextOrder.sequence < accepted[i].sequence
    BY <1>1, <1>2, <1>3, <2>1 DEF NothingLost
  <2>3. accepted[i].sequence \in 1 .. MaxOrders
    BY <1>1, <2>1, OfArriving DEF ServiceTypeOK
  <2> QED
    BY <1>4, <2>2, <2>3, BoundAssumption
<1> QED
  BY <1>1, <1>2, <1>3, <1>4, <1>5, BoundAssumption

LEMMA TakeOrderKeeps ==
  ASSUME ServiceIInv, TakeOrder
  PROVE  ServiceIInv'
<1>1. /\ ServiceTypeOK /\ Cursors /\ NothingLost /\ Len(inbox) <= HighWater
      /\ sequence \in 1 .. next
      /\ \A i \in 1 .. Len(accepted) : accepted[i].sequence < next
      /\ taken < end /\ taken' = taken + 1
      /\ UNCHANGED <<next, inbox, request, orderTemplate, log, released, end, accepted>>
      /\ sequence' = NextOrder.sequence + 1
  BY DEF ServiceIInv, TakeOrder, AddOrder, AddCancel, Arrives
<1>2. /\ taken + 1 \in 1 .. Len(accepted) /\ NextOrder = accepted[taken + 1]
      /\ NextOrder.sequence \in 1 .. MaxOrders
      /\ \A i \in taken + 2 .. Len(accepted) : sequence' <= accepted[i].sequence
  BY <1>1, NextIsNew, OfArriving
<1>3. ServiceTypeOK' /\ Cursors'
  BY <1>1, ServiceLengths DEF ServiceTypeOK, Cursors
<1>4. Coming' = Coming
  BY <1>1 DEF Coming, Held
<1>5. NothingLost'
  <2>1. ASSUME NEW i \in taken' + 1 .. Len(accepted')
        PROVE  accepted'[i].sequence >= sequence'
    <3>1. i \in taken + 2 .. Len(accepted) /\ i \in 1 .. Len(accepted)
      BY <1>1, ServiceLengths
    <3>2. accepted[i].sequence \in Int
      BY <1>1, <3>1, OfArriving DEF ServiceTypeOK
    <3> QED
      BY <1>1, <1>2, <3>1, <3>2
  <2> QED
    BY <1>1, <1>4, <2>1 DEF NothingLost
<1>6. sequence' \in 1 .. next'
  <2>1. NextOrder.sequence < next
    BY <1>1, <1>2
  <2>2. next \in Nat /\ NextOrder.sequence \in Nat \ {0}
    BY <1>1, <1>2, BoundAssumption DEF ServiceTypeOK
  <2> HIDE DEF NextOrder
  <2> QED
    BY <1>1, <2>1, <2>2
<1> QED
  BY <1>1, <1>3, <1>5, <1>6 DEF ServiceIInv

LEMMA ReleaseBatchKeeps ==
  ASSUME ServiceIInv, ReleaseBatch
  PROVE  ServiceIInv'
<1>1. /\ ServiceTypeOK /\ Cursors /\ NothingLost /\ Len(inbox) <= HighWater
      /\ sequence \in 1 .. next
      /\ \A i \in 1 .. Len(accepted) : accepted[i].sequence < next
      /\ taken = end /\ released' = end
      /\ UNCHANGED <<next, inbox, request, orderTemplate, log, taken, end, accepted, sequence>>
  BY DEF ServiceIInv, ReleaseBatch, BeginMatch
<1>2. ServiceTypeOK' /\ Cursors'
  BY <1>1, ServiceLengths, ServiceAssumption DEF ServiceTypeOK, Cursors
<1>3. Coming' = Coming
  BY <1>1 DEF Coming, Held
<1> QED
  BY <1>1, <1>2, <1>3 DEF NothingLost, ServiceIInv

LEMMA BookStepKeeps ==
  ASSUME ServiceIInv, UNCHANGED <<serviceVars, sequence>>
  PROVE  ServiceIInv'
<1>1. ServiceTypeOK' /\ Cursors' /\ Coming' = Coming
  BY DEF ServiceIInv, serviceVars, ServiceTypeOK, Cursors, Coming, Held
<1> QED
  BY <1>1 DEF ServiceIInv, serviceVars, NothingLost

LEMMA ServiceNextIInv == ServiceIInv /\ [ServiceNext]_allVars => ServiceIInv'
<1> SUFFICES ASSUME ServiceIInv, [ServiceNext]_allVars PROVE ServiceIInv'
  OBVIOUS
<1>1. ASSUME NEW r \in Requests, Deliver(r) PROVE ServiceIInv'
  BY <1>1, DeliverKeeps
<1>2. CASE RequestStep
  BY <1>2, ReceiveKeeps, FillKeeps DEF RequestStep
<1>3. CASE MatchStep
  <2>1. Work => UNCHANGED <<serviceVars, sequence>>
    BY DEF Work, Place, Match, Halve, Insert, Trade, EraseAsk, PassAsk, LeaveAsk, MatchReturns
  <2> QED
    BY <1>3, <2>1, ClaimBatchKeeps, TakeOrderKeeps, ReleaseBatchKeeps, BookStepKeeps DEF MatchStep
<1>4. CASE UNCHANGED allVars
  BY <1>4, BookStepKeeps DEF allVars, vars
<1> QED
  BY <1>1, <1>2, <1>3, <1>4 DEF ServiceNext

------------------------------------------------------------------------------
(* Sums.                                                                   *)

(* A set of numbers has a least one: the counterexample nearest to zero,   *)
(* which is what an induction is here.                                     *)
LEMMA Least ==
  ASSUME NEW T \in SUBSET Nat, T # {}
  PROVE  \E m \in T : \A k \in T : m <= k
<1>1. IsWellFoundedOn(OpToRel(<, Nat), Nat)
  BY NatLessThanWellFounded
<1>2. PICK m \in T : \A k \in T : ~ (<<k, m>> \in OpToRel(<, Nat))
  BY <1>1, WFMin
<1>3. \A k \in T : ~(k < m)
  BY <1>2 DEF OpToRel
<1> QED
  BY <1>3

(* The sums up to n exist, ...                                             *)
LEMMA SumsExist ==
  ASSUME NEW q \in Seq(Nat), NEW n \in 0 .. Len(q)
  PROVE  \E s \in [0 .. n -> Nat] : s[0] = 0 /\ \A k \in 1 .. n : s[k] = s[k - 1] + q[k]
<1> DEFINE Has(m) == \E s \in [0 .. m -> Nat] : s[0] = 0 /\ \A k \in 1 .. m : s[k] = s[k - 1] + q[k]
           T == {m \in 0 .. Len(q) : ~Has(m)}
<1>1. SUFFICES ASSUME T # {} PROVE FALSE
  OBVIOUS
<1>2. Len(q) \in Nat
  OBVIOUS
<1>3. T \in SUBSET Nat
  BY <1>2
<1> HIDE DEF T
<1>4. PICK m \in T : \A k \in T : m <= k
  BY <1>1, <1>3, Least
<1>5. m \in 0 .. Len(q) /\ ~Has(m)
  BY <1>4 DEF T
<1>6. m # 0
  <2>1. [k \in 0 .. 0 |-> 0] \in [0 .. 0 -> Nat]
    OBVIOUS
  <2>2. 1 .. 0 = {} /\ [k \in 0 .. 0 |-> 0][0] = 0
    OBVIOUS
  <2>3. Has(0)
    BY <2>1, <2>2
  <2> QED
    BY <1>5, <2>3
<1>7. m - 1 \in 0 .. Len(q) /\ ~(m <= m - 1)
  BY <1>2, <1>5, <1>6
<1>8. Has(m - 1)
  BY <1>4, <1>7 DEF T
<1>9. PICK s \in [0 .. m - 1 -> Nat] : s[0] = 0 /\ \A k \in 1 .. m - 1 : s[k] = s[k - 1] + q[k]
  BY <1>8
<1> DEFINE t == [k \in 0 .. m |-> IF k = m THEN s[m - 1] + q[m] ELSE s[k]]
<1>10. t \in [0 .. m -> Nat]
  <2>1. s[m - 1] \in Nat /\ q[m] \in Nat
    BY <1>2, <1>5, <1>6
  <2> QED
    BY <1>5, <2>1
<1>11. t[0] = 0 /\ \A k \in 1 .. m : t[k] = t[k - 1] + q[k]
  BY <1>5, <1>6, <1>9
<1>12. Has(m)
  BY <1>10, <1>11
<1> QED
  BY <1>5, <1>12

(* ... and are the function that Partial defines recursively.              *)
LEMMA PartialIs ==
  ASSUME NEW q \in Seq(Nat)
  PROVE  /\ Partial(q) \in [0 .. Len(q) -> Nat]
         /\ Partial(q)[0] = 0
         /\ \A k \in 1 .. Len(q) : Partial(q)[k] = Partial(q)[k - 1] + q[k]
<1> DEFINE P == [k \in 0 .. Len(q) |-> IF k = 0 THEN 0 ELSE Partial(q)[k - 1] + q[k]]
<1>0. Len(q) \in Nat
  OBVIOUS
<1>1. Len(q) \in 0 .. Len(q)
  BY <1>0
<1>2. PICK s \in [0 .. Len(q) -> Nat] : s[0] = 0 /\ \A k \in 1 .. Len(q) : s[k] = s[k - 1] + q[k]
  BY <1>1, SumsExist
<1>3. s = [k \in 0 .. Len(q) |-> IF k = 0 THEN 0 ELSE s[k - 1] + q[k]]
  BY <1>0, <1>2
<1>4. \E f : f = [k \in 0 .. Len(q) |-> IF k = 0 THEN 0 ELSE f[k - 1] + q[k]]
  BY <1>3
<1>5. Partial(q) = [k \in 0 .. Len(q) |-> IF k = 0 THEN 0 ELSE Partial(q)[k - 1] + q[k]]
  BY <1>4 DEF Partial
<1> DEFINE p == Partial(q)
<1> HIDE DEF p
<1>6. p = [k \in 0 .. Len(q) |-> IF k = 0 THEN 0 ELSE p[k - 1] + q[k]]
  BY <1>5 DEF p
<1>7. p[0] = 0 /\ \A k \in 1 .. Len(q) : p[k] = p[k - 1] + q[k]
  BY <1>0, <1>6
<1>8. \A k \in 0 .. Len(q) : p[k] = s[k]
  \* the least place where the two would differ
  <2> DEFINE T == {k \in 0 .. Len(q) : p[k] # s[k]}
  <2>1. SUFFICES ASSUME T # {} PROVE FALSE
    OBVIOUS
  <2>2. T \in SUBSET Nat
    BY <1>0
  <2> HIDE DEF T
  <2>3. PICK m \in T : \A k \in T : m <= k
    BY <2>1, <2>2, Least
  <2>4. m \in 0 .. Len(q) /\ p[m] # s[m]
    BY <2>3 DEF T
  <2>5. m # 0
    BY <1>2, <1>7, <2>4
  <2>6. m - 1 \in 0 .. Len(q) /\ ~(m <= m - 1) /\ m \in 1 .. Len(q)
    BY <1>0, <2>4, <2>5
  <2>7. p[m - 1] = s[m - 1]
    BY <2>3, <2>6 DEF T
  <2> QED
    BY <1>2, <1>7, <2>4, <2>6, <2>7
<1>9. p \in [0 .. Len(q) -> Nat]
  BY <1>2, <1>6, <1>8
<1> QED
  BY <1>7, <1>9 DEF p

(* Over a stretch of the same elements, from a to c in one sequence and    *)
(* from b to e in another, two sums grow by as much.                       *)
LEMMA SameStretch ==
  ASSUME NEW q \in Seq(Nat), NEW r \in Seq(Nat),
         NEW a \in 0 .. Len(q), NEW c \in a .. Len(q),
         NEW b \in 0 .. Len(r), NEW e \in b .. Len(r), c - a = e - b,
         \A k \in a + 1 .. c : q[k] = r[k - a + b]
  PROVE  Partial(q)[c] - Partial(q)[a] = Partial(r)[e] - Partial(r)[b]
<1> DEFINE p == Partial(q)
           s == Partial(r)
           T == {k \in a .. c : p[k] - p[a] # s[k - a + b] - s[b]}
<1>1. /\ \A k \in 0 .. Len(q) : p[k] \in Nat
      /\ \A k \in 0 .. Len(r) : s[k] \in Nat
      /\ \A k \in 1 .. Len(q) : p[k] = p[k - 1] + q[k]
      /\ \A k \in 1 .. Len(r) : s[k] = s[k - 1] + r[k]
  BY PartialIs
<1>2. /\ Len(q) \in Nat /\ Len(r) \in Nat /\ a \in Nat /\ b \in Nat /\ c \in Nat /\ e \in Nat
      /\ a <= c /\ c <= Len(q) /\ b <= e /\ e <= Len(r) /\ c - a = e - b
  OBVIOUS
<1>3. p[a] \in Nat /\ s[b] \in Nat
  BY <1>1
<1> HIDE DEF p, s
<1>4. ASSUME T # {} PROVE FALSE
  <2>1. T \in SUBSET Nat
    BY <1>2
  <2> HIDE DEF T
  <2>2. PICK m \in T : \A k \in T : m <= k
    BY <1>4, <2>1, Least
  <2>3. m \in a .. c /\ p[m] - p[a] # s[m - a + b] - s[b]
    BY <2>2 DEF T
  <2>4. m # a
    <3>1. m = a => p[m] - p[a] = s[m - a + b] - s[b]
      <4>1. a - a + b = b /\ p[a] - p[a] = 0 /\ s[b] - s[b] = 0
        BY ONLY <1>2, <1>3
      <4> QED
        BY ONLY <4>1
    <3> QED
      BY ONLY <2>3, <3>1
  <2>5. m - 1 \in a .. c /\ ~(m <= m - 1) /\ m \in a + 1 .. c
    BY <1>2, <2>3, <2>4
  <2>6. p[m - 1] - p[a] = s[(m - 1) - a + b] - s[b]
    BY <2>2, <2>5 DEF T
  <2>7. /\ m \in 1 .. Len(q) /\ m - a + b \in 1 .. Len(r)
        /\ m - 1 \in 0 .. Len(q) /\ (m - 1) - a + b \in 0 .. Len(r)
        /\ (m - a + b) - 1 = (m - 1) - a + b
    BY ONLY <1>2, <2>5
  <2>8. p[m] = p[m - 1] + q[m] /\ s[m - a + b] = s[(m - 1) - a + b] + r[m - a + b]
    BY <1>1, <2>7
  <2>9. q[m] = r[m - a + b] /\ q[m] \in Nat
    <3>1. q[m] = r[m - a + b]
      BY <2>5
    <3>2. q[m] \in Nat
      BY <2>7
    <3> QED
      BY <3>1, <3>2
  <2>10. /\ p[m - 1] \in Nat /\ s[(m - 1) - a + b] \in Nat
         /\ p[m] \in Nat /\ s[m - a + b] \in Nat
    <3>1. m \in 0 .. Len(q) /\ m - a + b \in 0 .. Len(r)
      BY ONLY <1>2, <2>5
    <3> QED
      BY ONLY <1>1, <2>7, <3>1
  <2> DEFINE x == p[m]
             y == p[m - 1]
             z == s[m - a + b]
             w == s[(m - 1) - a + b]
             v == r[m - a + b]
             f == p[a]
             g == s[b]
  <2>11. /\ x \in Nat /\ y \in Nat /\ z \in Nat /\ w \in Nat /\ v \in Nat
         /\ f \in Nat /\ g \in Nat
         /\ x = y + v /\ z = w + v
    BY ONLY <1>3, <2>8, <2>9, <2>10
  <2>12. y - f = w - g /\ x - f # z - g
    BY ONLY <2>3, <2>6
  <2> HIDE DEF x, y, z, w, v, f, g
  <2> QED
    BY ONLY <2>11, <2>12
<1>5. c \in a .. c /\ c - a + b = e
  BY <1>2
<1>6. p[c] - p[a] = s[c - a + b] - s[b]
  BY <1>4, <1>5
<1> QED
  BY <1>5, <1>6 DEF p, s

LEMMA TotalIsNat ==
  ASSUME NEW q \in Seq(Nat)
  PROVE  Total(q) \in Nat
<1>1. Len(q) \in 0 .. Len(q)
  OBVIOUS
<1> QED
  BY <1>1, PartialIs DEF Total

LEMMA TotalOfNothing ==
  ASSUME NEW q \in Seq(Nat), \A k \in 1 .. Len(q) : q[k] = 0
  PROVE  Total(q) = 0
<1> DEFINE p == Partial(q)
           T == {k \in 0 .. Len(q) : p[k] # 0}
<1>1. p[0] = 0 /\ (\A k \in 1 .. Len(q) : p[k] = p[k - 1] + q[k]) /\ Len(q) \in Nat
  BY PartialIs
<1> HIDE DEF p
<1>2. ASSUME T # {} PROVE FALSE
  <2>1. T \in SUBSET Nat
    BY <1>1
  <2> HIDE DEF T
  <2>2. PICK m \in T : \A k \in T : m <= k
    BY <1>2, <2>1, Least
  <2>3. m \in 0 .. Len(q) /\ p[m] # 0
    BY <2>2 DEF T
  <2>4. m - 1 \in 0 .. Len(q) /\ ~(m <= m - 1) /\ m \in 1 .. Len(q)
    BY <1>1, <2>3
  <2>5. p[m - 1] = 0
    BY <2>2, <2>4 DEF T
  <2> QED
    BY <1>1, <2>3, <2>4, <2>5
<1>3. p[Len(q)] = 0
  BY <1>1, <1>2
<1> QED
  BY <1>3 DEF p, Total

(* Before the i-th place the sums of two sequences are the same if their   *)
(* elements are.                                                           *)
LEMMA SameBefore ==
  ASSUME NEW q \in Seq(Nat), NEW r \in Seq(Nat),
         NEW i \in 1 .. Len(q), i - 1 <= Len(r), \A k \in 1 .. i - 1 : q[k] = r[k]
  PROVE  Partial(r)[i - 1] \in Nat /\ Partial(q)[i] = Partial(r)[i - 1] + q[i]
<1>1. i - 1 \in 0 .. Len(q) /\ i - 1 \in 0 .. Len(r) /\ Len(q) \in Nat /\ Len(r) \in Nat
  OBVIOUS
<1>2. Partial(q)[0] = 0 /\ Partial(r)[0] = 0
  BY PartialIs
<1>3. Partial(q)[i - 1] \in Nat /\ Partial(r)[i - 1] \in Nat
  BY <1>1, PartialIs
<1>4. Partial(q)[i - 1] - Partial(q)[0] = Partial(r)[i - 1] - Partial(r)[0]
  <2>1. \A k \in 0 + 1 .. i - 1 : q[k] = r[k - 0 + 0]
    BY <1>1
  <2>2. /\ 0 \in 0 .. Len(q) /\ 0 \in 0 .. Len(r)
        /\ i - 1 \in 0 .. Len(q) /\ i - 1 \in 0 .. Len(r) /\ (i - 1) - 0 = (i - 1) - 0
    BY <1>1
  <2> QED
    BY ONLY q \in Seq(Nat), r \in Seq(Nat), <2>1, <2>2, SameStretch, ZenonT(60)
<1>5. Partial(q)[i] = Partial(q)[i - 1] + q[i]
  BY PartialIs
<1>6. Partial(q)[i - 1] = Partial(r)[i - 1]
  BY <1>2, <1>3, <1>4
<1> QED
  BY <1>3, <1>5, <1>6

(* An element more at the i-th place.                                      *)
LEMMA TotalInsert ==
  ASSUME NEW q \in Seq(Nat), NEW r \in Seq(Nat), Len(q) = Len(r) + 1, NEW i \in 1 .. Len(q),
         \A k \in 1 .. i - 1 : q[k] = r[k],
         \A k \in i + 1 .. Len(q) : q[k] = r[k - 1]
  PROVE  Total(q) = Total(r) + q[i]
<1>1. /\ Len(q) \in Nat /\ Len(r) \in Nat /\ i - 1 <= Len(r) /\ q[i] \in Nat
      /\ i \in 0 .. Len(q) /\ i - 1 \in 0 .. Len(r)
      /\ Len(q) \in i .. Len(q) /\ Len(r) \in i - 1 .. Len(r)
      /\ Len(q) - i = Len(r) - (i - 1)
  OBVIOUS
<1>2. \A k \in i + 1 .. Len(q) : q[k] = r[k - i + (i - 1)]
  OBVIOUS
<1>3. Partial(q)[Len(q)] - Partial(q)[i] = Partial(r)[Len(r)] - Partial(r)[i - 1]
  BY ONLY q \in Seq(Nat), r \in Seq(Nat), <1>1, <1>2, SameStretch, Zenon
<1>4. Partial(r)[i - 1] \in Nat /\ Partial(q)[i] = Partial(r)[i - 1] + q[i]
  BY <1>1, SameBefore
<1>5. Total(q) \in Nat /\ Total(r) \in Nat
  BY TotalIsNat
<1>6. Total(q) = Partial(q)[Len(q)] /\ Total(r) = Partial(r)[Len(r)]
  BY DEF Total
<1> DEFINE x == Partial(q)[i]
           y == Partial(r)[i - 1]
           v == q[i]
           Q == Total(q)
           R == Total(r)
<1>7. /\ y \in Nat /\ v \in Nat /\ Q \in Nat /\ R \in Nat
      /\ x = y + v /\ Q - x = R - y
  BY ONLY <1>1, <1>3, <1>4, <1>5, <1>6
<1> HIDE DEF x, y, v, Q, R
<1>8. Q = R + v
  BY ONLY <1>7
<1> QED
  BY ONLY <1>8 DEF v, Q, R

(* Another element at the i-th place.                                      *)
LEMMA TotalUpdate ==
  ASSUME NEW q \in Seq(Nat), NEW r \in Seq(Nat), Len(q) = Len(r), NEW i \in 1 .. Len(q),
         \A k \in 1 .. Len(q) : k # i => q[k] = r[k]
  PROVE  Total(q) + r[i] = Total(r) + q[i]
<1>1. /\ Len(q) \in Nat /\ Len(r) \in Nat /\ i - 1 <= Len(r)
      /\ q[i] \in Nat /\ r[i] \in Nat
      /\ i \in 0 .. Len(q) /\ i \in 0 .. Len(r)
      /\ Len(q) \in i .. Len(q) /\ Len(r) \in i .. Len(r)
      /\ Len(q) - i = Len(r) - i
  OBVIOUS
<1>2. \A k \in i + 1 .. Len(q) : q[k] = r[k - i + i]
  <2> SUFFICES ASSUME NEW k \in i + 1 .. Len(q) PROVE q[k] = r[k - i + i]
    OBVIOUS
  <2>1. k \in 1 .. Len(q) /\ k # i /\ k - i + i = k
    BY <1>1
  <2> QED
    BY <2>1
<1>3. Partial(q)[Len(q)] - Partial(q)[i] = Partial(r)[Len(r)] - Partial(r)[i]
  BY ONLY q \in Seq(Nat), r \in Seq(Nat), <1>1, <1>2, SameStretch, Zenon
<1>4. Partial(r)[i - 1] \in Nat /\ Partial(q)[i] = Partial(r)[i - 1] + q[i]
  <2>1. \A k \in 1 .. i - 1 : q[k] = r[k]
    BY <1>1
  <2> QED
    BY <1>1, <2>1, SameBefore
<1>5. Partial(r)[i] = Partial(r)[i - 1] + r[i]
  BY PartialIs
<1>6. Total(q) \in Nat /\ Total(r) \in Nat
  BY TotalIsNat
<1>7. Total(q) = Partial(q)[Len(q)] /\ Total(r) = Partial(r)[Len(r)]
  BY DEF Total
<1> DEFINE x == Partial(q)[i]
           y == Partial(r)[i - 1]
           z == Partial(r)[i]
           v == q[i]
           w == r[i]
           Q == Total(q)
           R == Total(r)
<1>8. /\ y \in Nat /\ v \in Nat /\ w \in Nat /\ Q \in Nat /\ R \in Nat
      /\ x = y + v /\ z = y + w /\ Q - x = R - z
  BY ONLY <1>1, <1>3, <1>4, <1>5, <1>6, <1>7
<1> HIDE DEF x, y, z, v, w, Q, R
<1>9. Q + w = R + v
  BY ONLY <1>8
<1> QED
  BY ONLY <1>9 DEF v, w, Q, R

------------------------------------------------------------------------------
(* Lots.                                                                   *)

Deals == [askOrder : Orders, bidOrder : Orders, tradedQuantity : Nat, tradedPrice : Nat]

(* What one order, and one trade, has of the lots numbered n.              *)
LotsOf(o, n) == IF o.sequence = n THEN o.quantity ELSE 0
LotsMoved(t, n) ==
  IF n \in {t.askOrder.sequence, t.bidOrder.sequence} THEN t.tradedQuantity ELSE 0

LEMMA LotsAre ==
  ASSUME NEW s \in Seq(Orders), NEW n
  PROVE  \E l \in Seq(Nat) :
           /\ Lots(s, n) = Total(l) /\ Len(l) = Len(s)
           /\ \A i \in 1 .. Len(s) : l[i] = LotsOf(s[i], n)
<1> DEFINE l == [i \in 1 .. Len(s) |-> IF s[i].sequence = n THEN s[i].quantity ELSE 0]
<1>1. \A i \in 1 .. Len(s) : s[i].quantity \in Nat
  <2>1. \A i \in 1 .. Len(s) : s[i] \in Orders
    OBVIOUS
  <2> QED
    BY ONLY <2>1 DEF Orders
<1>2. l \in Seq(Nat) /\ Len(l) = Len(s)
  BY <1>1
<1>3. \A i \in 1 .. Len(s) : l[i] = LotsOf(s[i], n)
  BY DEF LotsOf
<1>4. Lots(s, n) = Total(l)
  BY DEF Lots
<1> HIDE DEF l
<1> QED
  BY <1>2, <1>3, <1>4

LEMMA MovedAre ==
  ASSUME NEW s \in Seq(Deals), NEW n
  PROVE  \E l \in Seq(Nat) :
           /\ Traded(s, n) = Total(l) /\ Len(l) = Len(s)
           /\ \A i \in 1 .. Len(s) : l[i] = LotsMoved(s[i], n)
<1> DEFINE l == [i \in 1 .. Len(s) |-> IF n \in {s[i].askOrder.sequence, s[i].bidOrder.sequence}
                                       THEN s[i].tradedQuantity ELSE 0]
<1>1. \A i \in 1 .. Len(s) : s[i].tradedQuantity \in Nat
  <2>1. \A i \in 1 .. Len(s) : s[i] \in Deals
    OBVIOUS
  <2> QED
    BY ONLY <2>1 DEF Deals
<1>2. l \in Seq(Nat) /\ Len(l) = Len(s)
  BY <1>1
<1>3. \A i \in 1 .. Len(s) : l[i] = LotsMoved(s[i], n)
  BY DEF LotsMoved
<1>4. Traded(s, n) = Total(l)
  BY DEF Traded
<1> HIDE DEF l
<1> QED
  BY <1>2, <1>3, <1>4

(* t is s with one order more, at the i-th place.                          *)
LEMMA LotsInsert ==
  ASSUME NEW s \in Seq(Orders), NEW t \in Seq(Orders), NEW n,
         Len(t) = Len(s) + 1, NEW i \in 1 .. Len(t),
         \A k \in 1 .. i - 1 : t[k] = s[k],
         \A k \in i + 1 .. Len(t) : t[k] = s[k - 1]
  PROVE  /\ Lots(t, n) = Lots(s, n) + LotsOf(t[i], n)
         /\ Lots(s, n) \in Nat /\ Lots(t, n) \in Nat
<1>1. PICK r \in Seq(Nat) : /\ Lots(s, n) = Total(r) /\ Len(r) = Len(s)
                            /\ \A k \in 1 .. Len(s) : r[k] = LotsOf(s[k], n)
  BY LotsAre
<1>2. PICK q \in Seq(Nat) : /\ Lots(t, n) = Total(q) /\ Len(q) = Len(t)
                            /\ \A k \in 1 .. Len(t) : q[k] = LotsOf(t[k], n)
  BY LotsAre
<1>3. /\ \A k \in 1 .. i - 1 : q[k] = r[k]
      /\ \A k \in i + 1 .. Len(q) : q[k] = r[k - 1]
  <2>1. ASSUME NEW k \in 1 .. i - 1 PROVE q[k] = r[k]
    <3>1. k \in 1 .. Len(s) /\ k \in 1 .. Len(t)
      OBVIOUS
    <3> QED
      BY <1>1, <1>2, <2>1, <3>1
  <2>2. ASSUME NEW k \in i + 1 .. Len(q) PROVE q[k] = r[k - 1]
    <3>1. k - 1 \in 1 .. Len(s) /\ k \in 1 .. Len(t) /\ k \in i + 1 .. Len(t)
      BY <1>2
    <3> QED
      BY <1>1, <1>2, <3>1
  <2> QED
    BY <2>1, <2>2
<1>4. Total(q) = Total(r) + q[i]
  <2>1. Len(q) = Len(r) + 1 /\ i \in 1 .. Len(q)
    BY <1>1, <1>2
  <2> QED
    BY ONLY q \in Seq(Nat), r \in Seq(Nat), <1>3, <2>1, TotalInsert, Zenon
<1> QED
  BY <1>1, <1>2, <1>4, TotalIsNat

(* t is s with another order at the i-th place.                            *)
LEMMA LotsUpdate ==
  ASSUME NEW s \in Seq(Orders), NEW t \in Seq(Orders), NEW n,
         Len(t) = Len(s), NEW i \in 1 .. Len(t),
         \A k \in 1 .. Len(t) : k # i => t[k] = s[k]
  PROVE  /\ Lots(t, n) + LotsOf(s[i], n) = Lots(s, n) + LotsOf(t[i], n)
         /\ Lots(s, n) \in Nat /\ Lots(t, n) \in Nat
<1>1. PICK r \in Seq(Nat) : /\ Lots(s, n) = Total(r) /\ Len(r) = Len(s)
                            /\ \A k \in 1 .. Len(s) : r[k] = LotsOf(s[k], n)
  BY LotsAre
<1>2. PICK q \in Seq(Nat) : /\ Lots(t, n) = Total(q) /\ Len(q) = Len(t)
                            /\ \A k \in 1 .. Len(t) : q[k] = LotsOf(t[k], n)
  BY LotsAre
<1>3. \A k \in 1 .. Len(q) : k # i => q[k] = r[k]
  BY <1>1, <1>2
<1>4. Total(q) + r[i] = Total(r) + q[i]
  <2>1. Len(q) = Len(r) /\ i \in 1 .. Len(q)
    BY <1>1, <1>2
  <2> QED
    BY ONLY q \in Seq(Nat), r \in Seq(Nat), <1>3, <2>1, TotalUpdate, Zenon
<1> QED
  BY <1>1, <1>2, <1>4, TotalIsNat

LEMMA LotsNone ==
  ASSUME NEW s \in Seq(Orders), NEW n, \A i \in 1 .. Len(s) : s[i].sequence # n
  PROVE  Lots(s, n) = 0
<1>1. PICK r \in Seq(Nat) : /\ Lots(s, n) = Total(r) /\ Len(r) = Len(s)
                            /\ \A k \in 1 .. Len(s) : r[k] = LotsOf(s[k], n)
  BY LotsAre
<1>2. \A k \in 1 .. Len(r) : r[k] = 0
  BY <1>1 DEF LotsOf
<1> QED
  BY <1>1, <1>2, TotalOfNothing

LEMMA TradedNone ==
  ASSUME NEW s \in Seq(Deals), NEW n,
         \A i \in 1 .. Len(s) : s[i].askOrder.sequence # n /\ s[i].bidOrder.sequence # n
  PROVE  Traded(s, n) = 0
<1>1. PICK r \in Seq(Nat) : /\ Traded(s, n) = Total(r) /\ Len(r) = Len(s)
                            /\ \A k \in 1 .. Len(s) : r[k] = LotsMoved(s[k], n)
  BY MovedAre
<1>2. \A k \in 1 .. Len(r) : r[k] = 0
  BY <1>1 DEF LotsMoved
<1> QED
  BY <1>1, <1>2, TotalOfNothing

LEMMA TradedAppend ==
  ASSUME NEW s \in Seq(Deals), NEW d \in Deals, NEW n
  PROVE  /\ Traded(Append(s, d), n) = Traded(s, n) + LotsMoved(d, n)
         /\ Traded(s, n) \in Nat
<1> DEFINE t == Append(s, d)
<1>1. /\ t \in Seq(Deals) /\ Len(s) \in Nat /\ Len(t) = Len(s) + 1
      /\ (\A k \in 1 .. Len(s) : t[k] = s[k]) /\ t[Len(s) + 1] = d
  BY AppendElements
<1> HIDE DEF t
<1>2. PICK r \in Seq(Nat) : /\ Traded(s, n) = Total(r) /\ Len(r) = Len(s)
                            /\ \A k \in 1 .. Len(s) : r[k] = LotsMoved(s[k], n)
  BY MovedAre
<1>3. PICK q \in Seq(Nat) : /\ Traded(t, n) = Total(q) /\ Len(q) = Len(t)
                            /\ \A k \in 1 .. Len(t) : q[k] = LotsMoved(t[k], n)
  BY <1>1, MovedAre
<1> DEFINE i == Len(s) + 1
<1>4. /\ Len(q) = Len(r) + 1 /\ i \in 1 .. Len(q)
      /\ \A k \in 1 .. i - 1 : q[k] = r[k]
      /\ \A k \in i + 1 .. Len(q) : q[k] = r[k - 1]
  BY <1>1, <1>2, <1>3
<1>5. q[i] = LotsMoved(d, n)
  BY <1>1, <1>3
<1> HIDE DEF i
<1>6. Total(q) = Total(r) + q[i]
  BY ONLY q \in Seq(Nat), r \in Seq(Nat), <1>4, TotalInsert, Zenon
<1>7. Traded(t, n) = Traded(s, n) + LotsMoved(d, n) /\ Traded(s, n) \in Nat
  BY <1>2, <1>3, <1>5, <1>6, TotalIsNat
<1> QED
  BY <1>7 DEF t

------------------------------------------------------------------------------
(* No lot is lost: how each action keeps LotsIInv.                         *)

(* What the order o, if it is being placed, has of the lots numbered n.    *)
InPlacing(p, o, n) == IF p = "placing" /\ o.sequence = n THEN o.quantity ELSE 0

LEMMA LotsInitIInv == ServiceInit => LotsIInv
  BY DEF ServiceInit, Init, LotsIInv, NumbersUsed, LotsConserved

(* The orders that were taken have numbers below those the book awaits.    *)
LEMMA TakenBelow ==
  ASSUME ServiceIInv, taken < end, NEW i \in 1 .. taken
  PROVE  log[i].sequence < NextOrder.sequence
<1>1. ServiceTypeOK /\ Cursors /\ NothingLost
  BY DEF ServiceIInv
<1>2. taken + 1 \in 1 .. Len(log) /\ taken + 1 \in 1 .. Len(accepted) /\ NextOrder = accepted[taken + 1]
  BY NextIsNew
<1>3. i \in 1 .. Len(accepted) /\ i < taken + 1 /\ i <= Len(log)
  BY <1>1, <1>2, ServiceLengths
<1>4. log[i] = accepted[i] /\ accepted[i].sequence < accepted[taken + 1].sequence
  BY <1>1, <1>2, <1>3 DEF NothingLost
<1> QED
  BY <1>2, <1>4

(* A step that moves no order of the book.                                 *)
LEMMA QuietStepKeepsLots ==
  ASSUME LotsIInv, UNCHANGED <<asks, bids, trades, taken, sequence, order>>,
         pc' = "placing" <=> pc = "placing",
         \A i \in 1 .. taken : log'[i] = log[i]
  PROVE  LotsIInv'
<1>1. NumbersUsed'
  BY DEF LotsIInv, NumbersUsed
<1>2. LotsConserved'
  BY DEF LotsIInv, LotsConserved
<1> QED
  BY <1>1, <1>2 DEF LotsIInv

LEMMA TakeOrderKeepsLots ==
  ASSUME ServiceIInv, IInv, LotsIInv, TakeOrder
  PROVE  LotsIInv'
<1> DEFINE n == NextOrder.sequence
<1>1. /\ ServiceTypeOK /\ TypeOK /\ Placed /\ NumbersUsed /\ LotsConserved
      /\ taken < end /\ taken' = taken + 1 /\ taken \in Nat
      /\ pc = "adding" /\ sequence' = n + 1
      /\ UNCHANGED <<asks, bids, trades, log>>
  BY DEF ServiceIInv, ServiceTypeOK, IInv, LotsIInv, TakeOrder, AddOrder, AddCancel, Arrives, book
<1>2. /\ taken + 1 \in 1 .. Len(log) /\ NextOrder = log[taken + 1]
      /\ NextOrder \in Arriving /\ n \in Nat /\ n >= sequence /\ sequence \in Nat
  <2>1. taken + 1 \in 1 .. Len(log) /\ NextOrder \in Arriving /\ n \in sequence .. MaxOrders
    BY <1>1, NextIsNew
  <2>2. n \in 1 .. MaxOrders
    BY <2>1, OfArriving
  <2>3. sequence \in Nat
    BY <1>1 DEF TypeOK
  <2> QED
    BY <2>1, <2>2, <2>3, BoundAssumption DEF NextOrder
<1>3. /\ asks \in Seq(Orders) /\ bids \in Seq(Orders) /\ trades \in Seq(Deals)
  BY <1>1 DEF TypeOK, Deals
<1>4. /\ \A i \in 1 .. Len(asks) : asks[i].sequence < n
      /\ \A i \in 1 .. Len(bids) : bids[i].sequence < n
      /\ \A i \in 1 .. Len(trades) :
           trades[i].askOrder.sequence < n /\ trades[i].bidOrder.sequence < n
  <2>1. ASSUME NEW i \in 1 .. Len(asks) PROVE asks[i].sequence < n
    <3>1. asks[i] \in Orders /\ asks[i].sequence < sequence
      BY <1>1, <1>3 DEF Placed
    <3>2. asks[i].sequence \in Nat
      BY <3>1 DEF Orders
    <3> QED
      BY ONLY <1>2, <3>1, <3>2
  <2>2. ASSUME NEW i \in 1 .. Len(bids) PROVE bids[i].sequence < n
    <3>1. bids[i] \in Orders /\ bids[i].sequence < sequence
      BY <1>1, <1>3 DEF Placed
    <3>2. bids[i].sequence \in Nat
      BY <3>1 DEF Orders
    <3> QED
      BY ONLY <1>2, <3>1, <3>2
  <2>3. ASSUME NEW i \in 1 .. Len(trades)
        PROVE  trades[i].askOrder.sequence < n /\ trades[i].bidOrder.sequence < n
    <3>1. /\ trades[i] \in Deals
          /\ trades[i].askOrder.sequence < sequence /\ trades[i].bidOrder.sequence < sequence
      BY <1>1, <1>3 DEF NumbersUsed
    <3>2. trades[i].askOrder.sequence \in Nat /\ trades[i].bidOrder.sequence \in Nat
      BY <3>1 DEF Deals, Orders
    <3> QED
      BY ONLY <1>2, <3>1, <3>2
  <2> QED
    BY <2>1, <2>2, <2>3
<1>5. NumbersUsed'
  <2>1. \A i \in 1 .. Len(trades) :
          trades[i].askOrder.sequence < n + 1 /\ trades[i].bidOrder.sequence < n + 1
    <3> SUFFICES ASSUME NEW i \in 1 .. Len(trades)
                 PROVE  trades[i].askOrder.sequence < n + 1 /\ trades[i].bidOrder.sequence < n + 1
      OBVIOUS
    <3>1. trades[i] \in Deals
      BY <1>3
    <3>2. trades[i].askOrder.sequence \in Nat /\ trades[i].bidOrder.sequence \in Nat
      BY <3>1 DEF Deals, Orders
    <3> QED
      BY ONLY <1>2, <1>4, <3>2, i \in 1 .. Len(trades)
  <2> QED
    BY <1>1, <2>1 DEF NumbersUsed
<1>6. Lots(asks, n) = 0 /\ Lots(bids, n) = 0 /\ Traded(trades, n) = 0
  <2>1. /\ \A i \in 1 .. Len(asks) : asks[i].sequence # n
        /\ \A i \in 1 .. Len(bids) : bids[i].sequence # n
        /\ \A i \in 1 .. Len(trades) :
             trades[i].askOrder.sequence # n /\ trades[i].bidOrder.sequence # n
    BY <1>2, <1>4
  <2> HIDE DEF n
  <2> QED
    BY <1>3, <2>1, LotsNone, TradedNone
<1>7. LotsConserved'
  <2> SUFFICES ASSUME NEW i \in 1 .. taken', log'[i].type # "Cancel"
               PROVE  log'[i].quantity =
                        Lots(asks', log'[i].sequence) + Lots(bids', log'[i].sequence)
                        + Traded(trades', log'[i].sequence) + InPlacing(pc', order', log'[i].sequence)
    BY DEF LotsConserved, InPlacing
  <2>1. CASE i \in 1 .. taken
    <3>1. log[i].sequence < n /\ log[i].sequence \in Nat
      <4>1. i \in 1 .. Len(log)
        BY <1>1, <1>2, <2>1
      <4>2. log[i] \in Arriving
        BY <1>1, <4>1 DEF ServiceTypeOK
      <4>3. log[i].sequence \in 1 .. MaxOrders
        BY <4>2, OfArriving
      <4> QED
        BY <1>1, <2>1, <4>3, TakenBelow, BoundAssumption
    <3>2. log[i].quantity = Lots(asks, log[i].sequence) + Lots(bids, log[i].sequence)
                            + Traded(trades, log[i].sequence) + 0
      BY <1>1, <2>1 DEF LotsConserved
    <3>3. InPlacing(pc', order', log[i].sequence) = 0
      <4>1. pc' = "placing" => order'.sequence = n
        BY <1>1 DEF TakeOrder, AddOrder, AddCancel, Numbered
      <4> QED
        BY <1>1, <1>2, <3>1, <4>1 DEF InPlacing
    <3> QED
      BY <1>1, <3>2, <3>3
  <2>2. CASE i = taken + 1
    <3>1. log'[i] = NextOrder /\ NextOrder.type # "Cancel"
      BY <1>1, <1>2, <2>2
    <3>2. AddOrder(Body(NextOrder), n)
      BY <3>1 DEF TakeOrder, AddCancel, Body
    <3>3. /\ pc' = "placing" /\ order'.sequence = n
          /\ order'.quantity = NextOrder.quantity
      BY <3>2 DEF AddOrder, Numbered, Body
    <3>4. InPlacing(pc', order', n) = NextOrder.quantity
      BY <1>1, <1>2, <3>3 DEF InPlacing
    <3>5. NextOrder.quantity \in Nat
      <4>1. PICK r \in Requests, k \in 1 .. MaxOrders : NextOrder = WithCode(Numbered(r, k))
        BY <1>2 DEF Arriving
      <4>2. NextOrder.quantity = r.quantity
        BY <4>1 DEF WithCode, Numbered
      <4> QED
        BY <4>2, RequestAssumption
    <3>6. InPlacing(pc', order', log'[i].sequence) = NextOrder.quantity
      BY <3>1, <3>4
    <3> QED
      BY <1>1, <1>6, <3>1, <3>5, <3>6
  <2> QED
    BY <1>1, <2>1, <2>2
<1> QED
  BY <1>5, <1>7 DEF LotsIInv

(* A step that takes no order: it is enough that every number has as many  *)
(* lots after it as before.                                                *)
LEMMA SameLots ==
  ASSUME LotsIInv, UNCHANGED <<taken, log>>, NumbersUsed',
         \A n : Lots(asks', n) + Lots(bids', n) + Traded(trades', n) + InPlacing(pc', order', n)
                = Lots(asks, n) + Lots(bids, n) + Traded(trades, n) + InPlacing(pc, order, n)
  PROVE  LotsIInv'
<1>1. ASSUME NEW i \in 1 .. taken, log[i].type # "Cancel"
      PROVE  log[i].quantity =
               Lots(asks', log[i].sequence) + Lots(bids', log[i].sequence)
               + Traded(trades', log[i].sequence) + InPlacing(pc', order', log[i].sequence)
  <2>1. log[i].quantity =
          Lots(asks, log[i].sequence) + Lots(bids, log[i].sequence)
          + Traded(trades, log[i].sequence) + InPlacing(pc, order, log[i].sequence)
    BY <1>1 DEF LotsIInv, LotsConserved, InPlacing
  <2> QED
    BY <2>1
<1>2. LotsConserved'
  BY <1>1 DEF LotsConserved, InPlacing
<1> QED
  BY <1>2 DEF LotsIInv

(* The lots of the order that was being placed now rest.                   *)
LEMMA InsertKeepsLots ==
  ASSUME IInv, LotsIInv, Insert, UNCHANGED serviceVars
  PROVE  LotsIInv'
<1>1. /\ TypeOK /\ SearchBounds /\ NumbersUsed
      /\ pc = "placing" /\ first = last /\ pc' = "adding"
      /\ UNCHANGED <<trades, sequence, taken, log>>
  BY DEF IInv, LotsIInv, Insert, serviceVars
<1>2. /\ asks \in Seq(Orders) /\ bids \in Seq(Orders) /\ trades \in Seq(Deals)
      /\ order \in Orders /\ first \in Nat /\ first <= Len(Side)
      /\ \A i \in 1 .. Len(asks) : asks[i].sequence < order.sequence
      /\ \A i \in 1 .. Len(bids) : bids[i].sequence < order.sequence
  BY <1>1 DEF TypeOK, SearchBounds, Deals
<1> DEFINE m == first + 1
<1>3. order.sequence \in Nat /\ order.quantity \in Nat
  BY <1>2 DEF Orders
<1>4. \A n : InPlacing(pc, order, n) = LotsOf(order, n) /\ InPlacing(pc', order', n) = 0
             /\ LotsOf(order, n) \in Nat
  BY <1>1, <1>3 DEF InPlacing, LotsOf
<1>5. CASE order.type = "Ask"
  <2>1. asks' = InsertAt(asks, m, order) /\ bids' = bids /\ m \in 1 .. Len(asks) + 1
    BY <1>2, <1>5 DEF Insert, Side
  <2> HIDE DEF m
  <2>2. /\ asks' \in Seq(Orders) /\ Len(asks') = Len(asks) + 1
        /\ \A k \in 1 .. Len(asks) + 1 :
             asks'[k] = IF k < m THEN asks[k] ELSE IF k = m THEN order ELSE asks[k - 1]
    <3>1. /\ InsertAt(asks, m, order) \in Seq(Orders) /\ Len(InsertAt(asks, m, order)) = Len(asks) + 1
          /\ \A k \in 1 .. Len(asks) + 1 : InsertAt(asks, m, order)[k] =
               IF k < m THEN asks[k] ELSE IF k = m THEN order ELSE asks[k - 1]
      <4>1. asks \in Seq(Orders) /\ order \in Orders /\ m \in 1 .. Len(asks) + 1
        BY ONLY <1>2, <2>1
      <4> QED
        BY ONLY <4>1, InsertAtIs, SMTT(30)
    <3> QED
      BY ONLY <2>1, <3>1
  <2>3. /\ m \in 1 .. Len(asks') /\ asks'[m] = order
        /\ \A k \in 1 .. m - 1 : asks'[k] = asks[k]
        /\ \A k \in m + 1 .. Len(asks') : asks'[k] = asks[k - 1]
    <3>1. Len(asks) \in Nat /\ m \in 1 .. Len(asks) + 1 /\ Len(asks') = Len(asks) + 1
      BY ONLY <1>2, <2>1, <2>2
    <3>2. m \in 1 .. Len(asks') /\ asks'[m] = order
      BY ONLY <2>2, <3>1
    <3>3. ASSUME NEW k \in 1 .. m - 1 PROVE asks'[k] = asks[k]
      <4>1. k \in 1 .. Len(asks) + 1 /\ k < m
        BY ONLY <3>1
      <4> QED
        BY ONLY <2>2, <4>1
    <3>4. ASSUME NEW k \in m + 1 .. Len(asks') PROVE asks'[k] = asks[k - 1]
      <4>1. k \in 1 .. Len(asks) + 1 /\ ~(k < m) /\ k # m
        BY ONLY <3>1
      <4> QED
        BY ONLY <2>2, <4>1
    <3> QED
      BY <3>2, <3>3, <3>4
  <2>4. \A n : Lots(asks', n) = Lots(asks, n) + LotsOf(order, n) /\ Lots(asks, n) \in Nat
    <3> TAKE n
    <3>1. Lots(asks', n) = Lots(asks, n) + LotsOf(asks'[m], n) /\ Lots(asks, n) \in Nat
      BY ONLY <1>2, <2>2, <2>3, LotsInsert
    <3> QED
      BY <2>3, <3>1
  <2>5. \A n : Lots(bids, n) \in Nat /\ Traded(trades, n) \in Nat
    BY <1>2, LotsAre, MovedAre, TotalIsNat
  <2>6. NumbersUsed'
    <3>1. ASSUME NEW i \in 1 .. Len(asks'), NEW j \in 1 .. Len(bids)
          PROVE  asks'[i].sequence # bids[j].sequence
      <4>1. bids[j].sequence \in Nat
        <5>1. bids[j] \in Orders
          BY <1>2, <2>1
        <5> QED
          BY ONLY <5>1 DEF Orders
      <4>2. CASE i = m
        BY <1>2, <1>3, <2>3, <4>1, <4>2
      <4>3. CASE i # m
        <5>1. \E k \in 1 .. Len(asks) : asks'[i] = asks[k]
          BY <2>1, <2>2, <4>3
        <5> QED
          BY <1>1, <5>1 DEF NumbersUsed
      <4> QED
        BY <4>2, <4>3
    <3> QED
      BY <1>1, <2>1, <3>1 DEF NumbersUsed
  <2>7. ASSUME NEW n
        PROVE  Lots(asks', n) + Lots(bids', n) + Traded(trades', n) + InPlacing(pc', order', n)
                = Lots(asks, n) + Lots(bids, n) + Traded(trades, n) + InPlacing(pc, order, n)
    BY <1>1, <1>4, <2>1, <2>4, <2>5
  <2> QED
    BY <1>1, <2>6, <2>7, SameLots
<1>6. CASE order.type # "Ask"
  <2>1. bids' = InsertAt(bids, m, order) /\ asks' = asks /\ m \in 1 .. Len(bids) + 1
    BY <1>2, <1>6 DEF Insert, Side
  <2> HIDE DEF m
  <2>2. /\ bids' \in Seq(Orders) /\ Len(bids') = Len(bids) + 1
        /\ \A k \in 1 .. Len(bids) + 1 :
             bids'[k] = IF k < m THEN bids[k] ELSE IF k = m THEN order ELSE bids[k - 1]
    <3>1. /\ InsertAt(bids, m, order) \in Seq(Orders) /\ Len(InsertAt(bids, m, order)) = Len(bids) + 1
          /\ \A k \in 1 .. Len(bids) + 1 : InsertAt(bids, m, order)[k] =
               IF k < m THEN bids[k] ELSE IF k = m THEN order ELSE bids[k - 1]
      <4>1. bids \in Seq(Orders) /\ order \in Orders /\ m \in 1 .. Len(bids) + 1
        BY ONLY <1>2, <2>1
      <4> QED
        BY ONLY <4>1, InsertAtIs, SMTT(30)
    <3> QED
      BY ONLY <2>1, <3>1
  <2>3. /\ m \in 1 .. Len(bids') /\ bids'[m] = order
        /\ \A k \in 1 .. m - 1 : bids'[k] = bids[k]
        /\ \A k \in m + 1 .. Len(bids') : bids'[k] = bids[k - 1]
    <3>1. Len(bids) \in Nat /\ m \in 1 .. Len(bids) + 1 /\ Len(bids') = Len(bids) + 1
      BY ONLY <1>2, <2>1, <2>2
    <3>2. m \in 1 .. Len(bids') /\ bids'[m] = order
      BY ONLY <2>2, <3>1
    <3>3. ASSUME NEW k \in 1 .. m - 1 PROVE bids'[k] = bids[k]
      <4>1. k \in 1 .. Len(bids) + 1 /\ k < m
        BY ONLY <3>1
      <4> QED
        BY ONLY <2>2, <4>1
    <3>4. ASSUME NEW k \in m + 1 .. Len(bids') PROVE bids'[k] = bids[k - 1]
      <4>1. k \in 1 .. Len(bids) + 1 /\ ~(k < m) /\ k # m
        BY ONLY <3>1
      <4> QED
        BY ONLY <2>2, <4>1
    <3> QED
      BY <3>2, <3>3, <3>4
  <2>4. \A n : Lots(bids', n) = Lots(bids, n) + LotsOf(order, n) /\ Lots(bids, n) \in Nat
    <3> TAKE n
    <3>1. Lots(bids', n) = Lots(bids, n) + LotsOf(bids'[m], n) /\ Lots(bids, n) \in Nat
      BY ONLY <1>2, <2>2, <2>3, LotsInsert
    <3> QED
      BY <2>3, <3>1
  <2>5. \A n : Lots(asks, n) \in Nat /\ Traded(trades, n) \in Nat
    BY <1>2, LotsAre, MovedAre, TotalIsNat
  <2>6. NumbersUsed'
    <3>1. ASSUME NEW i \in 1 .. Len(asks), NEW j \in 1 .. Len(bids')
          PROVE  asks[i].sequence # bids'[j].sequence
      <4>1. asks[i].sequence \in Nat
        <5>1. asks[i] \in Orders
          BY <1>2, <2>1
        <5> QED
          BY ONLY <5>1 DEF Orders
      <4>2. CASE j = m
        BY <1>2, <1>3, <2>3, <4>1, <4>2
      <4>3. CASE j # m
        <5>1. \E k \in 1 .. Len(bids) : bids'[j] = bids[k]
          BY <2>1, <2>2, <4>3
        <5> QED
          BY <1>1, <5>1 DEF NumbersUsed
      <4> QED
        BY <4>2, <4>3
    <3> QED
      BY <1>1, <2>1, <3>1 DEF NumbersUsed
  <2>7. ASSUME NEW n
        PROVE  Lots(asks', n) + Lots(bids', n) + Traded(trades', n) + InPlacing(pc', order', n)
                = Lots(asks, n) + Lots(bids, n) + Traded(trades, n) + InPlacing(pc, order, n)
    BY <1>1, <1>4, <2>1, <2>4, <2>5
  <2> QED
    BY <1>1, <2>6, <2>7, SameLots
<1> QED
  BY <1>5, <1>6

(* An ask that is filled takes no lot with it.                             *)
LEMMA EraseAskKeepsLots ==
  ASSUME IInv, LotsIInv, EraseAsk, UNCHANGED serviceVars
  PROVE  LotsIInv'
<1>1. /\ TypeOK /\ NumbersUsed
      /\ askIt <= Len(asks) /\ asks[askIt].quantity = 0
      /\ asks' = RemoveAt(asks, askIt)
      /\ UNCHANGED <<bids, trades, sequence, taken, log, pc, order>>
  BY DEF IInv, LotsIInv, EraseAsk, LeaveAsk, Filled, serviceVars, search
<1>2. /\ asks \in Seq(Orders) /\ bids \in Seq(Orders) /\ trades \in Seq(Deals)
      /\ askIt \in 1 .. Len(asks)
  BY <1>1 DEF TypeOK, Deals
<1>3. /\ asks' \in Seq(Orders) /\ Len(asks') = Len(asks) - 1
      /\ \A k \in 1 .. Len(asks) - 1 : asks'[k] = IF k < askIt THEN asks[k] ELSE asks[k + 1]
  BY ONLY <1>1, <1>2, RemoveAtIs
<1>4. /\ Len(asks) = Len(asks') + 1
      /\ \A k \in 1 .. askIt - 1 : asks[k] = asks'[k]
      /\ \A k \in askIt + 1 .. Len(asks) : asks[k] = asks'[k - 1]
  <2>1. Len(asks) \in Nat /\ Len(asks) = Len(asks') + 1
    BY <1>2, <1>3
  <2>2. ASSUME NEW k \in 1 .. askIt - 1 PROVE asks[k] = asks'[k]
    <3>1. k \in 1 .. Len(asks) - 1 /\ k < askIt
      BY ONLY <1>2, <2>1, <2>2
    <3> QED
      BY ONLY <1>3, <3>1
  <2>3. ASSUME NEW k \in askIt + 1 .. Len(asks) PROVE asks[k] = asks'[k - 1]
    <3>1. k - 1 \in 1 .. Len(asks) - 1 /\ ~(k - 1 < askIt) /\ (k - 1) + 1 = k
      BY ONLY <1>2, <2>1, <2>3
    <3> QED
      BY ONLY <1>3, <3>1
  <2> QED
    BY <2>1, <2>2, <2>3
<1>5. \A n : Lots(asks', n) = Lots(asks, n)
  <2> TAKE n
  <2>1. Lots(asks, n) = Lots(asks', n) + LotsOf(asks[askIt], n) /\ Lots(asks', n) \in Nat
    BY ONLY <1>2, <1>3, <1>4, LotsInsert
  <2>2. LotsOf(asks[askIt], n) = 0
    BY <1>1 DEF LotsOf
  <2> QED
    BY <2>1, <2>2
<1>6. NumbersUsed'
  <2>1. ASSUME NEW i \in 1 .. Len(asks')
        PROVE  \E k \in 1 .. Len(asks) : asks'[i] = asks[k]
    <3>1. /\ Len(asks) \in Nat /\ Len(asks') = Len(asks) - 1
          /\ askIt \in 1 .. Len(asks) /\ i \in 1 .. Len(asks) - 1
      BY ONLY <1>2, <1>3, <2>1
    <3>2. i \in 1 .. Len(asks) /\ i + 1 \in 1 .. Len(asks)
      BY ONLY <3>1
    <3> QED
      BY ONLY <1>3, <3>1, <3>2
  <2> QED
    BY <1>1, <2>1 DEF NumbersUsed
<1>7. \A n : InPlacing(pc', order', n) = InPlacing(pc, order, n)
  BY <1>1
<1> QED
  BY <1>1, <1>5, <1>6, <1>7, SameLots

(* What a trade takes from the ask and from the bid is what it moves, and  *)
(* the two have different numbers.                                         *)
LEMMA TradeKeepsLots ==
  ASSUME IInv, LotsIInv, Trade, UNCHANGED serviceVars
  PROVE  LotsIInv'
<1> DEFINE a == asks[askIt]
           b == bids[1]
           q == TradeQuantity(a, b)
           d == [askOrder |-> a, bidOrder |-> b, tradedQuantity |-> q,
                 tradedPrice |-> TradePrice(a, b)]
<1>1. /\ TypeOK /\ Placed /\ NumbersUsed /\ pc = "matching"
      /\ UNCHANGED <<sequence, taken, log, pc, order>>
  BY DEF IInv, LotsIInv, Trade, serviceVars, search
<1>2. /\ bidIt = 1 /\ askIt \in 1 .. Len(asks) /\ 1 \in 1 .. Len(bids)
      /\ a \in Orders /\ b \in Orders
      /\ q \in Nat /\ 0 < q /\ q <= a.quantity /\ q <= b.quantity
      /\ TradePrice(a, b) \in Nat
  BY TradePair
<1>3. /\ asks' \in Seq(Orders) /\ Len(asks') = Len(asks)
      /\ asks'[askIt] = [a EXCEPT !.quantity = a.quantity - q]
      /\ \A k \in 1 .. Len(asks) : k # askIt => asks'[k] = asks[k]
      /\ bids' \in Seq(Orders)
      /\ b.quantity = q =>
           /\ Len(bids') = Len(bids) - 1
           /\ \A k \in 1 .. Len(bids) - 1 : bids'[k] = bids[k + 1]
      /\ b.quantity # q =>
           /\ Len(bids') = Len(bids)
           /\ bids'[1] = [b EXCEPT !.quantity = b.quantity - q]
           /\ \A k \in 2 .. Len(bids) : bids'[k] = bids[k]
  BY TradeEffect
<1>4. trades' = Append(trades, d)
  BY <1>2 DEF Trade
<1>5. /\ asks \in Seq(Orders) /\ bids \in Seq(Orders) /\ trades \in Seq(Deals)
      /\ a.sequence \in Nat /\ a.quantity \in Nat /\ b.sequence \in Nat /\ b.quantity \in Nat
  BY <1>1, <1>2 DEF TypeOK, Deals, Orders
<1>6. d \in Deals
  BY <1>2 DEF Deals
<1>7. a.sequence # b.sequence /\ a.sequence < sequence /\ b.sequence < sequence
  BY <1>1, <1>2 DEF NumbersUsed, Placed
<1>8. /\ d.askOrder.sequence = a.sequence /\ d.bidOrder.sequence = b.sequence
      /\ d.tradedQuantity = q
  OBVIOUS
<1> HIDE DEF a, b, q, d
<1>9. /\ asks'[askIt].sequence = a.sequence /\ asks'[askIt].quantity = a.quantity - q
  BY <1>2, <1>3 DEF Orders
<1>10. ASSUME NEW n
       PROVE  /\ Lots(asks', n) = Lots(asks, n) - (IF a.sequence = n THEN q ELSE 0)
              /\ Lots(asks, n) \in Nat
  <2>1. /\ Lots(asks', n) + LotsOf(asks[askIt], n) = Lots(asks, n) + LotsOf(asks'[askIt], n)
        /\ Lots(asks, n) \in Nat /\ Lots(asks', n) \in Nat
    <3>1. /\ asks \in Seq(Orders) /\ asks' \in Seq(Orders)
          /\ Len(asks') = Len(asks) /\ askIt \in 1 .. Len(asks')
          /\ \A k \in 1 .. Len(asks') : k # askIt => asks'[k] = asks[k]
      BY <1>2, <1>3, <1>5
    <3> QED
      BY ONLY <3>1, LotsUpdate, Zenon
  <2>2. LotsOf(asks[askIt], n) = IF a.sequence = n THEN a.quantity ELSE 0
    BY DEF LotsOf, a
  <2>3. LotsOf(asks'[askIt], n) = IF a.sequence = n THEN a.quantity - q ELSE 0
    BY <1>9 DEF LotsOf
  <2>4. a.quantity \in Nat /\ q \in Nat
    BY ONLY <1>2, <1>5
  <2> DEFINE x == Lots(asks, n)
             y == Lots(asks', n)
             v == a.quantity
  <2>5. CASE a.sequence = n
    <3>1. x \in Nat /\ y \in Nat /\ v \in Nat /\ q \in Nat /\ y + v = x + (v - q)
      BY ONLY <2>1, <2>2, <2>3, <2>4, <2>5
    <3> HIDE DEF x, y, v
    <3>2. y = x - q
      BY ONLY <3>1
    <3> QED
      BY ONLY <2>5, <3>1, <3>2 DEF x, y
  <2>6. CASE a.sequence # n
    <3>1. x \in Nat /\ y \in Nat /\ y + 0 = x + 0
      BY ONLY <2>1, <2>2, <2>3, <2>6
    <3> HIDE DEF x, y
    <3>2. y = x - 0
      BY ONLY <3>1
    <3> QED
      BY ONLY <2>6, <3>1, <3>2 DEF x, y
  <2> QED
    BY ONLY <2>5, <2>6
<1>11. ASSUME NEW n
       PROVE  /\ Lots(bids', n) = Lots(bids, n) - (IF b.sequence = n THEN q ELSE 0)
              /\ Lots(bids, n) \in Nat
  <2>1. LotsOf(bids[1], n) = IF b.sequence = n THEN b.quantity ELSE 0
    BY DEF LotsOf, b
  <2>2. CASE b.quantity = q
    <3>1. /\ bids \in Seq(Orders) /\ bids' \in Seq(Orders)
          /\ Len(bids) = Len(bids') + 1 /\ 1 \in 1 .. Len(bids)
          /\ \A k \in 1 .. 1 - 1 : bids[k] = bids'[k]
          /\ \A k \in 1 + 1 .. Len(bids) : bids[k] = bids'[k - 1]
      <4>1. Len(bids) \in Nat \ {0} /\ Len(bids') = Len(bids) - 1
            /\ \A k \in 1 .. Len(bids) - 1 : bids'[k] = bids[k + 1]
        BY <1>2, <1>3, <1>5, <2>2
      <4>2. \A k \in 1 .. 1 - 1 : bids[k] = bids'[k]
        OBVIOUS
      <4>3. ASSUME NEW k \in 1 + 1 .. Len(bids) PROVE bids[k] = bids'[k - 1]
        <5>1. k - 1 \in 1 .. Len(bids) - 1 /\ (k - 1) + 1 = k
          BY ONLY <4>1, <4>3
        <5> QED
          BY ONLY <4>1, <5>1
      <4> QED
        BY <1>2, <1>3, <1>5, <4>1, <4>2, <4>3
    <3>2. /\ Lots(bids, n) = Lots(bids', n) + LotsOf(bids[1], n)
          /\ Lots(bids, n) \in Nat /\ Lots(bids', n) \in Nat
      BY ONLY <3>1, LotsInsert, Zenon
    <3> QED
      BY <1>2, <2>1, <2>2, <3>2
  <2>3. CASE b.quantity # q
    <3>1. /\ bids \in Seq(Orders) /\ bids' \in Seq(Orders)
          /\ Len(bids') = Len(bids) /\ 1 \in 1 .. Len(bids')
          /\ \A k \in 1 .. Len(bids') : k # 1 => bids'[k] = bids[k]
      BY <1>2, <1>3, <1>5, <2>3
    <3>2. /\ Lots(bids', n) + LotsOf(bids[1], n) = Lots(bids, n) + LotsOf(bids'[1], n)
          /\ Lots(bids, n) \in Nat /\ Lots(bids', n) \in Nat
      BY ONLY <3>1, LotsUpdate, Zenon
    <3>3. bids'[1].sequence = b.sequence /\ bids'[1].quantity = b.quantity - q
      BY <1>2, <1>3, <2>3 DEF Orders
    <3>4. LotsOf(bids'[1], n) = IF b.sequence = n THEN b.quantity - q ELSE 0
      BY <3>3 DEF LotsOf
    <3>5. CASE b.sequence = n
      <4> DEFINE u == Lots(bids, n)
                 v == Lots(bids', n)
                 w == b.quantity
      <4>1. v + w = u + (w - q) /\ u \in Nat /\ v \in Nat /\ w \in Nat /\ q \in Nat
        BY ONLY <1>2, <1>5, <2>1, <3>2, <3>4, <3>5
      <4> HIDE DEF u, v, w
      <4>2. v = u - q /\ u \in Nat
        BY ONLY <4>1
      <4> QED
        BY <3>5, <4>2 DEF u, v
    <3>6. CASE b.sequence # n
      BY <2>1, <3>2, <3>4, <3>6
    <3> QED
      BY <3>5, <3>6
  <2> QED
    BY <2>2, <2>3
<1>12. ASSUME NEW n
       PROVE  /\ Traded(trades', n) = Traded(trades, n)
                                      + (IF n \in {a.sequence, b.sequence} THEN q ELSE 0)
              /\ Traded(trades, n) \in Nat
  <2>1. Traded(Append(trades, d), n) = Traded(trades, n) + LotsMoved(d, n) /\ Traded(trades, n) \in Nat
    BY <1>5, <1>6, TradedAppend
  <2>2. LotsMoved(d, n) = IF n \in {a.sequence, b.sequence} THEN q ELSE 0
    BY <1>8 DEF LotsMoved
  <2> QED
    BY <1>4, <2>1, <2>2
<1>13. ASSUME NEW n
       PROVE  Lots(asks', n) + Lots(bids', n) + Traded(trades', n) + InPlacing(pc', order', n)
                = Lots(asks, n) + Lots(bids, n) + Traded(trades, n) + InPlacing(pc, order, n)
  <2>1. InPlacing(pc', order', n) = 0 /\ InPlacing(pc, order, n) = 0
    BY <1>1 DEF InPlacing
  <2>2. CASE a.sequence = n
    BY <1>2, <1>7, <1>10, <1>11, <1>12, <2>1, <2>2
  <2>3. CASE b.sequence = n
    BY <1>2, <1>7, <1>10, <1>11, <1>12, <2>1, <2>3
  <2>4. CASE a.sequence # n /\ b.sequence # n
    BY <1>10, <1>11, <1>12, <2>1, <2>4
  <2> QED
    BY <2>2, <2>3, <2>4
<1>14. NumbersUsed'
  <2>1. \A i \in 1 .. Len(asks') : i \in 1 .. Len(asks) /\ asks'[i].sequence = asks[i].sequence
    BY <1>3, <1>9 DEF a
  <2>2. \A j \in 1 .. Len(bids') : \E k \in 1 .. Len(bids) : bids'[j].sequence = bids[k].sequence
    <3>1. CASE b.quantity = q
      <4> SUFFICES ASSUME NEW j \in 1 .. Len(bids')
                   PROVE  \E k \in 1 .. Len(bids) : bids'[j].sequence = bids[k].sequence
        OBVIOUS
      <4>1. j \in 1 .. Len(bids) - 1 /\ j + 1 \in 1 .. Len(bids)
        BY <1>2, <1>3, <1>5, <3>1
      <4>2. bids'[j] = bids[j + 1]
        BY <1>3, <3>1, <4>1
      <4> QED
        BY <4>1, <4>2
    <3>2. CASE b.quantity # q
      <4>1. bids'[1].sequence = bids[1].sequence
        BY <1>2, <1>3, <3>2 DEF Orders, b
      <4>2. Len(bids') = Len(bids) /\ \A j \in 2 .. Len(bids) : bids'[j] = bids[j]
        BY <1>3, <3>2
      <4>3. \A j \in 1 .. Len(bids') : bids'[j].sequence = bids[j].sequence
        BY <1>5, <4>1, <4>2
      <4> QED
        BY <4>2, <4>3
    <3> QED
      BY <3>1, <3>2
  <2>3. \A i \in 1 .. Len(asks'), j \in 1 .. Len(bids') : asks'[i].sequence # bids'[j].sequence
    BY <1>1, <2>1, <2>2 DEF NumbersUsed
  <2>4. /\ trades' \in Seq(Deals) /\ Len(trades) \in Nat /\ Len(trades') = Len(trades) + 1
        /\ (\A k \in 1 .. Len(trades) : trades'[k] = trades[k]) /\ trades'[Len(trades) + 1] = d
    BY <1>4, <1>5, <1>6, AppendElements
  <2>5. \A i \in 1 .. Len(trades') :
          trades'[i].askOrder.sequence < sequence /\ trades'[i].bidOrder.sequence < sequence
    <3> SUFFICES ASSUME NEW i \in 1 .. Len(trades')
                 PROVE  trades'[i].askOrder.sequence < sequence /\ trades'[i].bidOrder.sequence < sequence
      OBVIOUS
    <3>1. CASE i = Len(trades) + 1
      BY <1>7, <1>8, <2>4, <3>1
    <3>2. CASE i \in 1 .. Len(trades)
      BY <1>1, <2>4, <3>2 DEF NumbersUsed
    <3> QED
      BY <2>4, <3>1, <3>2
  <2> QED
    BY <1>1, <2>3, <2>5 DEF NumbersUsed
<1> QED
  BY <1>1, <1>13, <1>14, SameLots

LEMMA LotsNextIInv ==
  ServiceIInv /\ IInv /\ LotsIInv /\ [ServiceNext]_allVars => LotsIInv'
<1> SUFFICES ASSUME ServiceIInv, IInv, LotsIInv, [ServiceNext]_allVars PROVE LotsIInv'
  OBVIOUS
<1>1. ASSUME NEW r \in Requests, Deliver(r) PROVE LotsIInv'
  BY <1>1, QuietStepKeepsLots DEF Deliver, vars
<1>2. CASE Receive \/ ClaimBatch
  BY <1>2, QuietStepKeepsLots DEF Receive, ClaimBatch, vars
<1>3. CASE Fill
  <2>1. ServiceTypeOK /\ Cursors /\ log' = Append(log, orderTemplate')
        /\ UNCHANGED <<vars, taken>>
    BY <1>3 DEF Fill, ServiceIInv
  <2>2. \A i \in 1 .. taken : i \in 1 .. Len(log)
    BY <2>1, ServiceLengths DEF Cursors
  <2>3. \A i \in 1 .. taken : log'[i] = log[i]
    <3>1. log \in Seq(Arriving)
      BY <2>1 DEF ServiceTypeOK
    <3> QED
      BY <2>1, <2>2, <3>1
  <2> QED
    BY <2>1, <2>3, QuietStepKeepsLots DEF vars
<1>4. CASE TakeOrder
  BY <1>4, TakeOrderKeepsLots
<1>5. CASE ReleaseBatch
  BY <1>5, QuietStepKeepsLots DEF ReleaseBatch, BeginMatch, book, search
<1>6. CASE Work
  <2>1. UNCHANGED serviceVars
    BY <1>6 DEF Work
  <2>2. CASE Insert
    BY <2>1, <2>2, InsertKeepsLots
  <2>3. CASE Trade
    BY <2>1, <2>3, TradeKeepsLots
  <2>4. CASE EraseAsk
    BY <2>1, <2>4, EraseAskKeepsLots
  <2>5. CASE Halve
    BY <2>1, <2>5, QuietStepKeepsLots DEF Halve, book, serviceVars
  <2>6. CASE PassAsk
    BY <2>1, <2>6, QuietStepKeepsLots DEF PassAsk, LeaveAsk, search, serviceVars
  <2>7. CASE MatchReturns
    BY <2>1, <2>7, QuietStepKeepsLots DEF MatchReturns, book, search, serviceVars
  <2> QED
    BY <1>6, <2>2, <2>3, <2>4, <2>5, <2>6, <2>7 DEF Work, Place, Match
<1>7. CASE UNCHANGED allVars
  BY <1>7, QuietStepKeepsLots DEF allVars, vars, serviceVars
<1> QED
  BY <1>1, <1>2, <1>3, <1>4, <1>5, <1>6, <1>7 DEF ServiceNext, RequestStep, MatchStep

------------------------------------------------------------------------------
(* Where the orders of the book come from.                                 *)

LEMMA ArrivingQuantity ==
  ASSUME NEW o \in Arriving
  PROVE  o.quantity \in Nat
<1>1. PICK r \in Requests, k \in 1 .. MaxOrders : o = WithCode(Numbered(r, k))
  BY DEF Arriving
<1>2. o.quantity = r.quantity
  BY <1>1 DEF WithCode, Numbered
<1> QED
  BY <1>2, RequestAssumption

LEMMA CameStays ==
  ASSUME NEW s, NEW t, NEW n \in Nat, NEW m \in Nat, n <= m,
         \A i \in 1 .. n : t[i] = s[i], NEW o, CameIn(o, s, n)
  PROVE  CameIn(o, t, m)
<1>1. PICK i \in 1 .. n : RestOf(o, s[i])
  BY DEF CameIn
<1>2. i \in 1 .. m /\ t[i] = s[i]
  OBVIOUS
<1> QED
  BY ONLY <1>1, <1>2 DEF CameIn

(* What is left of an order after a trade is a rest of the same order.     *)
LEMMA CameLess ==
  ASSUME NEW s \in Seq(Arriving), NEW n \in Nat, n <= Len(s),
         NEW o \in Orders, NEW q \in Nat, q <= o.quantity, CameIn(o, s, n)
  PROVE  CameIn([o EXCEPT !.quantity = o.quantity - q], s, n)
<1> DEFINE p == [o EXCEPT !.quantity = o.quantity - q]
<1>1. PICK i \in 1 .. n : RestOf(o, s[i])
  BY DEF CameIn
<1>2. s[i] \in Arriving
  BY <1>1
<1>3. s[i].quantity \in Nat
  BY <1>2, ArrivingQuantity
<1>4. /\ p.sequence = o.sequence /\ p.type = o.type /\ p.matchType = o.matchType
      /\ p.price = o.price /\ p.quantity = o.quantity - q /\ o.quantity \in Nat
  BY DEF Orders
<1>5. p.quantity <= s[i].quantity
  BY <1>1, <1>3, <1>4 DEF RestOf
<1>6. RestOf(p, s[i])
  BY <1>1, <1>4, <1>5 DEF RestOf
<1> QED
  BY <1>1, <1>6 DEF CameIn

(* A step that moves no order of the book.                                 *)
LEMMA QuietStepKeepsCame ==
  ASSUME AllCame, UNCHANGED <<asks, bids, trades, taken, order>>, taken \in Nat,
         pc' = "placing" => pc = "placing",
         \A i \in 1 .. taken : log'[i] = log[i]
  PROVE  AllCame'
<1>1. \A o : CameIn(o, log, taken) => CameIn(o, log', taken')
  BY CameStays
<1> QED
  BY <1>1 DEF AllCame

LEMMA TakeOrderKeepsCame ==
  ASSUME ServiceIInv, AllCame, TakeOrder
  PROVE  AllCame'
<1>1. /\ taken \in Nat /\ taken < end /\ taken' = taken + 1 /\ log' = log
      /\ UNCHANGED <<asks, bids, trades>>
  BY DEF ServiceIInv, ServiceTypeOK, TakeOrder, AddOrder, AddCancel, Arrives, book
<1>2. ASSUME NEW o, CameIn(o, log, taken) PROVE CameIn(o, log', taken')
  <2>1. taken' \in Nat /\ taken <= taken' /\ \A i \in 1 .. taken : log'[i] = log[i]
    BY ONLY <1>1
  <2> QED
    BY ONLY <1>1, <1>2, <2>1, CameStays, Zenon
<1>3. taken + 1 \in 1 .. Len(log) /\ NextOrder = log[taken + 1] /\ NextOrder \in Arriving
  BY <1>1, NextIsNew DEF NextOrder
<1>4. ASSUME pc' = "placing" PROVE CameIn(order', log', taken')
  <2>1. order' = Numbered(Body(NextOrder), NextOrder.sequence)
    BY <1>4 DEF TakeOrder, AddOrder, AddCancel, Arrives
  <2>2. NextOrder.quantity \in Nat
    BY <1>3, ArrivingQuantity
  <2>3. RestOf(order', NextOrder)
    BY <2>1, <2>2 DEF RestOf, Numbered, Body
  <2>4. taken + 1 \in 1 .. taken' /\ log'[taken + 1] = NextOrder
    BY <1>1, <1>3
  <2> QED
    BY ONLY <2>3, <2>4 DEF CameIn
<1> QED
  BY <1>1, <1>2, <1>4 DEF AllCame

LEMMA InsertKeepsCame ==
  ASSUME IInv, AllCame, Insert, UNCHANGED serviceVars
  PROVE  AllCame'
<1>1. /\ TypeOK /\ SearchBounds /\ pc = "placing" /\ pc' = "adding" /\ first = last
      /\ UNCHANGED <<trades, taken, log>>
  BY DEF IInv, Insert, serviceVars
<1>2. /\ asks \in Seq(Orders) /\ bids \in Seq(Orders) /\ order \in Orders
      /\ first \in Nat /\ first <= Len(Side)
  BY <1>1 DEF TypeOK, SearchBounds
<1>3. CameIn(order, log, taken)
  BY <1>1 DEF AllCame
<1>4. ASSUME NEW s \in Seq(Orders), \A i \in 1 .. Len(s) : CameIn(s[i], log, taken),
             NEW m \in 1 .. Len(s) + 1
      PROVE  \A i \in 1 .. Len(InsertAt(s, m, order)) : CameIn(InsertAt(s, m, order)[i], log, taken)
  <2> DEFINE t == InsertAt(s, m, order)
  <2>1. /\ Len(t) = Len(s) + 1
        /\ \A k \in 1 .. Len(s) + 1 :
             t[k] = IF k < m THEN s[k] ELSE IF k = m THEN order ELSE s[k - 1]
    <3>1. s \in Seq(Orders) /\ order \in Orders /\ m \in 1 .. Len(s) + 1
      BY ONLY <1>2, <1>4
    <3> QED
      BY ONLY <3>1, InsertAtIs, SMTT(30)
  <2> HIDE DEF t
  <2>2. ASSUME NEW i \in 1 .. Len(t) PROVE CameIn(t[i], log, taken)
    <3>1. Len(s) \in Nat /\ i \in 1 .. Len(s) + 1
      BY <2>1
    <3>2. CASE i < m
      <4>1. i \in 1 .. Len(s) /\ t[i] = s[i]
        BY <2>1, <3>1, <3>2
      <4> QED
        BY <1>4, <4>1
    <3>3. CASE i = m
      BY <1>3, <2>1, <3>1, <3>3
    <3>4. CASE i > m
      <4>1. i - 1 \in 1 .. Len(s) /\ t[i] = s[i - 1]
        BY <2>1, <3>1, <3>4
      <4> QED
        BY <1>4, <4>1
    <3> QED
      BY <3>1, <3>2, <3>3, <3>4
  <2> QED
    BY <2>2 DEF t
<1>5. CASE order.type = "Ask"
  <2>1. asks' = InsertAt(asks, first + 1, order) /\ bids' = bids /\ first + 1 \in 1 .. Len(asks) + 1
    BY <1>2, <1>5 DEF Insert, Side
  <2>2. \A i \in 1 .. Len(asks') : CameIn(asks'[i], log, taken)
    BY <1>2, <1>4, <2>1 DEF AllCame
  <2> QED
    BY <1>1, <2>1, <2>2 DEF AllCame
<1>6. CASE order.type # "Ask"
  <2>1. bids' = InsertAt(bids, first + 1, order) /\ asks' = asks /\ first + 1 \in 1 .. Len(bids) + 1
    BY <1>2, <1>6 DEF Insert, Side
  <2>2. \A i \in 1 .. Len(bids') : CameIn(bids'[i], log, taken)
    BY <1>2, <1>4, <2>1 DEF AllCame
  <2> QED
    BY <1>1, <2>1, <2>2 DEF AllCame
<1> QED
  BY <1>5, <1>6

LEMMA EraseAskKeepsCame ==
  ASSUME IInv, AllCame, EraseAsk, UNCHANGED serviceVars
  PROVE  AllCame'
<1>1. /\ TypeOK /\ askIt <= Len(asks) /\ asks' = RemoveAt(asks, askIt)
      /\ UNCHANGED <<bids, trades, taken, log, pc, order>>
  BY DEF IInv, EraseAsk, LeaveAsk, serviceVars, search
<1>2. asks \in Seq(Orders) /\ askIt \in 1 .. Len(asks)
  BY <1>1 DEF TypeOK
<1>3. /\ Len(asks') = Len(asks) - 1
      /\ \A k \in 1 .. Len(asks) - 1 : asks'[k] = IF k < askIt THEN asks[k] ELSE asks[k + 1]
  BY ONLY <1>1, <1>2, RemoveAtIs
<1>4. ASSUME NEW i \in 1 .. Len(asks') PROVE CameIn(asks'[i], log, taken)
  <2>1. Len(asks) \in Nat /\ i \in 1 .. Len(asks) - 1
    BY ONLY <1>2, <1>3, <1>4
  <2>2. i \in 1 .. Len(asks) /\ i + 1 \in 1 .. Len(asks)
    BY ONLY <2>1
  <2>3. asks'[i] = asks[i] \/ asks'[i] = asks[i + 1]
    BY ONLY <1>3, <2>1
  <2> QED
    BY <2>2, <2>3 DEF AllCame
<1> QED
  BY <1>1, <1>4 DEF AllCame

LEMMA TradeKeepsCame ==
  ASSUME ServiceIInv, IInv, AllCame, Trade, UNCHANGED serviceVars
  PROVE  AllCame'
<1> DEFINE a == asks[askIt]
           b == bids[1]
           q == TradeQuantity(a, b)
           d == [askOrder |-> a, bidOrder |-> b, tradedQuantity |-> q,
                 tradedPrice |-> TradePrice(a, b)]
<1>1. /\ TypeOK /\ Placed /\ pc = "matching"
      /\ UNCHANGED <<taken, log, pc, order>>
      /\ log \in Seq(Arriving) /\ taken \in Nat /\ taken <= Len(log)
  <2>1. ServiceTypeOK /\ Cursors
    BY DEF ServiceIInv
  <2>2. log \in Seq(Arriving) /\ taken \in Nat /\ taken <= Len(log)
    BY <2>1, ServiceLengths DEF ServiceTypeOK, Cursors
  <2> QED
    BY <2>2 DEF IInv, Trade, serviceVars, search
<1>2. /\ bidIt = 1 /\ askIt \in 1 .. Len(asks) /\ 1 \in 1 .. Len(bids)
      /\ a \in Orders /\ b \in Orders
      /\ q \in Nat /\ q <= a.quantity /\ q <= b.quantity /\ TradePrice(a, b) \in Nat
  BY TradePair
<1>3. /\ Len(asks') = Len(asks)
      /\ asks'[askIt] = [a EXCEPT !.quantity = a.quantity - q]
      /\ \A k \in 1 .. Len(asks) : k # askIt => asks'[k] = asks[k]
      /\ b.quantity = q =>
           /\ Len(bids') = Len(bids) - 1
           /\ \A k \in 1 .. Len(bids) - 1 : bids'[k] = bids[k + 1]
      /\ b.quantity # q =>
           /\ Len(bids') = Len(bids)
           /\ bids'[1] = [b EXCEPT !.quantity = b.quantity - q]
           /\ \A k \in 2 .. Len(bids) : bids'[k] = bids[k]
  BY TradeEffect
<1>4. trades' = Append(trades, d) /\ trades \in Seq(Deals) /\ d \in Deals
  BY <1>1, <1>2 DEF Trade, TypeOK, Deals
<1>5. /\ a.type = "Ask" /\ CameIn(a, log, taken) /\ b.type = "Bid" /\ CameIn(b, log, taken)
      /\ Len(asks) \in Nat /\ Len(bids) \in Nat
  <2>1. a.type = "Ask" /\ b.type = "Bid" /\ Len(asks) \in Nat /\ Len(bids) \in Nat
    BY <1>1, <1>2 DEF Placed, TypeOK
  <2>2. CameIn(a, log, taken) /\ CameIn(b, log, taken)
    BY <1>2 DEF AllCame
  <2> QED
    BY <2>1, <2>2
<1>6. d.askOrder = a /\ d.bidOrder = b
  OBVIOUS
<1> HIDE DEF a, b, q, d
<1>7. CameIn([a EXCEPT !.quantity = a.quantity - q], log, taken)
      /\ CameIn([b EXCEPT !.quantity = b.quantity - q], log, taken)
  BY <1>1, <1>2, <1>5, CameLess
<1>8. ASSUME NEW i \in 1 .. Len(asks') PROVE CameIn(asks'[i], log, taken)
  <2>1. i \in 1 .. Len(asks)
    BY ONLY <1>3, <1>8
  <2>2. CASE i = askIt
    BY <1>3, <1>7, <2>2
  <2>3. CASE i # askIt
    BY <1>3, <2>1, <2>3 DEF AllCame
  <2> QED
    BY <2>2, <2>3
<1>9. ASSUME NEW i \in 1 .. Len(bids') PROVE CameIn(bids'[i], log, taken)
  <2>1. CASE b.quantity = q
    <3>1. i \in 1 .. Len(bids) - 1 /\ i + 1 \in 1 .. Len(bids)
      BY ONLY <1>3, <1>5, <1>9, <2>1
    <3>2. bids'[i] = bids[i + 1]
      BY ONLY <1>3, <2>1, <3>1
    <3> QED
      BY <3>1, <3>2 DEF AllCame
  <2>2. CASE b.quantity # q
    <3>1. i \in 1 .. Len(bids) /\ (i = 1 \/ i \in 2 .. Len(bids))
      BY ONLY <1>3, <1>5, <1>9, <2>2
    <3>2. CASE i = 1
      BY <1>3, <1>7, <2>2, <3>2
    <3>3. CASE i \in 2 .. Len(bids)
      <4>1. bids'[i] = bids[i]
        BY ONLY <1>3, <2>2, <3>3
      <4> QED
        BY <3>1, <4>1 DEF AllCame
    <3> QED
      BY <3>1, <3>2, <3>3
  <2> QED
    BY <2>1, <2>2
<1>10. ASSUME NEW i \in 1 .. Len(trades')
       PROVE  /\ trades'[i].askOrder.type = "Ask" /\ CameIn(trades'[i].askOrder, log, taken)
              /\ trades'[i].bidOrder.type = "Bid" /\ CameIn(trades'[i].bidOrder, log, taken)
  <2>1. \/ i \in 1 .. Len(trades) /\ trades'[i] = trades[i]
        \/ trades'[i] = d
    BY ONLY <1>4, <1>10
  <2>2. CASE trades'[i] = d
    BY <1>5, <1>6, <2>2
  <2>3. CASE i \in 1 .. Len(trades) /\ trades'[i] = trades[i]
    BY <2>3 DEF AllCame
  <2> QED
    BY <2>1, <2>2, <2>3
<1> QED
  BY <1>1, <1>8, <1>9, <1>10 DEF AllCame

LEMMA NextAllCame ==
  ServiceIInv /\ IInv /\ AllCame /\ [ServiceNext]_allVars => AllCame'
<1> SUFFICES ASSUME ServiceIInv, IInv, AllCame, [ServiceNext]_allVars PROVE AllCame'
  OBVIOUS
<1>0. taken \in Nat
  BY DEF ServiceIInv, ServiceTypeOK
<1>1. ASSUME NEW r \in Requests, Deliver(r) PROVE AllCame'
  BY <1>0, <1>1, QuietStepKeepsCame DEF Deliver, vars
<1>2. CASE Receive \/ ClaimBatch
  BY <1>0, <1>2, QuietStepKeepsCame DEF Receive, ClaimBatch, vars
<1>3. CASE Fill
  <2>1. ServiceTypeOK /\ Cursors /\ log' = Append(log, orderTemplate')
        /\ UNCHANGED <<vars, taken>>
    BY <1>3 DEF Fill, ServiceIInv
  <2>2. \A i \in 1 .. taken : i \in 1 .. Len(log)
    BY <2>1, ServiceLengths DEF Cursors
  <2>3. \A i \in 1 .. taken : log'[i] = log[i]
    <3>1. log \in Seq(Arriving)
      BY <2>1 DEF ServiceTypeOK
    <3> QED
      BY <2>1, <2>2, <3>1
  <2> QED
    BY <1>0, <2>1, <2>3, QuietStepKeepsCame DEF vars
<1>4. CASE TakeOrder
  BY <1>4, TakeOrderKeepsCame
<1>5. CASE ReleaseBatch
  BY <1>0, <1>5, QuietStepKeepsCame DEF ReleaseBatch, BeginMatch, book, search
<1>6. CASE Work
  <2>1. UNCHANGED serviceVars
    BY <1>6 DEF Work
  <2>2. CASE Insert
    BY <2>1, <2>2, InsertKeepsCame
  <2>3. CASE Trade
    BY <2>1, <2>3, TradeKeepsCame
  <2>4. CASE EraseAsk
    BY <2>1, <2>4, EraseAskKeepsCame
  <2>5. CASE Halve
    BY <1>0, <2>1, <2>5, QuietStepKeepsCame DEF Halve, book, serviceVars
  <2>6. CASE PassAsk
    BY <1>0, <2>1, <2>6, QuietStepKeepsCame DEF PassAsk, LeaveAsk, search, serviceVars
  <2>7. CASE MatchReturns
    BY <1>0, <2>1, <2>7, QuietStepKeepsCame DEF MatchReturns, book, search, serviceVars
  <2> QED
    BY <1>6, <2>2, <2>3, <2>4, <2>5, <2>6, <2>7 DEF Work, Place, Match
<1>7. CASE UNCHANGED allVars
  BY <1>0, <1>7, QuietStepKeepsCame DEF allVars, vars, serviceVars
<1> QED
  BY <1>1, <1>2, <1>3, <1>4, <1>5, <1>6, <1>7 DEF ServiceNext, RequestStep, MatchStep

------------------------------------------------------------------------------
(* What has been taken from the ring.                                      *)

LEMMA SameStart ==
  ASSUME NEW S, NEW s \in Seq(S), NEW e \in S, NEW n \in 0 .. Len(s)
  PROVE  SubSeq(Append(s, e), 1, n) = SubSeq(s, 1, n)
<1> DEFINE t == Append(s, e)
<1>1. t \in Seq(S) /\ Len(t) = Len(s) + 1 /\ \A i \in 1 .. Len(s) : t[i] = s[i]
  OBVIOUS
<1> HIDE DEF t
<1>2. /\ SubSeq(t, 1, n) \in Seq(S) /\ Len(SubSeq(t, 1, n)) = n
      /\ \A i \in 1 .. n : SubSeq(t, 1, n)[i] = t[i]
  BY <1>1
<1>3. /\ SubSeq(s, 1, n) \in Seq(S) /\ Len(SubSeq(s, 1, n)) = n
      /\ \A i \in 1 .. n : SubSeq(s, 1, n)[i] = s[i]
  OBVIOUS
<1>4. \A i \in 1 .. n : SubSeq(t, 1, n)[i] = SubSeq(s, 1, n)[i]
  BY <1>1, <1>2, <1>3
<1> QED
  BY <1>2, <1>3, <1>4 DEF t

LEMMA OneMore ==
  ASSUME NEW S, NEW s \in Seq(S), NEW n \in Nat, n < Len(s)
  PROVE  SubSeq(s, 1, n + 1) = Append(SubSeq(s, 1, n), s[n + 1])
<1> DEFINE t == SubSeq(s, 1, n)
           u == SubSeq(s, 1, n + 1)
<1>1. t \in Seq(S) /\ Len(t) = n /\ \A i \in 1 .. n : t[i] = s[i]
  OBVIOUS
<1>2. u \in Seq(S) /\ Len(u) = n + 1 /\ \A i \in 1 .. n + 1 : u[i] = s[i]
  OBVIOUS
<1>3. s[n + 1] \in S
  OBVIOUS
<1> HIDE DEF t, u
<1>4. /\ Append(t, s[n + 1]) \in Seq(S) /\ Len(Append(t, s[n + 1])) = n + 1
      /\ \A i \in 1 .. n : Append(t, s[n + 1])[i] = s[i]
      /\ Append(t, s[n + 1])[n + 1] = s[n + 1]
  BY <1>1, <1>3
<1>5. \A i \in 1 .. n + 1 : u[i] = Append(t, s[n + 1])[i]
  BY <1>2, <1>4
<1>6. u = Append(t, s[n + 1])
  BY <1>2, <1>4, <1>5
<1> QED
  BY <1>6 DEF t, u

(* Fill puts an order that can arrive.                                     *)
LEMMA FillsArriving ==
  ASSUME ServiceIInv, Fill
  PROVE  orderTemplate' \in Arriving
<1>1. ServiceTypeOK /\ ServiceTypeOK' /\ log' = Append(log, orderTemplate')
  BY FillKeeps DEF ServiceIInv, Fill
<1>2. /\ log \in Seq(Arriving \cup {NewOrder}) /\ orderTemplate' \in Arriving \cup {NewOrder}
      /\ log' \in Seq(Arriving) /\ Len(log) \in Nat
  BY <1>1 DEF ServiceTypeOK
<1>3. Len(log') = Len(log) + 1 /\ log'[Len(log) + 1] = orderTemplate'
  BY <1>1, <1>2
<1> QED
  BY <1>2, <1>3

------------------------------------------------------------------------------
(* Theorems.                                                               *)

(* The inductive invariant of the service: the cursors of the matching     *)
(* thread, what is on its way, and that the numbers to come are new to the *)
(* book.                                                                   *)
THEOREM ServiceInvariance == ServiceSpec => []ServiceIInv
  BY ServiceInitIInv, ServiceNextIInv, PTL DEF ServiceSpec

(* No order that got into the pipe is lost, doubled, overtaken or changed  *)
(* by its way through the string and fill's static order.                  *)
THEOREM LosesNothing == ServiceSpec => []NothingLost
<1>1. ServiceIInv => NothingLost
  BY DEF ServiceIInv
<1> QED
  BY <1>1, ServiceInvariance, PTL

(* A service holds back at most a ring, a pipe and one order.              *)
THEOREM BacklogIsBounded == ServiceSpec => []Backlog
<1>1. ServiceIInv => Backlog
  <2> SUFFICES ASSUME ServiceIInv PROVE Backlog
    OBVIOUS
  <2>1. ServiceTypeOK /\ Cursors /\ NothingLost /\ Len(inbox) <= HighWater
    BY DEF ServiceIInv
  <2>2. Len(Coming) <= Len(inbox) + 1
    BY <2>1, ComingIs, ServiceLengths
  <2> QED
    BY <2>1, <2>2, ServiceLengths, ServiceAssumption DEF Backlog, Cursors, NothingLost
<1> QED
  BY <1>1, ServiceInvariance, PTL

(* The orders a service takes off its ring are orders OrderBook may be     *)
(* given: every step of the service is one of the book or leaves it alone. *)
THEOREM ServiceIsBook == ServiceSpec => BookPromise
<1>1. ServiceInit => Init
  BY DEF ServiceInit
<1>2. ServiceIInv /\ [ServiceNext]_allVars => [Next]_vars
  <2> SUFFICES ASSUME ServiceIInv, [ServiceNext]_allVars PROVE [Next]_vars
    OBVIOUS
  <2>1. ASSUME NEW r \in Requests, Deliver(r) PROVE UNCHANGED vars
    BY <2>1 DEF Deliver
  <2>2. RequestStep => UNCHANGED vars
    BY DEF RequestStep, Receive, Fill
  <2>3. ClaimBatch => UNCHANGED vars
    BY DEF ClaimBatch
  <2>4. TakeOrder => Next
    <3> SUFFICES ASSUME TakeOrder PROVE Next
      OBVIOUS
    <3>1. NextOrder \in Arriving
      BY NextIsNew DEF TakeOrder
    <3>2. Body(NextOrder) \in Requests /\ NextOrder.sequence \in 1 .. MaxOrders
      BY <3>1, OfArriving
    <3> QED
      BY <3>2 DEF TakeOrder, Next
  <2>5. Work \/ ReleaseBatch => Next
    BY DEF Work, ReleaseBatch, Next
  <2>6. UNCHANGED allVars => UNCHANGED vars
    BY DEF allVars
  <2> QED
    BY <2>1, <2>2, <2>3, <2>4, <2>5, <2>6 DEF ServiceNext, MatchStep
<1> QED
  BY <1>1, <1>2, ServiceInvariance, PTL DEF ServiceSpec, BookPromise, Spec

(* So the service trades as Exchange promises: what a book of OrderBook    *)
(* keeps, it keeps behind the pipe, the string and the ring.               *)
THEOREM ServiceIsExchange == ServiceSpec => []BooksSorted /\ []NoYoungerFirst /\ ExchangePromise
  BY ServiceIsBook, StaysSorted, OlderAskFirst, ImplementsExchange, PTL DEF BookPromise

(* No number rests on both sides of the book or is traded before it comes, *)
(* and what every order of the ring was given is accounted for.            *)
THEOREM LotsInvariance == ServiceSpec => []LotsIInv
<1>1. ServiceSpec => []ServiceIInv /\ []IInv
  BY ServiceInvariance, ServiceIsBook, Invariance, PTL DEF BookPromise
<1>2. ServiceInit => LotsIInv
  BY LotsInitIInv
<1>3. ServiceIInv /\ IInv /\ LotsIInv /\ [ServiceNext]_allVars => LotsIInv'
  BY LotsNextIInv
<1> QED
  BY <1>1, <1>2, <1>3, PTL DEF ServiceSpec

(* Every lot of an order taken from the ring rests in the book, is being   *)
(* placed, or was traded: partial fills, both sides filled at once and the *)
(* erasures in match() lose no lot and trade none twice, for any orders in *)
(* batches of any sizes.                                                   *)
THEOREM ConservesLots == ServiceSpec => []LotsConserved
<1>1. LotsIInv => LotsConserved
  BY DEF LotsIInv
<1> QED
  BY <1>1, LotsInvariance, PTL

(* A trade is of an ask and a bid that got into the pipe, with the number  *)
(* and the terms they had there: neither the string, the static order, the *)
(* ring nor the deques change them, and no order is traded beyond its      *)
(* quantity, however many trades fill it.                                  *)
THEOREM TradesWhatWasOrdered == ServiceSpec => []TradesAsOrdered
<1>1. ServiceInit => AllCame
  BY DEF ServiceInit, Init, AllCame
<1>2. ServiceSpec => []ServiceIInv /\ []IInv
  BY ServiceInvariance, ServiceIsBook, Invariance, PTL DEF BookPromise
<1>3. ServiceSpec => []AllCame
  BY <1>1, <1>2, NextAllCame, PTL DEF ServiceSpec
<1>4. ServiceIInv /\ IInv /\ LotsConserved /\ AllCame => TradesAsOrdered
  <2> SUFFICES ASSUME ServiceIInv, IInv, LotsConserved, AllCame PROVE TradesAsOrdered
    OBVIOUS
  <2>1. ASSUME NEW i \in 1 .. taken
        PROVE  i \in 1 .. Len(accepted) /\ log[i] = accepted[i] /\ accepted[i].quantity \in Nat
    <3>1. ServiceTypeOK /\ Cursors /\ NothingLost
      BY DEF ServiceIInv
    <3>2. i \in 1 .. Len(accepted) /\ i <= Len(log)
      BY <3>1, ServiceLengths DEF Cursors, NothingLost
    <3>3. log[i] = accepted[i]
      BY <3>1, <3>2 DEF NothingLost
    <3>4. accepted[i] \in Arriving
      BY <3>1, <3>2 DEF ServiceTypeOK
    <3> QED
      BY <3>2, <3>3, <3>4, ArrivingQuantity
  <2>2. ASSUME NEW o, CameIn(o, log, taken)
        PROVE  \E j \in 1 .. Len(accepted) : RestOf(o, accepted[j])
    BY <2>1, <2>2 DEF CameIn
  <2>3. ASSUME NEW i \in 1 .. Len(trades)
        PROVE  \E j, k \in 1 .. Len(accepted) :
                 /\ accepted[j].type = "Ask" /\ RestOf(trades[i].askOrder, accepted[j])
                 /\ accepted[k].type = "Bid" /\ RestOf(trades[i].bidOrder, accepted[k])
    <3>1. /\ trades[i].askOrder.type = "Ask" /\ CameIn(trades[i].askOrder, log, taken)
          /\ trades[i].bidOrder.type = "Bid" /\ CameIn(trades[i].bidOrder, log, taken)
      BY <2>3 DEF AllCame
    <3>2. PICK j \in 1 .. Len(accepted) : RestOf(trades[i].askOrder, accepted[j])
      BY <2>2, <3>1
    <3>3. PICK k \in 1 .. Len(accepted) : RestOf(trades[i].bidOrder, accepted[k])
      BY <2>2, <3>1
    <3>4. accepted[j].type = "Ask" /\ accepted[k].type = "Bid"
      BY <3>1, <3>2, <3>3 DEF RestOf
    <3> QED
      BY <3>2, <3>3, <3>4
  <2>4. ASSUME NEW i \in 1 .. taken, accepted[i].type # "Cancel"
        PROVE  Traded(trades, accepted[i].sequence) <= accepted[i].quantity
    <3> DEFINE n == accepted[i].sequence
               x == Lots(asks, n)
               y == Lots(bids, n)
               z == Traded(trades, n)
               w == InPlacing(pc, order, n)
    <3>1. log[i] = accepted[i] /\ accepted[i].quantity \in Nat
      BY <2>1
    <3>2. accepted[i].quantity = x + y + z + w
      BY <2>4, <3>1 DEF LotsConserved, InPlacing
    <3>3. TypeOK
      BY DEF IInv
    <3>4. asks \in Seq(Orders) /\ bids \in Seq(Orders) /\ trades \in Seq(Deals)
      BY <3>3 DEF TypeOK, Deals
    <3>5. x \in Nat /\ y \in Nat /\ z \in Nat
      BY <3>4, LotsAre, MovedAre, TotalIsNat
    <3>6. w \in Nat
      BY <3>3 DEF InPlacing, TypeOK, Orders
    <3> HIDE DEF n, x, y, z, w
    <3>7. z <= accepted[i].quantity
      BY ONLY <3>1, <3>2, <3>5, <3>6
    <3> QED
      BY <3>7 DEF z, n
  <2> QED
    BY <2>3, <2>4 DEF TradesAsOrdered
<1> QED
  BY <1>2, <1>3, <1>4, ConservesLots, PTL

(* The request thread waits for room on the ring, the matching thread for  *)
(* orders on it: never both while an order is on its way and the ring of   *)
(* trades has room.                                                        *)
THEOREM NeverLocksUp == ServiceSpec => []NoStandoff
<1>1. ServiceIInv => NoStandoff
  <2> SUFFICES ASSUME ServiceIInv, taken < Len(accepted), Len(trades) < TradedRingSize,
                      RequestWaits, MatchWaits
               PROVE  FALSE
    BY DEF NoStandoff
  <2>1. ServiceTypeOK /\ Cursors /\ NothingLost
    BY DEF ServiceIInv
  <2>2. taken = end /\ ~(released < Len(log))
    BY DEF MatchWaits
  <2>3. /\ released \in Nat /\ taken \in Nat /\ Len(log) \in Nat /\ Len(accepted) \in Nat
        /\ Size \in Nat \ {0} /\ taken <= Len(log) /\ released <= taken
    BY <2>1, <2>2, ServiceLengths, ServiceAssumption DEF Cursors
  <2>4. HasRoom /\ Len(log) = taken
    BY ONLY <2>2, <2>3 DEF HasRoom
  <2>5. request = NoRequest /\ inbox = <<>>
    BY <2>4 DEF RequestWaits
  <2>6. Len(Coming) = 0
    BY <2>1, <2>5, ComingIs
  <2>7. Len(accepted) = Len(log)
    BY <2>1, <2>3, <2>6 DEF NothingLost
  <2> QED
    BY <2>3, <2>4, <2>7
<1> QED
  BY <1>1, ServiceInvariance, PTL

(* Fill publishes, TakeOrder delivers, the rest stutters: what Disruptor   *)
(* shows of a ring is all that the two threads need of theirs.             *)
THEOREM ImplementsStream == ServiceSpec => RingPromise
<1>1. ServiceInit => Ring!Init
  <2>1. SubSeq(<<>>, 1, 0) = <<>>
    OBVIOUS
  <2> QED
    BY <2>1 DEF ServiceInit, Ring!Init
<1>2. ServiceIInv /\ [ServiceNext]_allVars => [Ring!Next]_(Ring!vars)
  <2> SUFFICES ASSUME ServiceIInv, [ServiceNext]_allVars PROVE [Ring!Next]_(Ring!vars)
    OBVIOUS
  <2> DEFINE g == [c \in {Code} |-> SubSeq(log, 1, taken)]
  <2>1. /\ ServiceTypeOK /\ Cursors /\ log \in Seq(Arriving) /\ Len(log) \in Nat
        /\ taken \in Nat /\ taken <= Len(log) /\ released \in Nat /\ released <= taken
    <3>1. ServiceTypeOK /\ Cursors
      BY DEF ServiceIInv
    <3> QED
      BY <3>1, ServiceLengths DEF ServiceTypeOK, Cursors
  <2>2. /\ g[Code] = SubSeq(log, 1, taken) /\ Len(SubSeq(log, 1, taken)) = taken
        /\ SubSeq(log, 1, taken) \in Seq(Arriving)
        /\ \A i \in 1 .. taken : SubSeq(log, 1, taken)[i] = log[i]
    BY <2>1
  <2>3. CASE Fill
    <3>1. HasRoom /\ log' = Append(log, orderTemplate') /\ taken' = taken
      BY <2>3 DEF Fill
    <3>2. orderTemplate' \in Arriving
      BY <2>3, FillsArriving
    <3>3. SubSeq(log', 1, taken') = SubSeq(log, 1, taken)
      BY <2>1, <2>2, <3>1, <3>2, SameStart
    <3>4. \A c \in {Code} : Len(log) < Len(g[c]) + Size
      BY <2>1, <2>2, <3>1, ServiceAssumption DEF HasRoom
    <3>5. Ring!Publish(orderTemplate')
      BY <3>1, <3>3, <3>4 DEF Ring!Publish
    <3> QED
      BY <3>2, <3>5 DEF Ring!Next
  <2>4. CASE TakeOrder
    <3>1. taken < end /\ taken' = taken + 1 /\ log' = log
      BY <2>4 DEF TakeOrder
    <3>2. taken < Len(log)
      BY <2>1, <3>1, ServiceLengths DEF Cursors
    <3>3. SubSeq(log, 1, taken + 1) = Append(SubSeq(log, 1, taken), log[taken + 1])
      BY <2>1, <3>2, OneMore
    <3>4. [c \in {Code} |-> SubSeq(log', 1, taken')]
           = [g EXCEPT ![Code] = Append(@, log[Len(@) + 1])]
      BY <2>2, <3>1, <3>3
    <3>5. Ring!Deliver(Code)
      BY <2>2, <3>1, <3>2, <3>4 DEF Ring!Deliver
    <3> QED
      BY <3>5 DEF Ring!Next
  <2>5. CASE UNCHANGED <<log, taken>>
    BY <2>5 DEF Ring!vars
  <2>6. ASSUME NEW r \in Requests, Deliver(r) PROVE UNCHANGED <<log, taken>>
    BY <2>6 DEF Deliver
  <2>7. Receive \/ ClaimBatch \/ ReleaseBatch => UNCHANGED <<log, taken>>
    BY DEF Receive, ClaimBatch, ReleaseBatch
  <2>8. Work \/ UNCHANGED allVars => UNCHANGED <<log, taken>>
    BY DEF Work, allVars, serviceVars
  <2> QED
    BY <2>3, <2>4, <2>5, <2>6, <2>7, <2>8 DEF ServiceNext, RequestStep, MatchStep
<1> QED
  BY <1>1, <1>2, ServiceInvariance, PTL DEF ServiceSpec, RingPromise, Ring!Spec
==============================================================================
