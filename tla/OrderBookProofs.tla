-------------------------- MODULE OrderBookProofs ---------------------------
(***************************************************************************)
(* The order book keeps its promises for every sequence of orders, prices, *)
(* quantities and ring sizes.                                              *)
(***************************************************************************)
EXTENDS OrderBook, TLAPS

------------------------------------------------------------------------------
(* Deques.                                                                 *)

LEMMA ConcatIs ==
  ASSUME NEW S, NEW a \in Seq(S), NEW b \in Seq(S)
  PROVE  /\ a \o b \in Seq(S)
         /\ Len(a \o b) = Len(a) + Len(b)
         /\ \A k \in 1 .. Len(a) + Len(b) :
              (a \o b)[k] = IF k <= Len(a) THEN a[k] ELSE b[k - Len(a)]
  OBVIOUS

LEMMA InsertAtIs ==
  ASSUME NEW S, NEW s \in Seq(S), NEW i \in 1 .. Len(s) + 1, NEW e \in S
  PROVE  /\ InsertAt(s, i, e) \in Seq(S)
         /\ Len(InsertAt(s, i, e)) = Len(s) + 1
         /\ \A k \in 1 .. Len(s) + 1 :
              InsertAt(s, i, e)[k] = IF k < i THEN s[k] ELSE IF k = i THEN e ELSE s[k - 1]
<1> DEFINE a == SubSeq(s, 1, i - 1)
           b == SubSeq(s, i, Len(s))
<1>1. /\ a \in Seq(S) /\ Len(a) = i - 1 /\ \A k \in 1 .. i - 1 : a[k] = s[k]
  OBVIOUS
<1>2. /\ b \in Seq(S) /\ Len(b) = Len(s) - i + 1 /\ \A k \in 1 .. Len(b) : b[k] = s[i + k - 1]
  OBVIOUS
<1>3. /\ a \o <<e>> \in Seq(S) /\ Len(a \o <<e>>) = i
      /\ \A k \in 1 .. i - 1 : (a \o <<e>>)[k] = s[k]
      /\ (a \o <<e>>)[i] = e
  BY <1>1
<1> HIDE DEF a, b
<1> DEFINE c == a \o <<e>>
<1>4. InsertAt(s, i, e) = c \o b
  BY DEF InsertAt, a, b, c
<1>5. c \in Seq(S) /\ Len(c) = i /\ (\A k \in 1 .. i - 1 : c[k] = s[k]) /\ c[i] = e
  BY <1>3
<1> HIDE DEF c
<1>6. /\ c \o b \in Seq(S) /\ Len(c \o b) = Len(s) + 1
      /\ \A k \in 1 .. Len(s) + 1 : (c \o b)[k] = IF k <= i THEN c[k] ELSE b[k - i]
  BY <1>2, <1>5
<1> QED
  BY <1>2, <1>4, <1>5, <1>6

LEMMA RemoveAtIs ==
  ASSUME NEW S, NEW s \in Seq(S), NEW i \in 1 .. Len(s)
  PROVE  /\ RemoveAt(s, i) \in Seq(S)
         /\ Len(RemoveAt(s, i)) = Len(s) - 1
         /\ \A k \in 1 .. Len(s) - 1 :
              RemoveAt(s, i)[k] = IF k < i THEN s[k] ELSE s[k + 1]
<1> DEFINE a == SubSeq(s, 1, i - 1)
           b == SubSeq(s, i + 1, Len(s))
<1>1. /\ a \in Seq(S) /\ Len(a) = i - 1 /\ \A k \in 1 .. i - 1 : a[k] = s[k]
  OBVIOUS
<1>2. /\ b \in Seq(S) /\ Len(b) = Len(s) - i /\ \A k \in 1 .. Len(b) : b[k] = s[i + k]
  OBVIOUS
<1> HIDE DEF a, b
<1> DEFINE c == a \o b
<1>3. RemoveAt(s, i) = c
  BY DEF RemoveAt, a, b, c
<1>4. /\ c \in Seq(S) /\ Len(c) = Len(a) + Len(b)
      /\ \A k \in 1 .. Len(a) + Len(b) : c[k] = IF k <= Len(a) THEN a[k] ELSE b[k - Len(a)]
  BY <1>1, <1>2, ConcatIs DEF c
<1> HIDE DEF c
<1>5. Len(a) \in Nat /\ Len(b) \in Nat /\ Len(s) \in Nat /\ Len(c) = Len(s) - 1
  BY <1>1, <1>2, <1>4
<1>6. ASSUME NEW k \in 1 .. Len(s) - 1
      PROVE  c[k] = IF k < i THEN s[k] ELSE s[k + 1]
  <2>1. CASE k < i
    <3>1. k <= Len(a) /\ k \in 1 .. i - 1 /\ k \in 1 .. Len(a) + Len(b)
      BY <1>1, <1>2, <1>5, <2>1
    <3> QED
      BY <1>1, <1>4, <2>1, <3>1
  <2>2. CASE k >= i
    <3>1. /\ k - Len(a) \in 1 .. Len(b) /\ ~(k <= Len(a)) /\ i + (k - Len(a)) = k + 1
          /\ k \in 1 .. Len(a) + Len(b)
      BY <1>1, <1>2, <1>5, <2>2
    <3>2. b[k - Len(a)] = s[i + (k - Len(a))]
      BY ONLY <1>2, <3>1
    <3>3. c[k] = b[k - Len(a)]
      BY <1>4, <3>1
    <3> QED
      BY <2>2, <3>1, <3>2, <3>3
  <2> QED
    BY <2>1, <2>2
<1> QED
  BY <1>3, <1>4, <1>5, <1>6

------------------------------------------------------------------------------
(* Priority.                                                               *)

(* Among orders of different numbers, priority is a strict total order.    *)
LEMMA PriorityTransitive ==
  ASSUME NEW a \in Orders, NEW b \in Orders, NEW c \in Orders,
         HigherPriority(a, b), HigherPriority(b, c)
  PROVE  HigherPriority(a, c)
  BY DEF HigherPriority, Orders

LEMMA PriorityTotal ==
  ASSUME NEW a \in Orders, NEW b \in Orders, a.sequence # b.sequence
  PROVE  HigherPriority(a, b) \/ HigherPriority(b, a)
  BY DEF HigherPriority, Orders

LEMMA PriorityIrreflexive ==
  ASSUME NEW a \in Orders
  PROVE  ~HigherPriority(a, a)
  BY DEF HigherPriority, Orders

(* No order is twice in a sorted deque.                                    *)
LEMMA SortedApart ==
  ASSUME NEW s \in Seq(Orders), Sorted(s),
         NEW i \in 1 .. Len(s), NEW j \in 1 .. Len(s), i # j
  PROVE  s[i] # s[j]
<1>1. HigherPriority(s[i], s[j]) \/ HigherPriority(s[j], s[i])
  BY DEF Sorted
<1>2. s[i] \in Orders
  OBVIOUS
<1> QED
  BY <1>1, <1>2, PriorityIrreflexive

(* Orders that differ in their quantity only.                              *)
Alike(a, b) ==
  /\ a.sequence = b.sequence /\ a.type = b.type
  /\ a.matchType = b.matchType /\ a.price = b.price

LEMMA AlikePriority ==
  ASSUME NEW a, NEW b, NEW c, NEW d, Alike(a, c), Alike(b, d)
  PROVE  /\ HigherPriority(a, b) <=> HigherPriority(c, d)
         /\ Matches(a, b) <=> Matches(c, d)
  BY DEF Alike, HigherPriority, Matches

LEMMA SortedAlike ==
  ASSUME NEW s, NEW t, Sorted(s), Len(t) = Len(s),
         \A k \in 1 .. Len(s) : Alike(t[k], s[k])
  PROVE  Sorted(t)
  BY AlikePriority DEF Sorted

LEMMA SortedRemove ==
  ASSUME NEW s \in Seq(Orders), NEW i \in 1 .. Len(s), Sorted(s)
  PROVE  Sorted(RemoveAt(s, i))
<1> DEFINE t == RemoveAt(s, i)
<1>1. /\ Len(t) = Len(s) - 1 /\ Len(s) \in Nat
      /\ \A k \in 1 .. Len(s) - 1 : t[k] = IF k < i THEN s[k] ELSE s[k + 1]
  BY RemoveAtIs
<1> HIDE DEF t
<1>2. ASSUME NEW j \in 1 .. Len(t), NEW k \in 1 .. Len(t), j < k
      PROVE  HigherPriority(t[j], t[k])
  <2>1. PICK l \in 1 .. Len(s) : t[j] = s[l] /\ l = (IF j < i THEN j ELSE j + 1)
    BY <1>1
  <2>2. PICK n \in 1 .. Len(s) : t[k] = s[n] /\ n = (IF k < i THEN k ELSE k + 1)
    BY <1>1
  <2>3. l < n
    BY ONLY <1>2, <2>1, <2>2, i \in 1 .. Len(s), j \in 1 .. Len(t), k \in 1 .. Len(t), <1>1
  <2> QED
    BY ONLY <2>1, <2>2, <2>3, Sorted(s) DEF Sorted
<1> QED
  BY <1>2 DEF Sorted, t

LEMMA SortedInsert ==
  ASSUME NEW s \in Seq(Orders), NEW i \in 1 .. Len(s) + 1, NEW e \in Orders, Sorted(s),
         \A k \in 1 .. i - 1 : HigherPriority(s[k], e),
         \A k \in i .. Len(s) : HigherPriority(e, s[k])
  PROVE  Sorted(InsertAt(s, i, e))
<1> DEFINE t == InsertAt(s, i, e)
<1>1. /\ Len(t) = Len(s) + 1 /\ Len(s) \in Nat
      /\ \A k \in 1 .. Len(s) + 1 : t[k] = IF k < i THEN s[k] ELSE IF k = i THEN e ELSE s[k - 1]
  BY InsertAtIs
<1> HIDE DEF t
<1>2. ASSUME NEW j \in 1 .. Len(t), NEW k \in 1 .. Len(t), j < k
      PROVE  HigherPriority(t[j], t[k])
  <2>1. CASE k < i
    <3>1. t[j] = s[j] /\ t[k] = s[k] /\ j \in 1 .. Len(s) /\ k \in 1 .. Len(s)
      BY <1>1, <1>2, <2>1
    <3> QED
      BY ONLY <1>2, <3>1, Sorted(s) DEF Sorted
  <2>2. CASE k = i
    BY <1>1, <1>2, <2>2
  <2>3. CASE j = i
    BY <1>1, <1>2, <2>3
  <2>4. CASE j < i /\ k > i
    BY <1>1, <1>2, <2>4 DEF Sorted
  <2>5. CASE j > i
    <3>1. t[j] = s[j - 1] /\ t[k] = s[k - 1] /\ j - 1 \in 1 .. Len(s) /\ k - 1 \in 1 .. Len(s)
      BY <1>1, <1>2, <2>5
    <3>2. j - 1 < k - 1
      BY <1>1, <1>2
    <3> QED
      BY <3>1, <3>2 DEF Sorted
  <2> QED
    BY <1>1, <2>1, <2>2, <2>3, <2>4, <2>5
<1> QED
  BY <1>2 DEF Sorted, t

------------------------------------------------------------------------------
(* The steps of the thread preserve the invariant.                         *)

LEMMA InitIInv == Init => IInv
<1> SUFFICES ASSUME Init PROVE IInv
  OBVIOUS
<1> USE DEF Init
<1>1. TypeOK
  <2>1. asks \in Seq(Orders) /\ bids \in Seq(Orders)
    OBVIOUS
  <2>2. trades \in Seq([askOrder : Orders, bidOrder : Orders,
                       tradedQuantity : Nat, tradedPrice : Nat])
    OBVIOUS
  <2>3. batched \in BOOLEAN /\ isMatchAsk \in BOOLEAN
    OBVIOUS
  <2> QED
    BY ONLY Init, <2>1, <2>2, <2>3 DEF Init, TypeOK
<1>2. Len(asks) = 0 /\ Len(bids) = 0 /\ Len(trades) = 0
  OBVIOUS
<1>3. BooksSorted /\ Placed /\ Remaining
  BY <1>2 DEF BooksSorted, Sorted, Placed, Remaining
<1>4. SearchBounds /\ LoopShape /\ NoYoungerFirst /\ MarketPriceIsLast /\ QuietWhenDone
  BY <1>2 DEF SearchBounds, LoopShape, NoYoungerFirst, MarketPriceIsLast, QuietWhenDone
<1>5. TradesAreFills
  BY <1>2 DEF TradesAreFills
<1> QED
  BY <1>1, <1>3, <1>4, <1>5 DEF IInv

(* The numbers in the book stay below the next one, whatever the gap.      *)
LEMMA OlderThanNext ==
  ASSUME TypeOK, NEW s \in Seq(Orders), NEW i \in 1 .. Len(s), s[i].sequence < sequence,
         NEW n \in sequence .. MaxOrders
  PROVE  s[i].sequence < n /\ s[i].sequence < n + 1
<1>1. s[i] \in Orders
  OBVIOUS
<1>2. s[i].sequence \in Nat
  BY <1>1 DEF Orders
<1>3. sequence \in Nat /\ n \in Int
  BY DEF TypeOK
<1> QED
  BY <1>2, <1>3

LEMMA EntrantsOpen ==
  ASSUME NEW o \in Entrants
  PROVE  o \in Orders /\ o.quantity > 0
  BY RequestAssumption DEF Entrants, Orders, Numbered

LEMMA AddOrderKeeps ==
  ASSUME IInv, NEW r \in Requests, NEW n \in 1 .. MaxOrders, AddOrder(r, n)
  PROVE  IInv'
<1> USE DEF IInv, AddOrder, Arrives, book, loops
<1>1. /\ order' \in Entrants /\ order' \in Orders
      /\ order'.sequence = n /\ order'.type = r.type
  <2>2. order' \in Entrants
    BY DEF Entrants
  <2> QED
    BY <2>2, EntrantsOpen DEF Numbered
<1>2. TypeOK'
  BY <1>1 DEF TypeOK
<1>3. BooksSorted' /\ Remaining' /\ MarketPriceIsLast' /\ TradesAreFills'
  BY DEF BooksSorted, Sorted, Remaining, MarketPriceIsLast, TradesAreFills
<1>4. Placed'
  BY OlderThanNext DEF Placed, TypeOK
<1>5. SearchBounds'
  <2>1. Len(Side') \in Nat /\ first' = 0 /\ last' = Len(Side')
    BY <1>1 DEF Side, TypeOK
  <2>2. /\ \A i \in 1 .. Len(asks') : asks'[i].sequence < n
        /\ \A i \in 1 .. Len(bids') : bids'[i].sequence < n
    BY OlderThanNext DEF Placed, TypeOK
  <2>3. n = sequence' - 1
    BY DEF TypeOK
  <2> QED
    BY <1>1, <2>1, <2>2, <2>3 DEF SearchBounds, Side
<1>6. LoopShape' /\ NoYoungerFirst' /\ QuietWhenDone'
  BY DEF LoopShape, NoYoungerFirst, QuietWhenDone
<1> QED
  BY <1>2, <1>3, <1>4, <1>5, <1>6

LEMMA AddCancelKeeps ==
  ASSUME IInv, NEW r \in Requests, NEW n \in 1 .. MaxOrders, AddCancel(r, n)
  PROVE  IInv'
<1> USE DEF IInv, AddCancel, Arrives, book, loops, search
<1>1. TypeOK'
  BY DEF TypeOK
<1>2. BooksSorted' /\ Remaining' /\ MarketPriceIsLast' /\ TradesAreFills'
  BY DEF BooksSorted, Sorted, Remaining, MarketPriceIsLast, TradesAreFills
<1>3. Placed'
  BY OlderThanNext DEF Placed, TypeOK
<1>4. SearchBounds' /\ LoopShape' /\ NoYoungerFirst' /\ QuietWhenDone'
  BY DEF SearchBounds, LoopShape, NoYoungerFirst, QuietWhenDone
<1> QED
  BY <1>1, <1>2, <1>3, <1>4

(* One call of addOrder_R halves the interval and keeps its meaning.       *)
LEMMA HalveKeeps ==
  ASSUME IInv, Halve
  PROVE  IInv'
<1> USE DEF IInv, book, loops
<1> DEFINE mid == (first + last) \div 2
<1>1. /\ Side' = Side /\ Side \in Seq(Orders) /\ Sorted(Side) /\ order \in Orders
      /\ order' = order /\ pc' = pc /\ pc = "placing"
  BY DEF Side, TypeOK, BooksSorted, Halve
<1>2. /\ first \in Nat /\ last \in Nat /\ first < last /\ last <= Len(Side) /\ Len(Side) \in Nat
  BY <1>1 DEF TypeOK, SearchBounds, Halve
<1>3. mid \in Nat /\ first <= mid /\ mid < last
  BY <1>2
<1>4. /\ HigherPriority(order, Side[mid + 1]) => last' = mid /\ first' = first
      /\ ~HigherPriority(order, Side[mid + 1]) => first' = mid + 1 /\ last' = last
  BY DEF Halve
<1> HIDE DEF mid
<1>5. mid + 1 \in 1 .. Len(Side) /\ Side[mid + 1] \in Orders
  BY <1>1, <1>2, <1>3
<1>6. SearchBounds'
  <2>1. CASE HigherPriority(order, Side[mid + 1])
    <3>1. ASSUME NEW i \in mid + 1 .. Len(Side) PROVE HigherPriority(order, Side[i])
      <4>1. i = mid + 1 \/ HigherPriority(Side[mid + 1], Side[i])
        BY <1>1, <1>3, <1>5 DEF Sorted
      <4>2. Side[i] \in Orders
        BY <1>1, <1>3
      <4> QED
        BY <1>1, <1>5, <2>1, <4>1, <4>2, PriorityTransitive
    <3>2. last' = mid /\ first' = first /\ first <= mid /\ mid <= Len(Side)
      BY <1>2, <1>3, <1>4, <2>1
    <3> QED
      BY <1>1, <3>1, <3>2 DEF SearchBounds, Halve
  <2>2. CASE ~HigherPriority(order, Side[mid + 1])
    <3>1. HigherPriority(Side[mid + 1], order)
      <4>1. Side[mid + 1].sequence < order.sequence
        BY <1>1, <1>5 DEF SearchBounds, Side
      <4>2. order.sequence \in Nat /\ Side[mid + 1].sequence \in Nat
        BY <1>1, <1>5 DEF Orders
      <4>3. Side[mid + 1].sequence # order.sequence
        BY ONLY <4>1, <4>2
      <4> QED
        BY <1>1, <1>5, <2>2, <4>3, PriorityTotal
    <3>2. ASSUME NEW i \in 1 .. mid + 1 PROVE HigherPriority(Side[i], order)
      <4>1. i = mid + 1 \/ HigherPriority(Side[i], Side[mid + 1])
        BY <1>1, <1>3, <1>5 DEF Sorted
      <4>2. Side[i] \in Orders
        BY <1>1, <1>2, <1>3
      <4> QED
        BY <1>1, <1>5, <3>1, <4>1, <4>2, PriorityTransitive
    <3>3. last' = last /\ first' = mid + 1 /\ mid + 1 <= last
      BY <1>2, <1>3, <1>4, <2>2
    <3> QED
      BY <1>1, <3>2, <3>3 DEF SearchBounds, Halve
  <2> QED
    BY <2>1, <2>2
<1>7. TypeOK'
  BY <1>2, <1>3, <1>4 DEF TypeOK, Halve
<1>8. BooksSorted' /\ Placed' /\ Remaining' /\ MarketPriceIsLast' /\ TradesAreFills'
  BY DEF BooksSorted, Sorted, Placed, Remaining, MarketPriceIsLast, TradesAreFills, Halve
<1>9. LoopShape' /\ NoYoungerFirst' /\ QuietWhenDone'
  BY DEF LoopShape, NoYoungerFirst, QuietWhenDone, Halve
<1> QED
  BY <1>6, <1>7, <1>8, <1>9

(* The insertion: the place the search found keeps the deque sorted.       *)
LEMMA InsertKeeps ==
  ASSUME IInv, Insert
  PROVE  IInv'
<1> USE DEF IInv, Insert, loops
<1> DEFINE i == first + 1
<1>1. order \in Orders /\ order.quantity > 0 /\ order.sequence < sequence
  <2>1. order \in Entrants /\ order.sequence = sequence - 1 /\ sequence \in Nat
    BY DEF TypeOK, SearchBounds
  <2> QED
    BY <2>1, EntrantsOpen
<1>2. /\ Side \in Seq(Orders) /\ Sorted(Side) /\ i \in 1 .. Len(Side) + 1
      /\ \A k \in 1 .. i - 1 : HigherPriority(Side[k], order)
      /\ \A k \in i .. Len(Side) : HigherPriority(order, Side[k])
  BY DEF TypeOK, Side, SearchBounds, BooksSorted
<1> DEFINE t == InsertAt(Side, i, order)
<1>3. /\ t \in Seq(Orders) /\ Len(t) = Len(Side) + 1 /\ Len(Side) \in Nat
      /\ \A k \in 1 .. Len(t) : t[k] = order \/ \E j \in 1 .. Len(Side) : t[k] = Side[j]
      /\ Sorted(t)
  <2>1. Sorted(t)
    BY <1>1, <1>2, SortedInsert
  <2>2. /\ t \in Seq(Orders) /\ Len(t) = Len(Side) + 1 /\ Len(Side) \in Nat
        /\ \A k \in 1 .. Len(Side) + 1 :
             t[k] = IF k < i THEN Side[k] ELSE IF k = i THEN order ELSE Side[k - 1]
    <3> HIDE DEF i
    <3>1. Side \in Seq(Orders) /\ i \in 1 .. Len(Side) + 1 /\ order \in Orders
      BY <1>1, <1>2
    <3>2. Len(Side) \in Nat
      BY <3>1
    <3> QED
      BY ONLY <3>1, <3>2, InsertAtIs DEF t
  <2> HIDE DEF t
  <2>3. ASSUME NEW k \in 1 .. Len(t)
        PROVE  t[k] = order \/ \E j \in 1 .. Len(Side) : t[k] = Side[j]
    <3>1. k < i => k \in 1 .. Len(Side)
      BY <1>2, <2>2
    <3>2. k > i => k - 1 \in 1 .. Len(Side)
      BY <1>2, <2>2
    <3> QED
      BY <1>2, <2>2, <3>1, <3>2
  <2> QED
    BY <2>1, <2>2, <2>3
<1> HIDE DEF t
<1>4. /\ pc' = "adding" /\ batched' = TRUE /\ pc = "placing" /\ askIt' = 1 /\ askIt = 1
      /\ isMatchAsk = FALSE /\ isMatchAsk' = FALSE
  BY DEF TypeOK, SearchBounds, LoopShape
<1>5. CASE order.type = "Ask"
  <2>1. /\ Side = asks /\ asks' = t /\ bids' = bids /\ totalAsks' = totalAsks + 1
        /\ totalBids' = totalBids
    BY <1>5 DEF Side, t
  <2>2. TypeOK'
    BY <1>3, <1>4, <2>1 DEF TypeOK
  <2>3. BooksSorted' /\ Placed'
    <3>1. BooksSorted /\ Placed /\ sequence' = sequence
      OBVIOUS
    <3>2. BooksSorted'
      BY ONLY <1>3, <2>1, <3>1 DEF BooksSorted, Sorted
    <3>3. \A k \in 1 .. Len(asks') : asks'[k].type = "Ask" /\ asks'[k].sequence < sequence'
      BY ONLY <1>1, <1>3, <1>5, <2>1, <3>1 DEF Placed
    <3> QED
      BY ONLY <2>1, <3>1, <3>2, <3>3 DEF Placed
  <2>4. Remaining'
    BY <1>1, <1>3, <1>4, <2>1 DEF Remaining
  <2>5. TradesAreFills'
    <3>1. ~\E k \in 1 .. Len(asks) : asks[k].quantity = 0
      BY <1>4 DEF Remaining
    <3> QED
      BY <1>3, <2>1, <3>1 DEF TradesAreFills, TypeOK
  <2>6. LoopShape'
    BY <1>3, <1>4, <2>1 DEF LoopShape
  <2> QED
    BY <1>4, <2>2, <2>3, <2>4, <2>5, <2>6
    DEF SearchBounds, NoYoungerFirst, MarketPriceIsLast, QuietWhenDone
<1>6. CASE order.type # "Ask"
  <2>1. /\ Side = bids /\ bids' = t /\ asks' = asks /\ totalBids' = totalBids + 1
        /\ totalAsks' = totalAsks /\ order.type = "Bid"
    BY <1>1, <1>6 DEF Side, t, Orders
  <2>2. TypeOK'
    BY <1>3, <1>4, <2>1 DEF TypeOK
  <2>3. BooksSorted' /\ Placed'
    <3>1. Sorted(asks)' /\ Sorted(bids)'
      BY <1>3, <2>1 DEF BooksSorted, Sorted
    <3>2. Placed'
      BY <1>1, <1>3, <2>1 DEF Placed
    <3> QED
      BY <3>1, <3>2 DEF BooksSorted
  <2>4. Remaining'
    BY <1>1, <1>3, <1>4, <2>1 DEF Remaining
  <2>5. TradesAreFills'
    BY <1>3, <2>1 DEF TradesAreFills, TypeOK
  <2>6. LoopShape'
    BY <1>3, <1>4, <2>1 DEF LoopShape
  <2> QED
    BY <1>4, <2>2, <2>3, <2>4, <2>5, <2>6
    DEF SearchBounds, NoYoungerFirst, MarketPriceIsLast, QuietWhenDone
<1> QED
  BY <1>5, <1>6

LEMMA BeginMatchKeeps ==
  ASSUME IInv, BeginMatch
  PROVE  IInv'
<1> USE DEF IInv, BeginMatch, book, search
<1>1. TypeOK'
  <2>1. Len(trades) \in Nat
    BY DEF TypeOK
  <2> QED
    BY <2>1 DEF TypeOK
<1>2. askIt = 1 /\ isMatchAsk = FALSE
  BY DEF TypeOK, LoopShape
<1>3. BooksSorted' /\ Placed' /\ SearchBounds' /\ Remaining' /\ MarketPriceIsLast' /\ TradesAreFills'
  BY DEF BooksSorted, Sorted, Placed, SearchBounds, Remaining, MarketPriceIsLast, TradesAreFills
<1>4. LoopShape'
  BY <1>2 DEF LoopShape, TypeOK
<1>5. NoYoungerFirst' /\ QuietWhenDone'
  BY <1>2 DEF NoYoungerFirst, QuietWhenDone
<1> QED
  BY <1>1, <1>3, <1>4, <1>5

LEMMA MatchReturnsKeeps ==
  ASSUME IInv, MatchReturns
  PROVE  IInv'
<1> USE DEF IInv, MatchReturns, book, search
<1>1. TypeOK'
  BY DEF TypeOK
<1>2. isMatchAsk = FALSE /\ bidIt = 1
  BY DEF TypeOK, LoopShape
<1>3. askIt = Len(asks) + 1 /\ Len(asks) \in Nat
  BY DEF TypeOK, LoopShape
<1>4. BooksSorted' /\ Placed' /\ SearchBounds' /\ MarketPriceIsLast' /\ TradesAreFills'
  BY DEF BooksSorted, Sorted, Placed, SearchBounds, MarketPriceIsLast, TradesAreFills
<1>5. LoopShape' /\ Remaining'
  BY <1>2, <1>3 DEF LoopShape, Remaining
<1>6. NoYoungerFirst' /\ QuietWhenDone'
  BY <1>3 DEF NoYoungerFirst, QuietWhenDone
<1> QED
  BY <1>1, <1>4, <1>5, <1>6

------------------------------------------------------------------------------
(* A trade: always with the first bid, for what both have.                 *)
LEMMA TradePair ==
  ASSUME IInv, Trade, NEW a, a = asks[askIt], NEW b, b = bids[1], NEW q, q = TradeQuantity(a, b)
  PROVE  /\ bidIt = 1
         /\ askIt \in 1 .. Len(asks) /\ 1 \in 1 .. Len(bids)
         /\ a \in Orders /\ b \in Orders
         /\ q \in Nat /\ 0 < q /\ q <= a.quantity /\ q <= b.quantity
         /\ q = a.quantity \/ q = b.quantity
         /\ Matches(a, b)
         /\ TradePrice(a, b) \in Nat
<1> USE DEF IInv, AtMatch
<1>0. AtMatch
  BY DEF Trade
<1>1. bidIt = 1 /\ askIt \in 1 .. Len(asks) /\ 1 \in 1 .. Len(bids)
  <2>1. Len(asks) \in Nat /\ Len(bids) \in Nat /\ askIt \in Nat \ {0} /\ bidIt \in Nat \ {0}
    BY DEF TypeOK
  <2>2. bidIt = 1
    BY <1>0 DEF LoopShape
  <2> QED
    BY <1>0, <2>1, <2>2
<1>2. a \in Orders /\ b \in Orders
  BY <1>1 DEF TypeOK
<1>3. a.quantity \in Nat /\ b.quantity \in Nat /\ a.quantity # 0 /\ b.quantity > 0 /\ b.price \in Nat
  BY <1>0, <1>1, <1>2 DEF Orders, Remaining
<1>4. Matches(a, b)
  BY <1>0, <1>1
<1>5. TradePrice(a, b) \in Nat
  BY <1>3 DEF TradePrice, TypeOK
<1> QED
  BY <1>1, <1>2, <1>3, <1>4, <1>5 DEF TradeQuantity

(* What a trade does to the deques.                                        *)
LEMMA TradeEffect ==
  ASSUME IInv, Trade, NEW a, a = asks[askIt], NEW b, b = bids[1], NEW q, q = TradeQuantity(a, b)
  PROVE  /\ asks' \in Seq(Orders) /\ Len(asks') = Len(asks)
         /\ asks'[askIt] = [a EXCEPT !.quantity = a.quantity - q]
         /\ \A k \in 1 .. Len(asks) : k # askIt => asks'[k] = asks[k]
         /\ bids' \in Seq(Orders)
         /\ b.quantity = q =>
              /\ Len(bids') = Len(bids) - 1 /\ bidIt' = 1
              /\ \A k \in 1 .. Len(bids) - 1 : bids'[k] = bids[k + 1]
         /\ b.quantity # q =>
              /\ Len(bids') = Len(bids) /\ bidIt' = 2 /\ q = a.quantity
              /\ bids'[1] = [b EXCEPT !.quantity = b.quantity - q]
              /\ \A k \in 2 .. Len(bids) : bids'[k] = bids[k]
<1>1. /\ bidIt = 1 /\ askIt \in 1 .. Len(asks) /\ 1 \in 1 .. Len(bids)
      /\ a \in Orders /\ b \in Orders /\ q \in Nat /\ 0 < q /\ q <= a.quantity /\ q <= b.quantity
      /\ q = a.quantity \/ q = b.quantity
  BY TradePair
<1>2. a.quantity - q \in Nat /\ b.quantity - q \in Nat
  BY <1>1 DEF Orders
<1>3. [a EXCEPT !.quantity = a.quantity - q] \in Orders
  BY <1>1, <1>2 DEF Orders
<1>4. [b EXCEPT !.quantity = b.quantity - q] \in Orders
  BY <1>1, <1>2 DEF Orders
<1>5. asks \in Seq(Orders) /\ bids \in Seq(Orders)
  BY DEF IInv, TypeOK
<1>6. asks' = [asks EXCEPT ![askIt] = [a EXCEPT !.quantity = a.quantity - q]]
  BY <1>1 DEF Trade
<1>7. /\ asks' \in Seq(Orders) /\ Len(asks') = Len(asks)
      /\ asks'[askIt] = [a EXCEPT !.quantity = a.quantity - q]
      /\ \A k \in 1 .. Len(asks) : k # askIt => asks'[k] = asks[k]
  BY ONLY <1>1, <1>3, <1>5, <1>6
<1>8. CASE b.quantity = q
  <2>1. bids' = RemoveAt(bids, 1) /\ bidIt' = 1
    BY <1>1, <1>8 DEF Trade
  <2>2. /\ RemoveAt(bids, 1) \in Seq(Orders) /\ Len(RemoveAt(bids, 1)) = Len(bids) - 1
        /\ \A k \in 1 .. Len(bids) - 1 : RemoveAt(bids, 1)[k] = IF k < 1 THEN bids[k] ELSE bids[k + 1]
    BY ONLY <1>1, <1>5, RemoveAtIs
  <2>3. \A k \in 1 .. Len(bids) - 1 : bids'[k] = bids[k + 1]
    BY <1>5, <2>1, <2>2
  <2> QED
    BY <1>7, <1>8, <2>1, <2>2, <2>3
<1>9. CASE b.quantity # q
  <2>1. bids' = [bids EXCEPT ![1] = [b EXCEPT !.quantity = b.quantity - q]] /\ bidIt' = 2
    BY <1>1, <1>9 DEF Trade
  <2>2. /\ bids' \in Seq(Orders) /\ Len(bids') = Len(bids)
        /\ bids'[1] = [b EXCEPT !.quantity = b.quantity - q]
        /\ \A k \in 2 .. Len(bids) : bids'[k] = bids[k]
    BY ONLY <1>1, <1>4, <1>5, <2>1
  <2> QED
    BY <1>1, <1>7, <1>9, <2>1, <2>2
<1> QED
  BY <1>8, <1>9

LEMMA TradeKeeps ==
  ASSUME IInv, Trade
  PROVE  IInv'
<1>0. PICK a, b, q, t :
        /\ a = asks[askIt] /\ b = bids[1] /\ q = TradeQuantity(a, b)
        /\ t = [askOrder |-> a, bidOrder |-> b,
                tradedQuantity |-> q, tradedPrice |-> TradePrice(a, b)]
  OBVIOUS
<1>1. /\ bidIt = 1 /\ askIt \in 1 .. Len(asks) /\ 1 \in 1 .. Len(bids)
      /\ a \in Orders /\ b \in Orders /\ q \in Nat /\ 0 < q /\ q <= a.quantity /\ q <= b.quantity
      /\ q = a.quantity \/ q = b.quantity
      /\ Matches(a, b) /\ TradePrice(a, b) \in Nat
  BY <1>0, TradePair
<1>2. /\ asks' \in Seq(Orders) /\ Len(asks') = Len(asks)
      /\ asks'[askIt] = [a EXCEPT !.quantity = a.quantity - q]
      /\ \A k \in 1 .. Len(asks) : k # askIt => asks'[k] = asks[k]
      /\ bids' \in Seq(Orders)
      /\ b.quantity = q =>
           /\ Len(bids') = Len(bids) - 1 /\ bidIt' = 1
           /\ \A k \in 1 .. Len(bids) - 1 : bids'[k] = bids[k + 1]
      /\ b.quantity # q =>
           /\ Len(bids') = Len(bids) /\ bidIt' = 2 /\ q = a.quantity
           /\ bids'[1] = [b EXCEPT !.quantity = b.quantity - q]
           /\ \A k \in 2 .. Len(bids) : bids'[k] = bids[k]
  BY ONLY IInv, Trade, <1>0, TradeEffect, SMTT(60)
<1>3. b.quantity = q =>
        /\ Len(bids') = Len(bids) - 1 /\ bidIt' = 1
        /\ \A k \in 1 .. Len(bids) - 1 : bids'[k] = bids[k + 1]
  BY <1>2
<1>4. b.quantity # q =>
        /\ Len(bids') = Len(bids) /\ bidIt' = 2 /\ q = a.quantity
        /\ bids'[1] = [b EXCEPT !.quantity = b.quantity - q]
        /\ \A k \in 2 .. Len(bids) : bids'[k] = bids[k]
  BY <1>2
<1>5. /\ trades' = Append(trades, t) /\ marketPrice' = TradePrice(a, b)
      /\ isMatchAsk' = TRUE /\ askIt' = askIt /\ before' = before /\ pc' = "matching"
      /\ pc = "matching"
      /\ UNCHANGED <<totalAsks, totalBids, sequence, batched, search>>
  BY <1>0, <1>1 DEF Trade
<1>6. /\ TypeOK /\ BooksSorted /\ Placed /\ LoopShape /\ Remaining /\ NoYoungerFirst
      /\ TradesAreFills
  BY DEF IInv
<1>7. /\ Len(asks) \in Nat /\ Len(bids) \in Nat /\ Len(trades) \in Nat
      /\ a.quantity \in Nat /\ b.quantity \in Nat /\ asks \in Seq(Orders) /\ bids \in Seq(Orders)
  <2>1. asks \in Seq(Orders) /\ bids \in Seq(Orders) /\ Len(trades) \in Nat
    BY <1>6 DEF TypeOK
  <2>2. a.quantity \in Nat /\ b.quantity \in Nat
    BY <1>1 DEF Orders
  <2> QED
    BY <2>1, <2>2
<1>8. t \in [askOrder : Orders, bidOrder : Orders, tradedQuantity : Nat, tradedPrice : Nat]
  BY <1>0, <1>1
<1>9. asks'[askIt].quantity = a.quantity - q /\ Alike(asks'[askIt], asks[askIt])
  BY <1>0, <1>1, <1>2 DEF Alike, Orders
<1>10. b.quantity # q => bids'[1].quantity = b.quantity - q /\ Alike(bids'[1], bids[1])
  BY <1>0, <1>1, <1>4 DEF Alike, Orders
<1>11. /\ trades' \in Seq([askOrder : Orders, bidOrder : Orders, tradedQuantity : Nat, tradedPrice : Nat])
       /\ Len(trades') = Len(trades) + 1 /\ trades'[Len(trades')] = t /\ trades' # <<>>
  <2>1. trades \in Seq([askOrder : Orders, bidOrder : Orders,
                       tradedQuantity : Nat, tradedPrice : Nat])
    BY <1>6 DEF TypeOK
  <2> QED
    BY ONLY <1>5, <1>7, <1>8, <2>1
<1>12. TypeOK'
  <2>1. askIt' \in Nat \ {0}
    BY ONLY <1>5, <1>6 DEF TypeOK
  <2>2. bidIt' \in Nat \ {0}
    BY ONLY <1>3, <1>4
  <2> QED
    BY ONLY <1>1, <1>2, <1>5, <1>6, <1>11, <2>1, <2>2 DEF TypeOK, search
<1>13. \A k \in 1 .. Len(asks) : Alike(asks'[k], asks[k])
  BY <1>2, <1>9 DEF Alike
<1>14. BooksSorted'
  <2>1. Sorted(asks)'
    BY <1>2, <1>6, <1>13, SortedAlike DEF BooksSorted, Sorted
  <2>2. CASE b.quantity = q
    <3>1. ASSUME NEW i \in 1 .. Len(bids'), NEW j \in 1 .. Len(bids'), i < j
          PROVE  HigherPriority(bids'[i], bids'[j])
      <4>1. bids'[i] = bids[i + 1] /\ bids'[j] = bids[j + 1]
        BY <1>3, <2>2
      <4>2. i + 1 \in 1 .. Len(bids) /\ j + 1 \in 1 .. Len(bids) /\ i + 1 < j + 1
        BY <1>3, <1>7, <2>2, <3>1
      <4> QED
        BY <1>6, <4>1, <4>2 DEF BooksSorted, Sorted
    <3> QED
      BY <2>1, <3>1 DEF BooksSorted, Sorted
  <2>3. CASE b.quantity # q
    <3>1. \A k \in 1 .. Len(bids) : Alike(bids'[k], bids[k])
      BY <1>4, <1>10, <1>7, <2>3 DEF Alike
    <3>2. Sorted(bids')
      BY <1>4, <1>6, <2>3, <3>1, SortedAlike DEF BooksSorted
    <3> QED
      BY <2>1, <3>2 DEF BooksSorted, Sorted
  <2> QED
    BY <2>2, <2>3
<1>15. Placed'
  <2>1. \A k \in 1 .. Len(asks') : asks'[k].type = "Ask" /\ asks'[k].sequence < sequence'
    BY <1>2, <1>5, <1>6, <1>13 DEF Placed, Alike
  <2>2. \A k \in 1 .. Len(bids') : bids'[k].type = "Bid" /\ bids'[k].sequence < sequence'
    <3>1. CASE b.quantity = q
      <4> SUFFICES ASSUME NEW k \in 1 .. Len(bids')
                   PROVE  bids'[k].type = "Bid" /\ bids'[k].sequence < sequence'
        OBVIOUS
      <4>1. bids'[k] = bids[k + 1] /\ k + 1 \in 1 .. Len(bids)
        BY <1>3, <1>7, <3>1
      <4> QED
        BY <1>5, <1>6, <4>1 DEF Placed
    <3>2. CASE b.quantity # q
      BY <1>4, <1>5, <1>6, <1>7, <1>10, <3>2 DEF Placed, Alike
    <3> QED
      BY <3>1, <3>2
  <2> QED
    BY <2>1, <2>2 DEF Placed
<1>16. SearchBounds'
  BY <1>5 DEF SearchBounds
<1>17. LoopShape'
  <2>1. before < Len(trades') /\ before <= Len(trades')
    <3>1. before <= Len(trades) /\ before \in Nat
      BY ONLY <1>6 DEF LoopShape, TypeOK
    <3> QED
      BY ONLY <1>7, <1>11, <3>1
  <2>2. bidIt' = 1 \/ (bidIt' = 2 /\ asks'[askIt].quantity = 0)
    BY <1>3, <1>4, <1>7, <1>9
  <2>3. /\ askIt' = askIt /\ pc' = "matching" /\ isMatchAsk' = TRUE /\ before' = before
        /\ askIt <= Len(asks') /\ askIt <= Len(asks') + 1
    BY <1>1, <1>2, <1>5, <1>7
  <2> QED
    BY ONLY <1>1, <2>1, <2>2, <2>3 DEF LoopShape
<1>18. Remaining'
  <2>1. \A k \in 1 .. Len(asks') : asks'[k].quantity = 0 => k = askIt
    BY <1>2, <1>6, <1>7 DEF Remaining
  <2>2. \A k \in 1 .. Len(bids') : bids'[k].quantity > 0
    <3>1. CASE b.quantity = q
      BY <1>3, <1>6, <1>7, <3>1 DEF Remaining
    <3>2. CASE b.quantity # q
      <4>1. bids'[1].quantity > 0
        BY <1>1, <1>7, <1>10, <3>2
      <4> QED
        BY <1>4, <1>6, <1>7, <3>2, <4>1 DEF Remaining
    <3> QED
      BY <3>1, <3>2
  <2> QED
    BY <1>5, <2>1, <2>2 DEF Remaining
<1>19. NoYoungerFirst'
  <2> SUFFICES ASSUME NEW i \in 1 .. askIt - 1,
                      asks'[i].matchType = "Limit", asks'[askIt].matchType = "Limit",
                      asks'[i].price = asks'[askIt].price
               PROVE  FALSE
    BY <1>5 DEF NoYoungerFirst
  <2>1. Alike(asks'[i], asks[i]) /\ Alike(asks'[askIt], a)
    BY <1>0, <1>1, <1>7, <1>13
  <2>2. bids # <<>>
    BY <1>1, <1>7
  <2>3. ~Matches(asks[i], b)
    <3>1. asks[i].matchType = "Limit" /\ a.matchType = "Limit" /\ asks[i].price = a.price
      BY <2>1 DEF Alike
    <3> QED
      BY ONLY <1>0, <1>1, <1>5, <1>6, <1>7, <2>2, <3>1, i \in 1 .. askIt - 1 DEF NoYoungerFirst
  <2> QED
    BY <1>1, <2>1, <2>3 DEF Matches, Alike
<1>20. MarketPriceIsLast'
  BY <1>0, <1>5, <1>11 DEF MarketPriceIsLast
<1>21. QuietWhenDone'
  <2>1. before' # Len(trades')
    BY <1>5, <1>6, <1>7, <1>11 DEF LoopShape, TypeOK
  <2> QED
    BY <2>1 DEF QuietWhenDone
<1>22. TradesAreFills'
  <2>1. ~\E k \in 1 .. Len(asks) : asks[k].quantity = 0
    BY <1>0, <1>1, <1>6, <1>7 DEF Remaining
  <2>2. Len(trades) <= (totalAsks - Len(asks)) + (totalBids - Len(bids)) + 0
    BY <1>6, <2>1 DEF TradesAreFills
  <2>3. CASE b.quantity = q
    <3>1. Len(bids') = Len(bids) - 1 /\ Len(asks') = Len(asks) /\ Len(trades') = Len(trades) + 1
      BY <1>2, <1>3, <1>11, <2>3
    <3>2. totalAsks' = totalAsks /\ totalBids' = totalBids /\ totalAsks \in Nat /\ totalBids \in Nat
      BY <1>5, <1>6 DEF TypeOK
    <3>3. Len(trades') <= (totalAsks' - Len(asks')) + (totalBids' - Len(bids')) + 0
      BY ONLY <1>7, <2>2, <3>1, <3>2
    <3>4. Len(trades') <= (totalAsks' - Len(asks')) + (totalBids' - Len(bids')) + 1
      BY ONLY <1>7, <3>1, <3>2, <3>3
    <3> QED
      BY ONLY <3>3, <3>4 DEF TradesAreFills
  <2>4. CASE b.quantity # q
    <3>1. \E k \in 1 .. Len(asks') : asks'[k].quantity = 0
      <4>1. asks'[askIt].quantity = 0
        BY <1>4, <1>7, <1>9, <2>4
      <4> QED
        BY ONLY <1>1, <1>2, <4>1
    <3>2. Len(trades') <= (totalAsks' - Len(asks')) + (totalBids' - Len(bids')) + 1
      <4>1. Len(bids') = Len(bids) /\ Len(asks') = Len(asks) /\ Len(trades') = Len(trades) + 1
        BY ONLY <1>2, <1>4, <1>11, <2>4
      <4>2. totalAsks' = totalAsks /\ totalBids' = totalBids /\ totalAsks \in Nat /\ totalBids \in Nat
        BY ONLY <1>5, <1>6 DEF TypeOK
      <4> QED
        BY ONLY <1>7, <2>2, <4>1, <4>2
    <3> QED
      BY ONLY <3>1, <3>2 DEF TradesAreFills
  <2> QED
    BY <2>3, <2>4
<1> QED
  BY <1>12, <1>14, <1>15, <1>16, <1>17, <1>18, <1>19, <1>20, <1>21, <1>22 DEF IInv

------------------------------------------------------------------------------
(* The end of the inner loop.                                              *)

(* The limit asks of one price are next to each other.                     *)
LEMMA SamePriceBetween ==
  ASSUME NEW s \in Seq(Orders), Sorted(s),
         NEW i \in 1 .. Len(s), NEW m \in 1 .. Len(s), NEW j \in 1 .. Len(s), i <= m, m < j,
         s[i].matchType = "Limit", s[j].matchType = "Limit", s[i].price = s[j].price
  PROVE  s[m].matchType = "Limit" /\ s[m].price = s[j].price
<1>1. s[i] \in Orders /\ s[m] \in Orders /\ s[j] \in Orders
  OBVIOUS
<1>2. HigherPriority(s[m], s[j])
  BY DEF Sorted
<1>3. i = m \/ HigherPriority(s[i], s[m])
  BY DEF Sorted
<1>4. /\ s[m].matchType \in {"Market", "Limit"}
      /\ s[i].price \in Nat /\ s[m].price \in Nat /\ s[j].price \in Nat
  BY <1>1 DEF Orders
<1>5. s[m].matchType = "Limit"
  BY <1>3, <1>4 DEF HigherPriority
<1>6. s[m].price >= s[j].price
  BY ONLY <1>2, <1>4, <1>5, s[j].matchType = "Limit" DEF HigherPriority
<1>7. s[i].price >= s[m].price
  <2>1. CASE i = m
    BY <1>4, <2>1
  <2>2. CASE i # m
    BY ONLY <1>3, <1>4, <1>5, <2>2, s[i].matchType = "Limit" DEF HigherPriority
  <2> QED
    BY <2>1, <2>2
<1> QED
  BY <1>4, <1>5, <1>6, <1>7

(* The loop ends at a filled ask, after the last bid, or at a first bid    *)
(* that the ask does not match.                                            *)
LEMMA LeftUnmatched ==
  ASSUME IInv, LeaveAsk, ~Filled
  PROVE  /\ askIt \in 1 .. Len(asks) /\ asks[askIt].quantity # 0
         /\ bids # <<>> => ~Matches(asks[askIt], bids[1])
<1>1. askIt \in 1 .. Len(asks)
  BY DEF IInv, TypeOK, LeaveAsk
<1>2. asks[askIt].quantity # 0
  BY <1>1 DEF IInv, Remaining, Filled
<1>3. bidIt = 1
  BY <1>2 DEF IInv, LoopShape
<1>4. bids # <<>> => 1 <= Len(bids)
  BY DEF IInv, TypeOK
<1> QED
  BY <1>1, <1>2, <1>3, <1>4 DEF LeaveAsk, AtMatch

LEMMA PassAskKeeps ==
  ASSUME IInv, PassAsk
  PROVE  IInv'
<1> USE DEF LeaveAsk, PassAsk, search
<1>0. /\ TypeOK /\ BooksSorted /\ Placed /\ SearchBounds /\ LoopShape /\ Remaining /\ NoYoungerFirst
      /\ MarketPriceIsLast /\ QuietWhenDone /\ TradesAreFills
  BY DEF IInv
<1>1. /\ askIt \in 1 .. Len(asks) /\ asks[askIt].quantity # 0
      /\ bids # <<>> => ~Matches(asks[askIt], bids[1])
  BY LeftUnmatched
<1>2. /\ askIt' = askIt + 1 /\ bidIt' = 1 /\ isMatchAsk' = FALSE /\ pc' = "matching" /\ pc = "matching"
      /\ UNCHANGED <<asks, bids, totalAsks, totalBids, marketPrice, trades, sequence, batched, before>>
  OBVIOUS
<1>3. Len(asks) \in Nat /\ asks \in Seq(Orders) /\ Len(trades) \in Nat /\ before \in Nat
  BY <1>0 DEF TypeOK
<1>4. TypeOK'
  <2>1. askIt' \in Nat \ {0} /\ bidIt' \in Nat \ {0}
    BY <1>1, <1>2, <1>3
  <2>2. UNCHANGED <<order, first, last>>
    OBVIOUS
  <2> QED
    BY ONLY <1>0, <1>2, <2>1, <2>2 DEF TypeOK
<1>5. BooksSorted' /\ Placed' /\ SearchBounds' /\ MarketPriceIsLast' /\ TradesAreFills'
  BY <1>0, <1>2
  DEF BooksSorted, Sorted, Placed, SearchBounds, MarketPriceIsLast, TradesAreFills
<1>6. LoopShape'
  BY <1>0, <1>1, <1>2, <1>3 DEF LoopShape
<1>7. Remaining'
  BY <1>0, <1>1, <1>2 DEF Remaining
<1>8. NoYoungerFirst'
  <2> SUFFICES ASSUME NEW i \in 1 .. askIt, askIt + 1 <= Len(asks),
                      asks[i].matchType = "Limit", asks[askIt + 1].matchType = "Limit",
                      asks[i].price = asks[askIt + 1].price, bids # <<>>
               PROVE  ~Matches(asks[i], bids[1])
    BY <1>1, <1>2 DEF NoYoungerFirst
  <2>1. asks[askIt].matchType = "Limit" /\ asks[askIt].price = asks[askIt + 1].price
    BY <1>0, <1>1, <1>3, SamePriceBetween DEF BooksSorted
  <2>2. CASE i = askIt
    BY <1>1, <2>2
  <2>3. CASE i # askIt
    <3>1. i \in 1 .. askIt - 1
      BY <1>1, <2>3
    <3> QED
      BY <1>0, <1>1, <1>2, <2>1, <3>1 DEF NoYoungerFirst
  <2> QED
    BY <2>2, <2>3
<1>9. QuietWhenDone'
  BY <1>0, <1>1, <1>2, <1>3 DEF QuietWhenDone
<1> QED
  BY <1>4, <1>5, <1>6, <1>7, <1>8, <1>9 DEF IInv

LEMMA EraseAskKeeps ==
  ASSUME IInv, EraseAsk
  PROVE  IInv'
<1> USE DEF LeaveAsk, EraseAsk, search
<1>0. /\ TypeOK /\ BooksSorted /\ Placed /\ SearchBounds /\ LoopShape /\ Remaining /\ NoYoungerFirst
      /\ MarketPriceIsLast /\ QuietWhenDone /\ TradesAreFills
  BY DEF IInv
<1>1. askIt \in 1 .. Len(asks) /\ asks[askIt].quantity = 0 /\ isMatchAsk = TRUE
  BY <1>0 DEF TypeOK, Filled
<1>2. /\ askIt' = askIt /\ bidIt' = 1 /\ isMatchAsk' = FALSE /\ pc' = "matching" /\ pc = "matching"
      /\ asks' = RemoveAt(asks, askIt)
      /\ UNCHANGED <<bids, totalAsks, totalBids, marketPrice, trades, sequence, batched, before>>
  OBVIOUS
<1>3. /\ Len(asks) \in Nat /\ Len(bids) \in Nat /\ asks \in Seq(Orders) /\ Len(trades) \in Nat
      /\ before \in Nat /\ before < Len(trades)
  BY <1>0, <1>1 DEF TypeOK, LoopShape
<1>4. /\ asks' \in Seq(Orders) /\ Len(asks') = Len(asks) - 1
      /\ \A k \in 1 .. Len(asks) - 1 : asks'[k] = IF k < askIt THEN asks[k] ELSE asks[k + 1]
  <2>1. asks \in Seq(Orders) /\ askIt \in 1 .. Len(asks)
    BY ONLY <1>1, <1>3
  <2>2. /\ RemoveAt(asks, askIt) \in Seq(Orders) /\ Len(RemoveAt(asks, askIt)) = Len(asks) - 1
        /\ \A k \in 1 .. Len(asks) - 1 :
             RemoveAt(asks, askIt)[k] = IF k < askIt THEN asks[k] ELSE asks[k + 1]
    BY ONLY <2>1, RemoveAtIs
  <2> QED
    BY ONLY <1>2, <2>2
<1>5. TypeOK'
  <2>1. UNCHANGED <<order, first, last>>
    OBVIOUS
  <2>2. isMatchAsk' \in BOOLEAN
    BY ONLY <1>2
  <2>3. bidIt' \in Nat \ {0}
    BY ONLY <1>2
  <2> QED
    BY ONLY <1>0, <1>2, <1>4, <2>1, <2>2, <2>3 DEF TypeOK
<1>6. BooksSorted'
  <2>1. Sorted(RemoveAt(asks, askIt))
    BY <1>0, <1>1, <1>3, SortedRemove DEF BooksSorted
  <2> QED
    BY <1>0, <1>2, <2>1 DEF BooksSorted, Sorted
<1>7. Placed' /\ Remaining'
  <2>1. ASSUME NEW k \in 1 .. Len(asks')
        PROVE  asks'[k].type = "Ask" /\ asks'[k].sequence < sequence /\ asks'[k].quantity # 0
    <3>1. CASE k < askIt
      <4>1. asks'[k] = asks[k] /\ k \in 1 .. Len(asks) /\ k # askIt
        BY <1>1, <1>3, <1>4, <3>1
      <4> QED
        BY <1>0, <4>1 DEF Placed, Remaining
    <3>2. CASE k >= askIt
      <4>1. asks'[k] = asks[k + 1] /\ k + 1 \in 1 .. Len(asks) /\ k + 1 # askIt
        BY <1>1, <1>3, <1>4, <3>2
      <4> QED
        BY <1>0, <4>1 DEF Placed, Remaining
    <3> QED
      BY <1>1, <3>1, <3>2
  <2> QED
    BY <1>0, <1>2, <2>1 DEF Placed, Remaining
<1>8. SearchBounds' /\ MarketPriceIsLast'
  BY <1>0, <1>2 DEF SearchBounds, MarketPriceIsLast
<1>9. LoopShape'
  BY <1>1, <1>2, <1>3, <1>4 DEF LoopShape
<1>10. NoYoungerFirst'
  <2> SUFFICES ASSUME NEW i \in 1 .. askIt - 1, askIt <= Len(asks'),
                      asks'[i].matchType = "Limit", asks'[askIt].matchType = "Limit",
                      asks'[i].price = asks'[askIt].price
               PROVE  FALSE
    BY <1>2 DEF NoYoungerFirst
  <2>1. /\ asks'[i] = asks[i] /\ asks'[askIt] = asks[askIt + 1]
        /\ i \in 1 .. Len(asks) /\ askIt + 1 \in 1 .. Len(asks)
    <3>1. /\ i \in 1 .. Len(asks) - 1 /\ askIt \in 1 .. Len(asks) - 1 /\ i < askIt
          /\ ~(askIt < askIt)
      BY <1>1, <1>3, <1>4
    <3>2. asks'[i] = asks[i] /\ asks'[askIt] = asks[askIt + 1]
      BY ONLY <1>4, <3>1
    <3> QED
      BY <1>3, <3>1, <3>2
  <2>2. asks[askIt].matchType = "Limit" /\ asks[askIt].price = asks[i].price
    BY <1>0, <1>1, <1>3, <2>1, SamePriceBetween DEF BooksSorted
  <2> QED
    BY <1>0, <1>1, <1>2, <2>1, <2>2 DEF NoYoungerFirst
<1>11. QuietWhenDone'
  BY <1>2, <1>3 DEF QuietWhenDone
<1>12. TradesAreFills'
  <2>1. Len(trades) <= (totalAsks - Len(asks)) + (totalBids - Len(bids)) + 1
    BY <1>0, <1>1 DEF TradesAreFills
  <2>2. totalAsks \in Nat /\ totalBids \in Nat
    BY <1>0 DEF TypeOK
  <2>3. ~\E k \in 1 .. Len(asks') : asks'[k].quantity = 0
    BY <1>2, <1>7 DEF Remaining
  <2> QED
    BY ONLY <1>2, <1>3, <1>4, <2>1, <2>2, <2>3 DEF TradesAreFills
<1> QED
  BY <1>5, <1>6, <1>7, <1>8, <1>9, <1>10, <1>11, <1>12 DEF IInv

------------------------------------------------------------------------------
(* The inductive invariant holds in every behaviour.                       *)
LEMMA NextIInv ==
  ASSUME IInv, [Next]_vars
  PROVE  IInv'
<1>1. CASE UNCHANGED vars
  BY <1>1
  DEF IInv, vars, TypeOK, BooksSorted, Sorted, Placed, SearchBounds, Side, LoopShape, Remaining,
      NoYoungerFirst, MarketPriceIsLast, QuietWhenDone, TradesAreFills
<1>2. ASSUME NEW r \in Requests, NEW n \in 1 .. MaxOrders, AddOrder(r, n) \/ AddCancel(r, n)
      PROVE IInv'
  BY <1>2, AddOrderKeeps, AddCancelKeeps
<1>3. CASE Place
  BY <1>3, HalveKeeps, InsertKeeps DEF Place
<1>4. CASE BeginMatch
  BY <1>4, BeginMatchKeeps
<1>5. CASE Match
  BY <1>5, TradeKeeps, EraseAskKeeps, PassAskKeeps, MatchReturnsKeeps DEF Match
<1> QED
  BY <1>1, <1>2, <1>3, <1>4, <1>5 DEF Next

(* The order book keeps its inductive invariant.                           *)
THEOREM Invariance == Spec => []IInv
  BY InitIInv, NextIInv, PTL DEF Spec

(* Type correctness of the order book.                                     *)
THEOREM TypeCorrect == Spec => []TypeOK
  BY Invariance, PTL DEF IInv

(* addOrder_R keeps both deques in strict order of priority, whatever the  *)
(* orders, and match() keeps them so.                                      *)
THEOREM StaysSorted == Spec => []BooksSorted
  BY Invariance, PTL DEF IInv

(* Within a call of match(), the limit asks of one price trade in the order*)
(* of their numbers.                                                       *)
THEOREM OlderAskFirst == Spec => []NoYoungerFirst
  BY Invariance, PTL DEF IInv

(* marketPrice is always the price of the last trade.                      *)
THEOREM PriceFollowsTrades == Spec => []MarketPriceIsLast
  BY Invariance, PTL DEF IInv

(* A call of match() that trades nothing has nothing to trade with the     *)
(* first bid.                                                              *)
THEOREM QuietMatch == Spec => []QuietWhenDone
  BY Invariance, PTL DEF IInv

(* The trades committed are no more than the orders filled.                *)
THEOREM FillsBoundTrades == Spec => []TradesAreFills
  BY Invariance, PTL DEF IInv

------------------------------------------------------------------------------
(* The book implements the exchange it promises.                           *)

LEMMA InOpen ==
  ASSUME asks \in Seq(Orders), bids \in Seq(Orders), NEW x
  PROVE  x \in Open <=> /\ x.quantity # 0
                        /\ \/ \E i \in 1 .. Len(asks) : x = asks[i]
                           \/ \E i \in 1 .. Len(bids) : x = bids[i]
  BY DEF Open, ToSet

LEMMA InOpenPrime ==
  ASSUME asks' \in Seq(Orders), bids' \in Seq(Orders), NEW x
  PROVE  x \in Open' <=> /\ x.quantity # 0
                         /\ \/ \E i \in 1 .. Len(asks') : x = asks'[i]
                            \/ \E i \in 1 .. Len(bids') : x = bids'[i]
  BY DEF Open, ToSet

(* An order enters when addOrder_R has found its place.                    *)
LEMMA InsertEnters ==
  ASSUME IInv, Insert
  PROVE  Promise!Enter(order) /\ order \in Entrants
<1> DEFINE i == first + 1
<1>1. order \in Entrants /\ order \in Orders /\ order.quantity > 0
  BY EntrantsOpen DEF IInv, SearchBounds, Insert
<1>2. asks \in Seq(Orders) /\ bids \in Seq(Orders) /\ asks' \in Seq(Orders) /\ bids' \in Seq(Orders)
  BY InsertKeeps DEF IInv, TypeOK
<1>3. i \in 1 .. Len(Side) + 1
  BY <1>2 DEF IInv, TypeOK, SearchBounds, Side, Insert
<1>4. ASSUME NEW x
      PROVE  (\E k \in 1 .. Len(InsertAt(Side, i, order)) : x = InsertAt(Side, i, order)[k])
               <=> x = order \/ \E k \in 1 .. Len(Side) : x = Side[k]
  <2> DEFINE s == Side
  <2>0. s \in Seq(Orders) /\ i \in 1 .. Len(s) + 1
    BY <1>2, <1>3 DEF Side
  <2> HIDE DEF s
  <2> DEFINE t == InsertAt(s, i, order)
  <2>1. /\ Len(t) = Len(s) + 1 /\ Len(s) \in Nat
        /\ \A k \in 1 .. Len(s) + 1 : t[k] = IF k < i THEN s[k] ELSE IF k = i THEN order ELSE s[k - 1]
    <3> HIDE DEF i
    <3>1. Len(s) \in Nat /\ s \in Seq(Orders) /\ i \in 1 .. Len(s) + 1 /\ order \in Orders
      BY <1>1, <2>0
    <3> QED
      BY ONLY <3>1, InsertAtIs DEF t
  <2> HIDE DEF t, i
  <2>2. ASSUME NEW k \in 1 .. Len(t) PROVE t[k] = order \/ \E j \in 1 .. Len(s) : t[k] = s[j]
    <3>1. CASE k < i
      BY <2>0, <2>1, <3>1
    <3>2. CASE k = i
      BY <2>0, <2>1, <3>2
    <3>3. CASE k > i
      <4>1. t[k] = s[k - 1] /\ k - 1 \in 1 .. Len(s)
        BY <2>0, <2>1, <3>3
      <4> QED
        BY <4>1
    <3> QED
      BY <2>0, <2>1, <3>1, <3>2, <3>3
  <2>3. i \in 1 .. Len(t) /\ t[i] = order
    BY <2>0, <2>1
  <2>4. ASSUME NEW j \in 1 .. Len(s) PROVE \E k \in 1 .. Len(t) : s[j] = t[k]
    <3>1. CASE j < i
      BY <2>0, <2>1, <3>1
    <3>2. CASE j >= i
      <4>1. t[j + 1] = s[j] /\ j + 1 \in 1 .. Len(t)
        BY <2>0, <2>1, <3>2
      <4> QED
        BY <4>1
    <3> QED
      BY <2>0, <2>1, <3>1, <3>2
  <2> QED
    BY <2>2, <2>3, <2>4 DEF s, t
<1> HIDE DEF i
<1>5. ASSUME NEW x PROVE x \in Open' <=> x \in Open \cup {order}
  <2>1. CASE order.type = "Ask"
    <3>1. asks' = InsertAt(asks, i, order) /\ bids' = bids /\ Side = asks
      BY <2>1 DEF Insert, Side, i
    <3> QED
      <4>1. x \in Open <=> /\ x.quantity # 0
                          /\ \/ \E k \in 1 .. Len(asks) : x = asks[k]
                             \/ \E k \in 1 .. Len(bids) : x = bids[k]
        BY <1>2, InOpen
      <4>2. x \in Open' <=> /\ x.quantity # 0
                           /\ \/ \E k \in 1 .. Len(asks') : x = asks'[k]
                              \/ \E k \in 1 .. Len(bids') : x = bids'[k]
        BY <1>2, InOpenPrime
      <4>3. (\E k \in 1 .. Len(asks') : x = asks'[k])
              <=> x = order \/ \E k \in 1 .. Len(asks) : x = asks[k]
        BY ONLY <1>4, <3>1
      <4> QED
        BY ONLY <1>1, <3>1, <4>1, <4>2, <4>3
  <2>2. CASE order.type # "Ask"
    <3>1. bids' = InsertAt(bids, i, order) /\ asks' = asks /\ Side = bids
      BY <2>2 DEF Insert, Side, i
    <3> QED
      <4>1. x \in Open <=> /\ x.quantity # 0
                          /\ \/ \E k \in 1 .. Len(asks) : x = asks[k]
                             \/ \E k \in 1 .. Len(bids) : x = bids[k]
        BY <1>2, InOpen
      <4>2. x \in Open' <=> /\ x.quantity # 0
                           /\ \/ \E k \in 1 .. Len(asks') : x = asks'[k]
                              \/ \E k \in 1 .. Len(bids') : x = bids'[k]
        BY <1>2, InOpenPrime
      <4>3. (\E k \in 1 .. Len(bids') : x = bids'[k])
              <=> x = order \/ \E k \in 1 .. Len(bids) : x = bids[k]
        BY ONLY <1>4, <3>1
      <4> QED
        BY ONLY <1>1, <3>1, <4>1, <4>2, <4>3
  <2> QED
    BY <2>1, <2>2
<1>6. ASSUME NEW x \in Open PROVE x.sequence < order.sequence
  BY <1>2, <1>6, InOpen DEF IInv, SearchBounds, Insert
<1>7. UNCHANGED trades
  BY DEF Insert
<1> QED
  BY <1>1, <1>5, <1>6, <1>7 DEF Promise!Enter

(* The end of the inner loop drops no open order.                          *)
LEMMA EraseDropsNone ==
  ASSUME IInv, EraseAsk
  PROVE  UNCHANGED <<Open, trades>>
<1>1. asks \in Seq(Orders) /\ bids \in Seq(Orders) /\ asks' \in Seq(Orders) /\ bids' \in Seq(Orders)
  BY EraseAskKeeps DEF IInv, TypeOK
<1>2. /\ askIt \in 1 .. Len(asks) /\ asks[askIt].quantity = 0
      /\ asks' = RemoveAt(asks, askIt) /\ bids' = bids /\ trades' = trades
  BY DEF IInv, TypeOK, EraseAsk, LeaveAsk, Filled
<1>3. /\ Len(asks') = Len(asks) - 1 /\ Len(asks) \in Nat
      /\ \A k \in 1 .. Len(asks) - 1 : asks'[k] = IF k < askIt THEN asks[k] ELSE asks[k + 1]
  <2>1. Len(asks) \in Nat
    BY <1>1
  <2> QED
    <3>1. asks \in Seq(Orders) /\ askIt \in 1 .. Len(asks) /\ asks' = RemoveAt(asks, askIt)
      BY ONLY <1>1, <1>2
    <3>2. /\ Len(RemoveAt(asks, askIt)) = Len(asks) - 1
          /\ \A k \in 1 .. Len(asks) - 1 :
               RemoveAt(asks, askIt)[k] = IF k < askIt THEN asks[k] ELSE asks[k + 1]
      BY ONLY <3>1, RemoveAtIs
    <3> QED
      BY ONLY <2>1, <3>1, <3>2
<1>4. ASSUME NEW k \in 1 .. Len(asks) PROVE k = askIt \/ \E j \in 1 .. Len(asks') : asks[k] = asks'[j]
  <2>1. CASE k < askIt
    BY <1>2, <1>3, <2>1
  <2>2. CASE k > askIt
    <3>1. asks'[k - 1] = asks[k] /\ k - 1 \in 1 .. Len(asks')
      BY <1>2, <1>3, <2>2
    <3> QED
      BY <3>1
  <2> QED
    BY <1>2, <2>1, <2>2
<1>5. ASSUME NEW k \in 1 .. Len(asks') PROVE \E j \in 1 .. Len(asks) : asks'[k] = asks[j]
  <2>1. CASE k < askIt
    BY <1>2, <1>3, <2>1
  <2>2. CASE k >= askIt
    <3>1. asks'[k] = asks[k + 1] /\ k + 1 \in 1 .. Len(asks)
      BY <1>2, <1>3, <2>2
    <3> QED
      BY <3>1
  <2> QED
    BY <1>2, <2>1, <2>2
<1>6. ASSUME NEW x PROVE x \in Open' <=> x \in Open
  <2>1. x \in Open <=> /\ x.quantity # 0
                      /\ \/ \E k \in 1 .. Len(asks) : x = asks[k]
                         \/ \E k \in 1 .. Len(bids) : x = bids[k]
    BY <1>1, InOpen
  <2>2. x \in Open' <=> /\ x.quantity # 0
                       /\ \/ \E k \in 1 .. Len(asks') : x = asks'[k]
                          \/ \E k \in 1 .. Len(bids') : x = bids'[k]
    BY <1>1, InOpenPrime
  <2> QED
    <3>1. ASSUME x.quantity # 0, NEW k \in 1 .. Len(asks), x = asks[k]
          PROVE  \E j \in 1 .. Len(asks') : x = asks'[j]
      BY ONLY <1>2, <1>4, <3>1
    <3>2. ASSUME NEW k \in 1 .. Len(asks'), x = asks'[k]
          PROVE  \E j \in 1 .. Len(asks) : x = asks[j]
      BY ONLY <1>5, <3>2
    <3>3. bids' = bids
      BY <1>2
    <3> QED
      BY ONLY <2>1, <2>2, <3>1, <3>2, <3>3
<1> QED
  BY <1>2, <1>6 DEF Open

(* A trade is one the exchange allows: the best bid, the oldest ask at its *)
(* price, a price both accept, and the rests stay open.                    *)
LEMMA TradeIsFair ==
  ASSUME IInv, Trade
  PROVE  Promise!Next
<1>0. PICK a, b, q, price :
        a = asks[askIt] /\ b = bids[1] /\ q = TradeQuantity(a, b) /\ price = TradePrice(a, b)
  OBVIOUS
<1>1. /\ bidIt = 1 /\ askIt \in 1 .. Len(asks) /\ 1 \in 1 .. Len(bids)
      /\ a \in Orders /\ b \in Orders /\ q \in Nat /\ 0 < q /\ q <= a.quantity /\ q <= b.quantity
      /\ q = a.quantity \/ q = b.quantity
      /\ Matches(a, b) /\ price \in Nat
  BY <1>0, TradePair
<1>2. /\ asks' \in Seq(Orders) /\ Len(asks') = Len(asks)
      /\ asks'[askIt] = [a EXCEPT !.quantity = a.quantity - q]
      /\ \A k \in 1 .. Len(asks) : k # askIt => asks'[k] = asks[k]
      /\ bids' \in Seq(Orders)
      /\ b.quantity = q =>
           /\ Len(bids') = Len(bids) - 1 /\ bidIt' = 1
           /\ \A k \in 1 .. Len(bids) - 1 : bids'[k] = bids[k + 1]
      /\ b.quantity # q =>
           /\ Len(bids') = Len(bids) /\ bidIt' = 2 /\ q = a.quantity
           /\ bids'[1] = [b EXCEPT !.quantity = b.quantity - q]
           /\ \A k \in 2 .. Len(bids) : bids'[k] = bids[k]
  BY ONLY IInv, Trade, <1>0, TradeEffect, SMTT(60)
<1>3. /\ asks \in Seq(Orders) /\ bids \in Seq(Orders) /\ BooksSorted /\ Placed /\ NoYoungerFirst
      /\ MarketPriceIsLast /\ Remaining /\ Len(asks) \in Nat /\ Len(bids) \in Nat
  BY DEF IInv, TypeOK
<1>4. /\ trades' = Append(trades, [askOrder |-> a, bidOrder |-> b,
                                   tradedQuantity |-> q, tradedPrice |-> price])
      /\ pc = "matching"
  BY <1>0, <1>1 DEF Trade
<1>5. a.quantity \in Nat /\ b.quantity \in Nat /\ a.price \in Nat /\ b.price \in Nat
      /\ a.matchType \in {"Market", "Limit"} /\ b.matchType \in {"Market", "Limit"}
  BY <1>1 DEF Orders
<1>6. a.type = "Ask" /\ b.type = "Bid"
  BY <1>0, <1>1, <1>3 DEF Placed
<1>7. a \in Open /\ b \in Open
  <2>1. a.quantity # 0 /\ b.quantity # 0
    BY <1>1, <1>5
  <2> QED
    BY <1>0, <1>1, <1>3, <2>1, InOpen
<1>8. ASSUME NEW c \in Open
      PROVE  /\ c.type = "Ask" => \E i \in 1 .. Len(asks) : c = asks[i]
             /\ c.type = "Bid" => \E i \in 1 .. Len(bids) : c = bids[i]
             /\ c \in Orders /\ c.quantity # 0
  <2>1. /\ c.quantity # 0
        /\ \/ \E i \in 1 .. Len(asks) : c = asks[i]
           \/ \E i \in 1 .. Len(bids) : c = bids[i]
    BY <1>3, <1>8, InOpen
  <2> QED
    BY ONLY <1>3, <2>1 DEF Placed
<1>9. Promise!OldestAtPrice(a)
  <2>1. ASSUME NEW c \in Open, c.type = "Ask",
               a.matchType = "Limit", c.matchType = "Limit", c.price = a.price
        PROVE  a.sequence <= c.sequence
    <3>1. PICK i \in 1 .. Len(asks) : c = asks[i]
      BY <1>8, <2>1
    <3>2. a.sequence \in Nat /\ c.sequence \in Nat
      BY <1>1, <1>8, <2>1 DEF Orders
    <3>3. CASE i < askIt
      <4>1. i \in 1 .. askIt - 1 /\ bids # <<>> /\ askIt <= Len(asks)
        BY <1>1, <1>3, <3>3
      <4>2. ~Matches(c, b)
        BY <1>0, <1>3, <1>4, <2>1, <3>1, <4>1 DEF NoYoungerFirst
      <4> QED
        BY <1>1, <2>1, <4>2 DEF Matches
    <3>4. CASE i = askIt
      BY <1>0, <3>1, <3>2, <3>4
    <3>5. CASE i > askIt
      <4>1. HigherPriority(a, c)
        BY <1>0, <1>1, <1>3, <3>1, <3>5 DEF BooksSorted, Sorted
      <4> QED
        BY <2>1, <3>2, <4>1, <1>5 DEF HigherPriority
    <3> QED
      BY <1>1, <3>3, <3>4, <3>5
  <2> QED
    BY <1>6, <1>7, <2>1 DEF Promise!OldestAtPrice, Promise!Asks
<1>10. Promise!BestBid(b)
  <2>1. ASSUME NEW c \in Open, c.type = "Bid", c # b
        PROVE  Promise!Outranks(b, c)
    <3>1. PICK i \in 1 .. Len(bids) : c = bids[i]
      BY <1>8, <2>1
    <3>2. HigherPriority(b, c)
      BY <1>0, <1>1, <1>3, <2>1, <3>1 DEF BooksSorted, Sorted
    <3> QED
      BY <3>2 DEF HigherPriority, Promise!Outranks
  <2> QED
    BY <1>6, <1>7, <2>1 DEF Promise!BestBid, Promise!Bids
<1>11. Promise!Acceptable(a, b, price)
  BY <1>0, <1>1, <1>3, <1>5
  DEF Promise!Acceptable, Promise!LastPrice, MarketPriceIsLast, TradePrice, Matches
<1>12. ASSUME NEW x
       PROVE  x \in Open' <=> x \in (Open \ {a, b}) \cup Promise!Rest(a, q) \cup Promise!Rest(b, q)
  <2> DEFINE a1 == [a EXCEPT !.quantity = a.quantity - q]
             b1 == [b EXCEPT !.quantity = b.quantity - q]
  <2>1. /\ Promise!Rest(a, q) = IF a.quantity # q THEN {a1} ELSE {}
        /\ Promise!Rest(b, q) = IF b.quantity # q THEN {b1} ELSE {}
    BY <1>1, <1>5 DEF Promise!Rest
  <2>2. a1.quantity = a.quantity - q /\ b1.quantity = b.quantity - q
    BY <1>1 DEF Orders
  <2> HIDE DEF a1, b1
  <2> DEFINE InAsks == \E k \in 1 .. Len(asks) : x = asks[k]
             InBids == \E k \in 1 .. Len(bids) : x = bids[k]
             InNewAsks == \E k \in 1 .. Len(asks') : x = asks'[k]
             InNewBids == \E k \in 1 .. Len(bids') : x = bids'[k]
  <2>3. x \in Open <=> x.quantity # 0 /\ (InAsks \/ InBids)
    BY <1>3, InOpen
  <2>4. x \in Open' <=> x.quantity # 0 /\ (InNewAsks \/ InNewBids)
    BY <1>2, InOpenPrime
  <2>5. InNewAsks <=> x = a1 \/ (x # a /\ InAsks)
    <3>1. \A k \in 1 .. Len(asks) : k # askIt => asks[k] # a
      BY <1>0, <1>1, <1>3, SortedApart DEF BooksSorted
    <3>2. ASSUME NEW k \in 1 .. Len(asks'), x = asks'[k]
          PROVE  x = a1 \/ (x # a /\ \E j \in 1 .. Len(asks) : x = asks[j])
      BY <1>2, <3>1, <3>2 DEF a1
    <3>3. askIt \in 1 .. Len(asks') /\ asks'[askIt] = a1
      BY <1>1, <1>2 DEF a1
    <3>4. ASSUME NEW k \in 1 .. Len(asks), x = asks[k], x # a PROVE asks'[k] = x /\ k \in 1 .. Len(asks')
      BY <1>0, <1>2, <3>4
    <3> QED
      BY <3>2, <3>3, <3>4
  <2>6. InNewBids <=> (b.quantity # q /\ x = b1) \/ (x # b /\ InBids)
    <3>1. \A k \in 1 .. Len(bids) : k # 1 => bids[k] # b
      BY <1>0, <1>1, <1>3, SortedApart DEF BooksSorted
    <3>2. CASE b.quantity # q
      <4>1. /\ Len(bids') = Len(bids) /\ bids'[1] = b1
            /\ \A k \in 1 .. Len(bids) : k # 1 => bids'[k] = bids[k]
        BY <1>2, <1>3, <3>2 DEF b1
      <4>2. ASSUME NEW k \in 1 .. Len(bids'), x = bids'[k]
            PROVE  x = b1 \/ (x # b /\ \E j \in 1 .. Len(bids) : x = bids[j])
        BY <3>1, <4>1, <4>2
      <4>3. ASSUME NEW k \in 1 .. Len(bids), x = bids[k], x # b PROVE bids'[k] = x /\ k \in 1 .. Len(bids')
        BY <1>0, <4>1, <4>3
      <4> QED
        BY <1>1, <3>2, <4>1, <4>2, <4>3
    <3>3. CASE b.quantity = q
      <4>1. ASSUME NEW k \in 1 .. Len(bids'), x = bids'[k] PROVE x # b /\ \E j \in 1 .. Len(bids) : x = bids[j]
        <5>1. k + 1 \in 1 .. Len(bids) /\ k + 1 # 1 /\ bids'[k] = bids[k + 1]
          <6>1. Len(bids) \in Nat /\ Len(bids') = Len(bids) - 1
            BY <1>2, <1>3, <3>3
          <6>2. k \in 1 .. Len(bids) - 1 /\ k + 1 \in 1 .. Len(bids) /\ k + 1 # 1
            BY ONLY <4>1, <6>1
          <6> QED
            BY <1>2, <3>3, <6>2
        <5> QED
          BY ONLY <3>1, <4>1, <5>1
      <4>2. ASSUME NEW j \in 1 .. Len(bids), x = bids[j], x # b PROVE \E k \in 1 .. Len(bids') : x = bids'[k]
        <5>1. j # 1
          BY <1>0, <4>2
        <5>2. j - 1 \in 1 .. Len(bids') /\ bids'[j - 1] = bids[j]
          BY <1>2, <1>3, <3>3, <5>1
        <5> QED
          BY <4>2, <5>2
      <4> QED
        BY <3>3, <4>1, <4>2
    <3> QED
      BY <3>2, <3>3
  <2>7. InAsks => x.type = "Ask"
    BY <1>3 DEF Placed
  <2>8. InBids => x.type = "Bid"
    BY <1>3 DEF Placed
  <2> HIDE DEF InAsks, InBids, InNewAsks, InNewBids
  <2> QED
    BY ONLY <1>1, <1>5, <1>6, <2>1, <2>2, <2>3, <2>4, <2>5, <2>6, <2>7, <2>8
<1>13. Promise!Trade(a, b, q, price)
  BY <1>1, <1>4, <1>9, <1>10, <1>11, <1>12 DEF Promise!Trade
<1>14. price \in {a.price, b.price, Promise!LastPrice}
  BY <1>0, <1>3 DEF TradePrice, Promise!LastPrice, MarketPriceIsLast
<1> QED
  BY <1>1, <1>6, <1>7, <1>13, <1>14 DEF Promise!Next, Promise!Asks, Promise!Bids

(* What is read from the trades and the open orders is an exchange.        *)
THEOREM ImplementsExchange == Spec => ExchangePromise
<1>1. Init => Promise!Init
  BY DEF Init, Promise!Init, Open, ToSet
<1>2. IInv /\ [Next]_vars => [Promise!Next]_(Promise!vars)
  <2> SUFFICES ASSUME IInv, [Next]_vars PROVE [Promise!Next]_(Promise!vars)
    OBVIOUS
  <2>1. CASE Insert
    BY <2>1, InsertEnters DEF Promise!Next
  <2>2. CASE Trade
    BY <2>2, TradeIsFair
  <2>3. CASE EraseAsk
    BY <2>3, EraseDropsNone DEF Promise!vars
  <2>4. CASE UNCHANGED <<asks, bids, trades>>
    BY <2>4 DEF Promise!vars, Open
  <2>5. Halve \/ BeginMatch \/ PassAsk \/ MatchReturns => UNCHANGED <<asks, bids, trades>>
    BY DEF Halve, BeginMatch, PassAsk, LeaveAsk, MatchReturns, book
  <2>6. ASSUME NEW r \in Requests, NEW n \in 1 .. MaxOrders, AddOrder(r, n) \/ AddCancel(r, n)
        PROVE UNCHANGED <<asks, bids, trades>>
    BY <2>6 DEF AddOrder, AddCancel, Arrives, book
  <2> QED
    BY <2>1, <2>2, <2>3, <2>4, <2>5, <2>6 DEF Next, Place, Match, vars
<1> QED
  BY <1>1, <1>2, Invariance, PTL DEF Spec, ExchangePromise, Promise!Spec

==============================================================================
