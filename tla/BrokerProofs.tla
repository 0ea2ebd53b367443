---------------------------- MODULE BrokerProofs ----------------------------
(***************************************************************************)
(* Proofs about Broker for any number of services, assets and orders and   *)
(* any length of the pipes.                                                *)
(***************************************************************************)
EXTENDS Broker, TLAPS

------------------------------------------------------------------------------
(* Sequences.                                                              *)

LEMMA HeadTail ==
  ASSUME NEW S, NEW s \in Seq(S), s # <<>>
  PROVE  /\ Head(s) = s[1] /\ Head(s) \in S /\ Len(s) \in Nat \ {0}
         /\ Tail(s) \in Seq(S) /\ Len(Tail(s)) = Len(s) - 1
         /\ \A i \in 1 .. Len(s) - 1 : Tail(s)[i] = s[i + 1]
  OBVIOUS

LEMMA ConcatElements ==
  ASSUME NEW S, NEW s \in Seq(S), NEW t \in Seq(S)
  PROVE  /\ s \o t \in Seq(S)
         /\ Len(s \o t) = Len(s) + Len(t)
         /\ \A i \in 1 .. Len(s) + Len(t) :
              (s \o t)[i] = IF i <= Len(s) THEN s[i] ELSE t[i - Len(s)]
  OBVIOUS

LEMMA AppendElements ==
  ASSUME NEW S, NEW s \in Seq(S), NEW e \in S
  PROVE  /\ Append(s, e) \in Seq(S)
         /\ Len(Append(s, e)) = Len(s) + 1
         /\ \A i \in 1 .. Len(s) : Append(s, e)[i] = s[i]
         /\ Append(s, e)[Len(s) + 1] = e
  OBVIOUS

(* Taking the head of one pipe to the end of another moves nothing.        *)
LEMMA HandOver ==
  ASSUME NEW S, NEW s \in Seq(S), NEW t \in Seq(S), t # <<>>
  PROVE  /\ Len(Append(s, Head(t)) \o Tail(t)) = Len(s \o t)
         /\ \A i \in 1 .. Len(s \o t) : (Append(s, Head(t)) \o Tail(t))[i] = (s \o t)[i]
<1> DEFINE u == Append(s, Head(t))
           v == Tail(t)
           n == Len(s)
           m == Len(t)
<1>1. n \in Nat /\ m \in Nat \ {0} /\ Head(t) = t[1] /\ Head(t) \in S
  BY HeadTail
<1>2. u \in Seq(S) /\ Len(u) = n + 1 /\ (\A i \in 1 .. n : u[i] = s[i]) /\ u[n + 1] = t[1]
  BY <1>1, AppendElements
<1>3. v \in Seq(S) /\ Len(v) = m - 1 /\ \A i \in 1 .. m - 1 : v[i] = t[i + 1]
  BY HeadTail
<1>4. /\ Len(s \o t) = n + m
      /\ \A i \in 1 .. n + m : (s \o t)[i] = IF i <= n THEN s[i] ELSE t[i - n]
  BY ConcatElements
<1> HIDE DEF u, v
<1>5. /\ Len(u \o v) = Len(u) + Len(v)
      /\ \A i \in 1 .. Len(u) + Len(v) : (u \o v)[i] = IF i <= Len(u) THEN u[i] ELSE v[i - Len(u)]
  BY <1>2, <1>3, ConcatElements
<1> HIDE DEF n, m
<1>6. /\ Len(u \o v) = n + m
      /\ \A i \in 1 .. n + m : (u \o v)[i] = IF i <= n + 1 THEN u[i] ELSE v[i - (n + 1)]
  BY <1>1, <1>2, <1>3, <1>5
<1>7. ASSUME NEW i \in 1 .. n + m PROVE (u \o v)[i] = (s \o t)[i]
  <2>0. n \in Nat /\ m \in Nat /\ i \in Int /\ 1 <= i /\ i <= n + m
    BY <1>1
  <2>1. CASE i <= n
    BY <1>1, <1>2, <1>4, <1>6, <2>1
  <2>2. CASE i = n + 1
    BY <1>1, <1>2, <1>4, <1>6, <2>2
  <2>3. CASE i > n + 1
    <3>1. i - (n + 1) \in 1 .. m - 1 /\ (i - (n + 1)) + 1 = i - n
      BY <1>1, <2>3
    <3>2. (u \o v)[i] = v[i - (n + 1)] /\ (s \o t)[i] = t[i - n]
      <4>1. ~(i <= n + 1) /\ ~(i <= n)
        BY <2>0, <2>3
      <4> QED
        BY <1>4, <1>6, <4>1
    <3> QED
      BY <1>3, <3>1, <3>2
  <2>4. i <= n \/ i = n + 1 \/ i > n + 1
    BY <2>0
  <2> QED
    BY <2>1, <2>2, <2>3, <2>4
<1> QED
  BY <1>4, <1>6, <1>7 DEF u, v

------------------------------------------------------------------------------
(* Type correctness.                                                       *)

LEMMA InitIInv == Init => IInv
<1> SUFFICES ASSUME Init PROVE IInv
  OBVIOUS
<1> USE ServiceAssumption DEF Init
<1>1. \A w \in Services : Received(w) = <<>> /\ Len(Received(w)) = 0
  <2>1. <<>> \o <<>> = <<>>
    OBVIOUS
  <2> QED
    BY <2>1 DEF Received
<1>2. TypeOK
  BY DEF TypeOK
<1>3. FrontendYounger /\ InOrder
  BY <1>1 DEF FrontendYounger, InOrder, Ascending
<1>4. RoutedToFirst
  BY <1>1 DEF RoutedToFirst
<1>5. GreetingsShape
  BY DEF GreetingsShape, Stranger, InTable
<1>6. RegisteredOnce
  BY DEF RegisteredOnce
<1> QED
  BY <1>2, <1>3, <1>4, <1>5, <1>6 DEF IInv

LEMMA HeadOrder ==
  ASSUME TypeOK, frontend # <<>>
  PROVE  Head(frontend) \in Orders /\ Tail(frontend) \in Seq(Orders)
         /\ Head(frontend).code \in Assets
<1>1. Head(frontend) \in Orders /\ Tail(frontend) \in Seq(Orders)
  BY HeadTail DEF TypeOK
<1> QED
  BY <1>1 DEF Orders

LEMMA HeadMessage ==
  ASSUME TypeOK, NEW w \in Services, backend[w] # <<>>
  PROVE  Head(backend[w]) \in Codes /\ Tail(backend[w]) \in Seq(Codes)
  BY HeadTail DEF TypeOK

LEMMA FirstIsService ==
  ASSUME TypeOK, NEW c \in Codes, Registered(c)
  PROVE  FirstWorker(c) \in Services
  BY HeadTail DEF TypeOK, Registered, FirstWorker

LEMMA NextTypeOK ==
  ASSUME TypeOK, [Next]_vars
  PROVE  TypeOK'
<1> USE ServiceAssumption DEF TypeOK
<1>1. ASSUME NEW code \in Assets, SendOrder(code) PROVE TypeOK'
  <2>1. [sequence |-> sequence, code |-> code] \in Orders
    BY DEF Orders
  <2>2. frontend' \in Seq(Orders)
    BY <1>1, <2>1, AppendElements DEF SendOrder
  <2> QED
    BY <1>1, <2>2 DEF SendOrder, broker
<1>2. ASSUME NEW w \in Services, Greet(w) PROVE TypeOK'
  <2>1. (IF said[w] = 0 THEN Motto ELSE Asset[w]) \in Codes
    BY DEF Codes
  <2>2. backend' \in [Services -> Seq(Codes)]
    BY <1>2, <2>1, AppendElements DEF Greet
  <2>3. said' \in [Services -> 0 .. 2]
    <3>1. said[w] \in 0 .. 2
      OBVIOUS
    <3>2. said[w] < 2 /\ said' = [said EXCEPT ![w] = said[w] + 1]
      BY <1>2 DEF Greet
    <3>3. said[w] + 1 \in 0 .. 2
      BY <3>1, <3>2
    <3> QED
      BY <3>2, <3>3
  <2> QED
    BY <1>2, <2>2, <2>3 DEF Greet, broker
<1>3. ASSUME NEW w \in Services, Fill(w) PROVE TypeOK'
  <2>1. Head(inbox[w]) \in Orders /\ Tail(inbox[w]) \in Seq(Orders)
    BY <1>3, HeadTail DEF Fill
  <2>2. inbox' \in [Services -> Seq(Orders)]
    BY <1>3, <2>1 DEF Fill
  <2>3. filled' \in [Services -> Seq(Orders)]
    BY <1>3, <2>1, AppendElements DEF Fill
  <2> QED
    BY <1>3, <2>2, <2>3 DEF Fill, broker
<1>4. ASSUME NEW w \in Services, Stop(w) PROVE TypeOK'
  <2>1. inbox' \in [Services -> Seq(Orders)]
    BY <1>4 DEF Stop
  <2>2. up' \subseteq Services
    BY <1>4 DEF Stop
  <2> QED
    BY <1>4, <2>1, <2>2 DEF Stop, broker
<1>5. CASE Poll
  BY <1>5 DEF Poll, Readable
<1>6. ASSUME frontend # <<>>, RouteOrder(Head(frontend)) PROVE TypeOK'
  <2> DEFINE o == Head(frontend)
  <2>1. o \in Orders /\ Tail(frontend) \in Seq(Orders) /\ o.code \in Codes
    BY <1>6, HeadOrder DEF Codes
  <2>2. FirstWorker(o.code) \in Services
    BY <1>6, <2>1, FirstIsService DEF RouteOrder
  <2>3. inbox' \in [Services -> Seq(Orders)]
    BY <1>6, <2>1, <2>2, AppendElements DEF RouteOrder
  <2>4. frontend' \in Seq(Orders)
    BY <1>6, <2>1 DEF RouteOrder, ReceiveOrder
  <2> QED
    BY <1>6, <2>3, <2>4 DEF RouteOrder, ReceiveOrder, Handled
<1>7. ASSUME frontend # <<>>, DropOrder(Head(frontend)) PROVE TypeOK'
  BY <1>7, HeadOrder DEF DropOrder, ReceiveOrder, Handled
<1>8. ASSUME frontend # <<>>, Crash(Head(frontend)) PROVE TypeOK'
  BY <1>8, HeadOrder DEF Crash, ReceiveOrder
<1>9. ASSUME NEW w \in Services, ReceiveMotto(w) PROVE TypeOK'
  <2>1. backend' \in [Services -> Seq(Codes)]
    BY <1>9, HeadMessage DEF ReceiveMotto, ReceiveMessage
  <2> QED
    BY <1>9, <2>1 DEF ReceiveMotto, ReceiveMessage
<1>10. ASSUME NEW w \in Services, IgnoreMessage(w) PROVE TypeOK'
  <2>1. backend' \in [Services -> Seq(Codes)]
    BY <1>10, HeadMessage DEF IgnoreMessage, ReceiveMessage
  <2> QED
    BY <1>10, <2>1 DEF IgnoreMessage, ReceiveMessage, Handled
<1>11. ASSUME NEW w \in Services, Register(w) PROVE TypeOK'
  <2>1. backend' \in [Services -> Seq(Codes)]
    BY <1>11, HeadMessage DEF Register
  <2>2. Head(backend[w]) \in Codes /\ workerAddress \in Services
    BY <1>11, HeadMessage DEF Register
  <2>3. workersPerAsset' \in [Codes -> Seq(Services)]
    BY <1>11, <2>2, AppendElements DEF Register
  <2> QED
    BY <1>11, <2>1, <2>3 DEF Register
<1>12. CASE UNCHANGED vars
  BY <1>12 DEF vars
<1> QED
  BY <1>1, <1>2, <1>3, <1>4, <1>5, <1>6, <1>7, <1>8, <1>9, <1>10, <1>11, <1>12
  DEF Next, BrokerStep
------------------------------------------------------------------------------
(* What a step does to the orders of a service and to those under way.     *)

Same(s, t) == Len(s) = Len(t) /\ \A k \in 1 .. Len(t) : s[k] = t[k]
Prefix(s, t) == Len(s) <= Len(t) /\ \A k \in 1 .. Len(s) : s[k] = t[k]
Routed(w) ==
  /\ frontend # <<>>
  /\ RouteOrder(Head(frontend))
  /\ w = FirstWorker(Head(frontend).code)
  /\ Len(Received(w)') = Len(Received(w)) + 1
  /\ \A k \in 1 .. Len(Received(w)) : Received(w)'[k] = Received(w)[k]
  /\ Received(w)'[Len(Received(w)) + 1] = Head(frontend)

LEMMA ReceivedType ==
  ASSUME TypeOK, NEW w \in Services
  PROVE  Received(w) \in Seq(Orders) /\ Len(Received(w)) \in Nat
<1>1. filled[w] \in Seq(Orders) /\ inbox[w] \in Seq(Orders)
  BY DEF TypeOK
<1>2. Received(w) \in Seq(Orders)
  BY <1>1, ConcatElements DEF Received
<1> QED
  BY <1>2

LEMMA StopKeepsPrefix ==
  ASSUME TypeOK, NEW w \in Services
  PROVE  Prefix(filled[w] \o <<>>, Received(w))
<1>1. filled[w] \in Seq(Orders) /\ inbox[w] \in Seq(Orders) /\ <<>> \in Seq(Orders)
  BY DEF TypeOK
<1>2. Len(filled[w]) \in Nat /\ Len(inbox[w]) \in Nat /\ Len(<<>>) = 0
  BY <1>1
<1>3. /\ Len(Received(w)) = Len(filled[w]) + Len(inbox[w])
      /\ \A k \in 1 .. Len(filled[w]) + Len(inbox[w]) :
           Received(w)[k] = IF k <= Len(filled[w]) THEN filled[w][k] ELSE inbox[w][k - Len(filled[w])]
  BY <1>1, ConcatElements DEF Received
<1>4. filled[w] \o <<>> = filled[w]
  BY <1>1
<1> DEFINE f == filled[w]
           n == Len(f)
           m == Len(inbox[w])
           b == inbox[w]
<1>5. n \in Nat /\ m \in Nat /\ Len(Received(w)) = n + m
      /\ \A k \in 1 .. n + m : Received(w)[k] = IF k <= n THEN f[k] ELSE b[k - n]
  BY <1>2, <1>3
<1> HIDE DEF n, m, b
<1>6. ASSUME NEW k \in 1 .. n PROVE f[k] = Received(w)[k]
  <2>1. k \in 1 .. n + m /\ k <= n
    BY <1>5
  <2> QED
    BY <1>5, <2>1
<1>7. n <= Len(Received(w))
  BY <1>5
<1> QED
  BY <1>4, <1>6, <1>7 DEF Prefix, n

LEMMA RouteAppends ==
  ASSUME TypeOK, NEW w \in Services, NEW o \in Orders
  PROVE  LET s == filled[w] \o Append(inbox[w], o) IN
         /\ Len(s) = Len(Received(w)) + 1
         /\ \A k \in 1 .. Len(Received(w)) : s[k] = Received(w)[k]
         /\ s[Len(Received(w)) + 1] = o
<1> DEFINE f == filled[w]
           b == inbox[w]
           c == Append(b, o)
           n == Len(f)
           m == Len(b)
<1>1. f \in Seq(Orders) /\ b \in Seq(Orders) /\ n \in Nat /\ m \in Nat
  BY DEF TypeOK
<1>2. c \in Seq(Orders) /\ Len(c) = m + 1 /\ (\A k \in 1 .. m : c[k] = b[k]) /\ c[m + 1] = o
  BY <1>1, AppendElements
<1>3. Len(Received(w)) = n + m
      /\ \A k \in 1 .. n + m : Received(w)[k] = IF k <= n THEN f[k] ELSE b[k - n]
  BY <1>1, ConcatElements DEF Received
<1> HIDE DEF f, c
<1>4. Len(f \o c) = Len(f) + Len(c)
      /\ \A k \in 1 .. Len(f) + Len(c) :
           (f \o c)[k] = IF k <= Len(f) THEN f[k] ELSE c[k - Len(f)]
  BY <1>1, <1>2, ConcatElements
<1> HIDE DEF n, m, b
<1>5. Len(f \o c) = n + m + 1
      /\ \A k \in 1 .. n + m + 1 : (f \o c)[k] = IF k <= n THEN f[k] ELSE c[k - n]
  BY <1>1, <1>2, <1>4 DEF n
<1>6. ASSUME NEW k \in 1 .. n + m PROVE (f \o c)[k] = Received(w)[k]
  <2>1. n \in Nat /\ m \in Nat /\ k \in Int /\ 1 <= k /\ k <= n + m
    BY <1>1
  <2>2. CASE k <= n
    BY <1>3, <1>5, <2>1, <2>2
  <2>3. CASE k > n
    <3>1. k - n \in 1 .. m /\ ~(k <= n) /\ k \in 1 .. n + m + 1
      BY <2>1, <2>3
    <3> QED
      BY <1>2, <1>3, <1>5, <3>1
  <2>4. k <= n \/ k > n
    BY <2>1
  <2> QED
    BY <2>2, <2>3, <2>4
<1>7. (f \o c)[n + m + 1] = o
  <2>1. n + m + 1 \in 1 .. n + m + 1 /\ ~(n + m + 1 <= n) /\ (n + m + 1) - n = m + 1
    BY <1>1
  <2> QED
    BY <1>2, <1>5, <2>1
<1> QED
  BY <1>3, <1>5, <1>6, <1>7 DEF f, c, b

LEMMA ReceivedMoves ==
  ASSUME TypeOK, [Next]_vars, NEW w \in Services
  PROVE  Same(Received(w)', Received(w)) \/ Prefix(Received(w)', Received(w)) \/ Routed(w)
<1>1. ASSUME filled'[w] = filled[w], inbox'[w] = inbox[w]
      PROVE  Same(Received(w)', Received(w))
  BY <1>1, ReceivedType DEF Same, Received
<1>2. ASSUME NEW v \in Services, Fill(v) PROVE Same(Received(w)', Received(w))
  <2>1. CASE v = w
    <3>1. filled[w] \in Seq(Orders) /\ inbox[w] \in Seq(Orders) /\ inbox[w] # <<>>
      BY <1>2, <2>1 DEF Fill, TypeOK
    <3>2. Received(w)' = Append(filled[w], Head(inbox[w])) \o Tail(inbox[w])
      BY <1>2, <2>1 DEF Fill, Received, TypeOK
    <3> DEFINE f == filled[w]
               b == inbox[w]
               r == Append(f, Head(b)) \o Tail(b)
    <3>0. f \in Seq(Orders) /\ b \in Seq(Orders) /\ b # <<>>
      BY <3>1
    <3> HIDE DEF f, b
    <3>3. Len(r) = Len(f \o b) /\ \A i \in 1 .. Len(f \o b) : r[i] = (f \o b)[i]
      BY <3>0, HandOver
    <3> HIDE DEF r
    <3>4. Received(w)' = r /\ Received(w) = f \o b
      BY <3>2 DEF Received, r, f, b
    <3> QED
      BY <3>3, <3>4 DEF Same
  <2>2. CASE v # w
    BY <1>1, <1>2, <2>2 DEF Fill, TypeOK
  <2> QED
    BY <2>1, <2>2
<1>3. ASSUME NEW v \in Services, Stop(v)
      PROVE  Same(Received(w)', Received(w)) \/ Prefix(Received(w)', Received(w))
  <2>1. CASE v = w
    <3>1. Received(w)' = filled[w] \o <<>>
      BY <1>3, <2>1 DEF Stop, Received, TypeOK
    <3> QED
      BY <3>1, StopKeepsPrefix
  <2>2. CASE v # w
    BY <1>1, <1>3, <2>2 DEF Stop, TypeOK
  <2> QED
    BY <2>1, <2>2
<1>4. ASSUME frontend # <<>>, RouteOrder(Head(frontend))
      PROVE  Same(Received(w)', Received(w)) \/ Routed(w)
  <2> DEFINE o == Head(frontend)
             v == FirstWorker(o.code)
  <2>1. /\ filled' = filled
        /\ inbox' = [inbox EXCEPT ![v] = Append(@, o)]
    BY <1>4 DEF RouteOrder, ReceiveOrder
  <2>2. CASE v = w
    <3>1. o \in Orders
      BY <1>4, HeadOrder
    <3>2. Received(w)' = filled[w] \o Append(inbox[w], o)
      BY <2>1, <2>2 DEF Received, TypeOK
    <3> DEFINE s == filled[w] \o Append(inbox[w], o)
    <3>3. /\ Len(s) = Len(Received(w)) + 1
          /\ \A k \in 1 .. Len(Received(w)) : s[k] = Received(w)[k]
          /\ s[Len(Received(w)) + 1] = o
      BY <3>1, RouteAppends
    <3> HIDE DEF s
    <3>4. Received(w)' = s
      BY <3>2 DEF s
    <3> QED
      BY <1>4, <2>2, <3>3, <3>4 DEF Routed
  <2>3. CASE v # w
    BY <1>1, <2>1, <2>3 DEF TypeOK
  <2> QED
    BY <2>2, <2>3
<1>5. CASE UNCHANGED <<filled, inbox>>
  BY <1>1, <1>5
<1> QED
  BY <1>2, <1>3, <1>4, <1>5 DEF Next, BrokerStep, vars, SendOrder, Greet, Poll, DropOrder, Crash,
     ReceiveOrder, ReceiveMotto, IgnoreMessage, ReceiveMessage, Register
------------------------------------------------------------------------------
(* Orders keep their order.                                                *)

LEMMA ReceivedOld ==
  ASSUME TypeOK, TypeOK', [Next]_vars, NEW w \in Services, NEW k \in 1 .. Len(Received(w)')
  PROVE  \/ k \in 1 .. Len(Received(w)) /\ Received(w)'[k] = Received(w)[k]
         \/ Routed(w) /\ k = Len(Received(w)) + 1 /\ Received(w)'[k] = Head(frontend)
<1>1. Len(Received(w)) \in Nat /\ Len(Received(w)') \in Nat
  <2>1. filled'[w] \in Seq(Orders) /\ inbox'[w] \in Seq(Orders)
    BY DEF TypeOK
  <2>2. Received(w)' \in Seq(Orders)
    BY <2>1, ConcatElements DEF Received
  <2> QED
    BY <2>2, ReceivedType
<1>2. CASE Same(Received(w)', Received(w))
  BY <1>1, <1>2 DEF Same
<1>3. CASE Prefix(Received(w)', Received(w))
  BY <1>1, <1>3 DEF Prefix
<1>4. CASE Routed(w)
  <2>1. k \in 1 .. Len(Received(w)) \/ k = Len(Received(w)) + 1
    BY <1>1, <1>4 DEF Routed
  <2> QED
    BY <1>4, <2>1 DEF Routed
<1> QED
  BY <1>2, <1>3, <1>4, ReceivedMoves

LEMMA OrderFields ==
  ASSUME TypeOK
  PROVE  /\ Len(frontend) \in Nat
         /\ \A i \in 1 .. Len(frontend) : frontend[i].sequence \in Nat
         /\ \A w \in Services : \A k \in 1 .. Len(Received(w)) :
              Received(w)[k] \in Orders /\ Received(w)[k].sequence \in Nat
<1>1. frontend \in Seq(Orders) /\ \A o \in Orders : o.sequence \in Nat
  BY DEF TypeOK, Orders
<1>2. \A i \in 1 .. Len(frontend) : frontend[i] \in Orders
  BY <1>1
<1>3. ASSUME NEW w \in Services, NEW k \in 1 .. Len(Received(w)) PROVE Received(w)[k] \in Orders
  BY ReceivedType
<1> QED
  BY <1>1, <1>2, <1>3

LEMMA NextInOrder ==
  ASSUME TypeOK, TypeOK', FrontendYounger, InOrder, [Next]_vars
  PROVE  InOrder'
<1> SUFFICES ASSUME NEW w \in Services,
                    NEW i \in 1 .. Len(Received(w)'), NEW j \in 1 .. Len(Received(w)'), i < j
             PROVE  Received(w)'[i].sequence < Received(w)'[j].sequence
  BY DEF InOrder, Ascending
<1>1. Len(Received(w)) \in Nat
  BY ReceivedType
<1>2. CASE j \in 1 .. Len(Received(w)) /\ Received(w)'[j] = Received(w)[j]
  <2>1. i \in 1 .. Len(Received(w)) /\ Received(w)'[i] = Received(w)[i]
    BY <1>1, <1>2, ReceivedOld
  <2> QED
    BY <1>2, <2>1 DEF InOrder, Ascending
<1>3. CASE Routed(w) /\ j = Len(Received(w)) + 1 /\ Received(w)'[j] = Head(frontend)
  <2>1. i \in 1 .. Len(Received(w)) /\ Received(w)'[i] = Received(w)[i]
    BY <1>1, <1>3, ReceivedOld
  <2>2. frontend \in Seq(Orders) /\ frontend # <<>>
    BY <1>3 DEF TypeOK, Routed
  <2>3. Head(frontend) = frontend[1] /\ 1 \in 1 .. Len(frontend)
    BY <2>2
  <2> QED
    BY <1>3, <2>1, <2>3 DEF FrontendYounger
<1> QED
  BY <1>2, <1>3, ReceivedOld

LEMMA NextFrontendYounger ==
  ASSUME TypeOK, TypeOK', FrontendYounger, [Next]_vars
  PROVE  FrontendYounger'
<1>0. /\ sequence \in Nat /\ frontend \in Seq(Orders)
      /\ Len(frontend) \in Nat
      /\ \A i \in 1 .. Len(frontend) : frontend[i].sequence \in Nat
  BY OrderFields DEF TypeOK
(* The orders received, old and new, against the next number. *)
<1>1. sequence' \in {sequence, sequence + 1}
  BY DEF Next, BrokerStep, vars, SendOrder, Greet, Fill, Stop, Poll, RouteOrder, DropOrder, Crash,
     ReceiveOrder, ReceiveMotto, IgnoreMessage, ReceiveMessage, Register
<1>2. ASSUME NEW w \in Services, NEW k \in 1 .. Len(Received(w)')
      PROVE  Received(w)'[k].sequence < sequence'
  <2>1. CASE k \in 1 .. Len(Received(w)) /\ Received(w)'[k] = Received(w)[k]
    BY <1>0, <1>1, <2>1, OrderFields DEF FrontendYounger
  <2>2. CASE Routed(w) /\ Received(w)'[k] = Head(frontend)
    <3>1. Head(frontend) = frontend[1] /\ 1 \in 1 .. Len(frontend)
      BY <1>0, <2>2 DEF Routed
    <3> QED
      BY <1>0, <1>1, <2>2, <3>1 DEF FrontendYounger
  <2> QED
    BY <2>1, <2>2, ReceivedOld
<1>3. ASSUME NEW code \in Assets, SendOrder(code) PROVE FrontendYounger'
  <2> DEFINE o == [sequence |-> sequence, code |-> code]
             n == Len(frontend)
  <2>1. o \in Orders /\ o.sequence = sequence
    BY <1>0 DEF Orders
  <2>2. /\ Len(frontend') = n + 1 /\ frontend'[n + 1] = o
        /\ \A i \in 1 .. n : frontend'[i] = frontend[i]
    BY <1>0, <1>3, <2>1, AppendElements DEF SendOrder
  <2>3. sequence' = sequence + 1 /\ \A w \in Services : Received(w)' = Received(w)
    BY <1>3 DEF SendOrder, Received
  <2> HIDE DEF o, n
  <2>4. n \in Nat /\ n = Len(frontend)
    BY <1>0 DEF n
  <2>5. ASSUME NEW i \in 1 .. n + 1
        PROVE  (i \in 1 .. n /\ frontend'[i] = frontend[i]) \/ (i = n + 1 /\ frontend'[i] = o)
    BY <2>2, <2>4
  <2>6. Ascending(frontend)'
    <3> SUFFICES ASSUME NEW i \in 1 .. n + 1, NEW j \in 1 .. n + 1, i < j
                 PROVE  frontend'[i].sequence < frontend'[j].sequence
      BY <2>2 DEF Ascending
    <3>1. i \in 1 .. n /\ frontend'[i] = frontend[i]
      BY <2>4, <2>5
    <3>2. CASE j \in 1 .. n /\ frontend'[j] = frontend[j]
      BY <2>4, <3>1, <3>2 DEF FrontendYounger, Ascending
    <3>3. CASE frontend'[j] = o
      BY <2>1, <2>4, <3>1, <3>3 DEF FrontendYounger
    <3> QED
      BY <2>5, <3>2, <3>3
  <2>7. ASSUME NEW i \in 1 .. n + 1
        PROVE  /\ frontend'[i].sequence < sequence'
               /\ \A w \in Services : \A k \in 1 .. Len(Received(w)) :
                    Received(w)[k].sequence < frontend'[i].sequence
    <3>1. CASE i \in 1 .. n /\ frontend'[i] = frontend[i]
      BY <1>0, <2>3, <2>4, <3>1 DEF FrontendYounger
    <3>2. CASE frontend'[i] = o
      BY <1>0, <2>1, <2>3, <3>2 DEF FrontendYounger
    <3> QED
      BY <2>5, <3>1, <3>2
  <2> QED
    BY <1>2, <2>2, <2>3, <2>6, <2>7 DEF FrontendYounger
<1>4. ASSUME frontend # <<>>, frontend' = Tail(frontend), sequence' = sequence
      PROVE  FrontendYounger'
  <2> DEFINE n == Len(frontend)
  <2>1. /\ n \in Nat \ {0} /\ Len(frontend') = n - 1 /\ Head(frontend) = frontend[1]
        /\ \A i \in 1 .. n - 1 : frontend'[i] = frontend[i + 1]
    BY <1>0, <1>4, HeadTail
  <2> HIDE DEF n
  <2>2. ASSUME NEW i \in 1 .. n - 1
        PROVE  /\ i + 1 \in 1 .. n /\ 1 \in 1 .. n /\ 1 < i + 1
               /\ frontend'[i] = frontend[i + 1]
    BY <2>1
  <2>3. Ascending(frontend)'
    <3> SUFFICES ASSUME NEW i \in 1 .. n - 1, NEW j \in 1 .. n - 1, i < j
                 PROVE  frontend'[i].sequence < frontend'[j].sequence
      BY <2>1 DEF Ascending
    <3>1. i + 1 < j + 1
      BY <2>1
    <3> QED
      BY <2>2, <3>1 DEF FrontendYounger, Ascending, n
  <2>4. ASSUME NEW i \in 1 .. n - 1
        PROVE  /\ frontend'[i].sequence < sequence'
               /\ \A w \in Services : \A k \in 1 .. Len(Received(w)') :
                    Received(w)'[k].sequence < frontend'[i].sequence
    <3>1. frontend'[i].sequence < sequence'
      BY <1>4, <2>2 DEF FrontendYounger, n
    <3>2. ASSUME NEW w \in Services, NEW k \in 1 .. Len(Received(w)')
          PROVE  Received(w)'[k].sequence < frontend'[i].sequence
      <4>1. CASE k \in 1 .. Len(Received(w)) /\ Received(w)'[k] = Received(w)[k]
        BY <2>2, <4>1 DEF FrontendYounger, n
      <4>2. CASE Received(w)'[k] = Head(frontend)
        BY <2>1, <2>2, <4>2 DEF FrontendYounger, Ascending, n
      <4> QED
        BY <4>1, <4>2, ReceivedOld
    <3> QED
      BY <3>1, <3>2
  <2> QED
    BY <1>2, <2>1, <2>3, <2>4 DEF FrontendYounger
<1>5. ASSUME frontend' = frontend, sequence' = sequence PROVE FrontendYounger'
  <2>1. ASSUME NEW w \in Services, Routed(w) PROVE FALSE
    <3>1. frontend # <<>> /\ frontend' = Tail(frontend)
      BY <2>1 DEF Routed, RouteOrder, ReceiveOrder
    <3>2. Len(Tail(frontend)) = Len(frontend) - 1
      BY <1>0, <3>1, HeadTail
    <3> QED
      BY <1>0, <1>5, <3>1, <3>2
  <2>2. ASSUME NEW w \in Services, NEW k \in 1 .. Len(Received(w)')
        PROVE  k \in 1 .. Len(Received(w)) /\ Received(w)'[k] = Received(w)[k]
    BY <2>1, ReceivedOld
  <2> QED
    BY <1>2, <1>5, <2>2 DEF FrontendYounger, Ascending
<1>6. ASSUME frontend # <<>>,
             RouteOrder(Head(frontend)) \/ DropOrder(Head(frontend)) \/ Crash(Head(frontend))
      PROVE  FrontendYounger'
  BY <1>4, <1>6 DEF RouteOrder, DropOrder, Crash, ReceiveOrder
<1> QED
  BY <1>3, <1>5, <1>6 DEF Next, BrokerStep, vars, Greet, Fill, Stop, Poll,
     ReceiveMotto, IgnoreMessage, ReceiveMessage, Register

------------------------------------------------------------------------------
(* The first service of an asset stays its first service.                  *)

LEMMA FirstStays ==
  ASSUME TypeOK, [Next]_vars, NEW c \in Codes, Registered(c)
  PROVE  Registered(c)' /\ FirstWorker(c)' = FirstWorker(c)
<1>1. ASSUME NEW w \in Services, Register(w)
      PROVE  Registered(c)' /\ FirstWorker(c)' = FirstWorker(c)
  <2> DEFINE s == workersPerAsset[c]
             d == Head(backend[w])
  <2>1. s \in Seq(Services) /\ s # <<>> /\ workerAddress \in Services
    BY <1>1 DEF TypeOK, Registered, Register
  <2>2. workersPerAsset'[c] = s \/ workersPerAsset'[c] = Append(s, workerAddress)
    BY <1>1 DEF Register, TypeOK
  <2> HIDE DEF s
  <2>3. Append(s, workerAddress) # <<>> /\ Head(Append(s, workerAddress)) = Head(s)
    BY <2>1
  <2> QED
    BY <2>1, <2>2, <2>3 DEF Registered, FirstWorker, s
<1>2. CASE UNCHANGED workersPerAsset
  BY <1>2 DEF Registered, FirstWorker
<1> QED
  BY <1>1, <1>2 DEF Next, BrokerStep, vars, broker, SendOrder, Greet, Fill, Stop, Poll, RouteOrder,
     DropOrder, Crash, ReceiveOrder, ReceiveMotto, IgnoreMessage, ReceiveMessage

LEMMA NextRoutedToFirst ==
  ASSUME TypeOK, TypeOK', RoutedToFirst, [Next]_vars
  PROVE  RoutedToFirst'
<1> SUFFICES ASSUME NEW w \in Services, NEW k \in 1 .. Len(Received(w)')
             PROVE  /\ workersPerAsset'[Received(w)'[k].code] # <<>>
                    /\ Head(workersPerAsset'[Received(w)'[k].code]) = w
  BY DEF RoutedToFirst, Registered, FirstWorker
<1>1. CASE k \in 1 .. Len(Received(w)) /\ Received(w)'[k] = Received(w)[k]
  <2> DEFINE code == Received(w)[k].code
  <2>1. code \in Codes
    BY <1>1, OrderFields DEF Orders, Codes
  <2>2. Registered(code) /\ FirstWorker(code) = w
    BY <1>1 DEF RoutedToFirst
  <2> QED
    BY <1>1, <2>1, <2>2, FirstStays DEF Registered, FirstWorker
<1>2. CASE Routed(w) /\ Received(w)'[k] = Head(frontend)
  <2> DEFINE code == Head(frontend).code
  <2>1. code \in Codes /\ Registered(code) /\ FirstWorker(code) = w
    BY <1>2, HeadOrder DEF Routed, RouteOrder, Codes
  <2> QED
    BY <1>2, <2>1, FirstStays DEF Registered, FirstWorker
<1> QED
  BY <1>1, <1>2, ReceivedOld
------------------------------------------------------------------------------
(* Greetings.                                                              *)

(* After one message of a service is received, its motto is not to come.   *)
LEMMA TakeMessage ==
  ASSUME TypeOK, GreetingsShape, NEW w \in Services, backend[w] # <<>>
  PROVE  /\ said[w] # 0
         /\ \A i \in 1 .. Len(Tail(backend[w])) : Tail(backend[w])[i] # Motto
         /\ Tail(backend[w]) = <<>> \/ Head(Tail(backend[w])) # Motto
<1> DEFINE s == backend[w]
<1>1. s \in Seq(Codes) /\ \A i \in 1 .. Len(s) : s[i] = Motto => i = 1
  BY DEF TypeOK, GreetingsShape
<1>2. said[w] # 0
  BY DEF GreetingsShape
<1>3. /\ Tail(s) \in Seq(Codes) /\ Len(Tail(s)) = Len(s) - 1 /\ Len(s) \in Nat
      /\ \A i \in 1 .. Len(s) - 1 : Tail(s)[i] = s[i + 1]
  BY <1>1, HeadTail
<1>4. ASSUME NEW i \in 1 .. Len(Tail(s)) PROVE Tail(s)[i] # Motto
  <2>1. i + 1 \in 1 .. Len(s) /\ i + 1 # 1 /\ i \in 1 .. Len(s) - 1
    BY <1>3
  <2> QED
    BY <1>1, <1>3, <2>1
<1>5. ASSUME Tail(s) # <<>> PROVE Head(Tail(s)) # Motto
  <2>1. Head(Tail(s)) = Tail(s)[1] /\ 1 \in 1 .. Len(Tail(s))
    BY <1>3, <1>5
  <2> QED
    BY <1>4, <2>1
<1> QED
  BY <1>2, <1>4, <1>5

LEMMA NextGreetingsShape ==
  ASSUME TypeOK, GreetingsShape, [Next]_vars
  PROVE  GreetingsShape'
<1>1. ASSUME UNCHANGED <<said, backend, workersPerAsset, workerAddress>>,
             workerAddress # NoService => pc' = pc
      PROVE  GreetingsShape'
  BY <1>1 DEF GreetingsShape, Stranger, InTable
<1>2. ASSUME NEW v \in Services, Greet(v) PROVE GreetingsShape'
  <2>0. /\ said[v] \in {0, 1} /\ UNCHANGED <<workersPerAsset, workerAddress, pc>>
        /\ said' = [said EXCEPT ![v] = @ + 1]
        /\ backend' = [backend EXCEPT ![v] = Append(@, IF said[v] = 0 THEN Motto ELSE Asset[v])]
    BY <1>2 DEF Greet, broker, TypeOK
  <2>1. ASSUME NEW w \in Services, w # v
        PROVE  said'[w] = said[w] /\ backend'[w] = backend[w]
    BY <2>0, <2>1 DEF TypeOK
  <2> DEFINE s == backend[v]
             m == IF said[v] = 0 THEN Motto ELSE Asset[v]
  <2>2. /\ s \in Seq(Codes) /\ m \in Codes /\ backend'[v] = Append(s, m) /\ said'[v] # 0
        /\ m = Motto => s = <<>> /\ said[v] = 0
    <3>1. m \in Codes /\ (m = Motto => said[v] = 0)
      BY ServiceAssumption DEF Codes
    <3>2. said'[v] # 0
      BY <2>0 DEF TypeOK
    <3>3. backend'[v] = Append(s, m)
      BY <2>0 DEF TypeOK
    <3> QED
      BY <3>1, <3>2, <3>3 DEF TypeOK, GreetingsShape
  <2> HIDE DEF m
  <2>3. /\ Len(s) \in Nat /\ Len(Append(s, m)) = Len(s) + 1 /\ Append(s, m)[Len(s) + 1] = m
        /\ \A i \in 1 .. Len(s) : Append(s, m)[i] = s[i]
    BY <2>2, AppendElements
  <2>4. ASSUME NEW i \in 1 .. Len(s) + 1, Append(s, m)[i] = Motto PROVE i = 1
    <3>1. i \in 1 .. Len(s) \/ i = Len(s) + 1
      BY <2>3
    <3>2. CASE i \in 1 .. Len(s)
      BY <2>3, <2>4, <3>2 DEF GreetingsShape
    <3>3. CASE i = Len(s) + 1
      <4>1. s = <<>>
        BY <2>2, <2>3, <2>4, <3>3
      <4>2. Len(s) = 0
        BY <4>1
      <4> QED
        BY <3>3, <4>2
    <3> QED
      BY <3>1, <3>2, <3>3
  <2>5. Stranger(v)' => Stranger(v)
    <3> SUFFICES ASSUME Stranger(v)' PROVE Stranger(v)
      OBVIOUS
    <3>1. Head(Append(s, m)) = Motto
      BY <2>2 DEF Stranger
    <3>2. CASE s = <<>>
      <4>1. Head(Append(s, m)) = m
        BY <2>2, <3>2
      <4> QED
        BY <2>2, <3>1, <4>1 DEF Stranger
    <3>3. CASE s # <<>>
      <4>1. Head(Append(s, m)) = Head(s)
        BY <2>2, <3>3
      <4> QED
        BY <3>1, <3>3, <4>1 DEF Stranger
    <3> QED
      BY <3>2, <3>3
  <2> HIDE DEF s
  <2>6. \A i \in 1 .. Len(backend'[v]) : backend'[v][i] = Motto => i = 1
    BY <2>2, <2>3, <2>4
  <2>7. \A w \in Services : Stranger(w)' => Stranger(w)
    BY <2>1, <2>5 DEF Stranger
  <2>8. \A w \in Services : /\ said'[w] = 0 => backend'[w] = <<>>
                            /\ \A i \in 1 .. Len(backend'[w]) : backend'[w][i] = Motto => i = 1
    BY <2>1, <2>2, <2>6 DEF GreetingsShape
  <2> QED
    BY <2>0, <2>7, <2>8 DEF GreetingsShape, InTable
<1>3. ASSUME NEW v \in Services, ReceiveMotto(v) PROVE GreetingsShape'
  <2>0. /\ pc = "handling" /\ backend[v] # <<>> /\ Head(backend[v]) = Motto
        /\ backend' = [backend EXCEPT ![v] = Tail(@)]
        /\ UNCHANGED <<workersPerAsset, said>>
        /\ workerAddress' = v /\ pc' = "greeting"
    BY <1>3 DEF ReceiveMotto, ReceiveMessage, IsMotto
  <2>1. ASSUME NEW w \in Services, w # v PROVE backend'[w] = backend[w]
    BY <2>0, <2>1 DEF TypeOK
  <2>2. backend'[v] = Tail(backend[v])
    BY <2>0 DEF TypeOK
  <2>3. Stranger(v) /\ ~InTable(v)
    BY <2>0 DEF Stranger, GreetingsShape
  <2>4. ~Stranger(v)'
    BY <2>0, <2>2, TakeMessage DEF Stranger
  <2> QED
    BY <2>0, <2>1, <2>2, <2>3, <2>4, TakeMessage DEF GreetingsShape, Stranger, InTable
<1>4. ASSUME NEW v \in Services, IgnoreMessage(v) PROVE GreetingsShape'
  <2>0. /\ pc = "handling" /\ backend[v] # <<>>
        /\ backend' = [backend EXCEPT ![v] = Tail(@)]
        /\ UNCHANGED <<workersPerAsset, said, workerAddress>>
    BY <1>4 DEF IgnoreMessage, ReceiveMessage
  <2>1. ASSUME NEW w \in Services, w # v PROVE backend'[w] = backend[w]
    BY <2>0, <2>1 DEF TypeOK
  <2>2. backend'[v] = Tail(backend[v])
    BY <2>0 DEF TypeOK
  <2>3. ~Stranger(v)' /\ workerAddress = NoService
    BY <2>0, <2>2, TakeMessage DEF Stranger, GreetingsShape
  <2> QED
    BY <2>0, <2>1, <2>2, <2>3, TakeMessage DEF GreetingsShape, Stranger, InTable
<1>5. ASSUME NEW v \in Services, Register(v) PROVE GreetingsShape'
  <2> DEFINE d == Head(backend[v])
             g == workerAddress
  <2>0. /\ pc = "greeting" /\ backend[v] # <<>> /\ g \in Services
        /\ backend' = [backend EXCEPT ![v] = Tail(@)]
        /\ workersPerAsset' = [workersPerAsset EXCEPT ![d] = Append(@, g)]
        /\ UNCHANGED said /\ workerAddress' = NoService
    BY <1>5 DEF Register, TypeOK
  <2>1. ASSUME NEW w \in Services, w # v PROVE backend'[w] = backend[w]
    BY <2>0, <2>1 DEF TypeOK
  <2>2. backend'[v] = Tail(backend[v]) /\ ~Stranger(v)'
    BY <2>0, TakeMessage DEF TypeOK, Stranger
  <2>3. ASSUME NEW w \in Services, w # g, ~InTable(w) PROVE ~InTable(w)'
    <3> SUFFICES ASSUME NEW c \in Codes, NEW i \in 1 .. Len(workersPerAsset'[c])
                 PROVE  workersPerAsset'[c][i] # w
      BY DEF InTable
    <3> DEFINE s == workersPerAsset[c]
    <3>1. s \in Seq(Services) /\ \A k \in 1 .. Len(s) : s[k] # w
      BY <2>3 DEF TypeOK, InTable
    <3>2. workersPerAsset'[c] = s \/ workersPerAsset'[c] = Append(s, g)
      BY <2>0 DEF TypeOK
    <3>3. CASE workersPerAsset'[c] = s
      BY <3>1, <3>3
    <3>4. CASE workersPerAsset'[c] = Append(s, g)
      <4> HIDE DEF s
      <4>1. Len(s) \in Nat /\ Len(Append(s, g)) = Len(s) + 1 /\ Append(s, g)[Len(s) + 1] = g
            /\ \A k \in 1 .. Len(s) : Append(s, g)[k] = s[k]
        BY <2>0, <3>1, AppendElements
      <4>2. i \in 1 .. Len(s) \/ i = Len(s) + 1
        BY <3>4, <4>1
      <4> QED
        BY <2>3, <3>1, <3>4, <4>1, <4>2
    <3> QED
      BY <3>2, <3>3, <3>4
  <2>4. ASSUME NEW w \in Services, Stranger(w)' PROVE Stranger(w) /\ w # g /\ ~InTable(w)'
    <3>1. w # v
      BY <2>2, <2>4
    <3>2. Stranger(w)
      BY <2>0, <2>1, <2>4, <3>1 DEF Stranger
    <3>3. w # g /\ ~InTable(w)
      BY <3>2 DEF GreetingsShape
    <3> QED
      BY <2>3, <3>2, <3>3
  <2>5. \A w \in Services : workerAddress' # w
    BY <2>0, ServiceAssumption
  <2>6. ASSUME NEW w \in Services
        PROVE  /\ said'[w] = 0 => backend'[w] = <<>>
               /\ \A i \in 1 .. Len(backend'[w]) : backend'[w][i] = Motto => i = 1
    BY <2>0, <2>1, <2>2, TakeMessage DEF GreetingsShape
  <2> QED
    BY <2>0, <2>4, <2>5, <2>6 DEF GreetingsShape
<1>6. ASSUME NEW v \in Services, Fill(v) \/ Stop(v) PROVE GreetingsShape'
  BY <1>1, <1>6 DEF Fill, Stop, broker
<1>7. ASSUME NEW code \in Assets, SendOrder(code) PROVE GreetingsShape'
  BY <1>1, <1>7 DEF SendOrder, broker
<1>8. CASE Poll
  <2>1. workerAddress = NoService
    BY <1>8 DEF Poll, GreetingsShape
  <2> QED
    BY <1>1, <1>8, <2>1 DEF Poll
<1>9. ASSUME frontend # <<>>,
             RouteOrder(Head(frontend)) \/ DropOrder(Head(frontend)) \/ Crash(Head(frontend))
      PROVE  GreetingsShape'
  <2>1. pc = "handling" /\ UNCHANGED <<said, backend, workersPerAsset, workerAddress>>
    BY <1>9 DEF RouteOrder, DropOrder, Crash, ReceiveOrder
  <2>2. workerAddress = NoService
    BY <2>1 DEF GreetingsShape
  <2> QED
    BY <1>1, <2>1, <2>2
<1>10. CASE UNCHANGED vars
  BY <1>1, <1>10 DEF vars
<1> QED
  BY <1>2, <1>3, <1>4, <1>5, <1>6, <1>7, <1>8, <1>9, <1>10 DEF Next, BrokerStep

LEMMA NextRegisteredOnce ==
  ASSUME TypeOK, GreetingsShape, RegisteredOnce, [Next]_vars
  PROVE  RegisteredOnce'
<1>1. ASSUME NEW v \in Services, Register(v) PROVE RegisteredOnce'
  <2> DEFINE e == Head(backend[v])
             g == workerAddress
             s == workersPerAsset[e]
  <2>0. /\ g \in Services /\ e \in Codes /\ s \in Seq(Services) /\ ~InTable(g)
        /\ workersPerAsset' = [workersPerAsset EXCEPT ![e] = Append(@, g)]
    BY <1>1, HeadMessage, ServiceAssumption DEF Register, TypeOK, GreetingsShape
  <2>1. ASSUME NEW c \in Codes, c # e PROVE workersPerAsset'[c] = workersPerAsset[c]
    BY <2>0, <2>1 DEF TypeOK
  <2>2. workersPerAsset'[e] = Append(s, g)
    BY <2>0 DEF TypeOK
  <2>3. /\ Len(s) \in Nat /\ Len(Append(s, g)) = Len(s) + 1 /\ Append(s, g)[Len(s) + 1] = g
        /\ \A k \in 1 .. Len(s) : Append(s, g)[k] = s[k]
    BY <2>0, AppendElements
  <2> HIDE DEF e, g
  (* A place of the new table is one of the old table or the new one. *)
  <2>4. ASSUME NEW c \in Codes, NEW i \in 1 .. Len(workersPerAsset'[c])
        PROVE  \/ /\ i \in 1 .. Len(workersPerAsset[c])
                  /\ workersPerAsset'[c][i] = workersPerAsset[c][i]
                  /\ workersPerAsset[c][i] # g
               \/ c = e /\ i = Len(s) + 1 /\ workersPerAsset'[c][i] = g
    <3>1. CASE c # e
      BY <2>0, <2>1, <3>1 DEF InTable
    <3>2. CASE c = e
      <4>1. i \in 1 .. Len(s) \/ i = Len(s) + 1
        BY <2>2, <2>3, <3>2
      <4> QED
        BY <2>0, <2>2, <2>3, <3>2, <4>1 DEF InTable
    <3> QED
      BY <3>1, <3>2
  <2> SUFFICES ASSUME NEW c \in Codes, NEW d \in Codes,
                      NEW i \in 1 .. Len(workersPerAsset'[c]),
                      NEW j \in 1 .. Len(workersPerAsset'[d]),
                      workersPerAsset'[c][i] = workersPerAsset'[d][j]
               PROVE  c = d /\ i = j
    BY DEF RegisteredOnce
  <2>5. CASE workersPerAsset'[c][i] = g
    <3>1. c = e /\ i = Len(s) + 1
      BY ONLY <2>4, <2>5
    <3>2. d = e /\ j = Len(s) + 1
      BY ONLY <2>4, <2>5, workersPerAsset'[c][i] = workersPerAsset'[d][j]
    <3> QED
      BY <3>1, <3>2
  <2>6. CASE workersPerAsset'[c][i] # g
    <3>1. i \in 1 .. Len(workersPerAsset[c]) /\ workersPerAsset'[c][i] = workersPerAsset[c][i]
      BY ONLY <2>4, <2>6
    <3>2. j \in 1 .. Len(workersPerAsset[d]) /\ workersPerAsset'[d][j] = workersPerAsset[d][j]
      BY ONLY <2>4, <2>6, workersPerAsset'[c][i] = workersPerAsset'[d][j]
    <3>3. workersPerAsset[c][i] = workersPerAsset[d][j]
      BY ONLY <3>1, <3>2, workersPerAsset'[c][i] = workersPerAsset'[d][j]
    <3> QED
      BY ONLY RegisteredOnce, <3>1, <3>2, <3>3 DEF RegisteredOnce
  <2> QED
    BY <2>5, <2>6
<1>2. CASE UNCHANGED workersPerAsset
  BY <1>2 DEF RegisteredOnce
<1> QED
  BY <1>1, <1>2 DEF Next, BrokerStep, vars, broker, SendOrder, Greet, Fill, Stop, Poll, RouteOrder,
     DropOrder, Crash, ReceiveOrder, ReceiveMotto, IgnoreMessage, ReceiveMessage

------------------------------------------------------------------------------
(* The inductive invariant holds in every state of every behaviour.        *)
THEOREM Invariance == Spec => []IInv
<1>1. Init => IInv
  BY InitIInv
<1>2. IInv /\ [Next]_vars => IInv'
  <2> SUFFICES ASSUME IInv, [Next]_vars PROVE IInv'
    OBVIOUS
  <2>1. TypeOK'
    BY NextTypeOK DEF IInv
  <2>2. FrontendYounger'
    BY <2>1, NextFrontendYounger DEF IInv
  <2>3. RoutedToFirst'
    BY <2>1, NextRoutedToFirst DEF IInv
  <2>4. GreetingsShape'
    BY NextGreetingsShape DEF IInv
  <2>5. InOrder'
    BY <2>1, NextInOrder DEF IInv
  <2>6. RegisteredOnce'
    BY NextRegisteredOnce DEF IInv
  <2> QED
    BY <2>1, <2>2, <2>3, <2>4, <2>5, <2>6 DEF IInv
<1> QED
  BY <1>1, <1>2, PTL DEF Spec

(* Type correctness.                                                       *)
THEOREM TypeCorrect == Spec => []TypeOK
<1>1. IInv => TypeOK
  BY DEF IInv
<1> QED
  BY <1>1, Invariance, PTL

(* Every service gets its orders in the order they were sent, none twice.  *)
THEOREM StaysInOrder == Spec => []InOrder
<1>1. IInv => InOrder
  BY DEF IInv
<1> QED
  BY <1>1, Invariance, PTL

(* The orders of an asset all go to one service.                           *)
THEOREM NeverSplit == Spec => []OneBook
<1>1. IInv => OneBook
  BY DEF IInv, RoutedToFirst, OneBook
<1> QED
  BY <1>1, Invariance, PTL

(* No service is registered twice.                                         *)
THEOREM RegistersOnce == Spec => []RegisteredOnce
<1>1. IInv => RegisteredOnce
  BY DEF IInv
<1> QED
  BY <1>1, Invariance, PTL
==============================================================================
