---------------------------- MODULE ReadersProofs ----------------------------
(***************************************************************************)
(* Proofs about Readers, for any number of rings of any size, any messages,*)
(* any counts in a type of any width, and any batch sizes.                 *)
(***************************************************************************)
EXTENDS Readers, FiniteSetTheorems, TLAPS

------------------------------------------------------------------------------
(* Counting ends of stream.                                                *)

(* The ends of stream among positions i to j of s: Eos, of any ring.       *)
EosOf(s, i, j) == Cardinality({p \in i .. j : s[p] = eos})

LEMMA EosIsNat ==
  ASSUME NEW s, NEW i \in Int, NEW j \in Int
  PROVE  /\ IsFiniteSet({p \in i .. j : s[p] = eos})
         /\ EosOf(s, i, j) \in Nat
<1>1. IsFiniteSet(i .. j)
  BY FS_Interval
<1>2. IsFiniteSet({p \in i .. j : s[p] = eos})
  BY <1>1, FS_Subset
<1> QED
  BY <1>2, FS_CardinalityType DEF EosOf

LEMMA EosOfNone ==
  ASSUME NEW s, NEW i \in Int, NEW j \in Int, j < i
  PROVE  EosOf(s, i, j) = 0
<1>1. {p \in i .. j : s[p] = eos} = {}
  OBVIOUS
<1> QED
  BY <1>1, FS_EmptySet DEF EosOf

(* One message more is one more or none.                                   *)
LEMMA EosOfNext ==
  ASSUME NEW s, NEW i \in Int, NEW j \in Int, i <= j + 1
  PROVE  EosOf(s, i, j + 1) = EosOf(s, i, j) + (IF s[j + 1] = eos THEN 1 ELSE 0)
<1> DEFINE S == {p \in i .. j : s[p] = eos}
           T == {p \in i .. j + 1 : s[p] = eos}
<1>1. IsFiniteSet(S) /\ Cardinality(S) \in Nat
  BY EosIsNat DEF EosOf
<1>2. CASE s[j + 1] = eos
  <2>1. T = S \cup {j + 1} /\ j + 1 \notin S
    BY <1>2
  <2> HIDE DEF S, T
  <2>2. Cardinality(T) = Cardinality(S) + 1
    BY <1>1, <2>1, FS_AddElement
  <2> QED
    BY <1>2, <2>2 DEF EosOf, S, T
<1>3. CASE s[j + 1] # eos
  <2>1. T = S
    BY <1>3
  <2> HIDE DEF S, T
  <2>2. Cardinality(T) = Cardinality(S) + 0
    BY <1>1, <2>1
  <2> QED
    BY <1>3, <2>2 DEF EosOf, S, T
<1> QED
  BY <1>2, <1>3

LEMMA EosOfSame ==
  ASSUME NEW s, NEW t, NEW i \in Int, NEW j \in Int, \A p \in i .. j : s[p] = t[p]
  PROVE  EosOf(t, i, j) = EosOf(s, i, j)
<1>1. {p \in i .. j : t[p] = eos} = {p \in i .. j : s[p] = eos}
  OBVIOUS
<1> QED
  BY <1>1 DEF EosOf

(* --_remaining, in a size_t: what is left of d is d - 1.                  *)
LEMMA Decrement ==
  ASSUME NEW d \in 1 .. Width
  PROVE  ((IF d = Width THEN 0 ELSE d) - 1) % Width = d - 1
<1>1. Width \in Nat \ {0}
  BY ReadersAssumption
<1>2. CASE d = Width
  <2>1. (0 - 1) % Width = Width - 1
    BY <1>1
  <2> QED
    BY <1>1, <1>2, <2>1
<1>3. CASE d # Width
  <2>1. d - 1 \in 0 .. Width - 1
    BY <1>1, <1>3
  <2>2. (d - 1) % Width = d - 1
    BY <1>1, <2>1
  <2> QED
    BY <1>3, <2>2
<1> QED
  BY <1>2, <1>3

------------------------------------------------------------------------------
(* Sequences.                                                              *)

LEMMA AppendElements ==
  ASSUME NEW S, NEW s \in Seq(S), NEW e \in S
  PROVE  /\ Append(s, e) \in Seq(S)
         /\ Len(s) \in Nat /\ Len(Append(s, e)) = Len(s) + 1
         /\ \A i \in 1 .. Len(s) : Append(s, e)[i] = s[i]
         /\ Append(s, e)[Len(s) + 1] = e
  OBVIOUS

(* A greater number at the end of a rising sequence of numbers.            *)
LEMMA AppendRising ==
  ASSUME NEW s \in Seq(Nat), NEW e \in Nat,
         \A i \in 1 .. Len(s) : s[i] < e,
         \A i, j \in 1 .. Len(s) : i < j => s[i] < s[j]
  PROVE  LET t == Append(s, e) IN
         /\ {t[i] : i \in 1 .. Len(t)} = {s[i] : i \in 1 .. Len(s)} \cup {e}
         /\ \A i, j \in 1 .. Len(t) : i < j => t[i] < t[j]
<1> DEFINE t == Append(s, e)
<1>1. /\ Len(s) \in Nat /\ Len(t) = Len(s) + 1
      /\ \A i \in 1 .. Len(s) : t[i] = s[i]
      /\ t[Len(s) + 1] = e
  BY AppendElements
<1> HIDE DEF t
<1>2. {t[i] : i \in 1 .. Len(t)} = {s[i] : i \in 1 .. Len(s)} \cup {e}
  BY <1>1
<1>3. ASSUME NEW i \in 1 .. Len(t), NEW j \in 1 .. Len(t), i < j
      PROVE  t[i] < t[j]
  BY <1>1, <1>3
<1> QED
  BY <1>2, <1>3 DEF t
------------------------------------------------------------------------------
(* The inductive invariant: how each action keeps it.                      *)

LEMMA Facts ==
  ASSUME TypeOK
  PROVE  /\ Rings \in Nat \ {0} /\ 1 \in 1 .. Rings /\ at \in 1 .. Rings
         /\ Size \in Nat \ {0} /\ Width \in Nat \ {0}
         /\ it \in Nat /\ end \in Nat
         /\ \A r \in 1 .. Rings :
              /\ log[r] \in Seq(Msgs \cup {eos}) /\ Len(log[r]) \in Nat
              /\ released[r] \in Nat /\ from[r] \in Nat /\ there[r] \in Nat
              /\ handled[r] \in Seq(Nat) /\ Len(handled[r]) \in Nat
<1>1. /\ Rings \in Nat \ {0} /\ at \in 1 .. Rings /\ Size \in Nat \ {0}
      /\ Width \in Nat \ {0} /\ it \in Nat /\ end \in Nat
      /\ log \in [1 .. Rings -> Seq(Msgs \cup {eos})]
      /\ released \in [1 .. Rings -> Nat] /\ from \in [1 .. Rings -> Nat]
      /\ there \in [1 .. Rings -> Nat] /\ handled \in [1 .. Rings -> Seq(Nat)]
  BY ReadersAssumption DEF TypeOK
<1>2. 1 \in 1 .. Rings
  BY ONLY <1>1
<1>3. ASSUME NEW r \in 1 .. Rings
      PROVE  /\ log[r] \in Seq(Msgs \cup {eos}) /\ Len(log[r]) \in Nat
             /\ released[r] \in Nat /\ from[r] \in Nat /\ there[r] \in Nat
             /\ handled[r] \in Seq(Nat) /\ Len(handled[r]) \in Nat
  <2>1. log[r] \in Seq(Msgs \cup {eos}) /\ handled[r] \in Seq(Nat)
    BY ONLY <1>1, <1>3
  <2>2. Len(log[r]) \in Nat /\ Len(handled[r]) \in Nat
    BY ONLY <2>1
  <2>3. released[r] \in Nat /\ from[r] \in Nat /\ there[r] \in Nat
    BY ONLY <1>1, <1>3
  <2> QED
    BY ONLY <2>1, <2>2, <2>3
<1> QED
  BY ONLY <1>1, <1>2, <1>3

(* What CheckEOS has been shown of a call, and what it has still to see.   *)
LEMMA DueIs ==
  ASSUME Control, loop = "consume"
  PROVE  Due \in 1 .. Width /\ arg \in 0 .. Width - 1
         /\ (arg = 0 <=> Due = Width)
  BY ReadersAssumption DEF Control, Due

LEMMA InitIInv == Init => IInv
<1> SUFFICES ASSUME Init PROVE IInv
  OBVIOUS
<1>1. TypeOK
  BY ReadersAssumption DEF Init, TypeOK
<1>2. Control
  BY ReadersAssumption DEF Init, Control
<1>3. Cursors
  BY ReadersAssumption DEF Init, Cursors
<1>4. Given
  <2>1. \A r \in 1 .. Rings : Handled(r) = {} /\ Reached(r) = 0 /\ Len(handled[r]) = 0
    BY DEF Init, Handled, Reached
  <2>2. \A r \in 1 .. Rings : (1 .. Reached(r)) \ lost = {} /\ 1 .. Len(handled[r]) = {}
    BY <2>1
  <2>3. lost = {}
    BY DEF Init
  <2> QED
    BY <2>1, <2>2, <2>3 DEF Given
<1>5. Counted
  BY <1>1, Facts DEF Init, Counted
<1>6. Selected
  BY <1>1, Facts DEF Init, Selected
<1> QED
  BY <1>1, <1>2, <1>3, <1>4, <1>5, <1>6 DEF IInv

(* A message more on a ring changes nothing of what has been read.         *)
LEMMA OnRingKeeps ==
  ASSUME IInv, NEW r \in Read, NEW m \in Msgs \cup {eos}, OnRing(r, m), r \in 1 .. Rings,
         stop' \in {"before", "said", "done"}
  PROVE  IInv'
<1>1. /\ TypeOK /\ Control /\ Cursors /\ Given /\ Counted /\ Selected
      /\ Len(log[r]) < released[r] + Size
      /\ log' = [log EXCEPT ![r] = Append(@, m)]
      /\ UNCHANGED <<loop, released, pc, at, it, end, arg, _remaining, from, there,
                     m_running, handled, lost>>
  BY DEF IInv, OnRing, HasRoom, call
<1>2. /\ log' \in [1 .. Rings -> Seq(Msgs \cup {eos})]
      /\ \A q \in 1 .. Rings :
           /\ Len(log'[q]) \in Nat
           /\ Len(log[q]) <= Len(log'[q]) /\ Len(log'[q]) <= released[q] + Size
           /\ \A p \in 1 .. Len(log[q]) : log'[q][p] = log[q][p]
           /\ q # r => log'[q] = log[q]
  <2>1. /\ Append(log[r], m) \in Seq(Msgs \cup {eos})
        /\ Len(Append(log[r], m)) = Len(log[r]) + 1
        /\ \A p \in 1 .. Len(log[r]) : Append(log[r], m)[p] = log[r][p]
    BY <1>1, Facts, AppendElements
  <2>2. log'[r] = Append(log[r], m) /\ \A q \in (1 .. Rings) \ {r} : log'[q] = log[q]
    BY <1>1 DEF TypeOK
  <2>3. log' \in [1 .. Rings -> Seq(Msgs \cup {eos})]
    BY <1>1, <2>1 DEF TypeOK
  <2>4. Len(log'[r]) = Len(log[r]) + 1 /\ Len(log[r]) + 1 <= released[r] + Size
    BY <1>1, <2>1, <2>2, Facts
  <2>5. ASSUME NEW q \in 1 .. Rings
        PROVE  /\ Len(log'[q]) \in Nat
               /\ Len(log[q]) <= Len(log'[q]) /\ Len(log'[q]) <= released[q] + Size
               /\ \A p \in 1 .. Len(log[q]) : log'[q][p] = log[q][p]
               /\ q # r => log'[q] = log[q]
    <3>1. CASE q = r
      <4>1. Len(log[r]) \in Nat
        BY <1>1, Facts
      <4> QED
        BY <2>1, <2>2, <2>4, <3>1, <4>1
    <3>2. CASE q # r
      <4>1. log'[q] = log[q] /\ Len(log[q]) \in Nat /\ Len(log[q]) <= released[q] + Size
        BY <1>1, <2>2, <3>2, Facts DEF Cursors
      <4> QED
        BY <3>2, <4>1
    <3> QED
      BY <3>1, <3>2
  <2> QED
    BY <2>3, <2>5
<1>3. TypeOK'
  BY <1>1, <1>2 DEF TypeOK
<1>4. Control'
  BY <1>1, <1>2 DEF Control, Read
<1>5. Cursors'
  <2>1. ASSUME NEW q \in 1 .. Rings PROVE released[q] <= Len(log'[q])
    <3>1. /\ released[q] <= Len(log[q]) /\ Len(log[q]) <= Len(log'[q])
          /\ released[q] \in Nat /\ Len(log[q]) \in Nat /\ Len(log'[q]) \in Nat
      <4>1. released[q] <= Len(log[q])
        BY <1>1 DEF Cursors
      <4>2. released[q] \in Nat /\ Len(log[q]) \in Nat
        BY <1>1, Facts
      <4> QED
        BY ONLY <1>2, <4>1, <4>2
    <3> QED
      BY ONLY <3>1
  <2>2. pc \in {"handling", "testing"} => end <= Len(log'[at])
    BY <1>1, <1>2, Facts DEF Cursors
  <2> QED
    BY <1>1, <1>2, <2>1, <2>2 DEF Cursors
<1>6. Given'
  BY <1>1 DEF Given, Handled, Reached
<1>7. Counted'
  <2> SUFFICES ASSUME loop = "consume" PROVE Counted'
    BY <1>1 DEF Counted
  <2>1. /\ it \in Nat /\ from[1] + 1 \in Int /\ from[1] \in Nat /\ Len(log[1]) \in Nat
        /\ Len(log'[1]) \in Nat /\ Len(log[1]) <= Len(log'[1])
        /\ released[1] \in Nat /\ released[1] <= Len(log[1]) /\ it <= Len(log[1])
        /\ \A p \in 1 .. Len(log[1]) : log'[1][p] = log[1][p]
    <3>1. /\ 1 \in 1 .. Rings /\ it \in Nat /\ from[1] \in Nat /\ Len(log[1]) \in Nat
          /\ released[1] \in Nat
      BY <1>1, Facts
    <3>2. released[1] <= Len(log[1]) /\ it <= Len(log[1])
      BY <1>1, <3>1 DEF Counted, Cursors
    <3> QED
      BY <1>2, <3>1, <3>2
  <2>2. Tested \in Int /\ Tested <= Len(log[1])
    BY <2>1 DEF Tested
  <2>3. it <= Len(log'[1]) /\ Tested' = Tested
    BY <1>1, <2>1 DEF Tested
  <2>4. EosOf(log'[1], from[1] + 1, Tested) = EosOf(log[1], from[1] + 1, Tested)
    <3>1. \A p \in from[1] + 1 .. Tested : log'[1][p] = log[1][p]
      BY <2>1, <2>2
    <3>2. from[1] + 1 \in Int /\ Tested \in Int
      BY ONLY <2>1, <2>2
    <3> QED
      BY ONLY <3>1, <3>2, EosOfSame
  <2>5. EosOf(log'[1], from[1] + 1, it) = EosOf(log[1], from[1] + 1, it)
    <3>1. \A p \in from[1] + 1 .. it : log'[1][p] = log[1][p]
      BY <2>1
    <3>2. it \in Int
      BY <2>1
    <3>3. from[1] + 1 \in Int
      BY ONLY <2>1
    <3> QED
      BY ONLY <3>1, <3>2, <3>3, EosOfSame
  <2>6. it > 0 => log'[1][it] = log[1][it]
    BY <1>1, <1>2, <2>1, Facts
  <2>7. Due' = Due
    BY <1>1 DEF Due
  <2> QED
    BY <1>1, <2>3, <2>4, <2>5, <2>6, <2>7 DEF Counted, EosOf, Eos
<1>8. Selected'
  <2>1. loop = "select" => \A q \in 1 .. Rings : there[q] <= Len(log'[q])
    BY <1>1, <1>2, Facts, SMTT(30) DEF Selected
  <2> QED
    BY <1>1, <2>1 DEF Selected, Served
<1> QED
  BY <1>3, <1>4, <1>5, <1>6, <1>7, <1>8 DEF IInv

LEMMA StopLowersKeeps ==
  ASSUME IInv, StopLowers
  PROVE  IInv'
<1>1. UNCHANGED <<loop, log, released, pc, at, it, end, arg, _remaining, from, there,
                  handled, lost>>
      /\ m_running' \in BOOLEAN /\ stop' \in {"before", "said", "done"}
  BY DEF StopLowers, call
<1>2. TypeOK' /\ Control' /\ Cursors'
  BY <1>1 DEF IInv, TypeOK, Control, Read, Cursors
<1>3. Given'
  BY <1>1 DEF IInv, Given, Handled, Reached
<1>4. Counted'
  BY <1>1 DEF IInv, Counted, Eos, Due, Tested
<1>5. Selected'
  BY <1>1 DEF IInv, Selected, Served
<1> QED
  BY <1>2, <1>3, <1>4, <1>5 DEF IInv

LEMMA ConsumeKeeps ==
  ASSUME IInv, NEW n \in Counts, Consume(n)
  PROVE  IInv'
<1>1. /\ TypeOK /\ Control /\ Cursors /\ Given /\ Counted
      /\ loop = "consume" /\ pc = "idle" /\ pc' = "claiming"
      /\ _remaining' = n /\ arg' = n /\ from' = released
      /\ there' = [r \in 1 .. Rings |-> Len(log[r])]
      /\ UNCHANGED <<loop, log, released, at, it, end, m_running, stop, handled, lost>>
  BY DEF IInv, Consume, Begin, writer
<1>2. n \in 0 .. Width - 1
  BY ReadersAssumption
<1>3. TypeOK'
  BY <1>1, <1>2, Facts DEF TypeOK
<1>4. Control' /\ Cursors'
  BY <1>1, <1>2 DEF Control, Read, Cursors
<1>5. Given'
  BY <1>1 DEF Given, Handled, Reached
<1>6. Counted'
  <2>1. Tested' = released[1]
    BY <1>1 DEF Tested
  <2>2. EosOf(log[1], released[1] + 1, released[1]) = 0
    BY <1>1, EosOfNone, Facts
  <2>3. Eos(from[1] + 1, Tested)' = 0
    BY <1>1, <2>1, <2>2 DEF Eos, EosOf
  <2>4. Due' \in 1 .. Width /\ Due' - 0 = (IF n = 0 THEN Width ELSE n)
    BY <1>1, <1>2, ReadersAssumption DEF Due
  <2>5. it <= released[1] /\ it <= Len(log[1])
    BY <1>1 DEF Counted
  <2>6. released[1] <= released[1]
    BY <1>1, Facts
  <2> QED
    BY <1>1, <1>2, <2>3, <2>4, <2>5, <2>6 DEF Counted
<1>7. Selected'
  BY <1>1 DEF Selected
<1> QED
  BY <1>3, <1>4, <1>5, <1>6, <1>7 DEF IInv

LEMMA SelectKeeps ==
  ASSUME IInv, NEW batchSize \in Limits, Select(batchSize)
  PROVE  IInv'
<1>1. /\ TypeOK /\ Control /\ Cursors /\ Given
      /\ loop = "select" /\ pc = "idle" /\ pc' = "claiming" /\ at = 1
      /\ arg' = batchSize /\ from' = released
      /\ there' = [r \in 1 .. Rings |-> Len(log[r])]
      /\ UNCHANGED <<loop, log, released, at, it, end, _remaining, m_running, stop, handled, lost>>
  BY DEF IInv, Select, Begin, writer, Control
<1>2. TypeOK'
  BY <1>1, Facts DEF TypeOK
<1>3. Control' /\ Cursors'
  BY <1>1 DEF Control, Read, Cursors
<1>4. Given'
  BY <1>1 DEF Given, Handled, Reached
<1>5. Counted'
  BY <1>1 DEF Counted
<1>6. Selected'
  <2>1. \A r \in 1 .. Rings : released[r] <= Len(log[r])
    BY <1>1 DEF Cursors
  <2>2. 1 .. at' - 1 = {}
    BY <1>1
  <2> QED
    BY <1>1, <2>1, <2>2, Facts DEF Selected
<1> QED
  BY <1>2, <1>3, <1>4, <1>5, <1>6 DEF IInv

LEMMA CheckRunningKeeps ==
  ASSUME IInv, CheckRunning
  PROVE  IInv'
<1>1. /\ TypeOK /\ Control /\ Cursors /\ Given
      /\ pc = "checking" /\ pc' \in {"claiming", "ended"} /\ loop = "writer"
      /\ UNCHANGED <<loop, log, released, at, it, end, arg, _remaining, from, there,
                     m_running, stop, handled, lost>>
  BY DEF IInv, CheckRunning, call, writer, Control
<1>2. TypeOK' /\ Control' /\ Cursors'
  BY <1>1 DEF TypeOK, Control, Read, Cursors
<1>3. Given'
  BY <1>1 DEF Given, Handled, Reached
<1>4. Counted' /\ Selected'
  BY <1>1 DEF Counted, Selected
<1> QED
  BY <1>2, <1>3, <1>4 DEF IInv

LEMMA ClaimKeeps ==
  ASSUME IInv, Claim
  PROVE  IInv'
<1>1. /\ TypeOK /\ Control /\ Cursors /\ Given /\ Counted /\ Selected
      /\ pc = "claiming" /\ pc' = "handling"
      /\ it' = released[at] /\ end' = BatchEnd
      /\ UNCHANGED <<loop, log, released, at, arg, _remaining, from, there,
                     m_running, stop, handled, lost>>
  BY DEF IInv, Claim, call, writer
<1>2. /\ BatchEnd \in Nat /\ released[at] <= BatchEnd /\ BatchEnd <= Len(log[at])
      /\ loop = "select" /\ arg # Unlimited => arg \in Nat \ {0}
      /\ loop = "select" =>
           IF arg = Unlimited THEN BatchEnd = Len(log[at])
           ELSE /\ BatchEnd <= released[at] + arg
                /\ BatchEnd < released[at] + arg => BatchEnd = Len(log[at])
  <2>1. loop = "select" /\ arg # Unlimited => arg \in Nat \ {0}
    BY <1>1, ReadersAssumption DEF Control
  <2>2. released[at] <= Len(log[at])
    BY <1>1, Facts DEF Cursors
  <2> QED
    BY <1>1, <2>1, <2>2, Facts, SMTT(30) DEF BatchEnd
<1>3. TypeOK'
  BY <1>1, <1>2, Facts DEF TypeOK
<1>4. Control'
  BY <1>1 DEF Control, Read
<1>5. Cursors'
  BY <1>1, <1>2, Facts DEF Cursors
<1>6. Given'
  <2>1. \A r \in 1 .. Rings : Reached(r)' = Reached(r)
    BY <1>1 DEF Reached
  <2>2. \A r \in 1 .. Rings : Handled(r)' = Handled(r)
    BY <1>1 DEF Handled
  <2> QED
    BY <1>1, <2>1, <2>2 DEF Given
<1>7. Counted'
  <2> SUFFICES ASSUME loop = "consume" PROVE Counted'
    BY <1>1 DEF Counted
  <2>1. at = 1 /\ it' = released[1] /\ Tested' = Tested
    BY <1>1 DEF Control, Tested
  <2>2. Eos(from[1] + 1, Tested)' = Eos(from[1] + 1, Tested) /\ Due' = Due
    BY <1>1, <2>1 DEF Eos, Due
  <2>3. released[1] <= Len(log[1])
    BY <1>1, Facts DEF Cursors
  <2> QED
    BY <1>1, <2>1, <2>2, <2>3 DEF Counted
<1>8. Selected'
  <2> SUFFICES ASSUME loop = "select" PROVE Selected'
    BY <1>1 DEF Selected
  <2>1. released[at] = from[at] /\ there[at] <= Len(log[at])
    BY <1>1, Facts DEF Selected
  <2>2. Served(at, BatchEnd)
    BY <1>1, <1>2, <2>1, Facts DEF Served
  <2> QED
    BY <1>1, <2>2 DEF Selected, Served
<1> QED
  BY <1>3, <1>4, <1>5, <1>6, <1>7, <1>8 DEF IInv

LEMMA HandleKeeps ==
  ASSUME IInv, Handle
  PROVE  IInv'
<1>1. /\ TypeOK /\ Control /\ Cursors /\ Given /\ Counted /\ Selected
      /\ pc = "handling" /\ it < end /\ it' = it + 1
      /\ pc' = IF loop = "consume" THEN "testing" ELSE "handling"
      /\ handled' = [handled EXCEPT ![at] = Append(@, it + 1)]
      /\ UNCHANGED <<loop, log, released, at, end, arg, _remaining, from, there,
                     m_running, stop, lost>>
  BY DEF IInv, Handle, call, writer
<1>2. released[at] <= it /\ it + 1 <= end /\ end <= Len(log[at]) /\ it + 1 \in Nat
  BY <1>1, Facts DEF Cursors
<1>3. /\ handled'[at] = Append(handled[at], it + 1)
      /\ \A r \in (1 .. Rings) \ {at} : handled'[r] = handled[r]
      /\ handled' \in [1 .. Rings -> Seq(Nat)]
  <2>1. Append(handled[at], it + 1) \in Seq(Nat)
    BY <1>1, <1>2, Facts, AppendElements
  <2> QED
    BY <1>1, <2>1, Facts DEF TypeOK
<1>4. TypeOK'
  BY <1>1, <1>2, <1>3 DEF TypeOK
<1>5. Control'
  <2>1. at \in Read
    BY <1>1, Facts DEF Control, Read
  <2> QED
    BY <1>1, <1>3, <2>1 DEF Control, Read
<1>6. Cursors'
  BY <1>1, <1>2, Facts DEF Cursors
<1>7. Given'
  <2>1. \A r \in (1 .. Rings) \ {at} : Reached(r)' = Reached(r) /\ Handled(r)' = Handled(r)
    BY <1>1, <1>3 DEF Reached, Handled
  <2>2. Reached(at) = it /\ Reached(at)' = it + 1
    BY <1>1 DEF Reached
  <2>3. Handled(at) = (1 .. it) \ lost
    BY <1>1, <2>2, Facts DEF Given
  <2>4. \A i \in 1 .. Len(handled[at]) : handled[at][i] < it + 1
    <3> SUFFICES ASSUME NEW i \in 1 .. Len(handled[at]) PROVE handled[at][i] < it + 1
      OBVIOUS
    <3>1. handled[at][i] \in Handled(at)
      BY DEF Handled
    <3>2. handled[at][i] \in 1 .. it /\ it \in Nat
      BY <1>1, <2>3, <3>1, Facts
    <3> QED
      BY ONLY <3>2
  <2>5. /\ Handled(at)' = Handled(at) \cup {it + 1}
        /\ \A i, j \in 1 .. Len(handled'[at]) : i < j => handled'[at][i] < handled'[at][j]
    <3>1. /\ handled[at] \in Seq(Nat)
          /\ \A i, j \in 1 .. Len(handled[at]) : i < j => handled[at][i] < handled[at][j]
      BY <1>1, Facts DEF Given
    <3>2. it + 1 \in Nat /\ handled'[at] = Append(handled[at], it + 1)
      BY ONLY <1>2, <1>3
    <3> DEFINE h == handled[at]
               t == Append(h, it + 1)
    <3>3. /\ {t[i] : i \in 1 .. Len(t)} = {h[i] : i \in 1 .. Len(h)} \cup {it + 1}
          /\ \A i, j \in 1 .. Len(t) : i < j => t[i] < t[j]
      <4>1. h \in Seq(Nat) /\ it + 1 \in Nat
            /\ (\A i \in 1 .. Len(h) : h[i] < it + 1)
            /\ (\A i, j \in 1 .. Len(h) : i < j => h[i] < h[j])
        BY ONLY <2>4, <3>1, <3>2
      <4> HIDE DEF h
      <4> QED
        BY ONLY <4>1, AppendRising, Zenon
    <3>4. h = handled[at] /\ t = handled'[at] /\ at' = at
      BY <1>1, <3>2
    <3> HIDE DEF h, t
    <3> QED
      BY ONLY <3>3, <3>4 DEF Handled
  <2>6. it + 1 \notin lost
    <3>1. CASE loop = "consume"
      BY <1>1, <1>2, <3>1, Facts DEF Control, Given
    <3>2. CASE loop # "consume"
      BY <1>1, <3>2 DEF Given
    <3> QED
      BY <3>1, <3>2
  <2>7. Handled(at)' = (1 .. it + 1) \ lost
    BY <1>1, <2>3, <2>5, <2>6, Facts
  <2> QED
    BY <1>1, <1>3, <2>1, <2>2, <2>5, <2>7 DEF Given
<1>8. Counted'
  <2> SUFFICES ASSUME loop = "consume" PROVE Counted'
    BY <1>1 DEF Counted
  <2>1. at = 1 /\ Tested' = Tested
    BY <1>1, Facts DEF Control, Tested
  <2>2. Eos(from[1] + 1, Tested)' = Eos(from[1] + 1, Tested) /\ Due' = Due
    BY <1>1, <2>1 DEF Eos, Due
  <2>3. it' <= Len(log[1])
    BY <1>1, <1>2, <2>1, Facts
  <2> QED
    BY <1>1, <2>1, <2>2, <2>3 DEF Counted
<1>9. Selected'
  BY <1>1 DEF Selected, Served
<1> QED
  BY <1>4, <1>5, <1>6, <1>7, <1>8, <1>9 DEF IInv

(* One message more has been tested.                                       *)
LEMMA CountMakes ==
  ASSUME IInv, pc = "testing", Count
  PROVE  /\ loop = "consume" /\ at = 1 /\ it \in Nat /\ it \in 1 .. Len(log[1])
         /\ Due \in 1 .. Width
         /\ Eos(from[1] + 1, it) \in Nat
         /\ Ends => Eos(from[1] + 1, it) = Due /\ log[1][it] = eos
         /\ ~Ends => Eos(from[1] + 1, it) < Due
                    /\ _remaining' = IF arg = 0 /\ Eos(from[1] + 1, it) = 0 THEN 0
                                     ELSE Due - Eos(from[1] + 1, it)
         /\ _remaining' \in 0 .. Width - 1
<1>1. TypeOK /\ Control /\ Cursors /\ Counted /\ loop = "consume" /\ at = 1
  BY DEF IInv, Control
<1>2. /\ it \in Nat /\ from[1] \in Nat /\ Len(log[1]) \in Nat /\ released[1] \in Nat
      /\ end \in Nat /\ Width \in Nat \ {0}
  BY <1>1, Facts
<1>3. from[1] <= released[1] /\ released[1] < it /\ it <= end /\ end <= Len(log[1])
  BY <1>1, <1>2 DEF Counted, Cursors
<1> DEFINE e == Eos(from[1] + 1, it - 1)
           d == Due - e
           isEos == log[1][it] = eos
<1>4. Eos(from[1] + 1, it) = e + (IF isEos THEN 1 ELSE 0) /\ e \in Nat
  <2>1. from[1] + 1 \in Int /\ it - 1 \in Int /\ from[1] + 1 <= (it - 1) + 1 /\ (it - 1) + 1 = it
    BY <1>2, <1>3
  <2>2. EosOf(log[1], from[1] + 1, (it - 1) + 1) =
          EosOf(log[1], from[1] + 1, it - 1) + (IF log[1][(it - 1) + 1] = eos THEN 1 ELSE 0)
        /\ EosOf(log[1], from[1] + 1, it - 1) \in Nat
    BY <2>1, EosOfNext, EosIsNat
  <2> QED
    BY <2>1, <2>2 DEF Eos, EosOf
<1>5. Due \in 1 .. Width /\ arg \in 0 .. Width - 1 /\ (arg = 0 <=> Due = Width)
  BY <1>1, DueIs
<1>6. e < Due /\ _remaining = IF arg = 0 /\ e = 0 THEN 0 ELSE Due - e
  BY <1>1, <1>2 DEF Counted, Tested
<1>7. _remaining' = IF isEos THEN (_remaining - 1) % Width ELSE _remaining
  BY <1>1 DEF Count
<1>8. Ends <=> isEos /\ (_remaining - 1) % Width = 0
  BY <1>1 DEF Ends
<1> HIDE DEF e, isEos
<1>9. d \in 1 .. Width /\ (d = Width <=> arg = 0 /\ e = 0)
  BY <1>2, <1>4, <1>5, <1>6
<1>10. _remaining = IF d = Width THEN 0 ELSE d
  BY <1>6, <1>9
<1>11. (_remaining - 1) % Width = d - 1
  BY <1>9, <1>10, Decrement
<1> HIDE DEF d
<1>12. d = Due - e
  BY DEF d
<1>13. CASE isEos
  <2>1. Ends <=> d = 1
    BY <1>8, <1>9, <1>11, <1>13
  <2>2. Eos(from[1] + 1, it) = e + 1
    BY <1>4, <1>13
  <2>3. _remaining' = d - 1
    BY <1>7, <1>11, <1>13
  <2>4. Ends => Eos(from[1] + 1, it) = Due
    BY <1>4, <1>5, <1>12, <2>1, <2>2
  <2>5. ~Ends => Eos(from[1] + 1, it) < Due /\ _remaining' = Due - Eos(from[1] + 1, it)
    BY <1>2, <1>4, <1>5, <1>9, <1>12, <2>1, <2>2, <2>3
  <2>6. Eos(from[1] + 1, it) \in Nat /\ Eos(from[1] + 1, it) # 0
    BY <1>4, <2>2
  <2>7. _remaining' \in 0 .. Width - 1
    BY <1>2, <1>9, <2>3
  <2> QED
    BY <1>1, <1>2, <1>3, <1>5, <1>13, <2>4, <2>5, <2>6, <2>7 DEF isEos
<1>14. CASE ~isEos
  <2>1. ~Ends /\ Eos(from[1] + 1, it) = e /\ _remaining' = _remaining
    BY <1>4, <1>7, <1>8, <1>14
  <2>2. _remaining \in 0 .. Width - 1
    BY <1>2, <1>9, <1>10
  <2> QED
    BY <1>1, <1>2, <1>3, <1>4, <1>5, <1>6, <2>1, <2>2
<1> QED
  BY <1>13, <1>14

LEMMA GoOnKeeps ==
  ASSUME IInv, GoOn
  PROVE  IInv'
<1>1. /\ TypeOK /\ Control /\ Cursors /\ Given /\ Counted
      /\ pc = "testing" /\ pc' = "handling" /\ ~Ends /\ Count
      /\ UNCHANGED <<loop, log, released, at, it, end, arg, from, there, m_running, stop,
                     handled, lost>>
  BY DEF IInv, GoOn, Count, writer
<1>2. /\ loop = "consume" /\ at = 1 /\ it \in Nat
      /\ Eos(from[1] + 1, it) < Due
      /\ _remaining' = IF arg = 0 /\ Eos(from[1] + 1, it) = 0 THEN 0
                       ELSE Due - Eos(from[1] + 1, it)
      /\ _remaining' \in 0 .. Width - 1
  BY <1>1, CountMakes
<1>3. TypeOK' /\ Control' /\ Cursors'
  BY <1>1, <1>2 DEF TypeOK, Control, Read, Cursors
<1>4. Given'
  <2>1. \A r \in 1 .. Rings : Reached(r)' = Reached(r) /\ Handled(r)' = Handled(r)
    BY <1>1 DEF Reached, Handled
  <2> QED
    BY <1>1, <2>1 DEF Given
<1>5. Counted'
  <2>1. Tested' = it /\ Due' = Due
    BY <1>1 DEF Tested, Due
  <2>2. Eos(from[1] + 1, Tested)' = Eos(from[1] + 1, it)
    BY <1>1, <2>1 DEF Eos
  <2> QED
    BY <1>1, <1>2, <2>1, <2>2 DEF Counted
<1>6. Selected'
  BY <1>1, <1>2 DEF Selected
<1> QED
  BY <1>3, <1>4, <1>5, <1>6 DEF IInv

LEMMA ReturnKeeps ==
  ASSUME IInv, Return
  PROVE  IInv'
<1>1. /\ TypeOK /\ Control /\ Cursors /\ Given /\ Counted
      /\ pc = "testing" /\ pc' = "idle" /\ Ends /\ Count
      /\ released' = [released EXCEPT ![at] = end]
      /\ lost' = lost \cup (it + 1 .. end)
      /\ UNCHANGED <<loop, log, at, it, end, arg, from, there, m_running, stop, handled>>
  BY DEF IInv, Return, Count, writer
<1>2. /\ loop = "consume" /\ at = 1 /\ it \in 1 .. Len(log[1])
      /\ Eos(from[1] + 1, it) = Due /\ log[1][it] = eos
      /\ _remaining' \in 0 .. Width - 1
  BY <1>1, CountMakes
<1>3. /\ Len(log[1]) \in Nat /\ released[1] \in Nat /\ from[1] \in Nat /\ it \in Nat
      /\ end \in Nat /\ 1 \in 1 .. Rings /\ Size \in Nat
  BY <1>1, Facts
<1>4. /\ released[1] < it /\ it <= end /\ end <= Len(log[1])
      /\ Len(log[1]) <= released[1] + Size
  BY <1>1, <1>2, <1>3 DEF Cursors
<1>5. /\ released' \in [1 .. Rings -> Nat] /\ released'[1] = end
      /\ \A r \in (1 .. Rings) \ {1} : released'[r] = released[r]
  BY <1>1, <1>2, <1>3 DEF TypeOK
<1>6. TypeOK'
  <2>1. it + 1 .. end \subseteq Nat /\ lost \subseteq Nat
    BY <1>1, <1>3 DEF TypeOK
  <2>2. lost' \subseteq Nat
    BY ONLY <1>1, <2>1
  <2> QED
    BY <1>1, <1>2, <1>5, <2>2 DEF TypeOK
<1>7. Control'
  BY <1>1, <1>2, <1>5 DEF Control, Read
<1>8. Cursors'
  <2>1. released'[1] <= Len(log[1]) /\ Len(log[1]) <= released'[1] + Size
    BY <1>3, <1>4, <1>5
  <2> QED
    BY <1>1, <1>5, <2>1 DEF Cursors
<1>9. Given'
  <2>1. Handled(1) = (1 .. it) \ lost /\ lost \subseteq 1 .. released[1]
    BY <1>1, <1>2, <1>3 DEF Given, Reached
  <2>2. (1 .. it) \ lost = (1 .. end) \ lost'
    BY <1>1, <1>3, <1>4, <2>1
  <2>3. lost' \subseteq 1 .. released'[1]
    BY <1>1, <1>3, <1>4, <1>5, <2>1
  <2>4. \A r \in 1 .. Rings : Handled(r)' = Handled(r) /\ Reached(r)' = released'[r]
    BY <1>1 DEF Handled, Reached
  <2>5. ASSUME NEW r \in (1 .. Rings) \ {1}
        PROVE  Handled(r) = (1 .. released'[r]) \ lost'
    <3>1. handled[r] = <<>> /\ released[r] = 0
      BY <1>1, <1>2 DEF Control, Read
    <3>2. Handled(r) = {}
      BY <3>1 DEF Handled
    <3> QED
      BY <1>5, <3>1, <3>2
  <2> QED
    BY <1>1, <1>2, <1>5, <2>1, <2>2, <2>3, <2>4, <2>5 DEF Given
<1>10. Counted'
  <2>1. Eos(from[1] + 1, it)' = Eos(from[1] + 1, it) /\ Due' = Due
    BY <1>1 DEF Eos, Due
  <2>2. from[1] <= released'[1]
    BY <1>1, <1>2, <1>3, <1>4, <1>5 DEF Counted
  <2>3. it <= released'[1] /\ it <= Len(log[1])
    BY <1>3, <1>4, <1>5
  <2> QED
    BY <1>1, <1>2, <2>1, <2>2, <2>3 DEF Counted
<1>11. Selected'
  BY <1>1, <1>2 DEF Selected
<1> QED
  BY <1>6, <1>7, <1>8, <1>9, <1>10, <1>11 DEF IInv

LEMMA ReleaseBatchKeeps ==
  ASSUME IInv, ReleaseBatch
  PROVE  IInv'
<1>1. /\ TypeOK /\ Control /\ Cursors /\ Given /\ Counted /\ Selected
      /\ pc = "handling" /\ it = end
      /\ released' = [released EXCEPT ![at] = end]
      /\ at' = NextRing
      /\ UNCHANGED <<loop, log, it, end, arg, _remaining, from, there, m_running, stop,
                     handled, lost>>
  BY DEF IInv, ReleaseBatch, Release, call, writer
<1>2. /\ at \in 1 .. Rings /\ Rings \in Nat \ {0} /\ Size \in Nat
      /\ Len(log[at]) \in Nat /\ released[at] \in Nat /\ from[at] \in Nat
      /\ it \in Nat /\ end \in Nat
  BY <1>1, Facts
<1>3. /\ released[at] <= end /\ end <= Len(log[at]) /\ Len(log[at]) <= released[at] + Size
  BY <1>1, <1>2 DEF Cursors
<1>4. /\ released' \in [1 .. Rings -> Nat] /\ released'[at] = end
      /\ \A r \in (1 .. Rings) \ {at} : released'[r] = released[r]
  BY <1>1, <1>2 DEF TypeOK
<1>5. /\ at' \in 1 .. Rings
      /\ loop = "consume" => pc' = "claiming" /\ at = 1 /\ at' = 1
      /\ loop = "writer" => pc' = "checking" /\ at = 1 /\ at' = 1
      /\ loop = "select" => \/ at < Rings /\ at' = at + 1 /\ pc' = "claiming"
                            \/ at = Rings /\ at' = 1 /\ pc' = "idle"
      /\ loop \in {"consume", "select", "writer"}
  <2>1. loop \in {"consume", "select", "writer"}
    BY <1>1 DEF TypeOK
  <2>2. loop # "select" => at = 1 /\ at' = 1
    BY <1>1, <1>2 DEF Control, NextRing
  <2>3. loop = "select" => \/ at < Rings /\ at' = at + 1 /\ at' # 1
                           \/ at = Rings /\ at' = 1
    BY <1>1, <1>2 DEF NextRing
  <2>4. pc' = CASE loop = "consume" -> "claiming"
                [] loop = "writer" -> "checking"
                [] loop = "select" -> IF at' = 1 THEN "idle" ELSE "claiming"
    BY DEF ReleaseBatch
  <2>5. CASE loop = "select"
    <3>1. pc' = IF at' = 1 THEN "idle" ELSE "claiming"
      BY <2>4, <2>5
    <3> QED
      BY <1>2, <2>3, <2>5, <3>1
  <2>6. CASE loop # "select"
    BY <1>2, <2>1, <2>2, <2>4, <2>6
  <2> QED
    BY <2>5, <2>6
<1>6. TypeOK'
  BY <1>1, <1>4, <1>5 DEF TypeOK
<1>7. Control'
  <2>1. at \in Read
    BY <1>2, <1>5 DEF Read
  <2> QED
    BY <1>1, <1>4, <1>5, <2>1 DEF Control, Read
<1>8. Cursors'
  <2>1. end <= Len(log[at]) /\ Len(log[at]) <= end + Size
    BY <1>2, <1>3
  <2>2. pc' \notin {"handling", "testing"}
    BY <1>5
  <2> QED
    BY <1>1, <1>4, <2>1, <2>2 DEF Cursors
<1>9. Given'
  <2>1. \A r \in 1 .. Rings : Handled(r)' = Handled(r) /\ Reached(r)' = released'[r]
    BY <1>1, <1>5 DEF Handled, Reached
  <2>2. \A r \in 1 .. Rings : released'[r] = Reached(r)
    BY <1>1, <1>4 DEF Reached
  <2>3. lost \subseteq 1 .. released'[1]
    <3>1. CASE loop = "consume"
      BY <1>1, <1>2, <1>3, <1>4, <1>5, <3>1 DEF Given
    <3>2. CASE loop # "consume"
      BY <1>1, <3>2 DEF Given
    <3> QED
      BY <3>1, <3>2
  <2> QED
    BY <1>1, <2>1, <2>2, <2>3 DEF Given
<1>10. Counted'
  <2> SUFFICES ASSUME loop = "consume" PROVE Counted'
    BY <1>1 DEF Counted
  <2>1. Tested = it /\ Tested' = end /\ Due' = Due
    BY <1>1, <1>4, <1>5 DEF Tested, Due
  <2>2. Eos(from[1] + 1, Tested)' = Eos(from[1] + 1, Tested)
    BY <1>1, <2>1 DEF Eos
  <2>3. from[1] <= released'[1] /\ it <= Len(log[1]) /\ it = released'[1]
    BY <1>1, <1>2, <1>3, <1>4, <1>5 DEF Counted
  <2> QED
    BY <1>1, <1>5, <2>1, <2>2, <2>3 DEF Counted
<1>11. Selected'
  <2> SUFFICES ASSUME loop = "select" PROVE Selected'
    BY <1>1 DEF Selected
  <2>1. \A r \in 1 .. at : Served(r, released'[r])
    BY <1>1, <1>2, <1>4 DEF Selected
  <2>2. CASE at < Rings /\ at' = at + 1 /\ pc' = "claiming"
    <3>1. \A r \in 1 .. at' - 1 : Served(r, released'[r])
      BY <1>2, <2>1, <2>2
    <3>2. \A r \in at' .. Rings : released'[r] = from[r]
      BY <1>1, <1>2, <1>4, <2>2 DEF Selected
    <3> QED
      BY <1>1, <2>2, <3>1, <3>2 DEF Selected, Served
  <2>3. CASE at = Rings /\ at' = 1 /\ pc' = "idle"
    BY <1>1, <2>1, <2>3 DEF Selected, Served
  <2> QED
    BY <1>5, <2>2, <2>3
<1> QED
  BY <1>6, <1>7, <1>8, <1>9, <1>10, <1>11 DEF IInv

LEMMA StutterKeeps ==
  ASSUME IInv, UNCHANGED vars
  PROVE  IInv'
<1>1. UNCHANGED <<loop, log, released, pc, at, it, end, arg, _remaining, m_running, stop,
                  from, there, handled, lost>>
  BY DEF vars
<1>2. TypeOK' /\ Control' /\ Cursors'
  BY <1>1 DEF IInv, TypeOK, Control, Read, Cursors
<1>3. Given'
  BY <1>1 DEF IInv, Given, Handled, Reached
<1>4. Counted'
  BY <1>1 DEF IInv, Counted, Eos, Due, Tested
<1>5. Selected'
  BY <1>1 DEF IInv, Selected, Served
<1> QED
  BY <1>2, <1>3, <1>4, <1>5 DEF IInv

------------------------------------------------------------------------------
(* Theorems.                                                               *)

(* The inductive invariant of the three loops.                             *)
THEOREM Invariance == Spec => []IInv
<1>1. IInv /\ [Next]_vars => IInv'
  <2> SUFFICES ASSUME IInv, [Next]_vars PROVE IInv'
    OBVIOUS
  <2>1. ASSUME NEW r \in 1 .. Rings, NEW m \in Msgs \cup {eos}, Put(r, m) PROVE IInv'
    <3>1. r \in Read /\ OnRing(r, m) /\ stop' = stop
      BY <2>1 DEF Put
    <3>2. stop' \in {"before", "said", "done"}
      BY <3>1 DEF IInv, TypeOK
    <3> QED
      BY <3>1, <3>2, OnRingKeeps
  <2>2. ASSUME NEW m \in Msgs, StopSays(m) PROVE IInv'
    <3>1. 1 \in 1 .. Rings /\ 1 \in Read
      BY ReadersAssumption DEF Read
    <3>2. OnRing(1, m) /\ stop' \in {"before", "said", "done"} /\ m \in Msgs \cup {eos}
      BY <2>2 DEF StopSays
    <3> QED
      BY <3>1, <3>2, OnRingKeeps
  <2>3. CASE StopLowers
    BY <2>3, StopLowersKeeps
  <2>4. ASSUME NEW n \in Counts, Consume(n) PROVE IInv'
    BY <2>4, ConsumeKeeps
  <2>5. CASE SelectAny
    BY <2>5, SelectKeeps DEF SelectAny
  <2>6. CASE ReaderStep
    BY <2>6, CheckRunningKeeps, ClaimKeeps, HandleKeeps, GoOnKeeps, ReturnKeeps, ReleaseBatchKeeps
       DEF ReaderStep
  <2>7. CASE UNCHANGED vars
    BY <2>7, StutterKeeps
  <2> QED
    BY <2>1, <2>2, <2>3, <2>4, <2>5, <2>6, <2>7 DEF Next
<1> QED
  BY InitIInv, <1>1, PTL DEF Spec

(* Type correctness.                                                       *)
THEOREM TypeCorrect == Spec => []TypeOK
<1>1. IInv => TypeOK
  BY DEF IInv
<1> QED
  BY <1>1, Invariance, PTL

(* Each position released was handled, once and in order, or stood behind  *)
(* the end of stream that made consume return.                             *)
THEOREM AllAccountedFor == Spec => []AccountedFor
<1>1. IInv => AccountedFor
  <2> SUFFICES ASSUME IInv, NEW r \in 1 .. Rings
               PROVE  /\ \A i, j \in 1 .. Len(handled[r]) :
                           i < j => handled[r][i] < handled[r][j]
                      /\ 1 .. released[r] \subseteq
                           Handled(r) \cup (IF loop = "consume" THEN lost ELSE {})
                      /\ Handled(r) \cap lost = {} \/ loop # "consume"
                      /\ \A p \in 1 .. Len(log[r]) - Size : p \in Handled(r) \cup lost
    BY DEF AccountedFor
  <2>1. /\ TypeOK /\ Handled(r) = (1 .. Reached(r)) \ lost
        /\ loop # "consume" => lost = {}
        /\ \A i, j \in 1 .. Len(handled[r]) : i < j => handled[r][i] < handled[r][j]
    BY DEF IInv, Given
  <2>2. /\ released[r] \in Nat /\ Reached(r) \in Nat /\ released[r] <= Reached(r)
        /\ Len(log[r]) \in Nat /\ Len(log[r]) - Size <= released[r] /\ Size \in Nat
    <3>1. /\ released[r] \in Nat /\ Len(log[r]) \in Nat /\ Size \in Nat
          /\ it \in Nat /\ Len(log[r]) <= released[r] + Size
          /\ pc \in {"handling", "testing"} => released[at] <= it
      BY <2>1, Facts DEF IInv, Cursors
    <3>2. Reached(r) \in Nat /\ released[r] <= Reached(r)
      BY ONLY <3>1 DEF Reached
    <3>3. Len(log[r]) - Size <= released[r]
      BY ONLY <3>1
    <3> QED
      BY ONLY <3>1, <3>2, <3>3
  <2>3. 1 .. released[r] \subseteq Handled(r) \cup lost
    BY <2>1, <2>2
  <2>4. 1 .. Len(log[r]) - Size \subseteq 1 .. released[r]
    BY <2>2
  <2> QED
    BY <2>1, <2>3, <2>4
<1> QED
  BY <1>1, Invariance, PTL

(* consume stops at its n-th end of stream and at no other, whatever n the *)
(* size_t holds.                                                           *)
THEOREM StopsAtItsNth == Spec => []StopsAtNth
<1>1. IInv => StopsAtNth
  <2> SUFFICES ASSUME IInv, loop = "consume" PROVE StopsAtNth
    BY DEF StopsAtNth
  <2>1. TypeOK /\ Counted /\ Control /\ Cursors
    BY DEF IInv
  <2>2. pc = "handling" => Eos(from[1] + 1, it) < Due
    BY <2>1 DEF Counted, Tested
  <2>3. pc = "testing" => Eos(from[1] + 1, it - 1) < Due
    BY <2>1 DEF Counted, Tested
  <2>4. pc = "claiming" => Eos(from[1] + 1, it) < Due
    <3> SUFFICES ASSUME pc = "claiming" PROVE Eos(from[1] + 1, it) < Due
      OBVIOUS
    <3>1. CASE it = released[1]
      BY <2>1, <3>1 DEF Counted, Tested
    <3>2. CASE it <= from[1]
      <4>1. it \in Int /\ from[1] + 1 \in Int /\ it < from[1] + 1
        BY <2>1, <3>2, Facts
      <4>2. Eos(from[1] + 1, it) = 0
        BY <4>1, EosOfNone DEF Eos, EosOf
      <4> QED
        BY <2>1, <4>2, DueIs
    <3> QED
      BY <2>1, <3>1, <3>2 DEF Counted
  <2>5. pc = "idle" /\ it > 0 => Eos(from[1] + 1, it) = Due /\ log[1][it] = eos
    BY <2>1 DEF Counted
  <2> QED
    BY <2>2, <2>3, <2>4, <2>5 DEF StopsAtNth
<1> QED
  BY <1>1, Invariance, PTL

(* When select() returns, every ring has been served.                      *)
THEOREM ServesEach == Spec => []EachServed
<1>1. IInv => EachServed
  BY DEF IInv, Selected, EachServed
<1> QED
  BY <1>1, Invariance, PTL
==============================================================================
