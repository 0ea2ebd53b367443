-------------------------------- MODULE Wire ---------------------------------
(***************************************************************************)
(* The command string of an order (OrderRing.cpp): cmdStr() writes it,     *)
(* fromCmdStr() reads it back into an order that exists already, which in  *)
(* FillOrderBook.hxx is one static object used for every command and in    *)
(* MatchEngineBroker.cpp one variable of main.                             *)
(*                                                                         *)
(* A string is the sequence of its tokens, what lies between spaces.  A    *)
(* token is a word or a number: <<"word", w>>, <<"number", n>>.  Numbers   *)
(* are written in full, so that reading one back gives its value, but for  *)
(* the sequence: an int64 is written and std::stoi, an int's, reads it.    *)
(***************************************************************************)
EXTENDS Integers, Sequences

CONSTANT IntMax \* the greatest int

ASSUME IntAssumption == IntMax \in Nat

Word(w) == <<"word", w>>
Number(n) == <<"number", n>>
IsWord(t) == t[1] = "word"
IsNumber(t) == t[1] = "number"

(* The words for OrderType and MatchType, and what a word stands for.      *)
TypeWord == [Ask |-> "ASK", Bid |-> "BID", Cancel |-> "CAN"]
MatchTypeWord == [Market |-> "MARKET", Limit |-> "LIMIT"]
Spells(words, v, t) == t = Word(words[v])
Meaning(words, t) == CHOOSE v \in DOMAIN words : Spells(words, v, t)

(* Order::cmdStr.  The code, a word here, is not quoted.                   *)
CmdStr(o) ==
  <<Word("ORDER"), Number(o.sequence), Word(TypeWord[o.type]), Word(MatchTypeWord[o.matchType]),
    Word(o.code), Number(o.quantity), Number(o.price)>>

(* fromCmdStr goes on after its k-th token: the prefix, the sequence, the  *)
(* type, the match type, the code, the quantity, the price.                *)
Accepts(k, t) ==
  CASE k = 1 -> t = Word("ORDER")
    [] k = 2 -> IsNumber(t) /\ t[2] <= IntMax
    [] k = 3 -> \E v \in DOMAIN TypeWord : Spells(TypeWord, v, t)
    [] k = 4 -> \E v \in DOMAIN MatchTypeWord : Spells(MatchTypeWord, v, t)
    [] k = 5 -> TRUE
    [] k \in {6, 7} -> IsNumber(t)

(* How many tokens of s fromCmdStr accepts before it throws, or asserts    *)
(* that there is one more.  What is behind the seventh is not looked at.   *)
Accepted(s) ==
  CHOOSE n \in 0 .. 7 :
    /\ n <= Len(s) /\ \A k \in 1 .. n : Accepts(k, s[k])
    /\ n = 7 \/ n = Len(s) \/ ~Accepts(n + 1, s[n + 1])

(* Mutant: the price is left as it was.                                    *)
FromCmdStrNoPrice(o, s) ==
  LET n == Accepted(s) IN
  [sequence  |-> IF n >= 2 THEN s[2][2] ELSE o.sequence,
   type      |-> IF n >= 3 THEN Meaning(TypeWord, s[3]) ELSE o.type,
   matchType |-> IF n >= 4 THEN Meaning(MatchTypeWord, s[4]) ELSE o.matchType,
   code      |-> IF n >= 5 THEN s[5][2] ELSE o.code,
   quantity  |-> IF n >= 6 THEN s[6][2] ELSE o.quantity,
   price     |-> o.price]

(* Order::fromCmdStr on the order o: each field is assigned as its token is*)
(* read, those before the token that is refused included.                  *)
FromCmdStr(o, s) ==
  LET n == Accepted(s) IN
  [sequence  |-> IF n >= 2 THEN s[2][2] ELSE o.sequence,
   type      |-> IF n >= 3 THEN Meaning(TypeWord, s[3]) ELSE o.type,
   matchType |-> IF n >= 4 THEN Meaning(MatchTypeWord, s[4]) ELSE o.matchType,
   code      |-> IF n >= 5 THEN s[5][2] ELSE o.code,
   quantity  |-> IF n >= 6 THEN s[6][2] ELSE o.quantity,
   price     |-> IF n >= 7 THEN s[7][2] ELSE o.price]

Throws(s) == Accepted(s) < 7
==============================================================================
