--------------------------- MODULE TokenizerProofs ---------------------------
(***************************************************************************)
(* Proofs about Tokenizer: the tokens of every line are what it says.      *)
(*                                                                         *)
(* The invariant relates what the loop keeps to the line as far as it has  *)
(* been read: the items that have ended are in the tokens, the one that    *)
(* has not is the current token.  A character read after an item has ended *)
(* changes nothing about it.                                               *)
(***************************************************************************)
EXTENDS Tokenizer, NaturalsInduction, WellFoundedInduction, SequenceTheorems,
        FiniteSetTheorems, TLAPS

LineChars    == Alphabet \union {" "}
TokenCategories ==
  {"label", "section", "meta", "alloc", "reg", "param", "imm", "instr", "ref", "str",
   "sep", "open", "close"}
TokenSet == [cat : TokenCategories, val : Seq(LineChars)]

-----------------------------------------------------------------------------
(* Places of a line. *)

(* Induction over the places of a line, from the least that is not in S. *)
LEMMA EveryPlace ==
  ASSUME NEW S, NEW n \in Nat, 0 \in S,
         \A m \in Nat : m < n /\ m \in S => m + 1 \in S
  PROVE  0 .. n \subseteq S
<1> DEFINE T == (0 .. n) \ S
           R == OpToRel(<, Nat)
<1> SUFFICES ASSUME T # {} PROVE FALSE
  OBVIOUS
<1>1. T \subseteq Nat
  BY SMT
<1>2. IsWellFoundedOn(R, Nat)
  BY NatLessThanWellFounded
<1> HIDE DEF R
<1>3. PICK m \in T : \A k \in T : ~(<<k, m>> \in R)
  <2> HIDE DEF T
  <2> QED BY <1>1, <1>2, WFMin
<1>4. m \in Nat /\ m <= n /\ m \notin S /\ m # 0
  BY <1>1, <1>3, SMT
<1>5. m - 1 \in Nat /\ m - 1 < n /\ m - 1 < m /\ (m - 1) + 1 = m
  BY <1>4, SMT
<1>6. m - 1 \in T
  BY <1>4, <1>5, SMT
<1>7. <<m - 1, m>> \in R
  BY <1>4, <1>5 DEF R, OpToRel
<1> QED BY <1>3, <1>6, <1>7

(* Whether place p is quoted, by what the places before it are. *)
QuotedNext(s, q, p) ==
  IF p <= 1 THEN FALSE
  ELSE IF q[p - 1] THEN s[p - 1] # Quote \/ s[p - 2] = "\\"
  ELSE s[p - 1] = Quote

QuotedRule(s, q) ==
  /\ q \in [0 .. Len(s) + 1 -> BOOLEAN]
  /\ \A p \in 0 .. Len(s) + 1 : q[p] = QuotedNext(s, q, p)

LEMMA QuotedFacts ==
  ASSUME NEW S, NEW s \in Seq(S)
  PROVE  QuotedRule(s, Quoted(s))
<1> DEFINE n == Len(s) + 1
           Rec(f, m) == \A p \in 0 .. m : f[p] = QuotedNext(s, f, p)
           F == {m \in Nat : \E f \in [0 .. m -> BOOLEAN] : Rec(f, m)}
           g == CHOOSE quoted :
                  quoted = [p \in 0 .. Len(s) + 1 |->
                              IF p <= 1 THEN FALSE
                              ELSE IF quoted[p - 1] THEN s[p - 1] # Quote \/ s[p - 2] = "\\"
                              ELSE s[p - 1] = Quote]
<1>1. n \in Nat
  BY LenProperties, SMT
<1>2. 0 \in F
  <2>1. [i \in 0 .. 0 |-> FALSE] \in [0 .. 0 -> BOOLEAN]
    OBVIOUS
  <2>2. Rec([i \in 0 .. 0 |-> FALSE], 0)
    BY SMT DEF QuotedNext
  <2> QED BY <2>1, <2>2
<1>3. ASSUME NEW m \in Nat, m \in F PROVE m + 1 \in F
  <2>1. PICK f \in [0 .. m -> BOOLEAN] : Rec(f, m)
    BY <1>3
  <2> DEFINE x == QuotedNext(s, f, m + 1)
             h == [i \in 0 .. m + 1 |-> IF i <= m THEN f[i] ELSE x]
  <2>2. x \in BOOLEAN
    BY DEF QuotedNext
  <2>3. h \in [0 .. m + 1 -> BOOLEAN]
    <3> HIDE DEF x
    <3>1. \A i \in 0 .. m + 1 : i <= m => i \in 0 .. m
      BY SMT
    <3> QED BY <2>2, <3>1
  <2>4. ASSUME NEW p \in 0 .. m + 1 PROVE h[p] = QuotedNext(s, h, p)
    <3> HIDE DEF x
    <3>1. p > 1 => p - 1 \in 0 .. m + 1 /\ p - 1 <= m /\ h[p - 1] = f[p - 1]
      BY SMT
    <3> HIDE DEF h
    <3>2. QuotedNext(s, h, p) = QuotedNext(s, f, p)
      <4>1. CASE p <= 1
        BY <4>1 DEF QuotedNext
      <4>2. CASE ~(p <= 1)
        <5>1. h[p - 1] = f[p - 1]
          BY <3>1, <4>2, SMT
        <5> QED BY <5>1 DEF QuotedNext
      <4> QED BY <4>1, <4>2
    <3>3. CASE p <= m
      <4>1. p \in 0 .. m /\ h[p] = f[p]
        BY <3>3, SMT DEF h
      <4> QED BY <2>1, <3>2, <4>1
    <3>4. CASE p = m + 1
      <4>1. h[p] = x
        BY <3>4, SMT DEF h
      <4> QED BY <3>2, <3>4, <4>1 DEF x
    <3> QED BY <3>3, <3>4, SMT
  <2>5. m + 1 \in Nat
    BY SMT
  <2> HIDE DEF h
  <2> QED BY <2>3, <2>4, <2>5
<1>4. n \in F
  <2> HIDE DEF F
  <2>1. 0 .. n \subseteq F
    BY <1>1, <1>2, <1>3, EveryPlace
  <2> QED BY <1>1, <2>1, SMT
<1>5. PICK f \in [0 .. n -> BOOLEAN] : Rec(f, n)
  BY <1>4
<1>6. f = [p \in 0 .. Len(s) + 1 |->
             IF p <= 1 THEN FALSE
             ELSE IF f[p - 1] THEN s[p - 1] # Quote \/ s[p - 2] = "\\"
             ELSE s[p - 1] = Quote]
  BY <1>5 DEF QuotedNext
<1>7. g = [p \in 0 .. Len(s) + 1 |->
             IF p <= 1 THEN FALSE
             ELSE IF g[p - 1] THEN s[p - 1] # Quote \/ s[p - 2] = "\\"
             ELSE s[p - 1] = Quote]
  BY <1>6
<1>8. Quoted(s) = g
  BY DEF Quoted
<1> HIDE DEF g
<1>9. \A p \in 0 .. n : g[p] = QuotedNext(s, g, p)
  BY <1>7 DEF QuotedNext
<1>10. g \in [0 .. n -> BOOLEAN]
  <2>1. \A p \in 0 .. n : QuotedNext(s, g, p) \in BOOLEAN
    BY DEF QuotedNext
  <2>2. DOMAIN g = 0 .. n /\ g = [p \in DOMAIN g |-> g[p]]
    BY <1>7
  <2> QED BY <1>9, <2>1, <2>2
<1> QED BY <1>8, <1>9, <1>10 DEF QuotedRule

(* Line t of n + 1 characters is line s and character c. *)
Extends(s, c, t, n) ==
  s \in Seq(LineChars) /\ c \in LineChars /\ t = Append(s, c) /\ n = Len(s)

LEMMA OneMore ==
  ASSUME NEW s, NEW c, NEW t, NEW n, Extends(s, c, t, n)
  PROVE  /\ s \in Seq(LineChars) /\ c \in LineChars /\ t \in Seq(LineChars) /\ n \in Nat
         /\ Len(s) = n /\ Len(t) = n + 1
         /\ DOMAIN s = 1 .. n /\ DOMAIN t = 1 .. n + 1
         /\ \A p \in 1 .. n : t[p] = s[p]
         /\ t[n + 1] = c
<1>1. s \in Seq(LineChars) /\ c \in LineChars /\ t = Append(s, c) /\ n = Len(s)
  BY DEF Extends
<1>2. n \in Nat /\ DOMAIN s = 1 .. n
  BY <1>1, LenProperties
<1>3. /\ t \in Seq(LineChars) /\ Len(t) = n + 1 /\ t[n + 1] = c
      /\ \A p \in 1 .. n : t[p] = s[p]
  BY <1>1, AppendProperties
<1> QED BY <1>1, <1>2, <1>3, LenProperties

LEMMA QuotedLonger ==
  ASSUME NEW s, NEW c, NEW t, NEW n, Extends(s, c, t, n)
  PROVE  /\ \A p \in 0 .. n + 1 : Quoted(t)[p] <=> Quoted(s)[p]
         /\ Quoted(t)[n + 2] <=> \/ Quoted(s)[n + 1] /\ (c # Quote \/ s[n] = "\\")
                                 \/ ~Quoted(s)[n + 1] /\ c = Quote
         /\ ~Quoted(s)[0] /\ ~Quoted(s)[1]
<1> DEFINE q == Quoted(s)
           r == Quoted(t)
           S == {p \in Nat : p <= n + 1 => r[p] = q[p] /\ (p # 0 => r[p - 1] = q[p - 1])}
<1>1. /\ s \in Seq(LineChars) /\ t \in Seq(LineChars)
      /\ n \in Nat /\ Len(s) = n /\ Len(t) = n + 1
      /\ \A p \in 1 .. n : t[p] = s[p]
      /\ t[n + 1] = c
  BY OneMore
<1>2. QuotedRule(s, q) /\ QuotedRule(t, r)
  BY <1>1, QuotedFacts
<1> HIDE DEF q, r
<1>3. /\ \A p \in 0 .. n + 1 : q[p] = QuotedNext(s, q, p) /\ q[p] \in BOOLEAN
      /\ \A p \in 0 .. n + 2 : r[p] = QuotedNext(t, r, p) /\ r[p] \in BOOLEAN
  <2>1. (n + 1) + 1 = n + 2
    BY <1>1, SMT
  <2> QED BY <1>1, <1>2, <2>1 DEF QuotedRule
<1>4. q[0] = FALSE /\ q[1] = FALSE /\ r[0] = FALSE /\ r[1] = FALSE
  <2>1. /\ 0 \in 0 .. n + 1 /\ 1 \in 0 .. n + 1 /\ 0 \in 0 .. n + 2 /\ 1 \in 0 .. n + 2
        /\ 0 <= 1 /\ 1 <= 1
    BY <1>1, SMT
  <2> QED BY <1>3, <2>1 DEF QuotedNext
<1>5. 0 \in S
  BY <1>4
<1>6. ASSUME NEW m \in Nat, m < n + 1, m \in S PROVE m + 1 \in S
  <2>1. r[m] = q[m]
    BY <1>1, <1>6, SMT
  <2>2. m + 1 \in 0 .. n + 1 /\ m + 1 \in 0 .. n + 2 /\ (m + 1) - 1 = m /\ (m + 1) - 2 = m - 1
    BY <1>1, <1>6, SMT
  <2>3. m # 0 => t[m] = s[m]
    BY <1>1, <1>6, SMT
  <2>4. m # 0 /\ q[m] => t[m - 1] = s[m - 1]
    <3>1. m # 0 /\ q[m] => m # 1
      BY <1>4
    <3> QED BY <1>1, <1>6, <3>1, SMT
  <2>5. m # 0 => r[m + 1] = q[m + 1]
    <3>1. m # 0 => ~(m + 1 <= 1)
      BY SMT
    <3>2. q[m + 1] = QuotedNext(s, q, m + 1) /\ r[m + 1] = QuotedNext(t, r, m + 1)
      BY <1>3, <2>2
    <3>3. m # 0 => /\ QuotedNext(s, q, m + 1)
                        = IF q[m] THEN s[m] # Quote \/ s[m - 1] = "\\" ELSE s[m] = Quote
                   /\ QuotedNext(t, r, m + 1)
                        = IF r[m] THEN t[m] # Quote \/ t[m - 1] = "\\" ELSE t[m] = Quote
      BY <2>2, <3>1 DEF QuotedNext
    <3> QED BY <2>1, <2>3, <2>4, <3>2, <3>3
  <2>6. m = 0 => r[m + 1] = q[m + 1]
    <3>1. m = 0 => m + 1 = 1
      BY SMT
    <3> QED BY <1>4, <3>1
  <2> QED BY <2>1, <2>2, <2>5, <2>6, SMT
<1>7. \A p \in 0 .. n + 1 : r[p] = q[p]
  <2> HIDE DEF S
  <2>1. n + 1 \in Nat
    BY <1>1, SMT
  <2>2. 0 .. n + 1 \subseteq S
    BY <1>5, <1>6, <2>1, EveryPlace
  <2>3. \A p \in 0 .. n + 1 : p \in Nat /\ p <= n + 1
    BY <1>1, SMT
  <2> QED BY <2>2, <2>3 DEF S
<1>8. r[n + 2] = IF q[n + 1] THEN c # Quote \/ s[n] = "\\" ELSE c = Quote
  <2>1. n + 2 \in 0 .. n + 2 /\ ~(n + 2 <= 1) /\ (n + 2) - 1 = n + 1 /\ (n + 2) - 2 = n
        /\ n + 1 \in 0 .. n + 1
    BY <1>1, SMT
  <2>2. q[n + 1] => t[n] = s[n]
    <3>1. q[n + 1] => n # 0
      BY <1>4
    <3> QED BY <1>1, <3>1, SMT
  <2>3. r[n + 2] = QuotedNext(t, r, n + 2)
    BY <1>3, <2>1
  <2>4. r[n + 1] = q[n + 1]
    BY <1>7, <2>1
  <2> QED BY <1>1, <2>1, <2>2, <2>3, <2>4 DEF QuotedNext
<1> QED BY <1>4, <1>7, <1>8 DEF q, r

-----------------------------------------------------------------------------
(* What one character more changes, and what it does not. *)

Letter(c) == c \notin Stops \union {" ", Quote, "#"}

LEMMA Longer ==
  ASSUME NEW s, NEW c, NEW t, NEW n, Extends(s, c, t, n)
  PROVE  /\ \A cs : \A p \in 0 .. n : Has(t, p, cs) <=> Has(s, p, cs)
         /\ \A cs : Has(t, n + 1, cs) <=> ~Quoted(s)[n + 1] /\ c \in cs
         /\ \A p \in 0 .. n : InWord(t, p) <=> InWord(s, p)
         /\ InWord(t, n + 1) <=> ~Quoted(s)[n + 1] /\ Letter(c)
         /\ \A p \in 1 .. n : Begins(t, p) <=> Begins(s, p)
         /\ Begins(t, n + 1) <=> InWord(t, n + 1) /\ ~InWord(s, n)
<1>1. /\ n \in Nat /\ Len(t) = n + 1 /\ DOMAIN s = 1 .. n /\ DOMAIN t = 1 .. n + 1
      /\ \A p \in 1 .. n : t[p] = s[p]
      /\ t[n + 1] = c
  BY OneMore
<1>2. \A p \in 0 .. n + 1 : Quoted(t)[p] <=> Quoted(s)[p]
  BY QuotedLonger
<1>3. ASSUME NEW p \in 0 .. n, NEW cs PROVE Has(t, p, cs) <=> Has(s, p, cs)
  <2>1. p \in 0 .. n + 1 /\ (p \in 1 .. n <=> p \in 1 .. n + 1)
    BY <1>1, SMT
  <2> QED BY <1>1, <1>2, <2>1 DEF Has
<1>4. ASSUME NEW cs PROVE Has(t, n + 1, cs) <=> ~Quoted(s)[n + 1] /\ c \in cs
  <2>1. n + 1 \in 0 .. n + 1 /\ n + 1 \in 1 .. n + 1
    BY <1>1, SMT
  <2> QED BY <1>1, <1>2, <2>1 DEF Has
<1>5. ASSUME NEW p \in 0 .. n PROVE InWord(t, p) <=> InWord(s, p)
  <2>1. p \in 0 .. n + 1 /\ (p \in 1 .. n <=> p \in 1 .. n + 1)
    BY <1>1, SMT
  <2> QED BY <1>1, <1>2, <2>1 DEF InWord
<1>6. InWord(t, n + 1) <=> ~Quoted(s)[n + 1] /\ Letter(c)
  <2>1. n + 1 \in 0 .. n + 1 /\ n + 1 \in 1 .. n + 1
    BY <1>1, SMT
  <2> QED BY <1>1, <1>2, <2>1 DEF InWord, Letter
<1>7. ASSUME NEW p \in 1 .. n PROVE Begins(t, p) <=> Begins(s, p)
  <2>1. p \in 0 .. n /\ p - 1 \in 0 .. n
    BY <1>1, SMT
  <2> QED BY <1>5, <2>1 DEF Begins
<1>8. Begins(t, n + 1) <=> InWord(t, n + 1) /\ ~InWord(s, n)
  <2>1. (n + 1) - 1 = n /\ n \in 0 .. n
    BY <1>1, SMT
  <2> QED BY <1>5, <2>1 DEF Begins
<1> QED BY <1>3, <1>4, <1>5, <1>6, <1>7, <1>8

(* Whether character c begins an item. *)
NewItem(s, c) ==
  /\ ~Quoted(s)[Len(s) + 1]
  /\ \/ c \in {Quote, ",", "(", ")"}
     \/ Letter(c) /\ ~InWord(s, Len(s))

Colon(s, c) == ~Quoted(s)[Len(s) + 1] /\ c = ":"

LEMMA ItemsLonger ==
  ASSUME NEW s, NEW c, NEW t, NEW n, Extends(s, c, t, n)
  PROVE  /\ Items(s) \subseteq 1 .. n /\ Items(s) \subseteq Items(t)
         /\ Items(t) \subseteq Items(s) \union {n + 1}
         /\ n + 1 \in Items(t) <=> NewItem(s, c)
<1>1. /\ n \in Nat /\ DOMAIN s = 1 .. n /\ DOMAIN t = 1 .. n + 1 /\ Len(s) = n
  BY OneMore
<1>2. /\ \A cs : \A p \in 0 .. n : Has(t, p, cs) <=> Has(s, p, cs)
      /\ \A cs : Has(t, n + 1, cs) <=> ~Quoted(s)[n + 1] /\ c \in cs
      /\ InWord(t, n + 1) <=> ~Quoted(s)[n + 1] /\ Letter(c)
      /\ \A p \in 1 .. n : Begins(t, p) <=> Begins(s, p)
      /\ Begins(t, n + 1) <=> InWord(t, n + 1) /\ ~InWord(s, n)
  BY Longer
<1>3. Items(s) \subseteq 1 .. n
  BY <1>1 DEF Items
<1>4. /\ Items(s) \subseteq Items(t) /\ Items(t) \subseteq Items(s) \union {n + 1}
      /\ n + 1 \in Items(t) <=> NewItem(s, c)
  <2>1. \A p \in 1 .. n : p \in Items(t) <=> p \in Items(s)
    <3>1. \A p \in 1 .. n : p \in 0 .. n /\ p \in 1 .. n + 1
      BY <1>1, SMT
    <3> QED BY <1>1, <1>2, <3>1 DEF Items
  <2>2. n + 1 \in Items(t) <=> NewItem(s, c)
    <3>1. n + 1 \in 1 .. n + 1
      BY <1>1, SMT
    <3> QED BY <1>1, <1>2, <3>1 DEF Items, NewItem
  <2>3. Items(t) \subseteq 1 .. n + 1
    BY <1>1 DEF Items
  <2>4. \A p \in 1 .. n + 1 : p \in 1 .. n \/ p = n + 1
    BY <1>1, SMT
  <2>5. n + 1 \notin 1 .. n
    BY <1>1, SMT
  <2> QED BY <1>3, <2>1, <2>2, <2>3, <2>4, <2>5
<1> QED BY <1>3, <1>4

LEMMA EarlierPlaces ==
  ASSUME NEW s, NEW c, NEW t, NEW n, Extends(s, c, t, n),
         NEW p \in 1 .. n + 1
  PROVE  /\ ItemsBefore(t, p) = ItemsBefore(s, p)
         /\ LineOf(t, p) = LineOf(s, p)
         /\ PlaceOf(t, p) = PlaceOf(s, p)
<1>1. /\ n \in Nat /\ DOMAIN s = 1 .. n /\ DOMAIN t = 1 .. n + 1 /\ Len(s) = n
  BY OneMore
<1>2. /\ \A cs : \A k \in 0 .. n : Has(t, k, cs) <=> Has(s, k, cs)
      /\ \A cs : Has(t, n + 1, cs) <=> ~Quoted(s)[n + 1] /\ c \in cs
      /\ InWord(t, n + 1) <=> ~Quoted(s)[n + 1] /\ Letter(c)
      /\ \A k \in 1 .. n : Begins(t, k) <=> Begins(s, k)
      /\ Begins(t, n + 1) <=> InWord(t, n + 1) /\ ~InWord(s, n)
  BY Longer
<1>3. Items(s) \subseteq 1 .. n
  BY ItemsLonger
<1>4. Items(s) \subseteq Items(t) /\ Items(t) \subseteq Items(s) \union {n + 1}
  BY ItemsLonger
<1>5. /\ ItemsBefore(t, p) = ItemsBefore(s, p)
      /\ LineOf(t, p) = LineOf(s, p)
      /\ PlaceOf(t, p) = PlaceOf(s, p)
  <2>1. \A k \in 1 .. n : \A j \in k .. p - 1 : j \in 0 .. n
    BY <1>1, SMT
  <2>2. \A k \in Items(t) : k < p => k \in Items(s)
    <3>1. ~(n + 1 < p)
      BY <1>1, SMT
    <3> QED BY <1>4, <3>1
  <2>3. ItemsBefore(t, p) = ItemsBefore(s, p)
    BY <1>2, <1>3, <1>4, <2>1, <2>2 DEF ItemsBefore
  <2>4. {k \in 1 .. p - 1 : Has(t, k, {":"})} = {k \in 1 .. p - 1 : Has(s, k, {":"})}
    <3>1. \A k \in 1 .. p - 1 : k \in 0 .. n
      BY <1>1, SMT
    <3> QED BY <1>2, <3>1
  <2> QED BY <2>3, <2>4 DEF LineOf, PlaceOf
<1> QED BY <1>5

LEMMA NextPlace ==
  ASSUME NEW s, NEW c, NEW t, NEW n, Extends(s, c, t, n)
  PROVE  /\ Colon(s, c) => ItemsBefore(t, n + 2) = {}
         /\ ~Colon(s, c) /\ ~NewItem(s, c) => ItemsBefore(t, n + 2) = ItemsBefore(s, n + 1)
         /\ ~Colon(s, c) /\ NewItem(s, c) =>
              ItemsBefore(t, n + 2) = ItemsBefore(s, n + 1) \union {n + 1}
         /\ LineOf(s, n + 1) \in Nat
         /\ Colon(s, c) => LineOf(t, n + 2) = LineOf(s, n + 1) + 1
         /\ ~Colon(s, c) => LineOf(t, n + 2) = LineOf(s, n + 1)
<1>1. /\ n \in Nat /\ DOMAIN s = 1 .. n /\ DOMAIN t = 1 .. n + 1 /\ Len(s) = n
  BY OneMore
<1>2. /\ \A cs : \A p \in 0 .. n : Has(t, p, cs) <=> Has(s, p, cs)
      /\ \A cs : Has(t, n + 1, cs) <=> ~Quoted(s)[n + 1] /\ c \in cs
      /\ InWord(t, n + 1) <=> ~Quoted(s)[n + 1] /\ Letter(c)
      /\ \A p \in 1 .. n : Begins(t, p) <=> Begins(s, p)
      /\ Begins(t, n + 1) <=> InWord(t, n + 1) /\ ~InWord(s, n)
  BY Longer
<1>3. Items(s) \subseteq 1 .. n
  BY ItemsLonger
<1>4. /\ Items(s) \subseteq Items(t) /\ Items(t) \subseteq Items(s) \union {n + 1}
      /\ n + 1 \in Items(t) <=> NewItem(s, c)
  BY ItemsLonger
<1>6. Has(t, n + 1, {":"}) <=> Colon(s, c)
  <2>1. Has(t, n + 1, {":"}) <=> ~Quoted(s)[n + 1] /\ c \in {":"}
    BY <1>2
  <2> QED BY <1>1, <2>1 DEF Colon
<1>7. /\ Colon(s, c) => ItemsBefore(t, n + 2) = {}
      /\ ~Colon(s, c) /\ ~NewItem(s, c) => ItemsBefore(t, n + 2) = ItemsBefore(s, n + 1)
      /\ ~Colon(s, c) /\ NewItem(s, c) =>
           ItemsBefore(t, n + 2) = ItemsBefore(s, n + 1) \union {n + 1}
  <2>1. /\ (n + 2) - 1 = n + 1 /\ (n + 1) - 1 = n
        /\ \A k \in 1 .. n : /\ k < n + 2 /\ k < n + 1 /\ n + 1 \in k .. n + 1
                             /\ \A j \in k .. n + 1 : j \in k .. n \/ j = n + 1
                             /\ \A j \in k .. n : j \in k .. n + 1 /\ j \in 0 .. n
    BY <1>1, SMT
  <2>2. /\ n + 1 < n + 2 /\ n + 1 \in (n + 1) .. (n + 1)
        /\ \A j \in (n + 1) .. (n + 1) : j = n + 1
    BY <1>1, SMT
  <2>3. \A k \in Items(s) :
          k \in ItemsBefore(t, n + 2) <=> ~Colon(s, c) /\ k \in ItemsBefore(s, n + 1)
    <3> TAKE k \in Items(s)
    <3>1. k \in 1 .. n /\ k \in Items(t)
      BY <1>3, <1>4
    <3>2. k \in ItemsBefore(t, n + 2) <=> \A j \in k .. n + 1 : ~Has(t, j, {":"})
      BY <2>1, <3>1 DEF ItemsBefore
    <3>3. k \in ItemsBefore(s, n + 1) <=> \A j \in k .. n : ~Has(s, j, {":"})
      BY <2>1, <3>1 DEF ItemsBefore
    <3>4. (\A j \in k .. n + 1 : ~Has(t, j, {":"}))
            <=> (\A j \in k .. n : ~Has(t, j, {":"})) /\ ~Has(t, n + 1, {":"})
      BY <2>1, <3>1
    <3>5. \A j \in k .. n : Has(t, j, {":"}) <=> Has(s, j, {":"})
      BY <1>2, <2>1, <3>1
    <3> QED BY <1>6, <3>2, <3>3, <3>4, <3>5
  <2>4. NewItem(s, c) => (n + 1 \in ItemsBefore(t, n + 2) <=> ~Colon(s, c))
    <3>1. NewItem(s, c) => n + 1 \in Items(t)
      BY <1>4
    <3> QED BY <1>6, <2>1, <2>2, <3>1 DEF ItemsBefore
  <2>5. ItemsBefore(t, n + 2) \subseteq Items(t) /\ ItemsBefore(s, n + 1) \subseteq Items(s)
    BY DEF ItemsBefore
  <2>6. n + 1 \in ItemsBefore(t, n + 2) => NewItem(s, c) /\ ~Colon(s, c)
    BY <1>4, <2>4, <2>5
  <2> QED BY <1>4, <2>3, <2>4, <2>5, <2>6
<1>8. /\ LineOf(s, n + 1) \in Nat
      /\ Colon(s, c) => LineOf(t, n + 2) = LineOf(s, n + 1) + 1
      /\ ~Colon(s, c) => LineOf(t, n + 2) = LineOf(s, n + 1)
  <2> DEFINE C == {k \in 1 .. n : Has(s, k, {":"})}
             D == {k \in 1 .. n + 1 : Has(t, k, {":"})}
  <2>1. (n + 2) - 1 = n + 1 /\ (n + 1) - 1 = n
    BY <1>1, SMT
  <2>2. IsFiniteSet(C) /\ n + 1 \notin C /\ C \subseteq 1 .. n
    <3>1. n + 1 \notin 1 .. n /\ IsFiniteSet(1 .. n)
      BY <1>1, FS_Interval, SMT
    <3> QED BY <3>1, FS_Subset
  <2>3. D = IF Colon(s, c) THEN C \union {n + 1} ELSE C
    <3>1. \A k : k \in 1 .. n + 1 <=> k \in 1 .. n \/ k = n + 1
      BY <1>1, SMT
    <3>2. \A k \in 1 .. n : k \in 0 .. n
      BY <1>1, SMT
    <3> QED BY <1>2, <1>6, <3>1, <3>2
  <2>4. LineOf(s, n + 1) = Cardinality(C) + 1 /\ LineOf(t, n + 2) = Cardinality(D) + 1
    BY <2>1 DEF LineOf
  <2> HIDE DEF C, D
  <2>5. Cardinality(C) \in Nat
    BY <2>2, FS_CardinalityType
  <2>6. Cardinality(D) = Cardinality(C) + (IF Colon(s, c) THEN 1 ELSE 0)
    <3>1. CASE Colon(s, c)
      <4>1. D = C \union {n + 1}
        BY <2>3, <3>1
      <4>2. Cardinality(D) = Cardinality(C) + 1
        BY <2>2, <4>1, FS_AddElement
      <4> QED BY <3>1, <4>2
    <3>2. CASE ~Colon(s, c)
      BY <2>3, <2>5, <3>2, SMT
    <3> QED BY <3>1, <3>2
  <2> QED BY <2>4, <2>5, <2>6, SMT
<1> QED BY <1>7, <1>8
(* Words and strings that have ended stay as they are. *)
LEMMA SameText ==
  ASSUME NEW s, NEW c, NEW t, NEW n, Extends(s, c, t, n),
         NEW p \in 1 .. n + 1, NEW q \in 0 .. n
  PROVE  SubSeq(t, p, q) = SubSeq(s, p, q)
<1>1. /\ n \in Nat /\ t \in Seq(LineChars) /\ s \in Seq(LineChars)
      /\ DOMAIN s = 1 .. n /\ DOMAIN t = 1 .. n + 1
      /\ \A k \in 1 .. n : t[k] = s[k]
  BY OneMore
<1>2. p \in Int /\ q \in Int /\ \A i \in p .. q : i \in 1 .. n
  BY <1>1, SMT
<1>3. \A i \in p .. q : s[i] \in LineChars /\ t[i] \in LineChars
  BY <1>1, <1>2, ElementOfSeq
<1>4. /\ SubSeq(s, p, q) \in Seq(LineChars) /\ SubSeq(t, p, q) \in Seq(LineChars)
      /\ Len(SubSeq(s, p, q)) = Len(SubSeq(t, p, q))
      /\ Len(SubSeq(s, p, q)) = IF p <= q THEN q - p + 1 ELSE 0
      /\ \A i \in 1 .. q - p + 1 : /\ SubSeq(s, p, q)[i] = s[p + i - 1]
                                  /\ SubSeq(t, p, q)[i] = t[p + i - 1]
  BY <1>2, <1>3, SubSeqProperties
<1>5. \A i \in 1 .. Len(SubSeq(s, p, q)) : SubSeq(t, p, q)[i] = SubSeq(s, p, q)[i]
  <2>1. \A i \in 1 .. Len(SubSeq(s, p, q)) :
          i \in 1 .. q - p + 1 /\ p + i - 1 \in 1 .. n
    BY <1>1, <1>4, SMT
  <2> QED BY <1>1, <1>4, <2>1
<1> QED BY <1>4, <1>5, SeqEqual

LEMMA EndsLonger ==
  ASSUME NEW s, NEW c, NEW t, NEW n, Extends(s, c, t, n), NEW p \in 1 .. n
  PROVE  /\ \A q \in 1 .. n : q # n => (IsWord(t, p, q) <=> IsWord(s, p, q))
         /\ IsWord(t, p, n) <=> IsWord(s, p, n) /\ ~InWord(t, n + 1)
         /\ \A q \in 1 .. n : IsString(t, p, q) <=> IsString(s, p, q)
         /\ \A q \in 1 .. n : Body(t, p, q) = Body(s, p, q)
<1>1. /\ n \in Nat /\ DOMAIN s = 1 .. n /\ DOMAIN t = 1 .. n + 1
      /\ Len(s) = n /\ Len(t) = n + 1
      /\ \A k \in 1 .. n : t[k] = s[k]
  BY OneMore
<1>2. /\ \A cs : \A k \in 0 .. n : Has(t, k, cs) <=> Has(s, k, cs)
      /\ \A k \in 0 .. n : InWord(t, k) <=> InWord(s, k)
      /\ \A k \in 1 .. n : Begins(t, k) <=> Begins(s, k)
  BY Longer
<1>3. \A k \in 0 .. n + 1 : Quoted(t)[k] <=> Quoted(s)[k]
  BY QuotedLonger
<1>4. ~InWord(s, n + 1)
  <2>1. n + 1 \notin 1 .. n
    BY <1>1, SMT
  <2> QED BY <1>1, <2>1 DEF InWord
<1>5. ASSUME NEW q \in 1 .. n
      PROVE  IsWord(t, p, q) <=> /\ IsWord(s, p, q)
                                 /\ q = n => ~InWord(t, n + 1)
  <2>1. /\ (q \in p .. n <=> q \in p .. n + 1)
        /\ \A k \in p .. q : k \in 0 .. n
        /\ q # n => q + 1 \in 0 .. n
    BY <1>1, SMT
  <2>2. \A k \in p .. q : InWord(t, k) <=> InWord(s, k)
    BY <1>2, <2>1
  <2>3. q # n => (InWord(t, q + 1) <=> InWord(s, q + 1))
    BY <1>2, <2>1
  <2>4. IsWord(t, p, q) <=> /\ Begins(s, p) /\ q \in p .. n
                            /\ \A k \in p .. q : InWord(s, k)
                            /\ ~InWord(t, q + 1)
    BY <1>1, <1>2, <2>1, <2>2 DEF IsWord
  <2>5. IsWord(s, p, q) <=> /\ Begins(s, p) /\ q \in p .. n
                            /\ \A k \in p .. q : InWord(s, k)
                            /\ ~InWord(s, q + 1)
    BY <1>1 DEF IsWord
  <2> QED BY <1>4, <2>3, <2>4, <2>5
<1>6. \A q \in 1 .. n : q # n => (IsWord(t, p, q) <=> IsWord(s, p, q))
  BY <1>5
<1>7. IsWord(t, p, n) <=> IsWord(s, p, n) /\ ~InWord(t, n + 1)
  <2>1. n \in 1 .. n
    BY <1>1, SMT
  <2> QED BY <1>5, <2>1
<1>8. ASSUME NEW q \in 1 .. n PROVE IsString(t, p, q) <=> IsString(s, p, q)
  <2>1. /\ (q \in p + 1 .. n <=> q \in p + 1 .. n + 1) /\ q + 1 \in 0 .. n + 1
        /\ p \in 0 .. n /\ \A k \in p + 1 .. q : k \in 0 .. n + 1
    BY <1>1, SMT
  <2>2. \A k \in p + 1 .. q : Quoted(t)[k] <=> Quoted(s)[k]
    BY <1>3, <2>1
  <2>3. /\ Quoted(t)[q + 1] <=> Quoted(s)[q + 1]
        /\ Has(t, p, {Quote}) <=> Has(s, p, {Quote})
    BY <1>2, <1>3, <2>1
  <2> QED BY <1>1, <2>1, <2>2, <2>3 DEF IsString
<1>9. ASSUME NEW q \in 1 .. n PROVE Body(t, p, q) = Body(s, p, q)
  <2>1. p + 1 \in 1 .. n + 1 /\ p \in 1 .. n + 1 /\ q \in 0 .. n
    BY <1>1, SMT
  <2>2. SubSeq(t, p, q) = SubSeq(s, p, q) /\ SubSeq(t, p + 1, q) = SubSeq(s, p + 1, q)
    BY <2>1, SameText
  <2> QED BY <1>1, <2>2 DEF Body
<1> QED BY <1>6, <1>7, <1>8, <1>9
LEMMA EqvLonger ==
  ASSUME NEW s, NEW c, NEW t, NEW n, Extends(s, c, t, n),
         NEW p \in 1 .. n + 1, Begins(t, p)
  PROVE  AfterEqv(t, p) <=> AfterEqv(s, p)
<1>1. /\ n \in Nat /\ Len(s) = n /\ Len(t) = n + 1
      /\ \A k \in 1 .. n : t[k] = s[k]
  BY OneMore
<1>2. /\ Items(s) \subseteq 1 .. n
      /\ \A k \in 1 .. n + 1 : /\ ItemsBefore(t, k) = ItemsBefore(s, k)
                               /\ PlaceOf(t, k) = PlaceOf(s, k)
  BY ItemsLonger, EarlierPlaces
<1>3. ASSUME NEW k \in ItemsBefore(s, p)
      PROVE  /\ PlaceOf(t, k) = PlaceOf(s, k) /\ t[k] = s[k]
             /\ IsWord(t, k, k + 1) <=> IsWord(s, k, k + 1)
             /\ IsWord(s, k, k + 1) => t[k + 1] = s[k + 1]
  <2>1. k \in 1 .. n /\ k < p
    BY <1>2 DEF ItemsBefore
  <2>2. k \in 1 .. n + 1 /\ k + 1 \in 1 .. n + 1 /\ (k + 1) - 1 = k
    BY <1>1, <2>1, SMT
  <2>3. IsWord(s, k, k + 1) \/ IsWord(t, k, k + 1) => p # k + 1 /\ p # (k + 1) + 1
    <3>1. ASSUME IsWord(s, k, k + 1) \/ IsWord(t, k, k + 1)
          PROVE  InWord(t, k) /\ InWord(t, k + 1)
      <4>1. k \in k .. k + 1 /\ k + 1 \in k .. k + 1
        BY <2>1, SMT
      <4>2. CASE IsWord(t, k, k + 1)
        BY <4>1, <4>2 DEF IsWord
      <4>3. CASE IsWord(s, k, k + 1)
        <5>1. InWord(s, k) /\ InWord(s, k + 1) /\ k + 1 \in k .. n
          BY <1>1, <4>1, <4>3 DEF IsWord
        <5>2. k \in 0 .. n /\ k + 1 \in 0 .. n
          BY <1>1, <2>1, <5>1, SMT
        <5> QED BY <5>1, <5>2, Longer
      <4> QED BY <3>1, <4>2, <4>3
    <3>2. ((k + 1) + 1) - 1 = k + 1
      BY <2>1, SMT
    <3> QED BY <2>2, <3>1, <3>2 DEF Begins
  <2>4. CASE k + 1 \in 1 .. n /\ k + 1 # n
    BY <1>1, <1>2, <2>1, <2>2, <2>4, EndsLonger
  <2>5. CASE ~(k + 1 \in 1 .. n /\ k + 1 # n)
    <3>1. p = k + 1 \/ p = (k + 1) + 1
      BY <1>1, <2>1, <2>5, SMT
    <3> QED BY <1>1, <1>2, <2>1, <2>2, <2>3, <3>1
  <2> QED BY <2>4, <2>5
<1>4. PlaceOf(t, p) = PlaceOf(s, p) /\ ItemsBefore(t, p) = ItemsBefore(s, p)
  BY <1>2
<1> QED BY <1>3, <1>4 DEF AfterEqv

(* What has been said stays said. *)
LEMMA SaysLonger ==
  ASSUME NEW s, NEW c, NEW t, NEW n, Extends(s, c, t, n),
         NEW p \in Items(s), ~IsWord(s, p, n), NEW token, Says(s, p, token)
  PROVE  Says(t, p, token)
<1>1. /\ n \in Nat /\ Len(s) = n /\ Len(t) = n + 1
      /\ DOMAIN s = 1 .. n /\ DOMAIN t = 1 .. n + 1
      /\ \A k \in 1 .. n : t[k] = s[k]
  BY OneMore
<1>2. p \in 1 .. n /\ p \in 1 .. n + 1 /\ p \in 0 .. n
  <2>1. p \in 1 .. n
    BY ItemsLonger
  <2> QED BY <1>1, <2>1, SMT
<1>3. CASE Has(s, p, DOMAIN Separator) /\ token = Tok(Separator[s[p]], <<s[p]>>)
  <2>1. Has(t, p, DOMAIN Separator) /\ t[p] = s[p]
    BY <1>1, <1>2, <1>3, Longer
  <2> QED BY <1>3, <2>1 DEF Says
<1>4. ASSUME NEW q \in DOMAIN s,
             IsString(s, p, q), token = Tok("str", SubSeq(s, p + 1, q - 1))
      PROVE  Says(t, p, token)
  <2>1. q \in 1 .. n /\ q \in DOMAIN t /\ p + 1 \in 1 .. n + 1 /\ q - 1 \in 0 .. n
    BY <1>1, <1>2, SMT
  <2>2. IsString(t, p, q)
    BY <1>2, <1>4, <2>1, EndsLonger
  <2>3. SubSeq(t, p + 1, q - 1) = SubSeq(s, p + 1, q - 1)
    BY <2>1, SameText
  <2> QED BY <1>4, <2>1, <2>2, <2>3 DEF Says
<1>5. ASSUME NEW q \in DOMAIN s,
             IsWord(s, p, q), token = Tok(Category(s, p, q), Body(s, p, q))
      PROVE  Says(t, p, token)
  <2>1. q \in 1 .. n /\ q # n /\ q \in DOMAIN t
    BY <1>1, <1>5, SMT
  <2>2. q + 1 \in 0 .. n
    BY <1>1, <2>1, SMT
  <2>3. IsWord(t, p, q) /\ Body(t, p, q) = Body(s, p, q)
    BY <1>2, <1>5, <2>1, EndsLonger
  <2>4. Has(t, q + 1, {":"}) <=> Has(s, q + 1, {":"})
    BY <2>2, Longer
  <2>5. AfterEqv(t, p) <=> AfterEqv(s, p)
    <3>1. Begins(t, p)
      BY <2>3 DEF IsWord
    <3> QED BY <1>2, <3>1, EqvLonger
  <2>6. PlaceOf(t, p) = PlaceOf(s, p) /\ t[p] = s[p]
    BY <1>1, <1>2, EarlierPlaces
  <2>7. Category(t, p, q) = Category(s, p, q)
    BY <2>3, <2>4, <2>5, <2>6 DEF Category
  <2> QED BY <1>5, <2>1, <2>3, <2>7 DEF Says
<1> QED BY <1>3, <1>4, <1>5 DEF Says
-----------------------------------------------------------------------------
(* Lines of tokens that hold items D of line s, each at its place; all but *)
(* the last have some.                                                     *)

Filled(s, lines, D) ==
  /\ lines \in Seq(Seq(TokenSet)) /\ lines # <<>>
  /\ D \subseteq Items(s)
  /\ \A i \in DOMAIN lines : /\ Len(lines[i]) = Cardinality({p \in D : LineOf(s, p) = i})
                             /\ i # Len(lines) => lines[i] # <<>>
  /\ \A p \in D : /\ LineOf(s, p) \in DOMAIN lines
                  /\ PlaceOf(s, p) \in DOMAIN lines[LineOf(s, p)]
                  /\ Says(s, p, lines[LineOf(s, p)][PlaceOf(s, p)])

LEMMA FilledLonger ==
  ASSUME NEW s, NEW c, NEW t, NEW n, Extends(s, c, t, n),
         NEW lines, NEW D, Filled(s, lines, D), \A p \in D : ~IsWord(s, p, n)
  PROVE  Filled(t, lines, D)
<1>1. ASSUME NEW p \in D
      PROVE  LineOf(t, p) = LineOf(s, p) /\ PlaceOf(t, p) = PlaceOf(s, p)
  <2>1. p \in 1 .. n /\ n \in Nat
    BY ItemsLonger, OneMore DEF Filled
  <2>2. p \in 1 .. n + 1
    BY <2>1, SMT
  <2> QED BY <2>2, EarlierPlaces
<1>2. D \subseteq Items(t)
  BY ItemsLonger DEF Filled
<1>3. \A i \in DOMAIN lines : {p \in D : LineOf(t, p) = i} = {p \in D : LineOf(s, p) = i}
  BY <1>1
<1>4. ASSUME NEW p \in D PROVE Says(t, p, lines[LineOf(t, p)][PlaceOf(t, p)])
  <2>1. Says(s, p, lines[LineOf(s, p)][PlaceOf(s, p)]) /\ p \in Items(s)
    BY DEF Filled
  <2>2. Says(t, p, lines[LineOf(s, p)][PlaceOf(s, p)])
    BY <2>1, SaysLonger
  <2> QED BY <1>1, <2>2
<1> QED BY <1>1, <1>2, <1>3, <1>4 DEF Filled

(* Two items are in one line if there is no colon between them. *)
LEMMA LineBefore ==
  ASSUME NEW s \in Seq(LineChars), NEW p \in 1 .. Len(s) + 1, NEW k \in Items(s), k < p
  PROVE  LineOf(s, k) = LineOf(s, p) <=> k \in ItemsBefore(s, p)
<1> DEFINE C(m) == {j \in 1 .. m - 1 : Has(s, j, {":"})}
<1>1. Len(s) \in Nat /\ DOMAIN s = 1 .. Len(s) /\ k \in 1 .. Len(s)
  BY LenProperties DEF Items
<1>2. IsFiniteSet(C(k)) /\ IsFiniteSet(C(p)) /\ C(k) \in SUBSET C(p)
  <2>1. IsFiniteSet(1 .. k - 1) /\ IsFiniteSet(1 .. p - 1)
    <3>1. 1 \in Int /\ k - 1 \in Int /\ p - 1 \in Int
      BY <1>1, SMT
    <3> QED BY <3>1, FS_Interval
  <2>2. \A j \in 1 .. k - 1 : j \in 1 .. p - 1
    BY <1>1, SMT
  <2>3. C(k) \in SUBSET (1 .. k - 1) /\ C(p) \in SUBSET (1 .. p - 1)
    OBVIOUS
  <2> QED BY <2>1, <2>2, <2>3, FS_Subset
<1>3. LineOf(s, k) = Cardinality(C(k)) + 1 /\ LineOf(s, p) = Cardinality(C(p)) + 1
  BY DEF LineOf
<1>4. C(k) = C(p) <=> \A j \in k .. p - 1 : ~Has(s, j, {":"})
  <2>1. \A j : j \in 1 .. p - 1 <=> j \in 1 .. k - 1 \/ j \in k .. p - 1
    BY <1>1, SMT
  <2>2. \A j \in k .. p - 1 : j \notin 1 .. k - 1
    BY <1>1, SMT
  <2> QED BY <2>1, <2>2
<1> HIDE DEF C
<1>5. Cardinality(C(k)) \in Nat /\ Cardinality(C(p)) \in Nat
  BY <1>2, FS_CardinalityType
<1>6. Cardinality(C(k)) = Cardinality(C(p)) => C(k) = C(p)
  BY <1>2, FS_Subset
<1>7. Cardinality(C(k)) + 1 = Cardinality(C(p)) + 1 => Cardinality(C(k)) = Cardinality(C(p))
  BY <1>5, SMT
<1>8. LineOf(s, k) = LineOf(s, p) <=> C(k) = C(p)
  BY <1>3, <1>6, <1>7
<1> QED BY <1>4, <1>8 DEF ItemsBefore

LEMMA ItemsFinite ==
  ASSUME NEW s \in Seq(LineChars)
  PROVE  IsFiniteSet(Items(s)) /\ Items(s) \subseteq 1 .. Len(s) /\ Len(s) \in Nat
<1>1. Len(s) \in Nat /\ Items(s) \in SUBSET (1 .. Len(s))
  BY LenProperties DEF Items
<1>2. IsFiniteSet(1 .. Len(s))
  <2>1. 1 \in Int /\ Len(s) \in Int
    BY <1>1, SMT
  <2> QED BY <2>1, FS_Interval
<1> QED BY <1>1, <1>2, FS_Subset

(* A token more in the last line. *)
Added(lines, token) == Append(Front(lines), Append(Last(lines), token))

LEMMA AddedFacts ==
  ASSUME NEW lines \in Seq(Seq(TokenSet)), lines # <<>>, NEW token \in TokenSet
  PROVE  /\ Added(lines, token) \in Seq(Seq(TokenSet)) /\ Added(lines, token) # <<>>
         /\ Len(Added(lines, token)) = Len(lines) /\ Len(lines) \in Nat \ {0}
         /\ DOMAIN lines = 1 .. Len(lines) /\ DOMAIN Added(lines, token) = 1 .. Len(lines)
         /\ \A i \in 1 .. Len(lines) : i # Len(lines) => Added(lines, token)[i] = lines[i]
         /\ Last(lines) = lines[Len(lines)] /\ Last(lines) \in Seq(TokenSet)
         /\ Last(Added(lines, token)) = Append(Last(lines), token)
         /\ Added(lines, token)[Len(lines)] = Append(Last(lines), token)
<1> DEFINE n == Len(lines)
           f == Front(lines)
           a == Append(Last(lines), token)
<1>1. n \in Nat \ {0} /\ DOMAIN lines = 1 .. n /\ \A i \in 1 .. n : lines[i] \in Seq(TokenSet)
  BY LenProperties, EmptySeq, ElementOfSeq
<1>2. /\ f \in Seq(Seq(TokenSet)) /\ Len(f) = n - 1
      /\ \A i \in 1 .. n - 1 : f[i] = lines[i]
  <2>1. f = SubSeq(lines, 1, n - 1)
    BY DEF Front
  <2>2. n - 1 \in Int /\ 1 \in Int /\ \A i \in 1 .. n - 1 : i \in 1 .. n
    BY <1>1, SMT
  <2>3. \A i \in 1 .. n - 1 : lines[i] \in Seq(TokenSet)
    BY <1>1, <2>2
  <2> HIDE DEF f
  <2>4. /\ f \in Seq(Seq(TokenSet)) /\ Len(f) = IF 1 <= n - 1 THEN (n - 1) - 1 + 1 ELSE 0
        /\ \A i \in 1 .. (n - 1) - 1 + 1 : f[i] = lines[1 + i - 1]
    BY <2>1, <2>2, <2>3, SubSeqProperties
  <2>5. \A i \in 1 .. n - 1 : i \in 1 .. (n - 1) - 1 + 1 /\ 1 + i - 1 = i
    BY <1>1, SMT
  <2>6. Len(f) = n - 1
    <3>1. (1 <= n - 1 => (n - 1) - 1 + 1 = n - 1) /\ (~(1 <= n - 1) => 0 = n - 1)
      BY <1>1, SMT
    <3> QED BY <2>4, <3>1
  <2> QED BY <2>4, <2>5, <2>6
<1>3. Last(lines) = lines[n] /\ Last(lines) \in Seq(TokenSet)
  BY <1>1, SMT DEF Last
<1>4. a \in Seq(TokenSet)
  BY <1>3, AppendProperties
<1>5. Added(lines, token) = Append(f, a)
  BY DEF Added
<1> HIDE DEF f, a, n
<1>6. /\ Append(f, a) \in Seq(Seq(TokenSet)) /\ Len(Append(f, a)) = Len(f) + 1
      /\ \A i \in 1 .. Len(f) : Append(f, a)[i] = f[i]
      /\ Append(f, a)[Len(f) + 1] = a
  BY <1>2, <1>4, AppendProperties
<1>7. Len(f) + 1 = n /\ \A i \in 1 .. n : i # n => i \in 1 .. n - 1 /\ i \in 1 .. Len(f)
  BY <1>1, <1>2, SMT
<1>8. /\ Added(lines, token) \in Seq(Seq(TokenSet)) /\ Len(Added(lines, token)) = n
      /\ \A i \in 1 .. n : i # n => Added(lines, token)[i] = lines[i]
      /\ Added(lines, token)[n] = a
  BY <1>2, <1>5, <1>6, <1>7
<1>9. DOMAIN Added(lines, token) = 1 .. n /\ Added(lines, token) # <<>>
  BY <1>1, <1>8, LenProperties, EmptySeq
<1>10. Last(Added(lines, token)) = a
  BY <1>8 DEF Last
<1> QED BY <1>1, <1>3, <1>8, <1>9, <1>10 DEF a, n
(* The next item, in the line there is. *)
LEMMA ItemAdded ==
  ASSUME NEW s \in Seq(LineChars), NEW lines, NEW D, Filled(s, lines, D),
         NEW p \in Items(s), \A k \in Items(s) : k \in D <=> k < p,
         NEW token \in TokenSet, Says(s, p, token), LineOf(s, p) = Len(lines)
  PROVE  /\ Filled(s, Added(lines, token), D \union {p})
         /\ Last(Added(lines, token)) # <<>> /\ Len(Added(lines, token)) = Len(lines)
<1> DEFINE n == Len(lines)
           a == Added(lines, token)
           On(i) == {k \in D : LineOf(s, k) = i}
<1>1. /\ a \in Seq(Seq(TokenSet)) /\ a # <<>> /\ Len(a) = n /\ n \in Nat \ {0}
      /\ DOMAIN lines = 1 .. n /\ DOMAIN a = 1 .. n
      /\ \A i \in 1 .. n : i # n => a[i] = lines[i]
      /\ Last(lines) = lines[n] /\ Last(lines) \in Seq(TokenSet)
      /\ Last(a) = Append(Last(lines), token) /\ a[n] = Append(Last(lines), token)
  BY AddedFacts DEF Filled
<1> HIDE DEF a, n
<1>2. n \in 1 .. n
  BY <1>1, SMT
<1>3. /\ Items(s) \subseteq 1 .. Len(s) /\ Len(s) \in Nat /\ p \in 1 .. Len(s) + 1
      /\ IsFiniteSet(Items(s)) /\ ~(p < p)
  <2>1. IsFiniteSet(Items(s)) /\ Items(s) \subseteq 1 .. Len(s) /\ Len(s) \in Nat
    BY ItemsFinite
  <2>2. p \in 1 .. Len(s)
    BY <2>1
  <2> QED BY <2>1, <2>2, SMT
<1>4. p \notin D /\ D \subseteq Items(s)
  BY <1>3 DEF Filled
<1>5. On(n) = ItemsBefore(s, p)
  <2>1. \A k \in D : k < p
    BY <1>4
  <2>2. \A k \in D : LineOf(s, k) = LineOf(s, p) <=> k \in ItemsBefore(s, p)
    BY <1>3, <1>4, <2>1, LineBefore
  <2>3. ItemsBefore(s, p) \subseteq D
    BY DEF ItemsBefore
  <2> QED BY <2>2, <2>3 DEF n
<1>6. \A i \in 1 .. n : IsFiniteSet(On(i))
  <2>1. \A i \in 1 .. n : On(i) \in SUBSET Items(s)
    BY <1>4
  <2> QED BY <1>3, <2>1, FS_Subset
<1>7. Cardinality(On(n)) \in Nat /\ IsFiniteSet(On(n)) /\ p \notin On(n)
  BY <1>2, <1>4, <1>6, FS_CardinalityType
<1>8. Len(Last(lines)) = Cardinality(On(n)) /\ PlaceOf(s, p) = Len(Last(lines)) + 1
  <2>1. Len(lines[n]) = Cardinality(On(n))
    BY <1>1, <1>2 DEF Filled
  <2> QED BY <1>1, <1>5, <2>1 DEF PlaceOf
<1>9. /\ Len(a[n]) = Cardinality(On(n)) + 1 /\ a[n] \in Seq(TokenSet)
      /\ \A j \in 1 .. Len(Last(lines)) : a[n][j] = lines[n][j]
      /\ a[n][PlaceOf(s, p)] = token
  <2> DEFINE x == Last(lines)
             b == Append(x, token)
  <2>1. x \in Seq(TokenSet) /\ a[n] = b /\ lines[n] = x
    BY <1>1
  <2>2. /\ b \in Seq(TokenSet) /\ Len(b) = Len(x) + 1
        /\ \A j \in 1 .. Len(x) : b[j] = x[j]
        /\ b[Len(x) + 1] = token
    <3> HIDE DEF x
    <3> QED BY <2>1, AppendProperties
  <2>3. Len(x) = Cardinality(On(n)) /\ PlaceOf(s, p) = Len(x) + 1
    BY <1>8
  <2> HIDE DEF x, b
  <2>4. Len(a[n]) = Cardinality(On(n)) + 1 /\ a[n] \in Seq(TokenSet)
    BY <2>1, <2>2, <2>3
  <2>5. \A j \in 1 .. Len(x) : a[n][j] = lines[n][j]
    BY <2>1, <2>2
  <2>6. a[n][PlaceOf(s, p)] = token
    BY <2>1, <2>2, <2>3
  <2> QED BY <2>4, <2>5, <2>6 DEF x
<1>10. /\ DOMAIN a[n] = 1 .. Cardinality(On(n)) + 1 /\ a[n] # <<>>
       /\ DOMAIN lines[n] = 1 .. Cardinality(On(n))
  <2>1. Cardinality(On(n)) + 1 # 0
    BY <1>7, SMT
  <2> QED BY <1>1, <1>8, <1>9, <2>1, LenProperties, EmptySeq
<1>11. ASSUME NEW i \in 1 .. n
       PROVE  Len(a[i]) = Cardinality({k \in D \union {p} : LineOf(s, k) = i})
  <2>1. CASE i = n
    <3>1. {k \in D \union {p} : LineOf(s, k) = i} = On(n) \union {p}
      BY <2>1 DEF n
    <3>2. Cardinality(On(n) \union {p}) = Cardinality(On(n)) + 1
      BY <1>7, FS_AddElement
    <3> QED BY <1>9, <2>1, <3>1, <3>2
  <2>2. CASE i # n
    <3>1. {k \in D \union {p} : LineOf(s, k) = i} = On(i)
      BY <2>2 DEF n
    <3>2. Len(lines[i]) = Cardinality(On(i))
      BY <1>1 DEF Filled
    <3> QED BY <1>1, <2>2, <3>1, <3>2
  <2> QED BY <2>1, <2>2
<1>12. ASSUME NEW i \in 1 .. n, i # n PROVE a[i] # <<>>
  BY <1>1, <1>12 DEF Filled, n
<1>13. ASSUME NEW k \in D
       PROVE  /\ LineOf(s, k) \in 1 .. n
              /\ PlaceOf(s, k) \in DOMAIN a[LineOf(s, k)]
              /\ Says(s, k, a[LineOf(s, k)][PlaceOf(s, k)])
  <2>1. /\ LineOf(s, k) \in 1 .. n
        /\ PlaceOf(s, k) \in DOMAIN lines[LineOf(s, k)]
        /\ Says(s, k, lines[LineOf(s, k)][PlaceOf(s, k)])
    BY <1>1 DEF Filled
  <2>2. CASE LineOf(s, k) = n
    <3>1. PlaceOf(s, k) \in 1 .. Cardinality(On(n))
      BY <1>10, <2>1, <2>2
    <3>2. PlaceOf(s, k) \in 1 .. Cardinality(On(n)) + 1
      BY <1>7, <3>1, SMT
    <3>3. a[n][PlaceOf(s, k)] = lines[n][PlaceOf(s, k)]
      BY <1>8, <1>9, <3>1
    <3> QED BY <1>10, <2>1, <2>2, <3>2, <3>3
  <2>3. CASE LineOf(s, k) # n
    BY <1>1, <2>1, <2>3
  <2> QED BY <2>1, <2>2, <2>3
<1>14. /\ LineOf(s, p) \in 1 .. n /\ PlaceOf(s, p) \in DOMAIN a[LineOf(s, p)]
       /\ Says(s, p, a[LineOf(s, p)][PlaceOf(s, p)])
  <2>1. LineOf(s, p) = n
    BY DEF n
  <2>2. PlaceOf(s, p) \in 1 .. Cardinality(On(n)) + 1
    BY <1>7, <1>8, SMT
  <2> QED BY <1>2, <1>9, <1>10, <2>1, <2>2
<1>15. D \union {p} \subseteq Items(s)
  BY <1>4
<1> HIDE DEF On
<1>16. Filled(s, a, D \union {p})
  BY <1>1, <1>11, <1>12, <1>13, <1>14, <1>15 DEF Filled
<1> QED BY <1>1, <1>10, <1>16 DEF a, n

(* A line that has a token ends. *)
LEMMA LineEnded ==
  ASSUME NEW s, NEW lines, NEW D, Filled(s, lines, D), Last(lines) # <<>>
  PROVE  /\ Filled(s, Append(lines, <<>>), D)
         /\ Len(Append(lines, <<>>)) = Len(lines) + 1 /\ Len(lines) \in Nat
<1> DEFINE n == Len(lines)
           a == Append(lines, <<>>)
<1>1. lines \in Seq(Seq(TokenSet)) /\ lines # <<>> /\ <<>> \in Seq(TokenSet)
  BY EmptySeq DEF Filled
<1>2. /\ a \in Seq(Seq(TokenSet)) /\ Len(a) = n + 1 /\ n \in Nat
      /\ \A i \in 1 .. n : a[i] = lines[i]
      /\ a[n + 1] = <<>> /\ a # <<>>
  BY <1>1, AppendProperties, LenProperties
<1>3. DOMAIN a = 1 .. n + 1 /\ DOMAIN lines = 1 .. n
  BY <1>1, <1>2, LenProperties
<1>4. \A i \in 1 .. n + 1 : i \in 1 .. n \/ i = n + 1
  BY <1>2, SMT
<1>5. n + 1 \notin 1 .. n /\ \A i \in 1 .. n : i \in 1 .. n + 1
  BY <1>2, SMT
<1>6. Last(lines) = lines[n]
  BY DEF Last
<1> HIDE DEF a, n
<1>7. ASSUME NEW i \in 1 .. n + 1
      PROVE  /\ Len(a[i]) = Cardinality({p \in D : LineOf(s, p) = i})
             /\ i # n + 1 => a[i] # <<>>
  <2>1. CASE i \in 1 .. n
    <3>1. /\ Len(lines[i]) = Cardinality({p \in D : LineOf(s, p) = i})
          /\ i # n => lines[i] # <<>>
      BY <1>3, <2>1 DEF Filled, n
    <3> QED BY <1>2, <1>6, <2>1, <3>1
  <2>2. CASE i = n + 1
    <3>1. \A p \in D : LineOf(s, p) # n + 1
      BY <1>3, <1>5 DEF Filled
    <3>2. {p \in D : LineOf(s, p) = i} = {}
      BY <2>2, <3>1
    <3>3. Len(<<>>) = 0
      BY EmptySeq
    <3> QED BY <1>2, <2>2, <3>2, <3>3, FS_EmptySet
  <2> QED BY <1>4, <2>1, <2>2
<1>8. \A p \in D : /\ LineOf(s, p) \in 1 .. n + 1
                   /\ PlaceOf(s, p) \in DOMAIN a[LineOf(s, p)]
                   /\ Says(s, p, a[LineOf(s, p)][PlaceOf(s, p)])
  BY <1>2, <1>3, <1>5 DEF Filled
<1> QED BY <1>2, <1>3, <1>7, <1>8 DEF Filled, a, n

-----------------------------------------------------------------------------
(* The last line of tokens and the items it holds. *)

FilledTo(s, lines, n) ==
  /\ s \in Seq(LineChars) /\ n = Len(s)
  /\ Filled(s, lines, Items(s)) /\ Len(lines) = LineOf(s, n + 1)

LEMMA LastLine ==
  ASSUME NEW s, NEW lines, NEW n, FilledTo(s, lines, n)
  PROVE  /\ Last(lines) = lines[Len(lines)] /\ Last(lines) \in Seq(TokenSet)
         /\ Len(Last(lines)) = Cardinality(ItemsBefore(s, n + 1))
         /\ \A k \in Items(s) : k \in ItemsBefore(s, n + 1) <=> LineOf(s, k) = Len(lines)
         /\ ItemsBefore(s, n + 1) \subseteq Items(s)
         /\ PlaceOf(s, n + 1) = Len(Last(lines)) + 1
<1>0. /\ s \in Seq(LineChars) /\ n = Len(s)
      /\ Filled(s, lines, Items(s)) /\ Len(lines) = LineOf(s, n + 1)
  BY DEF FilledTo
<1>1. /\ n \in Nat /\ Items(s) \subseteq 1 .. n /\ n + 1 \in 1 .. n + 1
      /\ \A k \in 1 .. n : k < n + 1
  <2>1. n \in Nat /\ Items(s) \subseteq 1 .. n
    BY <1>0, ItemsFinite
  <2> QED BY <2>1, SMT
<1>2. \A k \in Items(s) : k \in ItemsBefore(s, n + 1) <=> LineOf(s, k) = Len(lines)
  <2>1. \A k \in Items(s) : k < n + 1
    BY <1>1
  <2> QED BY <1>0, <1>1, <2>1, LineBefore
<1>3. ItemsBefore(s, n + 1) \subseteq Items(s)
  BY DEF ItemsBefore
<1>4. {k \in Items(s) : LineOf(s, k) = Len(lines)} = ItemsBefore(s, n + 1)
  BY <1>2, <1>3
<1>5. Len(lines) \in DOMAIN lines /\ lines[Len(lines)] \in Seq(TokenSet)
  <2>1. lines \in Seq(Seq(TokenSet)) /\ lines # <<>>
    BY <1>0 DEF Filled
  <2>2. Len(lines) \in Nat \ {0} /\ DOMAIN lines = 1 .. Len(lines)
    BY <2>1, LenProperties, EmptySeq
  <2>3. Len(lines) \in 1 .. Len(lines)
    BY <2>2, SMT
  <2> QED BY <2>1, <2>2, <2>3, ElementOfSeq
<1>6. Len(lines[Len(lines)]) = Cardinality(ItemsBefore(s, n + 1))
  BY <1>0, <1>4, <1>5 DEF Filled
<1>7. Last(lines) = lines[Len(lines)]
  BY DEF Last
<1> QED BY <1>2, <1>3, <1>5, <1>6, <1>7 DEF PlaceOf

(* A word has one beginning and one end. *)
LEMMA OneWord ==
  ASSUME NEW s \in Seq(LineChars), NEW p, NEW q
  PROVE  /\ IsWord(s, p, q) => p \in 1 .. Len(s) /\ q \in p .. Len(s) /\ p \in Items(s)
         /\ \A k : IsWord(s, p, q) /\ IsWord(s, k, q) => k = p
         /\ \A k : IsWord(s, p, q) /\ IsWord(s, p, k) => k = q
<1>1. Len(s) \in Nat /\ DOMAIN s = 1 .. Len(s)
  BY LenProperties
<1>2. ASSUME NEW a, NEW b, IsWord(s, a, b)
      PROVE  a \in 1 .. Len(s) /\ b \in a .. Len(s) /\ a \in Items(s)
  BY <1>1, <1>2 DEF IsWord, Begins, InWord, Items
<1>3. ASSUME NEW k, IsWord(s, p, q), IsWord(s, k, q) PROVE k = p
  <2>1. p \in 1 .. Len(s) /\ k \in 1 .. Len(s) /\ q \in p .. Len(s) /\ q \in k .. Len(s)
    BY <1>2, <1>3
  <2>2. /\ k < p => p - 1 \in k .. q
        /\ p < k => k - 1 \in p .. q
        /\ k < p \/ p < k \/ k = p
    BY <1>1, <2>1, SMT
  <2> QED BY <1>3, <2>2 DEF IsWord, Begins
<1>4. ASSUME NEW k, IsWord(s, p, q), IsWord(s, p, k) PROVE k = q
  <2>1. p \in 1 .. Len(s) /\ q \in p .. Len(s) /\ k \in p .. Len(s)
    BY <1>2, <1>4
  <2>2. /\ k < q => k + 1 \in p .. q
        /\ q < k => q + 1 \in p .. k
        /\ k < q \/ q < k \/ k = q
    BY <1>1, <2>1, SMT
  <2> QED BY <1>4, <2>2 DEF IsWord
<1> QED BY <1>2, <1>3, <1>4

LEMMA Least ==
  ASSUME NEW S \in SUBSET Nat, S # {}
  PROVE  \E k \in S : \A j \in S : k <= j
<1> DEFINE R == OpToRel(<, Nat)
<1>1. IsWellFoundedOn(R, Nat)
  BY NatLessThanWellFounded
<1> HIDE DEF R
<1>2. PICK k \in S : \A j \in S : ~(<<j, k>> \in R)
  BY <1>1, WFMin
<1>3. ASSUME NEW j \in S PROVE k <= j
  <2>1. j \in Nat /\ k \in Nat
    OBVIOUS
  <2>2. j < k => <<j, k>> \in R
    BY <2>1 DEF R, OpToRel
  <2>3. ~(j < k)
    BY <1>2, <2>2
  <2> QED BY <2>1, <2>3, SMT
<1> QED BY <1>3

\* The text from a place to that same place is the character that stands there.
LEMMA TextOfOne ==
  ASSUME NEW S, NEW s, NEW m \in Int, s[m] \in S
  PROVE  /\ Len(SubSeq(s, m, m)) = 1
         /\ SubSeq(s, m, m)[1] = s[m]
         /\ SubSeq(s, m, m) \in Seq(S)
<1>1. \A i \in m .. m : i = m
  BY SMT
<1>2. \A i \in m .. m : s[i] \in S
  BY <1>1
<1>3. m <= m /\ m - m + 1 = 1 /\ 1 \in 1 .. m - m + 1 /\ m + 1 - 1 = m
  BY SMT
<1>4. /\ SubSeq(s, m, m) \in Seq(S)
      /\ Len(SubSeq(s, m, m)) = IF m <= m THEN m - m + 1 ELSE 0
      /\ \A i \in 1 .. m - m + 1 : SubSeq(s, m, m)[i] = s[m + i - 1]
  BY <1>2, SubSeqProperties
<1> QED BY <1>3, <1>4

(* The third token of a line that begins with .eqv. *)
LEMMA EqvLine ==
  ASSUME NEW s, NEW lines, NEW n, FilledTo(s, lines, n)
  PROVE  AfterEqv(s, n + 1) <=> /\ Len(Last(lines)) = 2
                                /\ Last(lines)[1] = Tok("meta", <<"eqv">>)
<1> DEFINE B == ItemsBefore(s, n + 1)
           x == Last(lines)
<1>1. /\ x = lines[Len(lines)] /\ x \in Seq(TokenSet) /\ Len(x) = Cardinality(B)
      /\ \A k \in Items(s) : k \in B <=> LineOf(s, k) = Len(lines)
      /\ B \subseteq Items(s) /\ PlaceOf(s, n + 1) = Len(x) + 1
  BY LastLine
<1> HIDE DEF x
<1>0. s \in Seq(LineChars) /\ n = Len(s) /\ Filled(s, lines, Items(s))
  BY DEF FilledTo
<1>2. n \in Nat /\ DOMAIN s = 1 .. n /\ Items(s) \subseteq 1 .. n /\ IsFiniteSet(Items(s))
  BY <1>0, ItemsFinite, LenProperties
<1>3. Len(x) \in Nat /\ (PlaceOf(s, n + 1) = 3 <=> Len(x) = 2)
  <2>1. Len(x) \in Nat
    BY <1>1, LenProperties
  <2> QED BY <1>1, <2>1, SMT
<1>4. ASSUME NEW k \in B, PlaceOf(s, k) = 1
      PROVE  x[1] = Tok("meta", <<"eqv">>)
               <=> s[k] = "." /\ IsWord(s, k, k + 1) /\ s[k + 1] = "eqv"
  <2>1. /\ k \in 1 .. n /\ k \in Items(s) /\ LineOf(s, k) = Len(lines)
        /\ Says(s, k, lines[LineOf(s, k)][PlaceOf(s, k)])
    BY <1>0, <1>1, <1>2 DEF Filled
  <2>2. Says(s, k, x[1])
    BY <1>1, <1>4, <2>1
  <2>3. k \in Nat /\ k + 1 \in Int /\ s[k] \in LineChars
    BY <1>2, <2>1, <1>0, ElementOfSeq, SMT
  <2>4. ASSUME x[1] = Tok("meta", <<"eqv">>)
        PROVE  s[k] = "." /\ IsWord(s, k, k + 1) /\ s[k + 1] = "eqv"
    <3>1. x[1].cat = "meta" /\ x[1].val = <<"eqv">>
      BY <2>4 DEF Tok
    <3>2. PICK q \in DOMAIN s : /\ IsWord(s, k, q)
                               /\ x[1] = Tok(Category(s, k, q), Body(s, k, q))
      <4>1. ~(Has(s, k, DOMAIN Separator) /\ x[1] = Tok(Separator[s[k]], <<s[k]>>))
        <5>1. \A c \in DOMAIN Separator : Separator[c] # "meta"
          BY DEF Separator
        <5> QED BY <3>1, <5>1 DEF Has, Tok
      <4>2. \A q \in DOMAIN s : x[1] # Tok("str", SubSeq(s, k + 1, q - 1))
        BY <3>1 DEF Tok
      <4> QED BY <2>2, <4>1, <4>2 DEF Says
    <3>3. Category(s, k, q) = "meta" /\ Body(s, k, q) = <<"eqv">>
      BY <3>1, <3>2 DEF Tok
    <3>4. s[k] = "."
      <4>1. Mark["$"] = "reg" /\ Mark["%"] = "param"
        BY DEF Mark
      <4> QED BY <3>3, <4>1 DEF Category
    <3>5. SubSeq(s, k + 1, q) = <<"eqv">>
      BY <3>3, <3>4 DEF Body, Mark
    <3>6. q \in k .. n /\ q \in Int
      <4>1. q \in k .. n
        BY <1>0, <3>2 DEF IsWord
      <4> QED BY <1>2, <4>1, SMT
    <3>7. /\ Len(SubSeq(s, k + 1, q)) = IF k + 1 <= q THEN q - (k + 1) + 1 ELSE 0
          /\ \A i \in 1 .. q - (k + 1) + 1 : SubSeq(s, k + 1, q)[i] = s[(k + 1) + i - 1]
      <4>1. \A i \in k + 1 .. q : i \in 1 .. n
        BY <1>2, <2>1, <3>6, SMT
      <4>2. \A i \in k + 1 .. q : s[i] \in LineChars
        BY <1>0, <1>2, <4>1, ElementOfSeq
      <4> QED BY <2>3, <3>6, <4>2, SubSeqProperties
    <3>8. Len(<<"eqv">>) = 1 /\ <<"eqv">>[1] = "eqv"
      OBVIOUS
    <3>9. q = k + 1
      <4>1. 1 = IF k + 1 <= q THEN q - (k + 1) + 1 ELSE 0
        BY <3>5, <3>7, <3>8
      <4> QED BY <2>3, <3>6, <4>1, SMT
    <3>10. s[k + 1] = "eqv"
      <4>1. 1 \in 1 .. q - (k + 1) + 1 /\ (k + 1) + 1 - 1 = k + 1
        BY <2>3, <3>9, SMT
      <4> QED BY <3>5, <3>7, <3>8, <4>1
    <3> QED BY <3>2, <3>4, <3>9, <3>10
  <2>5. ASSUME s[k] = ".", IsWord(s, k, k + 1), s[k + 1] = "eqv"
        PROVE  x[1] = Tok("meta", <<"eqv">>)
    <3>1. k + 1 \in 1 .. n
      <4>1. k + 1 \in k .. n
        BY <1>0, <2>5 DEF IsWord
      <4> QED BY <1>2, <2>3, <2>1, <4>1, SMT
    <3>2. PICK q \in DOMAIN s : /\ IsWord(s, k, q)
                               /\ x[1] = Tok(Category(s, k, q), Body(s, k, q))
      <4>1. ~Has(s, k, DOMAIN Separator)
        BY <2>5 DEF Has, Separator
      <4>2. \A q : ~IsString(s, k, q)
        BY <2>5 DEF IsString, Has, Quote
      <4> QED BY <2>2, <4>1, <4>2 DEF Says
    <3>3. q = k + 1
      BY <1>0, <2>5, <3>2, OneWord
    <3>4. Body(s, k, q) = <<"eqv">>
      <4>1. Body(s, k, q) = SubSeq(s, k + 1, k + 1)
        BY <2>5, <3>3 DEF Body, Mark
      <4>2. /\ Len(SubSeq(s, k + 1, k + 1)) = 1
            /\ SubSeq(s, k + 1, k + 1)[1] = s[k + 1]
            /\ SubSeq(s, k + 1, k + 1) \in Seq(LineChars)
        <5>1. k + 1 \in Int /\ s[k + 1] \in LineChars
          BY <1>0, <1>2, <2>3, <3>1, ElementOfSeq
        <5> QED BY <5>1, TextOfOne
      <4>3. "eqv" \in LineChars
        BY <1>0, <1>2, <2>5, <3>1, ElementOfSeq
      <4>4. /\ <<"eqv">> \in Seq(LineChars) /\ Len(<<"eqv">>) = 1 /\ <<"eqv">>[1] = "eqv"
        BY <4>3
      <4>5. \A i \in 1 .. 1 : i = 1
        BY SMT
      <4>6. SubSeq(s, k + 1, k + 1) = <<"eqv">>
        BY <2>5, <4>2, <4>4, <4>5, SeqEqual
      <4> QED BY <4>1, <4>6
    <3>5. Category(s, k, q) = "meta"
      <4>1. ~Has(s, q + 1, {":"})
        <5>1. CASE q + 1 = n + 1
          <6>1. n + 1 \notin 1 .. n
            BY <1>2, SMT
          <6> QED BY <1>2, <5>1, <6>1 DEF Has
        <5>2. CASE q + 1 # n + 1
          <6>1. q + 1 \in k .. (n + 1) - 1
            BY <1>2, <2>3, <3>1, <3>3, <5>2, SMT
          <6> QED BY <6>1 DEF ItemsBefore
        <5> QED BY <5>1, <5>2
      <4>2. IsIn(<<"eqv">>, META_DIRECTIVES) /\ ~IsIn(<<"eqv">>, MEM_SEC_DIRECTIVES)
        <5>1. \A a : <<"eqv">> = <<a>> => a = "eqv"
          OBVIOUS
        <5> QED BY <5>1 DEF IsIn, META_DIRECTIVES, MEM_SEC_DIRECTIVES
      <4>3. s[k] \notin {"$", "%"} /\ s[k] \notin Digits
        BY <2>5 DEF Digits
      <4>4. PICK t : t = Body(s, k, q)
        OBVIOUS
      <4>5. IsIn(t, META_DIRECTIVES) /\ ~IsIn(t, MEM_SEC_DIRECTIVES)
        BY <3>4, <4>2, <4>4
      <4> QED BY <2>5, <4>1, <4>3, <4>4, <4>5, SMT DEF Category
    <3> QED BY <3>2, <3>4, <3>5
  <2> QED BY <2>4, <2>5
<1>5. Len(x) = 2 => \E k \in B : PlaceOf(s, k) = 1
  <2> SUFFICES ASSUME Len(x) = 2 PROVE \E k \in B : PlaceOf(s, k) = 1
    OBVIOUS
  <2>1. B # {} /\ B \in SUBSET Nat
    <3>1. Cardinality({}) = 0
      BY FS_EmptySet
    <3>2. \A k \in 1 .. n : k \in Nat
      BY SMT
    <3>3. B # {}
      <4> HIDE DEF B
      <4>1. B = {} => Len(x) = 0
        BY <1>1, <3>1
      <4>2. 2 # 0
        BY SMT
      <4> QED BY <4>1, <4>2
    <3> QED BY <1>1, <1>2, <3>2, <3>3
  <2>2. PICK k \in B : \A j \in B : k <= j
    BY <2>1, Least
  <2>3. ItemsBefore(s, k) = {}
    <3>1. ASSUME NEW j \in ItemsBefore(s, k) PROVE FALSE
      <4>1. j \in Items(s) /\ j < k /\ k \in Items(s)
        BY <1>1 DEF ItemsBefore
      <4>2. j \in 1 .. n /\ k \in 1 .. n /\ ~(k <= j) /\ k \in 1 .. n + 1 /\ j < n + 1
        <5>1. j \in 1 .. n /\ k \in 1 .. n
          BY <1>2, <4>1
        <5> QED BY <1>2, <4>1, <5>1, SMT
      <4>3. LineOf(s, j) = LineOf(s, k)
        BY <1>0, <1>2, <4>1, <4>2, LineBefore
      <4>4. j \in B
        BY <1>1, <4>1, <4>3
      <4> QED BY <2>2, <4>2, <4>4
    <3> QED BY <3>1
  <2>4. PlaceOf(s, k) = 1
    <3>1. Cardinality({}) = 0
      BY FS_EmptySet
    <3> QED BY <2>3, <3>1, SMT DEF PlaceOf
  <2> QED BY <2>4
<1>6. AfterEqv(s, n + 1) <=>
        /\ Len(x) = 2
        /\ \E k \in B : /\ PlaceOf(s, k) = 1
                        /\ s[k] = "." /\ IsWord(s, k, k + 1) /\ s[k + 1] = "eqv"
  BY <1>3 DEF AfterEqv
<1>7. QED
  BY <1>4, <1>5, <1>6 DEF x

-----------------------------------------------------------------------------
(* Lines with a mark or a colon that has no name, and refused ones. *)

(* No mark or colon without a name so far: what follows may be the name. *)
Clean(s) ==
  \A p \in DOMAIN s : /\ Has(s, p, DOMAIN Mark) /\ IsWord(s, p, p) => p = Len(s)
                      /\ Has(s, p, {":"}) => InWord(s, p - 1)

LEMMA CleanLonger ==
  ASSUME NEW s, NEW c, NEW t, NEW n, Extends(s, c, t, n), Clean(t)
  PROVE  /\ Clean(s)
         /\ \A p : IsWord(s, p, n) /\ s[p] \in DOMAIN Mark => p # n \/ InWord(t, n + 1)
         /\ Colon(s, c) => InWord(s, n)
<1>1. /\ n \in Nat /\ DOMAIN s = 1 .. n /\ DOMAIN t = 1 .. n + 1 /\ s \in Seq(LineChars)
      /\ Len(s) = n /\ Len(t) = n + 1 /\ \A p \in 1 .. n : t[p] = s[p]
  BY OneMore
<1>2. /\ \A cs : \A p \in 0 .. n : Has(t, p, cs) <=> Has(s, p, cs)
      /\ \A cs : Has(t, n + 1, cs) <=> ~Quoted(s)[n + 1] /\ c \in cs
      /\ \A p \in 0 .. n : InWord(t, p) <=> InWord(s, p)
  BY Longer
<1>3. ASSUME NEW p \in 1 .. n
      PROVE  /\ Has(s, p, DOMAIN Mark) /\ IsWord(s, p, p) => p = n
             /\ Has(s, p, {":"}) => InWord(s, p - 1)
  <2>1. p \in 1 .. n + 1 /\ p \in 0 .. n /\ p - 1 \in 0 .. n /\ p # n + 1
    BY <1>1, SMT
  <2>2. p # n => (IsWord(t, p, p) <=> IsWord(s, p, p))
    BY EndsLonger
  <2>3. /\ Has(t, p, DOMAIN Mark) /\ IsWord(t, p, p) => p = n + 1
        /\ Has(t, p, {":"}) => InWord(t, p - 1)
    BY <1>1, <2>1 DEF Clean
  <2> QED BY <1>2, <2>1, <2>2, <2>3
<1>4. Clean(s)
  BY <1>1, <1>3 DEF Clean
<1>5. ASSUME NEW p, IsWord(s, p, n), s[p] \in DOMAIN Mark, p = n PROVE InWord(t, n + 1)
  <2>1. p \in 1 .. n /\ p \in Items(s)
    BY <1>1, <1>5, OneWord
  <2>2. p \in 0 .. n /\ p \in 1 .. n + 1 /\ p # n + 1
    BY <1>1, <2>1, SMT
  <2>3. Has(t, p, DOMAIN Mark)
    <3>1. InWord(s, p)
      BY <1>5 DEF IsWord, Begins
    <3>2. Has(s, p, DOMAIN Mark)
      BY <1>1, <1>5, <3>1 DEF Has, InWord
    <3> QED BY <1>2, <2>2, <3>2
  <2>4. ~InWord(t, n + 1) => IsWord(t, p, n)
    BY <1>5, <2>1, EndsLonger
  <2> QED BY <1>1, <1>5, <2>2, <2>3, <2>4 DEF Clean
<1>6. Colon(s, c) => InWord(s, n)
  <2>1. Colon(s, c) => Has(t, n + 1, {":"})
    BY <1>1, <1>2 DEF Colon
  <2>2. n + 1 \in 1 .. n + 1 /\ (n + 1) - 1 = n /\ n \in 0 .. n
    BY <1>1, SMT
  <2> QED BY <1>1, <1>2, <2>1, <2>2 DEF Clean
<1> QED BY <1>4, <1>5, <1>6

LEMMA NotStray ==
  ASSUME NEW s \in Seq(LineChars), ~Stray(s)
  PROVE  /\ Clean(s)
         /\ \A p : IsWord(s, p, Len(s)) /\ s[p] \in DOMAIN Mark => p # Len(s)
<1>1. Clean(s)
  BY DEF Stray, Clean
<1>2. ASSUME NEW p, IsWord(s, p, Len(s)), s[p] \in DOMAIN Mark PROVE p # Len(s)
  <2>1. p \in DOMAIN s /\ Has(s, p, DOMAIN Mark)
    BY <1>2 DEF IsWord, Begins, InWord, Has
  <2> QED BY <1>2, <2>1 DEF Stray
<1> QED BY <1>1, <1>2

(* Nothing yet that ends the line or gets it refused. *)
NoFault(s) ==
  \A p \in DOMAIN s : /\ ~Has(s, p, {"#"})
                      /\ ~(Has(s, p, {Quote}) /\ InWord(s, p - 1))
                      /\ ~(Has(s, p, Stops) /\ ItemsBefore(s, p) = {})

Fault(s, c) ==
  /\ ~Quoted(s)[Len(s) + 1]
  /\ \/ c \in {Quote, "#"} /\ InWord(s, Len(s))
     \/ c \in Stops /\ ItemsBefore(s, Len(s) + 1) = {}

LEMMA FaultsLonger ==
  ASSUME NEW s, NEW c, NEW t, NEW n, Extends(s, c, t, n), NoFault(s)
  PROVE  /\ Malformed(t) <=> Quoted(t)[n + 2] \/ Fault(s, c)
         /\ NoFault(t) <=> ~Fault(s, c) /\ (c = "#" => Quoted(s)[n + 1])
<1>1. /\ n \in Nat /\ DOMAIN s = 1 .. n /\ DOMAIN t = 1 .. n + 1
      /\ Len(s) = n /\ Len(t) = n + 1
  BY OneMore
<1>2. /\ \A cs : \A p \in 0 .. n : Has(t, p, cs) <=> Has(s, p, cs)
      /\ \A cs : Has(t, n + 1, cs) <=> ~Quoted(s)[n + 1] /\ c \in cs
      /\ \A p \in 0 .. n : InWord(t, p) <=> InWord(s, p)
  BY Longer
<1>3. \A p \in 1 .. n + 1 : ItemsBefore(t, p) = ItemsBefore(s, p)
  BY EarlierPlaces
<1>4. /\ \A p : p \in 1 .. n + 1 <=> p \in 1 .. n \/ p = n + 1
      /\ \A p \in 1 .. n : p \in 0 .. n /\ p - 1 \in 0 .. n
      /\ (n + 1) - 1 = n /\ n \in 0 .. n /\ n + 1 \in 1 .. n + 1 /\ (n + 1) + 1 = n + 2
  BY <1>1, SMT
<1> DEFINE Bad(u, p) == \/ Has(u, p, {Quote, "#"}) /\ InWord(u, p - 1)
                        \/ Has(u, p, Stops) /\ ItemsBefore(u, p) = {}
           Fine(u, p) == /\ ~Has(u, p, {"#"})
                         /\ ~(Has(u, p, {Quote}) /\ InWord(u, p - 1))
                         /\ ~(Has(u, p, Stops) /\ ItemsBefore(u, p) = {})
<1>5. ASSUME NEW p \in 1 .. n PROVE ~Bad(t, p) /\ Fine(t, p)
  <2>1. Fine(s, p)
    BY <1>1 DEF NoFault
  <2>2. ~Bad(s, p)
    BY <2>1 DEF Has
  <2>3. ItemsBefore(t, p) = ItemsBefore(s, p) /\ p \in 0 .. n /\ p - 1 \in 0 .. n
    BY <1>3, <1>4
  <2>4. InWord(t, p - 1) <=> InWord(s, p - 1)
    BY <1>2, <2>3
  <2> QED BY <1>2, <2>1, <2>2, <2>3, <2>4
<1>6. ItemsBefore(t, n + 1) = ItemsBefore(s, n + 1) /\ (InWord(t, (n + 1) - 1) <=> InWord(s, n))
  BY <1>2, <1>3, <1>4
<1>7. Bad(t, n + 1) <=> Fault(s, c)
  BY <1>1, <1>2, <1>6 DEF Fault
<1>8. Fine(t, n + 1) <=> ~Fault(s, c) /\ (c = "#" => Quoted(s)[n + 1])
  BY <1>1, <1>2, <1>6 DEF Fault
<1>9. Malformed(t) <=> Quoted(t)[n + 2] \/ \E p \in 1 .. n + 1 : Bad(t, p)
  BY <1>1, <1>4 DEF Malformed
<1>10. NoFault(t) <=> \A p \in 1 .. n + 1 : Fine(t, p)
  BY <1>1 DEF NoFault
<1> HIDE DEF Bad, Fine
<1> QED BY <1>4, <1>5, <1>7, <1>8, <1>9, <1>10

LEMMA FaultlessIsRight ==
  ASSUME NEW s, NoFault(s)
  PROVE  Malformed(s) <=> Quoted(s)[Len(s) + 1]
<1>1. \A p \in DOMAIN s : ~Has(s, p, {Quote, "#"}) \/ ~InWord(s, p - 1)
  BY DEF NoFault, Has
<1>2. \A p \in DOMAIN s : ~(Has(s, p, Stops) /\ ItemsBefore(s, p) = {})
  BY DEF NoFault
<1> QED BY <1>1, <1>2 DEF Malformed

-----------------------------------------------------------------------------
(* What the loop keeps about the line as far as it has been read. *)

(* What a word that begins at p is taken for. *)
KindIs(s, p, type) ==
  /\ s[p] \in DOMAIN Mark => type = Mark[s[p]]
  /\ s[p] \notin DOMAIN Mark /\ s[p] \in Digits => type = "imm"
  /\ s[p] \notin DOMAIN Mark \union Digits /\ (PlaceOf(s, p) = 1 \/ AfterEqv(s, p))
       => type = "instr"
  /\ s[p] \notin DOMAIN Mark \union Digits /\ ~(PlaceOf(s, p) = 1 \/ AfterEqv(s, p))
       => type = "ref"

(* All items but the one at p, the last, are in the tokens. *)
Pending(s, lines, p) ==
  /\ p \in Items(s) /\ \A k \in Items(s) : k <= p
  /\ Filled(s, lines, Items(s) \ {p}) /\ Len(lines) = LineOf(s, p)

AtGap(s, lines, cur) ==
  /\ ~Quoted(s)[Len(s) + 1] /\ ~InWord(s, Len(s))
  /\ Filled(s, lines, Items(s)) /\ cur = <<>>

AtWord(s, lines, cur, type, p) ==
  /\ IsWord(s, p, Len(s)) /\ Pending(s, lines, p)
  /\ cur = Body(s, p, Len(s)) /\ KindIs(s, p, type)

AtString(s, lines, cur, p) ==
  /\ Has(s, p, {Quote}) /\ \A k \in p + 1 .. Len(s) + 1 : Quoted(s)[k]
  /\ Pending(s, lines, p) /\ cur = SubSeq(s, p + 1, Len(s))

(* No text has been lost, and what has not ended is the current token. *)
Scan(s, lines, cur, type, prev) ==
  /\ s \in Seq(LineChars) /\ NoFault(s) /\ Len(lines) = LineOf(s, Len(s) + 1)
  /\ \/ AtGap(s, lines, cur) /\ type = "unknown" /\ prev # "\\"
     \/ (\E p : AtWord(s, lines, cur, type, p)) /\ prev # "\\"
     \/ /\ \E p : AtString(s, lines, cur, p)
        /\ type = "str" /\ (prev = "\\" <=> s[Len(s)] = "\\")

LEMMA KindFacts ==
  ASSUME NEW s, NEW p, NEW type, KindIs(s, p, type)
  PROVE  type \in {"alloc", "reg", "param", "imm", "instr", "ref"}
<1>1. CASE s[p] \in DOMAIN Mark
  <2>1. Mark[s[p]] \in {"alloc", "reg", "param"}
    BY <1>1 DEF Mark
  <2> QED BY <1>1, <2>1 DEF KindIs
<1>2. CASE s[p] \notin DOMAIN Mark
  BY <1>2 DEF KindIs
<1> QED BY <1>1, <1>2

(* Nothing is quoted after a word, and no word is before what is. *)
LEMMA WordNotQuoted ==
  ASSUME NEW s \in Seq(LineChars)
  PROVE  InWord(s, Len(s)) => ~Quoted(s)[Len(s) + 1]
<1>1. Len(s) \in Nat /\ DOMAIN s = 1 .. Len(s)
  BY LenProperties
<1>2. QuotedRule(s, Quoted(s))
  BY QuotedFacts
<1>3. ASSUME InWord(s, Len(s)) PROVE ~Quoted(s)[Len(s) + 1]
  <2>1. Len(s) \in 1 .. Len(s) /\ ~Quoted(s)[Len(s)] /\ s[Len(s)] # Quote
    BY <1>1, <1>3 DEF InWord
  <2>2. Len(s) + 1 \in 0 .. Len(s) + 1 /\ ~(Len(s) + 1 <= 1) /\ (Len(s) + 1) - 1 = Len(s)
    BY <1>1, <2>1, SMT
  <2>3. Quoted(s)[Len(s) + 1] = QuotedNext(s, Quoted(s), Len(s) + 1)
    BY <1>2, <2>2 DEF QuotedRule
  <2> QED BY <2>1, <2>2, <2>3 DEF QuotedNext
<1> QED BY <1>3

(* The parts of Pending for a line of one more character. *)
LEMMA PendingLonger ==
  ASSUME NEW s, NEW c, NEW t, NEW n, Extends(s, c, t, n), Items(t) = Items(s),
         NEW lines, NEW p, Pending(s, lines, p),
         IsWord(s, p, n) \/ \A k : ~IsWord(s, k, n)
  PROVE  Pending(t, lines, p) /\ p \in 1 .. n /\ LineOf(t, p) = LineOf(s, p)
<1>1. /\ s \in Seq(LineChars) /\ n \in Nat /\ Items(s) \subseteq 1 .. n
  BY OneMore, ItemsLonger
<1>2. p \in Items(s) /\ p \in 1 .. n /\ p \in 1 .. n + 1
  <2>1. p \in Items(s)
    BY DEF Pending
  <2> QED BY <1>1, <2>1, SMT
<1>3. LineOf(t, p) = LineOf(s, p)
  BY <1>2, EarlierPlaces
<1>4. \A k \in Items(s) \ {p} : ~IsWord(s, k, n)
  BY <1>1, OneWord
<1>5. Filled(t, lines, Items(s) \ {p})
  <2>1. Filled(s, lines, Items(s) \ {p})
    BY DEF Pending
  <2> QED BY <1>4, <2>1, FilledLonger
<1> QED BY <1>2, <1>3, <1>5 DEF Pending

LEMMA TextGrows ==
  ASSUME NEW s, NEW c, NEW t, NEW n, Extends(s, c, t, n), NEW k \in 1 .. n + 1
  PROVE  SubSeq(t, k, n + 1) = Append(SubSeq(s, k, n), c)
<1>0. /\ s \in Seq(LineChars) /\ t \in Seq(LineChars) /\ c \in LineChars /\ n \in Nat
      /\ DOMAIN s = 1 .. n /\ DOMAIN t = 1 .. n + 1
      /\ \A i \in 1 .. n : t[i] = s[i]
      /\ t[n + 1] = c
  BY OneMore
<1>1. /\ k \in Int /\ n + 1 \in Int /\ k <= n + 1 /\ \A i \in k .. n : i \in 1 .. n
      /\ \A i \in k .. n + 1 : i \in 1 .. n + 1
  BY <1>0, SMT
<1>2. \A i \in k .. n : s[i] \in LineChars
  BY <1>0, <1>1, ElementOfSeq
<1>3. \A i \in k .. n + 1 : t[i] \in LineChars
  BY <1>0, <1>1, ElementOfSeq
<1> DEFINE a == SubSeq(s, k, n)
           b == SubSeq(t, k, n + 1)
<1>4. /\ a \in Seq(LineChars) /\ Len(a) = IF k <= n THEN n - k + 1 ELSE 0
      /\ \A i \in 1 .. n - k + 1 : a[i] = s[k + i - 1]
  BY <1>0, <1>1, <1>2, SubSeqProperties
<1>5. PICK m : m = n + 1
  OBVIOUS
<1>6. /\ b \in Seq(LineChars) /\ Len(b) = IF k <= m THEN m - k + 1 ELSE 0
      /\ \A i \in 1 .. m - k + 1 : b[i] = t[k + i - 1]
  <2>1. m \in Int /\ \A i \in k .. m : t[i] \in LineChars
    BY <1>1, <1>3, <1>5
  <2>2. SubSeq(t, k, m) = b
    BY <1>5
  <2> QED BY <1>1, <2>1, <2>2, SubSeqProperties
<1> HIDE DEF a, b
<1>7. /\ Append(a, c) \in Seq(LineChars) /\ Len(Append(a, c)) = Len(a) + 1
      /\ \A i \in 1 .. Len(a) : Append(a, c)[i] = a[i]
      /\ Append(a, c)[Len(a) + 1] = c
  BY <1>0, <1>4, AppendProperties
<1>8. Len(a) = n - k + 1 /\ Len(b) = Len(a) + 1 /\ Len(a) \in Nat
  BY <1>0, <1>1, <1>4, <1>5, <1>6, SMT
<1>9. \A i \in 1 .. Len(b) : b[i] = Append(a, c)[i]
  <2> TAKE i \in 1 .. Len(b)
  <2>1. i \in 1 .. m - k + 1
    BY <1>0, <1>1, <1>5, <1>8, SMT
  <2>2. CASE i \in 1 .. Len(a)
    <3>1. i \in 1 .. n - k + 1 /\ k + i - 1 \in 1 .. n
      BY <1>0, <1>1, <1>8, <2>2, SMT
    <3> QED BY <1>0, <1>4, <1>6, <1>7, <2>1, <2>2, <3>1
  <2>3. CASE i = Len(a) + 1
    <3>1. k + i - 1 = n + 1
      BY <1>0, <1>1, <1>8, <2>3, SMT
    <3> QED BY <1>0, <1>6, <1>7, <2>1, <2>3, <3>1
  <2> QED BY <1>8, <2>2, <2>3, SMT
<1>10. b = Append(a, c)
  BY <1>6, <1>7, <1>8, <1>9, SeqEqual
<1> QED BY <1>10 DEF a, b

LEMMA WordGrows ==
  ASSUME NEW s, NEW c, NEW t, NEW n, Extends(s, c, t, n), Letter(c),
         NEW lines, NEW cur, NEW type, NEW p, AtWord(s, lines, cur, type, p)
  PROVE  AtWord(t, lines, Append(cur, c), type, p)
<1>1. /\ s \in Seq(LineChars) /\ n \in Nat /\ Len(s) = n /\ Len(t) = n + 1 /\ t \in Seq(LineChars)
      /\ DOMAIN s = 1 .. n /\ DOMAIN t = 1 .. n + 1
      /\ \A k \in 1 .. n : t[k] = s[k]
      /\ t[n + 1] = c /\ c \in LineChars
  BY OneMore
<1>2. /\ IsWord(s, p, n) /\ Pending(s, lines, p) /\ cur = Body(s, p, n) /\ KindIs(s, p, type)
  BY <1>1 DEF AtWord
<1>3. p \in 1 .. n /\ n \in p .. n /\ p \in Items(s)
  BY <1>1, <1>2, OneWord
<1>4. InWord(s, n) /\ ~Quoted(s)[n + 1]
  <2>1. InWord(s, n)
    BY <1>2, <1>3 DEF IsWord
  <2> QED BY <1>1, <2>1, WordNotQuoted
<1>5. InWord(t, n + 1) /\ ~NewItem(s, c)
  <2>1. InWord(t, n + 1)
    BY <1>4, Longer
  <2>2. ~NewItem(s, c)
    BY <1>1, <1>4 DEF NewItem, Letter, Stops
  <2> QED BY <2>1, <2>2
<1>6. Items(t) = Items(s)
  BY <1>5, ItemsLonger
<1>7. Pending(t, lines, p)
  BY <1>2, <1>6, PendingLonger
<1>8. IsWord(t, p, n + 1)
  <2>1. Begins(t, p)
    <3>1. Begins(s, p)
      BY <1>2 DEF IsWord
    <3> QED BY <1>3, <3>1, Longer
  <2>2. n + 1 \in p .. n + 1 /\ \A k \in p .. n + 1 : (k \in p .. n /\ k \in 0 .. n) \/ k = n + 1
    BY <1>1, <1>3, SMT
  <2>3. \A k \in p .. n + 1 : InWord(t, k)
    <3>1. \A k \in p .. n : InWord(s, k)
      BY <1>2 DEF IsWord
    <3> QED BY <1>5, <2>2, <3>1, Longer
  <2>4. ~InWord(t, (n + 1) + 1)
    <3>1. (n + 1) + 1 \notin 1 .. n + 1
      BY <1>1, SMT
    <3> QED BY <1>1, <3>1 DEF InWord
  <2> QED BY <1>1, <2>1, <2>2, <2>3, <2>4 DEF IsWord
<1>9. Body(t, p, n + 1) = Append(Body(s, p, n), c)
  <2>1. p \in 1 .. n + 1 /\ p + 1 \in 1 .. n + 1
    BY <1>1, <1>3, SMT
  <2>2. /\ SubSeq(t, p, n + 1) = Append(SubSeq(s, p, n), c)
        /\ SubSeq(t, p + 1, n + 1) = Append(SubSeq(s, p + 1, n), c)
    BY <2>1, TextGrows
  <2> QED BY <1>1, <1>3, <2>2 DEF Body
<1>10. KindIs(t, p, type)
  <2>1. t[p] = s[p] /\ p \in 1 .. n + 1 /\ Begins(t, p)
    BY <1>1, <1>3, <1>8, SMT DEF IsWord
  <2>2. (AfterEqv(t, p) <=> AfterEqv(s, p)) /\ PlaceOf(t, p) = PlaceOf(s, p)
    BY <2>1, EqvLonger, EarlierPlaces
  <2> QED BY <1>2, <2>1, <2>2 DEF KindIs
<1> QED BY <1>1, <1>2, <1>7, <1>8, <1>9, <1>10 DEF AtWord

-----------------------------------------------------------------------------
(* A word, a string or a stop begins, and ends. *)

LEMMA NothingPends ==
  ASSUME NEW s \in Seq(LineChars), ~InWord(s, Len(s))
  PROVE  \A k : ~IsWord(s, k, Len(s))
<1>1. ASSUME NEW k, IsWord(s, k, Len(s)) PROVE FALSE
  <2>1. Len(s) \in k .. Len(s)
    BY <1>1, OneWord
  <2> QED BY <1>1, <2>1 DEF IsWord
<1> QED BY <1>1

(* An item begins: all before it are in the tokens. *)
LEMMA ItemBegins ==
  ASSUME NEW s, NEW c, NEW t, NEW n, Extends(s, c, t, n), NewItem(s, c),
         NEW lines, Filled(s, lines, Items(s)), ~InWord(s, n),
         Len(lines) = LineOf(s, n + 1)
  PROVE  /\ Pending(t, lines, n + 1) /\ Items(t) \ {n + 1} = Items(s)
         /\ Filled(t, lines, Items(s))
<1>1. /\ s \in Seq(LineChars) /\ n \in Nat /\ Len(s) = n
      /\ Items(s) \subseteq 1 .. n /\ Items(s) \subseteq Items(t)
      /\ Items(t) \subseteq Items(s) \union {n + 1} /\ n + 1 \in Items(t)
  BY OneMore, ItemsLonger
<1>2. /\ n + 1 \notin Items(s) /\ n + 1 \in 1 .. n + 1
      /\ \A k \in 1 .. n : k <= n + 1 /\ n + 1 <= n + 1
  <2>1. n + 1 \notin 1 .. n
    BY <1>1, SMT
  <2> QED BY <1>1, <2>1, SMT
<1>3. Items(t) \ {n + 1} = Items(s) /\ \A k \in Items(t) : k <= n + 1
  <2>1. n + 1 <= n + 1
    BY <1>1, SMT
  <2> QED BY <1>1, <1>2, <2>1
<1>4. Filled(t, lines, Items(s))
  <2>1. \A k \in Items(s) : ~IsWord(s, k, n)
    BY <1>1, NothingPends
  <2> QED BY <2>1, FilledLonger
<1>5. LineOf(t, n + 1) = LineOf(s, n + 1)
  BY <1>2, EarlierPlaces
<1> QED BY <1>1, <1>3, <1>4, <1>5 DEF Pending

(* Where a name may be an instruction. *)
AtInstr(lines) ==
  \/ Last(lines) = <<>>
  \/ Len(Last(lines)) = 2 /\ Last(lines)[1] = Tok("meta", <<"eqv">>)

LEMMA WordBegins ==
  ASSUME NEW s, NEW c, NEW t, NEW n, Extends(s, c, t, n), Letter(c),
         NEW lines, AtGap(s, lines, <<>>), Len(lines) = LineOf(s, n + 1),
         NEW cur, NEW type,
         c \in DOMAIN Mark => cur = <<>> /\ type = Mark[c],
         c \notin DOMAIN Mark => cur = <<c>>,
         c \notin DOMAIN Mark /\ c \in Digits => type = "imm",
         c \notin DOMAIN Mark \union Digits /\ AtInstr(lines) => type = "instr",
         c \notin DOMAIN Mark \union Digits /\ ~AtInstr(lines) => type = "ref"
  PROVE  AtWord(t, lines, cur, type, n + 1)
<1>1. /\ s \in Seq(LineChars) /\ n \in Nat /\ Len(s) = n /\ Len(t) = n + 1 /\ t \in Seq(LineChars)
      /\ DOMAIN t = 1 .. n + 1 /\ t[n + 1] = c /\ c \in LineChars
  BY OneMore
<1>2. ~Quoted(s)[n + 1] /\ ~InWord(s, n) /\ Filled(s, lines, Items(s))
  BY <1>1 DEF AtGap
<1>3. NewItem(s, c)
  BY <1>1, <1>2 DEF NewItem
<1>4. Pending(t, lines, n + 1)
  BY <1>1, <1>2, <1>3, ItemBegins
<1>5. IsWord(t, n + 1, n + 1)
  <2>1. InWord(t, n + 1) /\ Begins(t, n + 1)
    BY <1>2, Longer
  <2>2. n + 1 \in n + 1 .. n + 1 /\ \A k \in n + 1 .. n + 1 : k = n + 1
    BY <1>1, SMT
  <2>3. ~InWord(t, (n + 1) + 1)
    <3>1. (n + 1) + 1 \notin 1 .. n + 1
      BY <1>1, SMT
    <3> QED BY <1>1, <3>1 DEF InWord
  <2> QED BY <1>1, <2>1, <2>2, <2>3 DEF IsWord
<1>6. cur = Body(t, n + 1, n + 1)
  <2>1. CASE c \in DOMAIN Mark
    <3>1. Body(t, n + 1, n + 1) = SubSeq(t, (n + 1) + 1, n + 1)
      BY <1>1, <2>1 DEF Body
    <3>2. PICK a, b : a = (n + 1) + 1 /\ b = n + 1
      OBVIOUS
    <3>3. a \in Int /\ b \in Int /\ ~(a <= b) /\ \A i \in a .. b : t[i] \in LineChars
      <4>1. a \in Int /\ b \in Int /\ ~(a <= b) /\ \A i \in a .. b : FALSE
        BY <1>1, <3>2, SMT
      <4> QED BY <4>1
    <3>4. SubSeq(t, a, b) \in Seq(LineChars) /\ Len(SubSeq(t, a, b)) = 0
      <4>1. /\ SubSeq(t, a, b) \in Seq(LineChars)
            /\ Len(SubSeq(t, a, b)) = IF a <= b THEN b - a + 1 ELSE 0
        BY <3>3, SubSeqProperties
      <4> QED BY <3>3, <4>1
    <3>5. SubSeq(t, a, b) = <<>>
      BY <3>4, EmptySeq
    <3> QED BY <2>1, <3>1, <3>2, <3>5
  <2>2. CASE c \notin DOMAIN Mark
    <3>1. Body(t, n + 1, n + 1) = SubSeq(t, n + 1, n + 1)
      BY <1>1, <2>2 DEF Body
    <3>2. PICK m : m = n + 1
      OBVIOUS
    <3>3. m \in Int /\ \A i \in m .. m : i = m
      BY <1>1, <3>2, SMT
    <3>4. \A i \in m .. m : t[i] \in LineChars
      BY <1>1, <3>2, <3>3
    <3>5. /\ SubSeq(t, m, m) \in Seq(LineChars)
          /\ Len(SubSeq(t, m, m)) = IF m <= m THEN m - m + 1 ELSE 0
          /\ \A i \in 1 .. m - m + 1 : SubSeq(t, m, m)[i] = t[m + i - 1]
      BY <3>3, <3>4, SubSeqProperties
    <3>6. m <= m /\ m - m + 1 = 1 /\ 1 \in 1 .. 1 /\ m + 1 - 1 = m
      BY <3>3, SMT
    <3>7. <<c>> \in Seq(LineChars) /\ Len(<<c>>) = 1 /\ <<c>>[1] = c
      BY <1>1
    <3>8. \A i \in 1 .. 1 : i = 1
      BY SMT
    <3>9. SubSeq(t, m, m) = <<c>>
      <4>1. Len(SubSeq(t, m, m)) = 1 /\ SubSeq(t, m, m)[1] = c
        BY <1>1, <3>2, <3>5, <3>6
      <4> QED BY <3>5, <3>7, <3>8, <4>1, SeqEqual
    <3> QED BY <2>2, <3>1, <3>2, <3>9
  <2> QED BY <2>1, <2>2
<1>7. KindIs(t, n + 1, type)
  <2>1. FilledTo(s, lines, n)
    BY <1>1, <1>2 DEF FilledTo
  <2>2. /\ Last(lines) \in Seq(TokenSet) /\ PlaceOf(s, n + 1) = Len(Last(lines)) + 1
    BY <2>1, LastLine
  <2>3. PlaceOf(s, n + 1) = 1 <=> Last(lines) = <<>>
    <3>1. Len(Last(lines)) \in Nat /\ (Len(Last(lines)) = 0 <=> Last(lines) = <<>>)
      BY <2>2, LenProperties, EmptySeq
    <3>2. Len(Last(lines)) + 1 = 1 <=> Len(Last(lines)) = 0
      BY <3>1, SMT
    <3> QED BY <2>2, <3>1, <3>2
  <2>4. AfterEqv(s, n + 1) <=> /\ Len(Last(lines)) = 2
                               /\ Last(lines)[1] = Tok("meta", <<"eqv">>)
    BY <2>1, EqvLine
  <2>5. n + 1 \in 1 .. n + 1 /\ Begins(t, n + 1)
    BY <1>1, <1>5, SMT DEF IsWord
  <2>6. (AfterEqv(t, n + 1) <=> AfterEqv(s, n + 1)) /\ PlaceOf(t, n + 1) = PlaceOf(s, n + 1)
    BY <2>5, EqvLonger, EarlierPlaces
  <2>7. AtInstr(lines)
           <=> (PlaceOf(t, n + 1) = 1 \/ AfterEqv(t, n + 1))
    BY <2>3, <2>4, <2>6 DEF AtInstr
  <2> QED BY <1>1, <2>7 DEF KindIs
<1> QED BY <1>1, <1>4, <1>5, <1>6, <1>7 DEF AtWord

(* CategoryAt, by what it reads. *)
CategoryFor(c, type, cur) ==
  IF c = ":" THEN "label"
  ELSE CASE type = "alloc" /\ IsIn(cur, MEM_SEC_DIRECTIVES) -> "section"
         [] type = "alloc" /\ IsIn(cur, META_DIRECTIVES)    -> "meta"
         [] type = "instr" /\ ~IsIn(cur, InstructionNames)  -> "ref"
         [] OTHER -> type

LEMMA CategoryIs ==
  ASSUME NEW u, NEW p, NEW q, NEW type, NEW c, KindIs(u, p, type),
         c = ":" <=> Has(u, q + 1, {":"})
  PROVE  CategoryFor(c, type, Body(u, p, q)) = Category(u, p, q)
<1>1. PICK b : b = Body(u, p, q)
  OBVIOUS
<1>2. type \in {"alloc", "reg", "param", "imm", "instr", "ref"}
  BY KindFacts
<1>3. CASE c = ":"
  <2>1. CategoryFor(c, type, b) = "label"
    BY <1>3, SMT DEF CategoryFor
  <2>2. Category(u, p, q) = "label"
    BY <1>3, SMT DEF Category
  <2> QED BY <1>1, <2>1, <2>2
<1>4. CASE c # ":" /\ u[p] = "."
  <2>1. type = "alloc" /\ ~Has(u, q + 1, {":"})
    BY <1>4, SMT DEF KindIs, Mark
  <2>2. ~(IsIn(b, MEM_SEC_DIRECTIVES) /\ IsIn(b, META_DIRECTIVES))
    <3>1. \A x, y : <<x>> = <<y>> => x = y
      OBVIOUS
    <3> QED BY <3>1 DEF IsIn, MEM_SEC_DIRECTIVES, META_DIRECTIVES
  <2>3. u[p] \notin {"$", "%"} /\ u[p] \notin Digits
    BY <1>4, SMT DEF Digits
  <2>4. CategoryFor(c, type, b) = CASE IsIn(b, MEM_SEC_DIRECTIVES) -> "section"
                                    [] IsIn(b, META_DIRECTIVES)    -> "meta"
                                    [] OTHER                       -> "alloc"
    BY <1>4, <2>1, <2>2, SMT DEF CategoryFor
  <2>5. Category(u, p, q) = CASE IsIn(b, MEM_SEC_DIRECTIVES) -> "section"
                              [] IsIn(b, META_DIRECTIVES)    -> "meta"
                              [] OTHER                       -> "alloc"
    BY <1>1, <1>4, <2>1, <2>2, <2>3, SMT DEF Category
  <2> QED BY <1>1, <2>4, <2>5
<1>5. CASE c # ":" /\ u[p] \in {"$", "%"}
  <2>1. type = Mark[u[p]] /\ type \in {"reg", "param"} /\ ~Has(u, q + 1, {":"})
    BY <1>5, SMT DEF KindIs, Mark
  <2>2. CategoryFor(c, type, b) = type
    BY <1>5, <2>1, SMT DEF CategoryFor
  <2>3. Category(u, p, q) = Mark[u[p]]
    <3>1. u[p] # "." /\ u[p] \notin Digits
      BY <1>5, SMT DEF Digits
    <3> QED BY <1>5, <2>1, <3>1, SMT DEF Category
  <2> QED BY <1>1, <2>1, <2>2, <2>3
<1>6. CASE c # ":" /\ u[p] \notin DOMAIN Mark
  <2>1. ~Has(u, q + 1, {":"}) /\ u[p] \notin {".", "$", "%"}
    BY <1>6, SMT DEF Mark
  <2>2. CASE u[p] \in Digits
    <3>1. type = "imm"
      BY <1>6, <2>2 DEF KindIs
    <3>2. CategoryFor(c, type, b) = "imm"
      BY <1>6, <3>1, SMT DEF CategoryFor
    <3>3. Category(u, p, q) = "imm"
      BY <2>1, <2>2, SMT DEF Category
    <3> QED BY <1>1, <3>2, <3>3
  <2>3. CASE u[p] \notin Digits
    <3>1. (type = "instr" <=> PlaceOf(u, p) = 1 \/ AfterEqv(u, p)) /\ type \in {"instr", "ref"}
      BY <1>6, <2>3, SMT DEF KindIs
    <3>2. CategoryFor(c, type, b) = IF type = "instr" /\ IsIn(b, InstructionNames)
                                    THEN "instr" ELSE "ref"
      BY <1>6, <3>1, SMT DEF CategoryFor
    <3>3. Category(u, p, q) = IF /\ PlaceOf(u, p) = 1 \/ AfterEqv(u, p)
                                 /\ IsIn(b, InstructionNames)
                              THEN "instr" ELSE "ref"
      BY <1>1, <2>1, <2>3, SMT DEF Category
    <3> QED BY <1>1, <3>1, <3>2, <3>3
  <2> QED BY <2>2, <2>3
<1> QED BY <1>3, <1>4, <1>5, <1>6 DEF Mark

-----------------------------------------------------------------------------

LEMMA CategoryString ==
  ASSUME NEW c, NEW type \in TokenCategories, NEW cur
  PROVE  CategoryFor(c, type, cur) \in TokenCategories
BY SMT DEF CategoryFor, TokenCategories

IsBlank(c) == c = " "
EndsWord(c)    == c \in Stops \/ IsBlank(c)

LEMMA PartIn ==
  ASSUME NEW s \in Seq(LineChars), NEW p \in 1 .. Len(s) + 1, NEW q \in 0 .. Len(s)
  PROVE  SubSeq(s, p, q) \in Seq(LineChars)
<1>1. Len(s) \in Nat /\ DOMAIN s = 1 .. Len(s)
  BY LenProperties
<1>2. p \in Int /\ q \in Int /\ \A i \in p .. q : i \in 1 .. Len(s)
  BY <1>1, SMT
<1>3. \A i \in p .. q : s[i] \in LineChars
  BY <1>1, <1>2, ElementOfSeq
<1> QED BY <1>2, <1>3, SubSeqProperties

(* The pending item is the next one of the last line. *)
LEMMA PendingAdded ==
  ASSUME NEW t \in Seq(LineChars), NEW lines, NEW p, Pending(t, lines, p),
         NEW token \in TokenSet, Says(t, p, token)
  PROVE  /\ Filled(t, Added(lines, token), Items(t))
         /\ Last(Added(lines, token)) # <<>> /\ Len(Added(lines, token)) = Len(lines)
<1> DEFINE D == Items(t) \ {p}
<1>1. /\ p \in Items(t) /\ \A k \in Items(t) : k <= p
      /\ Filled(t, lines, D) /\ LineOf(t, p) = Len(lines)
  BY DEF Pending
<1>2. \A k \in Items(t) : k \in D <=> k < p
  <2>1. \A k \in Items(t) : k \in Nat
    <3>1. Items(t) \subseteq 1 .. Len(t)
      BY ItemsFinite
    <3>2. \A k \in 1 .. Len(t) : k \in Nat
      BY SMT
    <3> QED BY <3>1, <3>2
  <2>2. \A k \in Nat : k <= p /\ p \in Nat => (k # p <=> k < p)
    BY SMT
  <2> QED BY <1>1, <2>1, <2>2
<1>3. D \union {p} = Items(t)
  BY <1>1
<1> HIDE DEF D
<1>4. /\ Filled(t, Added(lines, token), D \union {p})
      /\ Last(Added(lines, token)) # <<>> /\ Len(Added(lines, token)) = Len(lines)
  BY <1>1, <1>2, ItemAdded
<1> QED BY <1>3, <1>4

(* A word at the end of the line as it is. *)
LEMMA LastWord ==
  ASSUME NEW s \in Seq(LineChars), NEW lines, NEW cur, NEW type, NEW p,
         AtWord(s, lines, cur, type, p), NEW c, c # ":",
         NEW token, token = Tok(CategoryFor(c, type, cur), cur)
  PROVE  /\ Filled(s, Added(lines, token), Items(s))
         /\ token \in TokenSet /\ Len(Added(lines, token)) = Len(lines)
<1> DEFINE n == Len(s)
<1>1. /\ IsWord(s, p, n) /\ Pending(s, lines, p)
      /\ cur = Body(s, p, n) /\ KindIs(s, p, type)
  BY DEF AtWord
<1>2. n \in Nat /\ DOMAIN s = 1 .. n /\ p \in 1 .. n /\ n \in p .. n
  BY <1>1, LenProperties, OneWord
<1>3. ~Has(s, n + 1, {":"})
  <2>1. n + 1 \notin 1 .. n
    BY <1>2, SMT
  <2> QED BY <1>2, <2>1 DEF Has
<1>4. CategoryFor(c, type, cur) = Category(s, p, n)
  BY <1>1, <1>3, CategoryIs
<1>5. n \in DOMAIN s
  BY <1>2, SMT
<1>6. Says(s, p, token)
  BY <1>1, <1>4, <1>5 DEF Says
<1>7. token \in TokenSet
  <2>1. type \in TokenCategories
    BY <1>1, KindFacts DEF TokenCategories
  <2>2. CategoryFor(c, type, cur) \in TokenCategories
    BY <2>1, CategoryString
  <2>3. cur \in Seq(LineChars)
    <3>1. p \in 1 .. n + 1 /\ p + 1 \in 1 .. n + 1 /\ n \in 0 .. n
      BY <1>2, SMT
    <3>2. SubSeq(s, p, n) \in Seq(LineChars) /\ SubSeq(s, p + 1, n) \in Seq(LineChars)
      BY <3>1, PartIn
    <3> QED BY <1>1, <3>2 DEF Body
  <2> HIDE DEF n
  <2> QED BY <2>2, <2>3 DEF TokenSet, Tok
<1>8. Filled(s, Added(lines, token), Items(s)) /\ Len(Added(lines, token)) = Len(lines)
  BY <1>1, <1>6, <1>7, PendingAdded
<1> QED BY <1>7, <1>8

(* A word that a blank or a stop ends. *)
LEMMA WordEnds ==
  ASSUME NEW s, NEW c, NEW t, NEW n, Extends(s, c, t, n), EndsWord(c),
         NEW lines, NEW cur, NEW type, NEW p, AtWord(s, lines, cur, type, p),
         NEW token, token = Tok(CategoryFor(c, type, cur), cur)
  PROVE  /\ Filled(t, Added(lines, token), Items(s))
         /\ token \in TokenSet /\ Last(Added(lines, token)) # <<>>
         /\ Len(Added(lines, token)) = Len(lines)
<1> DEFINE D == Items(s) \ {p}
<1>1. /\ s \in Seq(LineChars) /\ t \in Seq(LineChars) /\ n \in Nat /\ Len(s) = n /\ Len(t) = n + 1
      /\ DOMAIN s = 1 .. n /\ DOMAIN t = 1 .. n + 1
      /\ \A k \in 1 .. n : t[k] = s[k]
      /\ t[n + 1] = c
  BY OneMore
<1>2. /\ IsWord(s, p, n) /\ Pending(s, lines, p)
      /\ cur = Body(s, p, n) /\ KindIs(s, p, type)
  BY <1>1 DEF AtWord
<1>3. p \in 1 .. n /\ n \in p .. n /\ p \in 1 .. n + 1 /\ n \in 1 .. n + 1 /\ n \in 1 .. n
  <2>1. p \in 1 .. n /\ n \in p .. n
    BY <1>1, <1>2, OneWord
  <2> QED BY <1>1, <2>1, SMT
<1>4. InWord(s, n) /\ ~Quoted(s)[n + 1]
  <2>1. InWord(s, n)
    BY <1>2, <1>3 DEF IsWord
  <2> QED BY <1>1, <2>1, WordNotQuoted
<1>5. IsWord(t, p, n) /\ Body(t, p, n) = cur
  <2>1. ~InWord(t, n + 1)
    <3>1. ~Letter(c)
      BY DEF Letter, EndsWord, IsBlank
    <3> QED BY <3>1, Longer
  <2> QED BY <1>2, <1>3, <2>1, EndsLonger
<1>6. Has(t, n + 1, {":"}) <=> c = ":"
  <2>1. Has(t, n + 1, {":"}) <=> ~Quoted(s)[n + 1] /\ c \in {":"}
    BY Longer
  <2> QED BY <1>4, <2>1
<1>7. KindIs(t, p, type)
  <2>1. t[p] = s[p] /\ Begins(t, p)
    BY <1>1, <1>3, <1>5 DEF IsWord
  <2>2. (AfterEqv(t, p) <=> AfterEqv(s, p)) /\ PlaceOf(t, p) = PlaceOf(s, p)
    BY <1>3, <2>1, EqvLonger, EarlierPlaces
  <2> QED BY <1>2, <2>1, <2>2 DEF KindIs
<1>8. CategoryFor(c, type, cur) = Category(t, p, n)
  BY <1>5, <1>6, <1>7, CategoryIs
<1>9. Says(t, p, token)
  BY <1>1, <1>3, <1>5, <1>8 DEF Says
<1>10. token \in TokenSet
  <2>1. type \in TokenCategories
    BY <1>2, KindFacts DEF TokenCategories
  <2>2. CategoryFor(c, type, cur) \in TokenCategories
    BY <2>1, CategoryString
  <2>3. cur \in Seq(LineChars)
    <3>1. p + 1 \in 1 .. n + 1 /\ n \in 0 .. n
      BY <1>1, <1>3, SMT
    <3>2. SubSeq(s, p, n) \in Seq(LineChars) /\ SubSeq(s, p + 1, n) \in Seq(LineChars)
      BY <1>1, <1>3, <3>1, PartIn
    <3> QED BY <1>2, <3>2 DEF Body
  <2> QED BY <2>2, <2>3 DEF TokenSet, Tok
<1>11. /\ p \in Items(s) /\ \A k \in Items(s) : k <= p
       /\ Filled(s, lines, D) /\ LineOf(s, p) = Len(lines)
  BY <1>2 DEF Pending
<1>12. Filled(t, lines, D)
  <2>1. \A k \in D : ~IsWord(s, k, n)
    BY <1>1, <1>2, OneWord
  <2> HIDE DEF D
  <2> QED BY <1>11, <2>1, FilledLonger
<1>13. p \in Items(t) /\ \A k \in Items(t) : k \in D <=> k < p
  <2>1. Items(s) \subseteq Items(t) /\ Items(t) \subseteq Items(s) \union {n + 1}
    BY ItemsLonger
  <2>2. Items(s) \subseteq 1 .. n
    BY ItemsLonger
  <2>3. \A k \in 1 .. n : k <= p => (k # p <=> k < p)
    BY <1>3, SMT
  <2>4. ~(n + 1 < p) /\ n + 1 \notin 1 .. n
    BY <1>1, <1>3, SMT
  <2> QED BY <1>11, <2>1, <2>2, <2>3, <2>4
<1>14. LineOf(t, p) = Len(lines)
  BY <1>3, <1>11, EarlierPlaces
<1>15. D \union {p} = Items(s)
  BY <1>11
<1> HIDE DEF D
<1>16. /\ Filled(t, Added(lines, token), D \union {p})
       /\ Last(Added(lines, token)) # <<>> /\ Len(Added(lines, token)) = Len(lines)
  BY <1>1, <1>9, <1>10, <1>12, <1>13, <1>14, ItemAdded
<1> QED BY <1>10, <1>15, <1>16

(* A separator, when what is before it has ended. *)
LEMMA StopAdded ==
  ASSUME NEW s, NEW c, NEW t, NEW n, Extends(s, c, t, n), c \in DOMAIN Separator,
         ~Quoted(s)[n + 1], NEW lines, Filled(t, lines, Items(s)),
         Len(lines) = LineOf(s, n + 1)
  PROVE  LET token == Tok(Separator[c], <<c>>)
         IN  /\ Filled(t, Added(lines, token), Items(t))
             /\ token \in TokenSet /\ Len(Added(lines, token)) = Len(lines)
<1> DEFINE token == Tok(Separator[c], <<c>>)
<1>1. /\ s \in Seq(LineChars) /\ t \in Seq(LineChars) /\ n \in Nat /\ Len(s) = n
      /\ DOMAIN t = 1 .. n + 1 /\ t[n + 1] = c /\ c \in LineChars
  BY OneMore
<1>2. c \in {",", "(", ")"}
  BY DEF Separator
<1>3. NewItem(s, c) /\ n + 1 \in Items(t)
  <2>1. NewItem(s, c)
    BY <1>1, <1>2 DEF NewItem
  <2> QED BY <2>1, ItemsLonger
<1>4. /\ Items(s) \subseteq 1 .. n /\ Items(s) \subseteq Items(t)
      /\ Items(t) \subseteq Items(s) \union {n + 1}
  BY ItemsLonger
<1>5. n + 1 \notin 1 .. n /\ n + 1 \in 1 .. n + 1 /\ \A k \in 1 .. n : k <= n + 1 /\ n + 1 <= n + 1
  BY <1>1, SMT
<1>6. Items(t) \ {n + 1} = Items(s) /\ \A k \in Items(t) : k <= n + 1
  <2>1. n + 1 <= n + 1
    BY <1>1, SMT
  <2> QED BY <1>4, <1>5, <2>1
<1>7. LineOf(t, n + 1) = Len(lines)
  BY <1>5, EarlierPlaces
<1>8. Pending(t, lines, n + 1)
  BY <1>3, <1>6, <1>7 DEF Pending
<1>9. Says(t, n + 1, token)
  <2>1. Has(t, n + 1, DOMAIN Separator)
    BY Longer
  <2> QED BY <1>1, <2>1 DEF Says
<1>10. token \in TokenSet
  <2>1. Separator[c] \in TokenCategories
    <3>1. Separator[c] \in {"sep", "open", "close"}
      BY <1>2 DEF Separator
    <3> QED BY <3>1 DEF TokenCategories
  <2>2. <<c>> \in Seq(LineChars)
    BY <1>1
  <2> QED BY <2>1, <2>2 DEF TokenSet, Tok
<1> HIDE DEF token
<1>11. Filled(t, Added(lines, token), Items(t)) /\ Len(Added(lines, token)) = Len(lines)
  BY <1>1, <1>8, <1>9, <1>10, PendingAdded
<1> QED BY <1>10, <1>11 DEF token

-----------------------------------------------------------------------------

LEMMA StringBegins ==
  ASSUME NEW s, NEW c, NEW t, NEW n, Extends(s, c, t, n), c = Quote,
         NEW lines, NEW cur, AtGap(s, lines, cur), Len(lines) = LineOf(s, n + 1)
  PROVE  AtString(t, lines, cur, n + 1)
<1>1. /\ s \in Seq(LineChars) /\ t \in Seq(LineChars) /\ n \in Nat /\ Len(s) = n /\ Len(t) = n + 1
      /\ DOMAIN t = 1 .. n + 1 /\ t[n + 1] = c
  BY OneMore
<1>2. ~Quoted(s)[n + 1] /\ ~InWord(s, n) /\ Filled(s, lines, Items(s)) /\ cur = <<>>
  BY <1>1 DEF AtGap
<1>3. NewItem(s, c)
  BY <1>1, <1>2 DEF NewItem
<1>4. Pending(t, lines, n + 1)
  BY <1>2, <1>3, ItemBegins
<1>5. Has(t, n + 1, {Quote})
  <2>1. Has(t, n + 1, {Quote}) <=> ~Quoted(s)[n + 1] /\ c \in {Quote}
    BY Longer
  <2> QED BY <1>2, <2>1
<1>6. Quoted(t)[n + 2]
  BY <1>2, QuotedLonger
<1>7. /\ (n + 1) + 1 = n + 2 /\ \A k \in (n + 1) + 1 .. (n + 1) + 1 : k = n + 2
  BY <1>1, SMT
<1>8. SubSeq(t, (n + 1) + 1, n + 1) = <<>>
  <2>1. PICK a, b : a = (n + 1) + 1 /\ b = n + 1
    OBVIOUS
  <2>2. a \in Int /\ b \in Int /\ ~(a <= b) /\ \A i \in a .. b : t[i] \in LineChars
    <3>1. a \in Int /\ b \in Int /\ ~(a <= b) /\ \A i \in a .. b : FALSE
      BY <1>1, <2>1, SMT
    <3> QED BY <3>1
  <2>3. SubSeq(t, a, b) \in Seq(LineChars) /\ Len(SubSeq(t, a, b)) = 0
    <3>1. /\ SubSeq(t, a, b) \in Seq(LineChars)
          /\ Len(SubSeq(t, a, b)) = IF a <= b THEN b - a + 1 ELSE 0
      BY <2>2, SubSeqProperties
    <3> QED BY <2>2, <3>1
  <2>4. SubSeq(t, a, b) = <<>>
    BY <2>3, EmptySeq
  <2> QED BY <2>1, <2>4
<1> QED BY <1>1, <1>2, <1>4, <1>5, <1>6, <1>7, <1>8 DEF AtString

(* In a string every character is only text. *)
LEMMA InQuotes ==
  ASSUME NEW s, NEW c, NEW t, NEW n, Extends(s, c, t, n),
         NEW lines, NEW cur, NEW p, AtString(s, lines, cur, p)
  PROVE  /\ Quoted(s)[n + 1] /\ ~InWord(s, n) /\ ~InWord(t, n + 1)
         /\ p \in 1 .. n /\ Items(t) = Items(s) /\ Pending(t, lines, p)
         /\ ~Fault(s, c) /\ LineOf(t, n + 2) = LineOf(s, n + 1)
         /\ s[n] = "\\" => n # p
<1>1. /\ s \in Seq(LineChars) /\ n \in Nat /\ Len(s) = n /\ DOMAIN s = 1 .. n
  BY OneMore
<1>2. /\ Has(s, p, {Quote}) /\ \A k \in p + 1 .. n + 1 : Quoted(s)[k]
      /\ Pending(s, lines, p)
  BY <1>1 DEF AtString
<1>3. p \in 1 .. n /\ s[p] = Quote
  BY <1>1, <1>2 DEF Has
<1>4. n + 1 \in p + 1 .. n + 1 /\ (n # p => n \in p + 1 .. n + 1)
  BY <1>1, <1>3, SMT
<1>5. Quoted(s)[n + 1]
  BY <1>2, <1>4
<1>6. ~InWord(s, n)
  BY <1>2, <1>3, <1>4 DEF InWord
<1>7. ~InWord(t, n + 1)
  BY <1>5, Longer
<1>8. ~NewItem(s, c) /\ ~Colon(s, c) /\ ~Fault(s, c)
  BY <1>1, <1>5 DEF NewItem, Colon, Fault
<1>9. Items(t) = Items(s) /\ LineOf(t, n + 2) = LineOf(s, n + 1)
  BY <1>8, ItemsLonger, NextPlace
<1>10. Pending(t, lines, p)
  <2>1. \A k : ~IsWord(s, k, n)
    BY <1>1, <1>6, NothingPends
  <2> QED BY <1>2, <1>9, <2>1, PendingLonger
<1>11. s[n] = "\\" => n # p
  BY <1>3 DEF Quote
<1> QED BY <1>3, <1>5, <1>6, <1>7, <1>8, <1>9, <1>10, <1>11

LEMMA StringGrows ==
  ASSUME NEW s, NEW c, NEW t, NEW n, Extends(s, c, t, n), Quoted(t)[n + 2],
         NEW lines, NEW cur, NEW p, AtString(s, lines, cur, p)
  PROVE  AtString(t, lines, Append(cur, c), p)
<1>1. /\ n \in Nat /\ Len(s) = n /\ Len(t) = n + 1
  BY OneMore
<1>2. /\ Has(s, p, {Quote}) /\ \A k \in p + 1 .. n + 1 : Quoted(s)[k]
      /\ cur = SubSeq(s, p + 1, n)
  BY <1>1 DEF AtString
<1>3. p \in 1 .. n /\ Pending(t, lines, p)
  BY InQuotes
<1>4. /\ p \in 0 .. n /\ p + 1 \in 1 .. n + 1
      /\ \A k \in p + 1 .. (n + 1) + 1 : (k \in p + 1 .. n + 1 /\ k \in 0 .. n + 1) \/ k = n + 2
  BY <1>1, <1>3, SMT
<1>5. Has(t, p, {Quote})
  BY <1>2, <1>4, Longer
<1>6. \A k \in p + 1 .. (n + 1) + 1 : Quoted(t)[k]
  BY <1>2, <1>4, QuotedLonger
<1>7. Append(cur, c) = SubSeq(t, p + 1, n + 1)
  BY <1>2, <1>4, TextGrows
<1> QED BY <1>1, <1>3, <1>5, <1>6, <1>7 DEF AtString

LEMMA StringEnds ==
  ASSUME NEW s, NEW c, NEW t, NEW n, Extends(s, c, t, n), ~Quoted(t)[n + 2],
         NEW lines, NEW cur, NEW p, AtString(s, lines, cur, p)
  PROVE  /\ Filled(t, Added(lines, Tok("str", cur)), Items(t))
         /\ Tok("str", cur) \in TokenSet
         /\ Len(Added(lines, Tok("str", cur))) = Len(lines)
<1> DEFINE token == Tok("str", cur)
<1>1. /\ s \in Seq(LineChars) /\ t \in Seq(LineChars) /\ n \in Nat /\ Len(s) = n /\ Len(t) = n + 1
      /\ DOMAIN t = 1 .. n + 1
  BY OneMore
<1>2. /\ Has(s, p, {Quote}) /\ \A k \in p + 1 .. n + 1 : Quoted(s)[k]
      /\ cur = SubSeq(s, p + 1, n)
  BY <1>1 DEF AtString
<1>3. p \in 1 .. n /\ Pending(t, lines, p)
  BY InQuotes
<1>4. /\ p \in 0 .. n /\ p + 1 \in 1 .. n + 1 /\ n + 1 \in p + 1 .. n + 1 /\ n \in 0 .. n
      /\ (n + 1) + 1 = n + 2 /\ (n + 1) - 1 = n /\ n + 1 \in 1 .. n + 1
      /\ \A k \in p + 1 .. n + 1 : k \in 0 .. n + 1
  BY <1>1, <1>3, SMT
<1>5. IsString(t, p, n + 1)
  <2>1. Has(t, p, {Quote})
    BY <1>2, <1>4, Longer
  <2>2. \A k \in p + 1 .. n + 1 : Quoted(t)[k]
    BY <1>2, <1>4, QuotedLonger
  <2> QED BY <1>1, <1>4, <2>1, <2>2 DEF IsString
<1>6. SubSeq(t, p + 1, (n + 1) - 1) = cur
  <2>1. SubSeq(t, p + 1, n) = SubSeq(s, p + 1, n)
    BY <1>4, SameText
  <2> QED BY <1>2, <1>4, <2>1
<1>7. Says(t, p, token)
  BY <1>1, <1>4, <1>5, <1>6 DEF Says
<1>8. token \in TokenSet
  <2>1. cur \in Seq(LineChars)
    BY <1>1, <1>2, <1>4, PartIn
  <2> QED BY <2>1 DEF TokenSet, Tok, TokenCategories
<1> HIDE DEF token
<1>9. Filled(t, Added(lines, token), Items(t)) /\ Len(Added(lines, token)) = Len(lines)
  BY <1>1, <1>3, <1>7, <1>8, PendingAdded
<1> QED BY <1>8, <1>9 DEF token

-----------------------------------------------------------------------------
(* The branches of the loop. *)

LEMMA StopStep ==
  ASSUME NEW s, NEW c, NEW t, NEW n, Extends(s, c, t, n), EndsWord(c), ~Quoted(s)[n + 1],
         NEW done, Filled(t, done, Items(s)), Len(done) = LineOf(s, n + 1), NoFault(s),
         c \in Stops => ItemsBefore(s, n + 1) # {}, c = ":" => Last(done) # <<>>,
         NEW lines,
         IsBlank(c) => lines = done,
         c = ":" => lines = Append(done, <<>>),
         c \in DOMAIN Separator => lines = Added(done, Tok(Separator[c], <<c>>))
  PROVE  AtGap(t, lines, <<>>) /\ NoFault(t) /\ Len(lines) = LineOf(t, n + 2)
<1>1. /\ s \in Seq(LineChars) /\ t \in Seq(LineChars) /\ n \in Nat /\ Len(s) = n /\ Len(t) = n + 1
      /\ (n + 1) + 1 = n + 2
  <2>1. s \in Seq(LineChars) /\ t \in Seq(LineChars) /\ n \in Nat /\ Len(s) = n /\ Len(t) = n + 1
    BY OneMore
  <2> QED BY <2>1, SMT
<1>2. /\ ~Letter(c) /\ c # Quote /\ c # "#"
      /\ c \in DOMAIN Separator <=> c \in {",", "(", ")"}
      /\ IsBlank(c) \/ c = ":" \/ c \in DOMAIN Separator
      /\ ~(IsBlank(c) /\ c = ":") /\ ~(IsBlank(c) /\ c \in DOMAIN Separator)
      /\ ~(c = ":" /\ c \in DOMAIN Separator)
      /\ c \in {Quote, "#"} \union Stops => ~IsBlank(c)
  BY DEF Letter, EndsWord, IsBlank, Stops, Quote, Separator
<1>3. ~Quoted(t)[n + 2] /\ ~InWord(t, n + 1)
  BY <1>2, QuotedLonger, Longer
<1>4. NoFault(t)
  <2>1. ~Fault(s, c)
    BY <1>1, <1>2 DEF Fault
  <2> QED BY <1>2, <2>1, FaultsLonger
<1>5. CASE IsBlank(c)
  <2>1. ~NewItem(s, c) /\ ~Colon(s, c)
    BY <1>2, <1>5 DEF NewItem, Colon
  <2>2. Items(t) = Items(s)
    <3>1. /\ Items(s) \subseteq Items(t) /\ Items(t) \subseteq Items(s) \union {n + 1}
          /\ n + 1 \notin Items(t)
      BY <2>1, ItemsLonger
    <3> QED BY <3>1
  <2>3. LineOf(t, n + 2) = LineOf(s, n + 1)
    BY <2>1, NextPlace
  <2> QED BY <1>1, <1>3, <1>4, <1>5, <2>2, <2>3 DEF AtGap
<1>6. CASE c = ":"
  <2>1. ~NewItem(s, c) /\ Colon(s, c)
    BY <1>1, <1>2, <1>6 DEF NewItem, Colon
  <2>2. Items(t) = Items(s) /\ LineOf(t, n + 2) = LineOf(s, n + 1) + 1
    <3>1. /\ Items(s) \subseteq Items(t) /\ Items(t) \subseteq Items(s) \union {n + 1}
          /\ n + 1 \notin Items(t)
      BY <2>1, ItemsLonger
    <3>2. Items(t) = Items(s)
      BY <3>1
    <3>3. LineOf(t, n + 2) = LineOf(s, n + 1) + 1
      BY <2>1, NextPlace
    <3> QED BY <3>2, <3>3
  <2>3. Filled(t, lines, Items(s)) /\ Len(lines) = Len(done) + 1
    BY <1>6, LineEnded
  <2> QED BY <1>1, <1>3, <1>4, <2>2, <2>3 DEF AtGap
<1>7. CASE c \in DOMAIN Separator
  <2>1. ~Colon(s, c)
    BY <1>2, <1>7 DEF Colon
  <2>2. LineOf(t, n + 2) = LineOf(s, n + 1)
    BY <2>1, NextPlace
  <2>3. Filled(t, lines, Items(t)) /\ Len(lines) = Len(done)
    BY <1>7, StopAdded
  <2> QED BY <1>1, <1>3, <1>4, <2>2, <2>3 DEF AtGap
<1> QED BY <1>2, <1>5, <1>6, <1>7

LEMMA WordText ==
  ASSUME NEW s \in Seq(LineChars), NEW p, IsWord(s, p, Len(s)),
         s[p] \in DOMAIN Mark => p # Len(s)
  PROVE  Body(s, p, Len(s)) # <<>>
<1> DEFINE n == Len(s)
           k == IF s[p] \in DOMAIN Mark THEN p + 1 ELSE p
<1>1. n \in Nat /\ DOMAIN s = 1 .. n /\ p \in 1 .. n /\ n \in p .. n
  BY LenProperties, OneWord
<1>2. k \in Int /\ k <= n /\ \A i \in k .. n : i \in 1 .. n
  <2> HIDE DEF n
  <2>1. p \in Int /\ p <= n /\ \A i \in p .. n : i \in 1 .. n
    BY <1>1, SMT
  <2>2. p # n => p + 1 \in Int /\ p + 1 <= n /\ \A i \in p + 1 .. n : i \in 1 .. n
    BY <1>1, SMT
  <2>3. s[p] \in DOMAIN Mark => p # n
    BY DEF n
  <2> QED BY <2>1, <2>2, <2>3
<1>3. Body(s, p, n) = SubSeq(s, k, n)
  BY DEF Body
<1> HIDE DEF k, n
<1>4. Len(SubSeq(s, k, n)) = n - k + 1
  <2>1. \A i \in k .. n : s[i] \in LineChars
    BY <1>1, <1>2, ElementOfSeq
  <2>2. Len(SubSeq(s, k, n)) = IF k <= n THEN n - k + 1 ELSE 0
    BY <1>1, <1>2, <2>1, SubSeqProperties
  <2> QED BY <1>2, <2>2
<1>5. n - k + 1 # 0
  BY <1>1, <1>2, SMT
<1>6. Len(<<>>) = 0
  BY EmptySeq
<1> QED BY <1>3, <1>4, <1>5, <1>6 DEF n

(* At a gap. *)
LEMMA GapFacts ==
  ASSUME NEW s, NEW c, NEW t, NEW n, Extends(s, c, t, n), NoFault(s),
         NEW lines, NEW cur, AtGap(s, lines, cur), Len(lines) = LineOf(s, n + 1)
  PROVE  /\ cur = <<>> /\ ~Quoted(s)[n + 1] /\ ~InWord(s, n)
         /\ FilledTo(s, lines, n) /\ Filled(t, lines, Items(s))
         /\ ItemsBefore(s, n + 1) = {} <=> Last(lines) = <<>>
<1>1. s \in Seq(LineChars) /\ n \in Nat /\ Len(s) = n
  BY OneMore
<1>2. cur = <<>> /\ ~Quoted(s)[n + 1] /\ ~InWord(s, n) /\ Filled(s, lines, Items(s))
  BY <1>1 DEF AtGap
<1>3. FilledTo(s, lines, n)
  BY <1>1, <1>2 DEF FilledTo
<1>4. Filled(t, lines, Items(s))
  <2>1. \A k : ~IsWord(s, k, n)
    BY <1>1, <1>2, NothingPends
  <2> QED BY <1>2, <2>1, FilledLonger
<1>5. ItemsBefore(s, n + 1) = {} <=> Last(lines) = <<>>
  <2>1. /\ Last(lines) \in Seq(TokenSet)
        /\ Len(Last(lines)) = Cardinality(ItemsBefore(s, n + 1))
        /\ ItemsBefore(s, n + 1) \subseteq Items(s)
    BY <1>3, LastLine
  <2>2. IsFiniteSet(ItemsBefore(s, n + 1))
    <3>1. IsFiniteSet(Items(s))
      BY <1>1, ItemsFinite
    <3> QED BY <2>1, <3>1, FS_Subset
  <2>3. Cardinality(ItemsBefore(s, n + 1)) = 0 <=> ItemsBefore(s, n + 1) = {}
    BY <2>2, FS_EmptySet
  <2>4. Len(Last(lines)) = 0 <=> Last(lines) = <<>>
    BY <2>1, EmptySeq
  <2> QED BY <2>1, <2>3, <2>4
<1> QED BY <1>2, <1>3, <1>4, <1>5

-----------------------------------------------------------------------------

(* What the loop leaves behind when the line is all read: line s has been  *)
(* tokenized, or has a string without an end.                              *)
AllScanned(s, lines, cur) ==
  /\ cur = <<>> => ~Malformed(s) /\ Filled(s, lines, Items(s))
  /\ cur # <<>> => Malformed(s)

LEMMA GapStep ==
  ASSUME NEW s, NEW c, NEW t, NEW n, Extends(s, c, t, n), Clean(t), NoFault(s),
         AtGap(s, tokens, currentToken), Len(tokens) = LineOf(s, n + 1),
         currentType = "unknown", prevChar # "\\", Loop(c, "reading")
  PROVE  \/ verdict' = "reading" /\ Scan(t, tokens', currentToken', currentType', prevChar')
         \/ verdict' = "read" /\ AllScanned(t, tokens', currentToken')
         \/ verdict' = "unexpected token" /\ Malformed(t)
<1>1. /\ s \in Seq(LineChars) /\ t \in Seq(LineChars) /\ n \in Nat /\ Len(s) = n /\ Len(t) = n + 1
      /\ t[n + 1] = c /\ (n + 1) + 1 = n + 2
  <2>1. /\ s \in Seq(LineChars) /\ t \in Seq(LineChars) /\ n \in Nat /\ Len(s) = n /\ Len(t) = n + 1
        /\ t[n + 1] = c
    BY OneMore
  <2> QED BY <2>1, SMT
<1>2. /\ currentToken = <<>> /\ ~Quoted(s)[n + 1] /\ ~InWord(s, n)
      /\ FilledTo(s, tokens, n) /\ Filled(t, tokens, Items(s))
      /\ ItemsBefore(s, n + 1) = {} <=> Last(tokens) = <<>>
  BY GapFacts
<1>3. /\ Malformed(t) <=> Quoted(t)[n + 2] \/ Fault(s, c)
      /\ NoFault(t) <=> ~Fault(s, c) /\ (c = "#" => Quoted(s)[n + 1])
  BY FaultsLonger
<1>4. /\ Quoted(t)[n + 2] <=> c = Quote
      /\ Colon(s, c) <=> c = ":"
      /\ Fault(s, c) <=> c \in Stops /\ ItemsBefore(s, n + 1) = {}
  BY <1>1, <1>2, QuotedLonger DEF Colon, Fault
<1>5. ~Colon(s, c) /\ LineOf(t, n + 2) = LineOf(s, n + 1)
  BY <1>2, CleanLonger, NextPlace
<1>6. ~InString(c, "reading") /\ ~Accumulate(c, "reading")
  BY DEF InString, Accumulate
<1>7. CASE OpenString(c, "reading")
  <2>1. /\ c = Quote /\ currentType' = "str" /\ verdict' = "reading"
        /\ tokens' = tokens /\ currentToken' = currentToken /\ prevChar' = prevChar
    BY <1>2, <1>7 DEF OpenString
  <2>2. AtString(t, tokens, currentToken, n + 1)
    BY <2>1, StringBegins
  <2>3. NoFault(t)
    BY <1>3, <1>4, <2>1 DEF Stops, Quote
  <2>4. t[n + 1] # "\\"
    BY <1>1, <2>1 DEF Quote
  <2>5. Scan(t, tokens', currentToken', currentType', prevChar')
    BY <1>1, <1>5, <2>1, <2>2, <2>3, <2>4 DEF Scan
  <2> QED BY <2>1, <2>5
<1>8. CASE Comment(c)
  <2>1. /\ c = "#" /\ verdict' = "read" /\ tokens' = tokens /\ currentToken' = <<>>
    BY <1>2, <1>8 DEF Comment, scanned
  <2>2. ~Malformed(t)
    BY <1>3, <1>4, <2>1 DEF Stops, Quote
  <2>3. Items(t) = Items(s)
    <3>1. ~NewItem(s, c)
      BY <1>1, <2>1 DEF NewItem, Letter, Quote
    <3>2. /\ Items(s) \subseteq Items(t) /\ Items(t) \subseteq Items(s) \union {n + 1}
          /\ n + 1 \notin Items(t)
      BY <3>1, ItemsLonger
    <3> QED BY <3>2
  <2> QED BY <1>2, <2>1, <2>2, <2>3 DEF AllScanned
<1>9. CASE Terminate(c, "reading")
  <2>1. EndsWord(c) /\ (c # " " <=> ~IsBlank(c)) /\ c # ":"
    BY <1>4, <1>5, <1>9 DEF Terminate, Terminated, EndsWord, IsBlank
  <2>2. CASE ~IsBlank(c) /\ Last(tokens) = <<>>
    <3>1. verdict' = "unexpected token"
      BY <1>2, <1>9, <2>1, <2>2 DEF Terminate, Terminated, Reject, tokenLine
    <3>2. c \in Stops
      BY <2>1, <2>2 DEF EndsWord
    <3> QED BY <1>2, <1>3, <1>4, <2>2, <3>1, <3>2
  <2>3. CASE IsBlank(c) \/ Last(tokens) # <<>>
    <3>1. /\ tokens' = CASE c = " " -> tokens
                         [] c = ":" -> Append(tokens, <<>>)
                         [] OTHER   -> Append(Front(tokens),
                               Append(Last(tokens), Tok(Separator[c], <<c>>)))
          /\ currentToken' = <<>> /\ currentType' = CategoryAt(c)
          /\ verdict' = "reading" /\ prevChar' = prevChar
      BY <1>2, <1>9, <2>1, <2>3 DEF Terminate, Terminated, tokenLine
    <3>2. currentType' = "unknown"
      BY <2>1, <3>1 DEF CategoryAt
    <3>3. /\ IsBlank(c) => tokens' = tokens
          /\ ~IsBlank(c) => tokens' = Added(tokens, Tok(Separator[c], <<c>>))
      BY <2>1, <3>1 DEF IsBlank, Added
    <3>4. /\ c \in Stops => ItemsBefore(s, n + 1) # {}
          /\ c \in DOMAIN Separator => ~IsBlank(c)
      BY <1>2, <2>3 DEF IsBlank, Stops, Separator
    <3>5. Filled(t, tokens, Items(s))
      BY <1>2
    <3>6. /\ AtGap(t, tokens', <<>>) /\ NoFault(t)
          /\ Len(tokens') = LineOf(t, n + 2)
      <4>1. /\ c = ":" => Last(tokens) # <<>> /\ tokens' = Append(tokens, <<>>)
            /\ c \in DOMAIN Separator => tokens' = Added(tokens, Tok(Separator[c], <<c>>))
            /\ IsBlank(c) => tokens' = tokens
            /\ EndsWord(c) /\ ~Quoted(s)[n + 1]
        BY <1>2, <2>1, <3>3, <3>4
      <4> QED BY <3>4, <3>5, <4>1, StopStep
    <3>7. Scan(t, tokens', currentToken', currentType', prevChar')
      BY <1>1, <3>1, <3>2, <3>6 DEF Scan
    <3> QED BY <3>1, <3>7
  <2> QED BY <2>2, <2>3
<1>10. CASE BeginMarked(c, "reading") \/ BeginName(c, "reading")
  <2>1. Letter(c) /\ verdict' = "reading" /\ tokens' = tokens /\ prevChar' = prevChar
    BY <1>10 DEF BeginMarked, BeginName, InToken, Letter
  <2>2. /\ c \in DOMAIN Mark => currentToken' = <<>> /\ currentType' = Mark[c]
        /\ c \notin DOMAIN Mark => currentToken' = <<c>>
    <3>1. Append(<<>>, c) = <<c>>
      OBVIOUS
    <3> QED BY <1>2, <1>10, <3>1 DEF BeginMarked, BeginName
  <2>3. /\ c \notin DOMAIN Mark /\ c \in Digits => currentType' = "imm"
        /\ c \notin DOMAIN Mark \union Digits /\ AtInstr(tokens) => currentType' = "instr"
        /\ c \notin DOMAIN Mark \union Digits /\ ~AtInstr(tokens) => currentType' = "ref"
    BY <1>10 DEF BeginMarked, BeginName, AtInstr, tokenLine
  <2>4. AtGap(s, tokens, <<>>)
    BY <1>2
  <2>5. AtWord(t, tokens, currentToken', currentType', n + 1)
    BY <2>1, <2>2, <2>3, <2>4, WordBegins
  <2>6. NoFault(t)
    BY <1>3, <1>4, <2>1 DEF Letter
  <2>7. Scan(t, tokens', currentToken', currentType', prevChar')
    BY <1>1, <1>5, <2>1, <2>5, <2>6 DEF Scan
  <2> QED BY <2>1, <2>7
<1> QED BY <1>6, <1>7, <1>8, <1>9, <1>10 DEF Loop

-----------------------------------------------------------------------------

(* A word at the end of the line so far. *)
LEMMA WordFacts ==
  ASSUME NEW s, NEW c, NEW t, NEW n, Extends(s, c, t, n), Clean(t), NoFault(s),
         NEW lines, NEW cur, NEW type, NEW p, AtWord(s, lines, cur, type, p),
         Len(lines) = LineOf(s, n + 1)
  PROVE  /\ ~Quoted(s)[n + 1] /\ InWord(s, n) /\ type \notin {"str", "unknown"}
         /\ ItemsBefore(s, n + 1) # {}
         /\ Letter(c) \/ cur # <<>>
<1>1. /\ s \in Seq(LineChars) /\ n \in Nat /\ Len(s) = n
  BY OneMore
<1>2. IsWord(s, p, n) /\ Pending(s, lines, p) /\ cur = Body(s, p, n) /\ KindIs(s, p, type)
  BY <1>1 DEF AtWord
<1>3. p \in 1 .. n /\ n \in p .. n /\ p \in Items(s) /\ p < n + 1 /\ n + 1 \in 1 .. n + 1
  <2>1. p \in 1 .. n /\ n \in p .. n /\ p \in Items(s)
    BY <1>1, <1>2, OneWord
  <2> QED BY <1>1, <2>1, SMT
<1>4. InWord(s, n)
  BY <1>2, <1>3 DEF IsWord
<1>5. ~Quoted(s)[n + 1]
  BY <1>1, <1>4, WordNotQuoted
<1>6. type \notin {"str", "unknown"}
  BY <1>2, KindFacts
<1>7. ItemsBefore(s, n + 1) # {}
  <2>1. LineOf(s, p) = LineOf(s, n + 1)
    BY <1>2 DEF Pending
  <2>2. p \in ItemsBefore(s, n + 1)
    BY <1>1, <1>3, <2>1, LineBefore
  <2> QED BY <2>2
<1>8. ASSUME ~Letter(c) PROVE cur # <<>>
  <2>1. ~InWord(t, n + 1)
    BY <1>8, Longer
  <2>2. s[p] \in DOMAIN Mark => p # n
    BY <1>2, <2>1, CleanLonger
  <2> QED BY <1>1, <1>2, <2>2, WordText
<1> QED BY <1>4, <1>5, <1>6, <1>7, <1>8

LEMMA WordStep ==
  ASSUME NEW s, NEW c, NEW t, NEW n, Extends(s, c, t, n), Clean(t), NoFault(s),
         NEW p, AtWord(s, tokens, currentToken, currentType, p),
         Len(tokens) = LineOf(s, n + 1), prevChar # "\\", Loop(c, "reading")
  PROVE  \/ verdict' = "reading" /\ Scan(t, tokens', currentToken', currentType', prevChar')
         \/ verdict' = "read" /\ AllScanned(t, tokens', currentToken')
         \/ verdict' = "unexpected token" /\ Malformed(t)
<1>1. /\ s \in Seq(LineChars) /\ t \in Seq(LineChars) /\ n \in Nat /\ Len(s) = n /\ Len(t) = n + 1
      /\ t[n + 1] = c /\ (n + 1) + 1 = n + 2
  <2>1. /\ s \in Seq(LineChars) /\ t \in Seq(LineChars) /\ n \in Nat /\ Len(s) = n /\ Len(t) = n + 1
        /\ t[n + 1] = c
    BY OneMore
  <2> QED BY <2>1, SMT
<1>2. /\ ~Quoted(s)[n + 1] /\ InWord(s, n) /\ currentType \notin {"str", "unknown"}
      /\ ItemsBefore(s, n + 1) # {}
      /\ Letter(c) \/ currentToken # <<>>
  BY WordFacts
<1>3. /\ Malformed(t) <=> Quoted(t)[n + 2] \/ Fault(s, c)
      /\ NoFault(t) <=> ~Fault(s, c) /\ (c = "#" => Quoted(s)[n + 1])
  BY FaultsLonger
<1>4. Fault(s, c) <=> c \in {Quote, "#"}
  BY <1>1, <1>2 DEF Fault
<1>5. ~InString(c, "reading") /\ ~BeginMarked(c, "reading") /\ ~BeginName(c, "reading")
  BY <1>2 DEF InString, BeginMarked, BeginName
<1>6. CASE OpenString(c, "reading")
  <2>1. c = Quote /\ currentToken # <<>>
    BY <1>2, <1>6 DEF OpenString, Letter
  <2>2. verdict' = "unexpected token"
    BY <1>6, <2>1 DEF OpenString, Reject
  <2> QED BY <1>3, <1>4, <2>1, <2>2
<1>7. CASE Comment(c)
  <2>1. c = "#" /\ verdict' = "read" /\ currentToken' = currentToken
    BY <1>7 DEF Comment, scanned
  <2>2. currentToken # <<>>
    BY <1>2, <2>1 DEF Letter
  <2> QED BY <1>3, <1>4, <2>1, <2>2 DEF AllScanned
<1>8. CASE Terminate(c, "reading")
  <2> DEFINE token == Tok(CategoryFor(c, currentType, currentToken), currentToken)
             done  == Added(tokens, token)
  <2>1. EndsWord(c) /\ ~Letter(c) /\ c \notin {Quote, "#"}
        /\ (c = " " <=> IsBlank(c)) /\ ~(IsBlank(c) /\ c = ":")
        /\ ~(c \in DOMAIN Separator /\ (IsBlank(c) \/ c = ":"))
    BY <1>8 DEF Terminate, Terminated, EndsWord, IsBlank, Letter, Stops, Quote, Separator
  <2>2. currentToken # <<>>
    BY <1>2, <2>1
  <2>3. /\ Filled(t, done, Items(s)) /\ Last(done) # <<>>
        /\ Len(done) = Len(tokens)
    <3>1. token = Tok(CategoryFor(c, currentType, currentToken), currentToken) /\ EndsWord(c)
      BY <2>1
    <3> HIDE DEF token
    <3> QED BY <3>1, WordEnds
  <2>4. InLine(Tok(CategoryAt(c), currentToken)) = done
    BY DEF InLine, tokenLine, Added, CategoryAt, CategoryFor
  <2> HIDE DEF done
  <2>5. /\ tokens' = CASE c = " " -> done
                       [] c = ":" -> Append(done, <<>>)
                       [] OTHER   -> Append(Front(done),
                             Append(Last(done), Tok(Separator[c], <<c>>)))
        /\ currentToken' = <<>> /\ currentType' = "unknown"
        /\ verdict' = "reading" /\ prevChar' = prevChar
    BY <1>8, <2>2, <2>4 DEF Terminate, Terminated
  <2>6. /\ IsBlank(c) => tokens' = done
        /\ c = ":" => tokens' = Append(done, <<>>)
        /\ c \in DOMAIN Separator => tokens' = Added(done, Tok(Separator[c], <<c>>))
    <3>1. IsBlank(c) => tokens' = done
      BY <2>1, <2>5
    <3>2. c = ":" => tokens' = Append(done, <<>>)
      BY <2>1, <2>5
    <3>3. c \in DOMAIN Separator => c # " " /\ c # ":"
      BY <2>1
    <3>4. c \in DOMAIN Separator => tokens' = Added(done, Tok(Separator[c], <<c>>))
      BY <2>5, <3>3 DEF Added
    <3> QED BY <3>1, <3>2, <3>4
  <2>7. AtGap(t, tokens', <<>>) /\ NoFault(t) /\ Len(tokens') = LineOf(t, n + 2)
    <3>1. Len(done) = LineOf(s, n + 1) /\ EndsWord(c)
      BY <2>1, <2>3
    <3>2. c \in Stops => ItemsBefore(s, n + 1) # {}
      BY <1>2
    <3> QED BY <1>2, <2>3, <2>6, <3>1, <3>2, StopStep
  <2>8. Scan(t, tokens', currentToken', currentType', prevChar')
    BY <1>1, <2>5, <2>7 DEF Scan
  <2> QED BY <2>5, <2>8
<1>9. CASE Accumulate(c, "reading")
  <2>1. /\ Letter(c) /\ verdict' = "reading" /\ tokens' = tokens /\ prevChar' = prevChar
        /\ currentType' = currentType /\ currentToken' = Append(currentToken, c)
    BY <1>9 DEF Accumulate, InToken, Letter
  <2>2. AtWord(t, tokens, Append(currentToken, c), currentType, p)
    BY <2>1, WordGrows
  <2>3. NoFault(t)
    BY <1>3, <1>4, <2>1 DEF Letter
  <2>4. LineOf(t, n + 2) = LineOf(s, n + 1)
    <3>1. ~Colon(s, c)
      BY <2>1 DEF Colon, Letter, Stops
    <3> QED BY <3>1, NextPlace
  <2>5. Scan(t, tokens', currentToken', currentType', prevChar')
    BY <1>1, <2>1, <2>2, <2>3, <2>4 DEF Scan
  <2> QED BY <2>1, <2>5
<1> QED BY <1>5, <1>6, <1>7, <1>8, <1>9 DEF Loop

LEMMA StringStep ==
  ASSUME NEW s, NEW c, NEW t, NEW n, Extends(s, c, t, n), NoFault(s),
         NEW p, AtString(s, tokens, currentToken, p), currentType = "str",
         prevChar = "\\" <=> s[n] = "\\",
         Len(tokens) = LineOf(s, n + 1), Loop(c, "reading")
  PROVE  verdict' = "reading" /\ Scan(t, tokens', currentToken', currentType', prevChar')
<1>1. /\ s \in Seq(LineChars) /\ t \in Seq(LineChars) /\ n \in Nat /\ Len(s) = n /\ Len(t) = n + 1
      /\ t[n + 1] = c /\ (n + 1) + 1 = n + 2
  <2>1. /\ s \in Seq(LineChars) /\ t \in Seq(LineChars) /\ n \in Nat /\ Len(s) = n /\ Len(t) = n + 1
        /\ t[n + 1] = c
    BY OneMore
  <2> QED BY <2>1, SMT
<1>2. InString(c, "reading")
  BY DEF Loop, OpenString, Comment, Terminate, Terminated, Accumulate, BeginMarked,
         BeginName, InToken
<1>3. verdict' = "reading" /\ prevChar' = c
  BY <1>2 DEF InString
<1>4. /\ Quoted(s)[n + 1] /\ ~InWord(t, n + 1) /\ ~Fault(s, c)
      /\ LineOf(t, n + 2) = LineOf(s, n + 1)
  BY InQuotes
<1>5. NoFault(t)
  BY <1>4, FaultsLonger
<1>6. Quoted(t)[n + 2] <=> ~(c = Quote /\ prevChar # "\\")
  BY <1>4, QuotedLonger
<1>7. CASE Quoted(t)[n + 2]
  <2>1. /\ currentToken' = Append(currentToken, c)
        /\ tokens' = tokens /\ currentType' = "str"
    BY <1>2, <1>6, <1>7 DEF InString
  <2>2. AtString(t, tokens, Append(currentToken, c), p)
    BY <1>7, StringGrows
  <2>3. Scan(t, tokens', currentToken', currentType', prevChar')
    BY <1>1, <1>3, <1>4, <1>5, <2>1, <2>2 DEF Scan
  <2> QED BY <1>3, <2>3
<1>8. CASE ~Quoted(t)[n + 2]
  <2>1. /\ c = Quote /\ currentToken' = <<>> /\ currentType' = "unknown"
        /\ tokens' = Added(tokens, Tok("str", currentToken))
    BY <1>2, <1>6, <1>8 DEF InString, InLine, tokenLine, Added
  <2>2. /\ Filled(t, Added(tokens, Tok("str", currentToken)), Items(t))
        /\ Len(Added(tokens, Tok("str", currentToken))) = Len(tokens)
    BY <1>8, StringEnds
  <2>3. AtGap(t, tokens', <<>>)
    BY <1>1, <1>4, <1>8, <2>1, <2>2 DEF AtGap
  <2>4. prevChar' # "\\"
    BY <1>3, <2>1 DEF Quote
  <2>5. Scan(t, tokens', currentToken', currentType', prevChar')
    BY <1>1, <1>4, <1>5, <2>1, <2>2, <2>3, <2>4 DEF Scan
  <2> QED BY <1>3, <2>5
<1> QED BY <1>7, <1>8

-----------------------------------------------------------------------------
(* FlattenSeq puts sequences after each other. *)
LEMMA FlattenedBy ==
  ASSUME NEW S, NEW ss \in Seq(Seq(S))
  PROVE  \E q : /\ q[0] = <<>>
                /\ \A i \in 1 .. Len(ss) : q[i] = q[i - 1] \o ss[i]
                /\ FlattenSeq(ss) = q[Len(ss)]
<1> DEFINE n == Len(ss)
           Rec(f, m) == \A i \in 1 .. m :
                          f[i] = IF i = 1 THEN ss[i] ELSE f[i - 1] \o ss[i]
           F == {m \in Nat : m <= n => \E f \in [1 .. m -> Seq(S)] : Rec(f, m)}
           g == CHOOSE flatten :
                  flatten = [i \in 1 .. Len(ss) |->
                               IF i = 1 THEN ss[i] ELSE flatten[i - 1] \o ss[i]]
           q == [i \in 0 .. n |-> IF i = 0 THEN <<>> ELSE g[i]]
<1>1. n \in Nat /\ ss \in [1 .. n -> Seq(S)]
  BY SeqDef, LenProperties
<1>2. 0 \in 0 .. n /\ n \in 0 .. n
  BY <1>1, SMT
<1>3. CASE n = 0
  <2>1. FlattenSeq(ss) = ss /\ ss = <<>>
    BY <1>3, EmptySeq DEF FlattenSeq
  <2>2. q[0] = <<>>
    BY <1>2
  <2>3. \A i \in 1 .. n : q[i] = q[i - 1] \o ss[i]
    BY <1>3, SMT
  <2> QED BY <1>3, <2>1, <2>2, <2>3
<1>4. CASE n # 0
  <2>1. 0 \in F
    <3>1. [i \in 1 .. 0 |-> <<>>] \in [1 .. 0 -> Seq(S)]
      BY SMT
    <3>2. Rec([i \in 1 .. 0 |-> <<>>], 0)
      BY SMT
    <3> QED BY <3>1, <3>2
  <2>2. ASSUME NEW m \in Nat, m \in F PROVE m + 1 \in F
    <3> SUFFICES ASSUME m + 1 <= n
                 PROVE  \E f \in [1 .. m + 1 -> Seq(S)] : Rec(f, m + 1)
      <4>1. m + 1 \in Nat
        BY SMT
      <4> QED BY <4>1
    <3>1. m <= n
      BY <1>1, SMT
    <3>2. PICK f \in [1 .. m -> Seq(S)] : Rec(f, m)
      BY <2>2, <3>1
    <3> DEFINE x == IF m = 0 THEN ss[1] ELSE f[m] \o ss[m + 1]
               h == [i \in 1 .. m + 1 |-> IF i <= m THEN f[i] ELSE x]
    <3>3. ss[m + 1] \in Seq(S) /\ (m = 0 => ss[1] \in Seq(S)) /\ (m # 0 => f[m] \in Seq(S))
      BY <1>1, <3>2, SMT
    <3>4. x \in Seq(S)
      BY <3>3, ConcatProperties
    <3> HIDE DEF x
    <3>5. h \in [1 .. m + 1 -> Seq(S)]
      BY <3>2, <3>4, SMT
    <3>6. ASSUME NEW i \in 1 .. m + 1
          PROVE  h[i] = IF i = 1 THEN ss[i] ELSE h[i - 1] \o ss[i]
      <4>1. CASE i <= m
        <5>1. i \in 1 .. m /\ h[i] = f[i] /\ (i # 1 => i - 1 \in 1 .. m /\ h[i - 1] = f[i - 1])
          BY <4>1, SMT
        <5> QED BY <3>2, <5>1
      <4>2. CASE i = m + 1 /\ m = 0
        BY <4>2, SMT DEF x
      <4>3. CASE i = m + 1 /\ m # 0
        <5>1. h[i] = x /\ i # 1 /\ i - 1 = m /\ h[m] = f[m]
          BY <4>3, SMT
        <5> QED BY <4>3, <5>1 DEF x
      <4> QED BY <4>1, <4>2, <4>3, SMT
    <3> HIDE DEF h
    <3> QED BY <3>5, <3>6
  <2>3. n \in F
    <3> HIDE DEF F
    <3>1. 0 .. n \subseteq F
      BY <1>1, <2>1, <2>2, EveryPlace
    <3> QED BY <1>2, <3>1
  <2>4. PICK f \in [1 .. n -> Seq(S)] : Rec(f, n)
    BY <1>1, <2>3
  <2>5. f = [i \in 1 .. Len(ss) |-> IF i = 1 THEN ss[i] ELSE f[i - 1] \o ss[i]]
    BY <2>4
  <2>6. g = [i \in 1 .. Len(ss) |-> IF i = 1 THEN ss[i] ELSE g[i - 1] \o ss[i]]
    BY <2>5
  <2>7. FlattenSeq(ss) = g[n]
    BY <1>4 DEF FlattenSeq
  <2>8. \A i \in 1 .. n : g[i] = IF i = 1 THEN ss[i] ELSE g[i - 1] \o ss[i]
    BY <2>6
  <2> HIDE DEF g
  <2>9. q[0] = <<>> /\ FlattenSeq(ss) = q[n]
    BY <1>2, <1>4, <2>7
  <2>10. ASSUME NEW i \in 1 .. n PROVE q[i] = q[i - 1] \o ss[i]
    <3>1. /\ i \in 0 .. n /\ i - 1 \in 0 .. n /\ i # 0 /\ (i - 1 = 0 <=> i = 1)
      BY <1>1, SMT
    <3>2. q[i] = g[i] /\ q[i - 1] = IF i = 1 THEN <<>> ELSE g[i - 1]
      BY <3>1
    <3> HIDE DEF q
    <3>3. CASE i = 1
      <4>1. ss[i] \in Seq(S)
        BY <1>1
      <4>2. <<>> \o ss[i] = ss[i]
        BY <4>1, ConcatEmptySeq
      <4> QED BY <2>8, <3>2, <3>3, <4>2
    <3>4. CASE i # 1
      BY <2>8, <3>2, <3>4
    <3> QED BY <3>3, <3>4
  <2> HIDE DEF q
  <2> QED BY <2>9, <2>10
<1> QED BY <1>3, <1>4


(* Tokenized leaves out the last line if it has no token. *)
Kept(lines) ==
  FlattenSeq([n \in DOMAIN lines |-> IF lines[n] = <<>> THEN <<>> ELSE <<lines[n]>>])

LEMMA KeptLines ==
  ASSUME NEW lines \in Seq(Seq(TokenSet)), lines # <<>>,
         \A i \in DOMAIN lines : i # Len(lines) => lines[i] # <<>>
  PROVE  \E k \in Nat :
           /\ Len(Kept(lines)) = k /\ DOMAIN Kept(lines) = 1 .. k
           /\ \/ k = Len(lines) /\ lines[Len(lines)] # <<>>
              \/ k + 1 = Len(lines) /\ lines[Len(lines)] = <<>>
           /\ \A i \in 1 .. k : Kept(lines)[i] = lines[i]
<1> DEFINE S  == Seq(TokenSet)
           n  == Len(lines)
           ss == [i \in DOMAIN lines |-> IF lines[i] = <<>> THEN <<>> ELSE <<lines[i]>>]
<1>1. /\ n \in Nat \ {0} /\ DOMAIN lines = 1 .. n /\ \A i \in 1 .. n : lines[i] \in S
  BY LenProperties, EmptySeq, ElementOfSeq
<1> HIDE DEF S
<1>2. /\ DOMAIN ss = 1 .. n /\ ss \in Seq(Seq(S)) /\ Len(ss) = n
      /\ \A i \in 1 .. n : ss[i] = IF lines[i] = <<>> THEN <<>> ELSE <<lines[i]>>
  <2>1. \A i \in 1 .. n : ss[i] = IF lines[i] = <<>> THEN <<>> ELSE <<lines[i]>>
    BY <1>1
  <2>2. \A i \in 1 .. n : <<lines[i]>> \in Seq(S) /\ <<>> \in Seq(S)
    BY <1>1, EmptySeq
  <2>3. DOMAIN ss = 1 .. n
    BY <1>1
  <2> HIDE DEF n
  <2>4. ss \in [1 .. n -> Seq(S)]
    BY <2>1, <2>2, <2>3
  <2>5. ss \in Seq(Seq(S))
    BY <1>1, <2>4, SeqDef
  <2>6. Len(ss) = n
    BY <1>1, <2>3, <2>5, LenProperties, SMT
  <2> QED BY <2>1, <2>3, <2>5, <2>6
<1>3. Kept(lines) = FlattenSeq(ss)
  BY DEF Kept
<1> HIDE DEF ss, n
<1>4. PICK q : /\ q[0] = <<>> /\ \A i \in 1 .. n : q[i] = q[i - 1] \o ss[i]
               /\ FlattenSeq(ss) = q[n]
  BY <1>2, FlattenedBy
<1> DEFINE Holds(m) == /\ q[m] \in Seq(S) /\ Len(q[m]) = m
                       /\ \A i \in 1 .. m : q[m][i] = lines[i]
           F == {m \in Nat : Holds(m)}
<1>5. 0 \in F
  <2>1. q[0] \in Seq(S) /\ Len(q[0]) = 0
    BY <1>4, EmptySeq
  <2>2. \A i \in 1 .. 0 : FALSE
    BY SMT
  <2> QED BY <2>1, <2>2
<1>6. ASSUME NEW m \in Nat, m + 1 \in 1 .. n, Holds(m), lines[m + 1] # <<>>
      PROVE  Holds(m + 1)
  <2>1. (m + 1) - 1 = m
    BY SMT
  <2>2. PICK a, x, b : a = q[m] /\ x = lines[m + 1] /\ b = q[m + 1]
    OBVIOUS
  <2>3. b = a \o <<x>> /\ a \in Seq(S) /\ x \in S /\ Len(a) = m
        /\ \A i \in 1 .. m : a[i] = lines[i]
    BY <1>1, <1>2, <1>4, <1>6, <2>1, <2>2
  <2>4. <<x>> \in Seq(S) /\ Len(<<x>>) = 1 /\ <<x>>[1] = x
    BY <2>3
  <2>5. /\ b \in Seq(S) /\ Len(b) = m + 1
        /\ \A i \in 1 .. m + 1 : b[i] = IF i <= m THEN a[i] ELSE <<x>>[i - m]
    BY <2>3, <2>4, ConcatProperties
  <2>6. ASSUME NEW i \in 1 .. m + 1 PROVE b[i] = lines[i]
    <3>1. CASE i \in 1 .. m
      <4>1. i <= m
        BY <3>1, SMT
      <4> QED BY <2>3, <2>5, <3>1, <4>1
    <3>2. CASE i = m + 1
      <4>1. ~(i <= m) /\ i - m = 1
        BY <3>2, SMT
      <4> QED BY <2>2, <2>4, <2>5, <3>2, <4>1
    <3> QED BY <3>1, <3>2, SMT
  <2> QED BY <2>2, <2>5, <2>6
<1>7. PICK k \in Nat : k + 1 = n
  <2>1. n - 1 \in Nat /\ (n - 1) + 1 = n
    BY <1>1, SMT
  <2> QED BY <2>1
<1>8. Holds(k)
  <2>1. ASSUME NEW m \in Nat, m < k, m \in F PROVE m + 1 \in F
    <3>1. m + 1 \in 1 .. n /\ m + 1 # n /\ m + 1 \in Nat
      BY <1>7, <2>1, SMT
    <3>2. lines[m + 1] # <<>>
      BY <1>1, <3>1 DEF n
    <3> QED BY <1>6, <2>1, <3>1, <3>2
  <2> HIDE DEF F
  <2>2. 0 .. k \subseteq F
    BY <1>5, <2>1, EveryPlace
  <2>3. k \in 0 .. k
    BY SMT
  <2>4. k \in F
    BY <2>2, <2>3
  <2> QED BY <2>4 DEF F
<1>9. k + 1 \in 1 .. n /\ (k + 1) - 1 = k /\ n \in Nat
  BY <1>1, <1>7, SMT
<1>10. CASE lines[n] # <<>>
  <2>1. Holds(n)
    BY <1>6, <1>7, <1>8, <1>9, <1>10
  <2>2. DOMAIN q[n] = 1 .. n
    BY <2>1, LenProperties
  <2> QED BY <1>3, <1>4, <1>9, <1>10, <2>1, <2>2 DEF n
<1>11. CASE lines[n] = <<>>
  <2>1. q[n] = q[k] \o <<>>
    BY <1>2, <1>4, <1>7, <1>9, <1>11
  <2>2. q[n] = q[k]
    BY <1>8, <2>1, ConcatEmptySeq
  <2>3. DOMAIN q[k] = 1 .. k
    BY <1>8, LenProperties
  <2> QED BY <1>3, <1>4, <1>7, <1>8, <1>11, <2>2, <2>3 DEF n
<1> QED BY <1>10, <1>11

LEMMA SaidIfFilled ==
  ASSUME NEW s \in Seq(LineChars), NEW lines, Filled(s, lines, Items(s))
  PROVE  AreSaid(Kept(lines), s)
<1> DEFINE L == {LineOf(s, p) : p \in Items(s)}
           On(i) == {p \in Items(s) : LineOf(s, p) = i}
           n == Len(lines)
<1>1. /\ lines \in Seq(Seq(TokenSet)) /\ lines # <<>>
      /\ \A i \in DOMAIN lines : /\ Len(lines[i]) = Cardinality(On(i))
                                 /\ i # n => lines[i] # <<>>
      /\ \A p \in Items(s) : /\ LineOf(s, p) \in DOMAIN lines
                             /\ PlaceOf(s, p) \in DOMAIN lines[LineOf(s, p)]
                             /\ Says(s, p, lines[LineOf(s, p)][PlaceOf(s, p)])
  BY DEF Filled
<1>2. n \in Nat \ {0} /\ DOMAIN lines = 1 .. n /\ \A i \in 1 .. n : lines[i] \in Seq(TokenSet)
  BY <1>1, LenProperties, EmptySeq, ElementOfSeq
<1>3. PICK k \in Nat : /\ Len(Kept(lines)) = k /\ DOMAIN Kept(lines) = 1 .. k
                       /\ \/ k = n /\ lines[n] # <<>>
                          \/ k + 1 = n /\ lines[n] = <<>>
                       /\ \A i \in 1 .. k : Kept(lines)[i] = lines[i]
  BY <1>1, KeptLines
<1>4. \A i \in 1 .. n : lines[i] = <<>> <=> On(i) = {}
  <2> TAKE i \in 1 .. n
  <2>1. IsFiniteSet(On(i))
    <3>1. IsFiniteSet(Items(s)) /\ On(i) \in SUBSET Items(s)
      BY ItemsFinite
    <3> QED BY <3>1, FS_Subset
  <2>2. Cardinality(On(i)) = 0 <=> On(i) = {}
    BY <2>1, FS_EmptySet
  <2>3. Len(lines[i]) = 0 <=> lines[i] = <<>>
    BY <1>2, EmptySeq
  <2> HIDE DEF On
  <2> QED BY <1>1, <1>2, <2>2, <2>3
<1> HIDE DEF n
<1>5. /\ \A i \in 1 .. k : i \in 1 .. n /\ lines[i] # <<>>
      /\ \A i \in 1 .. n : lines[i] # <<>> => i \in 1 .. k
  <2>1. CASE k = n /\ lines[n] # <<>>
    BY <1>1, <1>2, <2>1
  <2>2. CASE k + 1 = n /\ lines[n] = <<>>
    <3>1. /\ \A i \in 1 .. k : i \in 1 .. n /\ i # n
          /\ \A i \in 1 .. n : i \in 1 .. k \/ i = n
      BY <1>2, <2>2, SMT
    <3> QED BY <1>1, <1>2, <2>2, <3>1
  <2> QED BY <1>3, <2>1, <2>2
<1>6. L = 1 .. k
  <2>1. ASSUME NEW i \in 1 .. k PROVE i \in L
    <3>1. On(i) # {}
      BY <1>4, <1>5
    <3> QED BY <3>1
  <2>2. ASSUME NEW p \in Items(s) PROVE LineOf(s, p) \in 1 .. k
    <3>1. LineOf(s, p) \in 1 .. n /\ p \in On(LineOf(s, p))
      BY <1>1, <1>2
    <3>2. lines[LineOf(s, p)] # <<>>
      BY <1>4, <3>1
    <3> QED BY <1>5, <3>1, <3>2
  <2> QED BY <2>1, <2>2
<1>7. Cardinality(L) = k
  <2>1. Cardinality(1 .. k) = k
    BY FS_Interval, SMT
  <2> QED BY <1>6, <2>1
<1>8. \A i \in 1 .. k : Len(Kept(lines)[i]) = Cardinality(On(i))
  BY <1>1, <1>2, <1>3, <1>5
<1>9. \A p \in Items(s) : Says(s, p, Kept(lines)[LineOf(s, p)][PlaceOf(s, p)])
  <2>1. \A p \in Items(s) : LineOf(s, p) \in 1 .. k
    BY <1>6
  <2> QED BY <1>1, <1>3, <2>1
<1> QED BY <1>3, <1>7, <1>8, <1>9 DEF AreSaid

-----------------------------------------------------------------------------
(* The line ends: a blank is added to it. *)

LEMMA EndStep ==
  ASSUME NEW s, ~Stray(s), Scan(s, tokens, currentToken, currentType, prevChar),
         NEW c, IsBlank(c), Loop(c, "read")
  PROVE  verdict' = "read" /\ AllScanned(s, tokens', currentToken')
<1> DEFINE n == Len(s)
<1>1. s \in Seq(LineChars) /\ NoFault(s) /\ n \in Nat
  BY LenProperties DEF Scan
<1>2. Malformed(s) <=> Quoted(s)[n + 1]
  BY <1>1, FaultlessIsRight
<1>3. /\ ~OpenString(c, "read") /\ ~Comment(c) /\ ~Accumulate(c, "read")
      /\ ~BeginMarked(c, "read") /\ ~BeginName(c, "read")
  BY DEF OpenString, Comment, Accumulate, BeginMarked, BeginName, InToken, Quote, IsBlank
<1>4. InString(c, "read") \/ Terminate(c, "read")
  BY <1>3 DEF Loop
<1>5. CASE AtGap(s, tokens, currentToken) /\ currentType = "unknown"
  <2>1. Terminate(c, "read") /\ currentToken = <<>>
    BY <1>4, <1>5 DEF InString, AtGap
  <2>2. verdict' = "read" /\ tokens' = tokens /\ currentToken' = <<>>
    BY <2>1 DEF Terminate, Terminated, IsBlank
  <2> QED BY <1>2, <1>5, <2>2 DEF AtGap, AllScanned
<1>6. ASSUME NEW p, AtWord(s, tokens, currentToken, currentType, p)
      PROVE  verdict' = "read" /\ AllScanned(s, tokens', currentToken')
  <2> DEFINE token == Tok(CategoryFor(c, currentType, currentToken), currentToken)
  <2>1. IsWord(s, p, n) /\ currentToken = Body(s, p, n) /\ KindIs(s, p, currentType)
    BY <1>6 DEF AtWord
  <2>2. Terminate(c, "read")
    BY <1>4, <2>1, KindFacts DEF InString
  <2>3. currentToken # <<>>
    <3>1. s[p] \in DOMAIN Mark => p # n
      BY <1>1, <2>1, NotStray
    <3> QED BY <1>1, <2>1, <3>1, WordText
  <2>4. verdict' = "read" /\ tokens' = Added(tokens, token) /\ currentToken' = <<>>
    BY <2>2, <2>3 DEF Terminate, Terminated, InLine, tokenLine, Added, CategoryAt, CategoryFor, IsBlank
  <2>5. Filled(s, Added(tokens, token), Items(s))
    <3>1. PICK k : k = token
      OBVIOUS
    <3>2. c # ":"
      BY DEF IsBlank
    <3>3. k = Tok(CategoryFor(c, currentType, currentToken), currentToken)
      BY <3>1
    <3> HIDE DEF token
    <3>4. Filled(s, Added(tokens, k), Items(s))
      BY <1>1, <1>6, <3>2, <3>3, LastWord
    <3> QED BY <3>1, <3>4
  <2>6. ~Malformed(s)
    <3>1. InWord(s, n)
      <4>1. n \in p .. n
        BY <1>1, <2>1, OneWord
      <4> QED BY <2>1, <4>1 DEF IsWord
    <3> QED BY <1>1, <1>2, <3>1, WordNotQuoted
  <2> HIDE DEF token
  <2> QED BY <2>4, <2>5, <2>6 DEF AllScanned
<1>7. ASSUME NEW p, AtString(s, tokens, currentToken, p), currentType = "str"
      PROVE  verdict' = "read" /\ AllScanned(s, tokens', currentToken')
  <2>1. InString(c, "read")
    BY <1>4, <1>7 DEF Terminate, Terminated
  <2>2. verdict' = "read" /\ currentToken' = Append(currentToken, c)
    BY <2>1 DEF InString, Quote, IsBlank
  <2>3. p \in 1 .. n /\ n + 1 \in p + 1 .. n + 1 /\ n \in 0 .. n /\ p + 1 \in 1 .. n + 1
    <3>1. p \in 1 .. n
      BY <1>1, <1>7, LenProperties DEF AtString, Has
    <3> HIDE DEF n
    <3> QED BY <1>1, <3>1, SMT
  <2>4. Quoted(s)[n + 1]
    BY <1>7, <2>3 DEF AtString
  <2>5. currentToken \in Seq(LineChars)
    BY <1>1, <1>7, <2>3, PartIn DEF AtString
  <2>6. currentToken' # <<>>
    <3>1. PICK a : a = currentToken
      OBVIOUS
    <3>2. c \in LineChars /\ a \in Seq(LineChars)
      BY <2>5, <3>1 DEF LineChars, IsBlank
    <3>3. Append(a, c) \in Seq(LineChars) /\ Len(Append(a, c)) = Len(a) + 1 /\ Len(a) \in Nat
      BY <3>2, AppendProperties, LenProperties
    <3>4. Append(a, c) # <<>>
      <4>1. Len(<<>>) = 0
        BY EmptySeq
      <4>2. Len(a) + 1 # 0
        BY <3>3, SMT
      <4> QED BY <3>3, <4>1, <4>2
    <3> QED BY <2>2, <3>1, <3>4
  <2> QED BY <1>2, <2>2, <2>4, <2>6 DEF AllScanned
<1> QED BY <1>5, <1>6, <1>7 DEF Scan

-----------------------------------------------------------------------------
(* The invariant. *)

Started == Scan(source, tokens, currentToken, currentType, prevChar)

TokInv ==
  /\ source \in Seq(LineChars)
  /\ verdict = "reading" /\ Clean(source) => Started
  /\ verdict = "read" /\ ~Stray(source) => AllScanned(source, tokens, currentToken)
  /\ TokensAsWritten

LEMMA EmptyLine ==
  /\ <<>> \in Seq(LineChars) /\ Items(<<>>) = {} /\ Filled(<<>>, <<<<>>>>, {})
  /\ NoFault(<<>>) /\ ~Malformed(<<>>) /\ LineOf(<<>>, 1) = 1
  /\ ~Quoted(<<>>)[1] /\ ~InWord(<<>>, 0) /\ Len(<<<<>>>>) = 1 /\ Len(<<>>) = 0
<1>1. <<>> \in Seq(LineChars) /\ Len(<<>>) = 0 /\ DOMAIN <<>> = {}
  <2>1. <<>> \in Seq(LineChars) /\ Len(<<>>) = 0
    BY EmptySeq
  <2>2. DOMAIN <<>> = 1 .. 0
    BY <2>1, LenProperties
  <2>3. 1 .. 0 = {}
    BY SMT
  <2> QED BY <2>1, <2>2, <2>3
<1>2. Items(<<>>) = {} /\ NoFault(<<>>) /\ ~InWord(<<>>, 0)
  BY <1>1 DEF Items, NoFault, InWord
<1>3. ~Quoted(<<>>)[1]
  <2>1. QuotedRule(<<>>, Quoted(<<>>))
    BY <1>1, QuotedFacts
  <2>2. 1 \in 0 .. 0 + 1 /\ 1 <= 1
    BY SMT
  <2> QED BY <1>1, <2>1, <2>2 DEF QuotedRule, QuotedNext
<1>4. ~Malformed(<<>>)
  <2>1. Malformed(<<>>) <=> Quoted(<<>>)[Len(<<>>) + 1]
    BY <1>2, FaultlessIsRight
  <2>2. 0 + 1 = 1
    BY SMT
  <2> QED BY <1>1, <1>3, <2>1, <2>2
<1>5. LineOf(<<>>, 1) = 1
  <2>1. {k \in 1 .. 1 - 1 : Has(<<>>, k, {":"})} = {}
    BY <1>1 DEF Has
  <2>2. Cardinality({}) = 0 /\ 0 + 1 = 1
    BY FS_EmptySet, SMT
  <2> QED BY <2>1, <2>2 DEF LineOf
<1>6. Filled(<<>>, <<<<>>>>, {}) /\ Len(<<<<>>>>) = 1
  <2>1. <<>> \in Seq(TokenSet)
    BY EmptySeq
  <2>2. PICK e, l : e = <<>> /\ l = <<<<>>>>
    OBVIOUS
  <2>3. l = <<e>> /\ e \in Seq(TokenSet)
    BY <2>1, <2>2
  <2>4. l \in Seq(Seq(TokenSet)) /\ Len(l) = 1 /\ l[1] = e /\ DOMAIN l = 1 .. 1
    BY <2>3, SMT
  <2>5. \A i \in 1 .. 1 : i = 1
    BY SMT
  <2>6. {p \in {} : LineOf(e, p) = 1} = {} /\ Cardinality({}) = 0 /\ Len(e) = 0
    BY <1>1, <2>2, FS_EmptySet
  <2>7. l # <<>>
    <3>1. 1 # 0
      BY SMT
    <3> QED BY <1>1, <2>4, <3>1
  <2>8. \A i \in DOMAIN l : /\ Len(l[i]) = Cardinality({p \in {} : LineOf(e, p) = i})
                            /\ i # Len(l) => l[i] # <<>>
    BY <2>4, <2>5, <2>6
  <2>9. Filled(e, l, {})
    BY <2>4, <2>7, <2>8 DEF Filled
  <2> QED BY <2>2, <2>4, <2>9
<1> QED BY <1>1, <1>2, <1>3, <1>4, <1>5, <1>6

LEMMA AtStart ==
  ASSUME TokIdle, verdict \in {"reading", "ok"}
  PROVE  TokInv
<1>1. /\ source = <<>> /\ tokens = <<<<>>>> /\ currentToken = <<>>
      /\ currentType = "unknown" /\ prevChar = "NUL"
  BY DEF TokIdle
<1>2. Filled(source, tokens, Items(source)) /\ source \in Seq(LineChars) /\ ~Malformed(source)
  BY <1>1, EmptyLine
<1>3. Started
  <2>1. 0 + 1 = 1 /\ "NUL" # "\\"
    BY SMT
  <2>2. AtGap(source, tokens, currentToken)
    BY <1>1, <1>2, <2>1, EmptyLine DEF AtGap
  <2>3. Len(tokens) = LineOf(source, Len(source) + 1) /\ NoFault(source)
    BY <1>1, <2>1, EmptyLine
  <2> QED BY <1>1, <1>2, <2>1, <2>2, <2>3 DEF Started, Scan
<1>4. AreSaid(Tokenized, source)
  <2>1. AreSaid(Kept(tokens), source)
    BY <1>2, SaidIfFilled
  <2> QED BY <2>1 DEF Kept, Tokenized
<1>5. TokensAsWritten
  BY <1>2, <1>4 DEF TokensAsWritten
<1> QED BY <1>2, <1>3, <1>5 DEF TokInv

-----------------------------------------------------------------------------

LEMMA LoopStep ==
  ASSUME NEW s, NEW c, NEW t, NEW n, Extends(s, c, t, n), Clean(t),
         Scan(s, tokens, currentToken, currentType, prevChar), Loop(c, "reading")
  PROVE  \/ verdict' = "reading" /\ Scan(t, tokens', currentToken', currentType', prevChar')
         \/ verdict' = "read" /\ AllScanned(t, tokens', currentToken')
         \/ verdict' = "unexpected token" /\ Malformed(t)
<1>1. Len(s) = n /\ NoFault(s) /\ Len(tokens) = LineOf(s, n + 1)
  BY OneMore DEF Scan
<1>2. CASE AtGap(s, tokens, currentToken) /\ currentType = "unknown" /\ prevChar # "\\"
  BY <1>1, <1>2, GapStep
<1>3. CASE (\E p : AtWord(s, tokens, currentToken, currentType, p)) /\ prevChar # "\\"
  <2>1. PICK p : AtWord(s, tokens, currentToken, currentType, p)
    BY <1>3
  <2> QED BY <1>1, <1>3, <2>1, WordStep
<1>4. CASE /\ \E p : AtString(s, tokens, currentToken, p)
           /\ currentType = "str" /\ (prevChar = "\\" <=> s[n] = "\\")
  <2>1. PICK p : AtString(s, tokens, currentToken, p)
    BY <1>4
  <2> QED BY <1>1, <1>4, <2>1, StringStep
<1> QED BY <1>1, <1>2, <1>3, <1>4 DEF Scan

LEMMA ReadCharKeeps ==
  ASSUME TokInv, ReadChar
  PROVE  TokInv'
<1>1. PICK c \in Alphabet : source' = Append(source, c) /\ Loop(c, "reading")
  BY DEF ReadChar
<1>2. PICK s, t, n : s = source /\ t = source' /\ n = Len(source)
  OBVIOUS
<1>3. Extends(s, c, t, n)
  <2>1. c \in LineChars /\ source \in Seq(LineChars)
    BY DEF LineChars, TokInv
  <2> QED BY <1>1, <1>2, <2>1 DEF Extends
<1>4. t \in Seq(LineChars)
  BY <1>3, OneMore
<1>5. verdict' \in {"reading", "read", "unexpected token"}
  BY <1>1 DEF Loop, InString, OpenString, Comment, Terminate, Terminated, Accumulate,
              BeginMarked, BeginName, Reject
<1>6. Clean(t) =>
        \/ verdict' = "reading" /\ Scan(t, tokens', currentToken', currentType', prevChar')
        \/ verdict' = "read" /\ AllScanned(t, tokens', currentToken')
        \/ verdict' = "unexpected token" /\ Malformed(t)
  <2> SUFFICES ASSUME Clean(t)
               PROVE  \/ /\ verdict' = "reading"
                         /\ Scan(t, tokens', currentToken', currentType', prevChar')
                      \/ verdict' = "read" /\ AllScanned(t, tokens', currentToken')
                      \/ verdict' = "unexpected token" /\ Malformed(t)
    OBVIOUS
  <2>1. Clean(s)
    BY <1>3, CleanLonger
  <2>2. Scan(s, tokens, currentToken, currentType, prevChar)
    BY <1>2, <2>1 DEF TokInv, Started, ReadChar
  <2> QED BY <1>1, <1>3, <2>2, LoopStep
<1>7. ~Stray(t) => Clean(t)
  BY <1>4, NotStray
<1>8. TokensAsWritten'
  BY <1>2, <1>5, <1>6, <1>7 DEF TokensAsWritten
<1> QED BY <1>2, <1>4, <1>6, <1>7, <1>8 DEF TokInv, Started

LEMMA EndLineKeeps ==
  ASSUME TokInv, EndLine
  PROVE  TokInv'
<1>1. source' = source
  BY DEF EndLine
<1>2. verdict' = "read"
  BY DEF EndLine, Loop, InString, OpenString, Comment, Terminate, Terminated, Accumulate,
         BeginMarked, BeginName, Reject, InToken, Quote
<1>3. ~Stray(source) => AllScanned(source, tokens', currentToken')
  <2> SUFFICES ASSUME ~Stray(source) PROVE AllScanned(source, tokens', currentToken')
    OBVIOUS
  <2>1. PICK s, c : s = source /\ c = " "
    OBVIOUS
  <2>2. Clean(s) /\ ~Stray(s)
    BY <2>1, NotStray DEF TokInv
  <2>3. Scan(s, tokens, currentToken, currentType, prevChar)
    BY <2>1, <2>2 DEF TokInv, Started, EndLine
  <2>4. IsBlank(c) /\ Loop(c, "read")
    BY <2>1 DEF IsBlank, EndLine
  <2>5. AllScanned(s, tokens', currentToken')
    BY <2>2, <2>3, <2>4, EndStep
  <2> QED BY <2>1, <2>5
<1> QED BY <1>1, <1>2, <1>3 DEF TokInv, TokensAsWritten

LEMMA ConcludeKeeps ==
  ASSUME TokInv, Conclude
  PROVE  TokInv'
<1>1. /\ source' = source /\ tokens' = tokens /\ currentToken' = currentToken
      /\ verdict = "read"
      /\ verdict' = IF currentToken = <<>> THEN "ok" ELSE "unexpected end"
  BY DEF Conclude, scanned
<1>2. Tokenized' = Tokenized
  BY <1>1 DEF Tokenized
<1>3. ASSUME ~Stray(source)
      PROVE  /\ verdict' = "ok" <=> ~Malformed(source)
             /\ verdict' = "ok" => AreSaid(Tokenized, source)
  <2>1. AllScanned(source, tokens, currentToken) /\ source \in Seq(LineChars)
    BY <1>1, <1>3 DEF TokInv
  <2>2. Filled(source, tokens, Items(source)) => AreSaid(Tokenized, source)
    <3>1. Filled(source, tokens, Items(source)) => AreSaid(Kept(tokens), source)
      BY <2>1, SaidIfFilled
    <3> QED BY <3>1 DEF Kept, Tokenized
  <2> QED BY <1>1, <2>1, <2>2 DEF AllScanned
<1>4. TokensAsWritten'
  BY <1>1, <1>2, <1>3 DEF TokensAsWritten
<1>5. verdict' \notin {"reading", "read"}
  BY <1>1
<1> QED BY <1>1, <1>4, <1>5 DEF TokInv

LEMMA TokInvKept ==
  ASSUME TokInv, [TokNext]_tokVars
  PROVE  TokInv'
<1>1. ASSUME UNCHANGED tokVars PROVE TokInv'
  BY <1>1 DEF tokVars, scanned, TokInv, Started, TokensAsWritten, Tokenized
<1> QED BY <1>1, ReadCharKeeps, EndLineKeeps, ConcludeKeeps DEF TokNext

(* A line is refused exactly if it is malformed, and otherwise its tokens  *)
(* are what it says.                                                       *)
THEOREM TokenizerTokensAsWritten ==
  TokInit /\ [][TokNext]_tokVars => []TokensAsWritten
<1>1. TokInit => TokInv
  BY AtStart DEF TokInit
<1>2. TokInv /\ [TokNext]_tokVars => TokInv'
  BY TokInvKept
<1>3. TokInv => TokensAsWritten
  BY DEF TokInv
<1> QED BY <1>1, <1>2, <1>3, PTL
=============================================================================
