----------------------------- MODULE BuildProofs ------------------------------
(***************************************************************************)
(* Proofs about Build: whatever the files of the command line say, the     *)
(* post-processor hands the parser a program of lines it knows, so that    *)
(* what is proved of the assembler holds of the whole build.               *)
(*                                                                         *)
(* The passes of the post-processor cut, splice and flatten lines.  The    *)
(* invariant says what a line is that any of them may leave: it has a      *)
(* token, and all its tokens are what the tokenizer makes, or it is an     *)
(* include, which names a file where others have the length of a string.   *)
(*                                                                         *)
(* Then of the object file: a block stays where its header says while      *)
(* others are added, and the records of the debug information are read     *)
(* one by one where they were written, so that what is loaded is what was  *)
(* saved.                                                                  *)
(***************************************************************************)
EXTENDS Build, AssemblerOutputProofs, TokenizerProofs

-----------------------------------------------------------------------------
(* Sequences. *)

(* Part of a sequence. *)
LEMMA PartOf ==
  ASSUME NEW S, NEW s \in Seq(S), NEW m \in Nat \ {0}, NEW n \in Int, n <= Len(s)
  PROVE  SubSeq(s, m, n) \in Seq(S)
<1>1. s \in [1 .. Len(s) -> S] /\ Len(s) \in Nat
  BY SeqDef, LenProperties
<1>2. \A i \in m .. n : i \in 1 .. Len(s)
  BY <1>1, SMT
<1>3. \A i \in m .. n : s[i] \in S
  BY <1>1, <1>2
<1> QED BY <1>3, SubSeqProperties, SMT

(* FlattenSeq puts sequences after each other. *)
(* The first n of the sequences in ss make s: where each of them begins.   *)
JoinedAt(s, ss, n, p) ==
  /\ p \in [0 .. n -> Nat] /\ p[0] = 0 /\ p[n] = Len(s)
  /\ \A i \in 1 .. n :
       /\ p[i] = p[i - 1] + Len(ss[i]) /\ p[i] <= p[n]
       /\ \A k \in 1 .. Len(ss[i]) : s[p[i - 1] + k] = ss[i][k]

LEMMA FlattenedAt ==
  ASSUME NEW S, NEW ss \in Seq(Seq(S))
  PROVE  /\ FlattenSeq(ss) \in Seq(S)
         /\ \E p : JoinedAt(FlattenSeq(ss), ss, Len(ss), p)
<1> DEFINE n == Len(ss)
<1>1. n \in Nat /\ ss \in [1 .. n -> Seq(S)] /\ 0 \in 0 .. n /\ n \in 0 .. n
  BY SeqDef, LenProperties, SMT
<1>2. PICK q : /\ q[0] = <<>> /\ \A i \in 1 .. n : q[i] = q[i - 1] \o ss[i]
               /\ FlattenSeq(ss) = q[n]
  BY FlattenedBy
<1>3. PICK p : p = [i \in 0 .. n |-> Len(q[i])]
  OBVIOUS
<1>4. \A i \in 0 .. n : p[i] = Len(q[i])
  BY <1>3
<1> DEFINE Holds(m) ==
             /\ q[m] \in Seq(S) /\ p[m] \in Nat
             /\ \A i \in 1 .. m :
                  /\ p[i] = p[i - 1] + Len(ss[i]) /\ p[i] <= p[m]
                  /\ p[i - 1] \in Nat /\ Len(ss[i]) \in Nat
                  /\ \A k \in 1 .. Len(ss[i]) : q[m][p[i - 1] + k] = ss[i][k]
           G == {m \in Nat : m <= n => Holds(m)}
<1>5. 0 \in G
  <2>1. q[0] \in Seq(S) /\ p[0] = 0
    BY <1>1, <1>2, <1>4, EmptySeq
  <2>2. \A i \in 1 .. 0 : FALSE
    BY SMT
  <2> QED BY <2>1, <2>2
<1>6. ASSUME NEW m \in Nat, m \in G PROVE m + 1 \in G
  <2> SUFFICES ASSUME m + 1 <= n PROVE Holds(m + 1)
    <3>1. m + 1 \in Nat
      BY SMT
    <3> QED BY <3>1
  <2>1. m <= n /\ m + 1 \in 1 .. n /\ (m + 1) - 1 = m /\ m \in 0 .. n /\ m + 1 \in 0 .. n
    BY <1>1, SMT
  <2>2. Holds(m)
    BY <1>6, <2>1
  <2>3. PICK a, b, c : a = q[m] /\ b = ss[m + 1] /\ c = q[m + 1]
    OBVIOUS
  <2>4. c = a \o b /\ a \in Seq(S) /\ b \in Seq(S)
    BY <1>1, <1>2, <2>1, <2>2, <2>3
  <2>5. /\ c \in Seq(S) /\ Len(a) \in Nat /\ Len(b) \in Nat /\ Len(c) = Len(a) + Len(b)
        /\ \A k \in 1 .. Len(a) : c[k] = a[k]
        /\ \A k \in 1 .. Len(b) : c[Len(a) + k] = b[k]
    <3>1. Sequence(a) /\ Sequence(b)
      BY <2>4, SequenceOf
    <3> QED BY <2>4, <3>1, Joined, ConcatProperties
  <2>6. p[m] = Len(a) /\ p[m + 1] = Len(c)
    BY <1>4, <2>1, <2>3
  <2>7. PICK u \in Nat, v \in Nat : u = Len(a) /\ v = Len(b) /\ Len(c) = u + v
    BY <2>5
  <2>8. q[m + 1] \in Seq(S) /\ p[m + 1] \in Nat
    <3>1. u + v \in Nat
      BY SMT
    <3> QED BY <2>3, <2>5, <2>6, <2>7, <3>1
  <2>9. ASSUME NEW i \in 1 .. m + 1
        PROVE  /\ p[i] = p[i - 1] + Len(ss[i]) /\ p[i] <= p[m + 1]
               /\ p[i - 1] \in Nat /\ Len(ss[i]) \in Nat
               /\ \A k \in 1 .. Len(ss[i]) : c[p[i - 1] + k] = ss[i][k]
    <3>1. CASE i \in 1 .. m
      <4>1. PICK d, e, l : d = p[i - 1] /\ e = p[i] /\ l = Len(ss[i])
        OBVIOUS
      <4>2. /\ e = d + l /\ e <= u /\ d \in Nat /\ l \in Nat
            /\ \A k \in 1 .. l : a[d + k] = ss[i][k]
        BY <2>2, <2>3, <2>6, <2>7, <3>1, <4>1
      <4>3. e <= u + v /\ \A k \in 1 .. l : d + k \in 1 .. u
        BY <4>2, SMT
      <4>4. \A k \in 1 .. l : c[d + k] = ss[i][k]
        BY <2>5, <2>7, <4>2, <4>3
      <4> QED BY <2>6, <2>7, <4>1, <4>2, <4>3, <4>4
    <3>2. CASE i = m + 1
      <4>1. i - 1 = m
        BY <2>1, <3>2
      <4>2. p[i - 1] = u /\ ss[i] = b /\ p[i] = u + v
        BY <2>3, <2>6, <2>7, <3>2, <4>1
      <4>3. u + v <= u + v
        BY SMT
      <4> QED BY <2>5, <2>6, <2>7, <3>2, <4>2, <4>3
    <3> QED BY <3>1, <3>2, SMT
  <2> QED BY <2>3, <2>8, <2>9
<1>7. Holds(n)
  <2> HIDE DEF Holds
  <2>1. n \in G
    <3> HIDE DEF G
    <3> QED BY <1>1, <1>5, <1>6, NumbersOf
  <2> QED BY <1>1, <2>1
<1>8. FlattenSeq(ss) \in Seq(S)
  BY <1>2, <1>7
<1>9. p[0] = 0
  BY <1>1, <1>2, <1>4, EmptySeq
<1>10. p \in [0 .. n -> Nat]
  <2>1. ASSUME NEW i \in 0 .. n PROVE p[i] \in Nat
    <3>1. CASE i = 0
      BY <1>9, <3>1
    <3>2. CASE i = n
      BY <1>7, <3>2
    <3>3. CASE i # 0 /\ i # n
      <4>1. \A m \in Nat : i # m /\ i \in 0 .. m => i + 1 \in 1 .. m /\ (i + 1) - 1 = i
        BY SMT
      <4>2. i + 1 \in 1 .. n /\ (i + 1) - 1 = i
        BY <1>1, <3>3, <4>1
      <4> QED BY <1>7, <4>2
    <3> QED BY <3>1, <3>2, <3>3
  <2> QED BY <1>3, <2>1
<1>11. p[n] = Len(FlattenSeq(ss))
  BY <1>1, <1>2, <1>4
<1>12. \A i \in 1 .. n :
         /\ p[i] = p[i - 1] + Len(ss[i]) /\ p[i] <= p[n]
         /\ \A k \in 1 .. Len(ss[i]) : FlattenSeq(ss)[p[i - 1] + k] = ss[i][k]
  BY <1>2, <1>7
<1>13. JoinedAt(FlattenSeq(ss), ss, n, p)
  BY <1>9, <1>10, <1>11, <1>12 DEF JoinedAt
<1> QED BY <1>8, <1>13

LEMMA Flattened ==
  ASSUME NEW S, NEW ss \in Seq(Seq(S))
  PROVE  /\ FlattenSeq(ss) \in Seq(S)
         /\ ss # <<>> /\ ss[1] # <<>> =>
              FlattenSeq(ss) # <<>> /\ FlattenSeq(ss)[1] = ss[1][1]
<1>1. PICK n : n = Len(ss)
  OBVIOUS
<1>2. n \in Nat /\ ss \in [1 .. n -> Seq(S)]
  BY <1>1, SeqDef, LenProperties
<1>3. FlattenSeq(ss) \in Seq(S) /\ \E p : JoinedAt(FlattenSeq(ss), ss, n, p)
  BY <1>1, FlattenedAt
<1>4. PICK p : JoinedAt(FlattenSeq(ss), ss, n, p)
  BY <1>3
<1>5. ASSUME ss # <<>>, ss[1] # <<>>
      PROVE  FlattenSeq(ss) # <<>> /\ FlattenSeq(ss)[1] = ss[1][1]
  <2>1. n \in Nat \ {0}
    BY <1>1, <1>5, EmptySeq
  <2>2. 1 \in 1 .. n /\ 1 - 1 = 0 /\ 0 + 1 = 1
    BY <2>1, SMT
  <2>3. PICK l : l = Len(ss[1])
    OBVIOUS
  <2>4. l \in Nat \ {0}
    BY <1>2, <1>5, <2>2, <2>3, EmptySeq
  <2>5. 1 \in 1 .. l /\ 0 + l = l
    BY <2>4, SMT
  <2>6. /\ p[1] = 0 + l /\ p[1] <= Len(FlattenSeq(ss))
        /\ \A k \in 1 .. l : FlattenSeq(ss)[0 + k] = ss[1][k]
    BY <1>4, <2>2, <2>3 DEF JoinedAt
  <2>7. FlattenSeq(ss)[1] = ss[1][1]
    BY <2>2, <2>5, <2>6
  <2>8. l <= Len(FlattenSeq(ss))
    BY <2>5, <2>6
  <2>9. FlattenSeq(ss) # <<>>
    <3>1. Len(<<>>) = 0
      BY EmptySeq
    <3>2. ~(l <= 0)
      BY <2>4, SMT
    <3> QED BY <2>8, <3>1, <3>2
  <2> QED BY <2>7, <2>9
<1> QED BY <1>3, <1>5

(* The function of nothing. *)
LEMMA NothingThere ==
  ASSUME NEW f, DOMAIN f = {}, f = [x \in DOMAIN f |-> f[x]]
  PROVE  f = <<>>
<1>1. 1 .. 0 = {} /\ 0 \in Nat
  BY SMT
<1>2. f = [k \in 1 .. 0 |-> f[k]]
  BY <1>1
<1>3. Sequence(f) /\ Len(f) = 0
  BY <1>1, <1>2, FunctionIsSequence
<1> QED BY <1>3, EmptySeq DEF Sequence

LEMMA SequencesOf ==
  ASSUME NEW n \in Nat, NEW ss, ss = [k \in 1 .. n |-> ss[k]], \A k \in 1 .. n : Sequence(ss[k])
  PROVE  /\ Len(ss) = n
         /\ \E S : ss \in Seq(Seq(S))
<1>1. PICK S : S = UNION {Elements(ss[k]) : k \in 1 .. n}
  OBVIOUS
<1>2. ASSUME NEW k \in 1 .. n PROVE ss[k] \in Seq(S)
  <2>1. Elements(ss[k]) \subseteq S
    BY <1>1
  <2> QED BY <2>1, SeqMonotonic DEF Sequence
<1>3. ss \in [1 .. n -> Seq(S)]
  BY <1>2
<1>4. ss \in Seq(Seq(S))
  BY <1>3, SeqDef
<1>5. Len(ss) = n
  BY FunctionIsSequence
<1> QED BY <1>4, <1>5

-----------------------------------------------------------------------------
(* What every pass leaves. *)

IsFileLine(l) ==
  /\ l = [file |-> l.file, src |-> l.src, toks |-> l.toks]
  /\ IsTokenLine(l.toks)
IsText(t)  == Sequence(t) /\ \A k \in DOMAIN t : IsFileLine(t[k])
IsValue(t) == /\ Sequence(t) /\ t # <<>>
              /\ \A k \in DOMAIN t : IsToken(t[k]) /\ HasValue(t[k])
IsMacro(m) == IsText(m.body) /\ Sequence(m.params)

(* The names includes have, until all are done. *)
FilesNamed ==
  \A n \in FileNames : \A k \in DOMAIN files[n] : NamesFile(files[n][k].toks)

(* The line a definition begins at stays before the loop. *)
OpenedBefore == opened # 0 => opened \in 1 .. Len(text) /\ opened < pos

PostTypes ==
  /\ DOMAIN files = FileNames /\ \A n \in FileNames : IsText(files[n])
  /\ file \in 1 .. Len(ByName) /\ pos \in Nat \ {0} /\ opened \in Nat
  /\ \A n \in DOMAIN eqvs : IsValue(eqvs[n])
  /\ \A n \in DOMAIN macros : IsMacro(macros[n])
  /\ stage \in {"read", "include"} => FilesNamed
  /\ stage = "eqv" => opened = 0
  /\ stage = "macro" => OpenedBefore
  /\ stage # "line" => project \in Projects

-----------------------------------------------------------------------------
(* Lines of tokens. *)

LEMMA TokenLineFacts ==
  ASSUME NEW t, IsTokenLine(t)
  PROVE  /\ Sequence(t) /\ DOMAIN t = 1 .. Len(t) /\ Len(t) \in Nat \ {0}
         /\ \A k \in DOMAIN t : IsToken(t[k])
         /\ ~IsMeta(t[1], "include") => \A k \in DOMAIN t : HasValue(t[k])
<1>1. Sequence(t) /\ t # <<>>
  BY DEF IsTokenLine, Sequence, Elements
<1>2. DOMAIN t = 1 .. Len(t) /\ Len(t) \in Nat \ {0}
  BY <1>1, LenProperties, EmptySeq DEF Sequence
<1> QED BY <1>1, <1>2 DEF IsTokenLine

LEMMA ValueFacts ==
  ASSUME NEW t, IsValue(t)
  PROVE  /\ Sequence(t) /\ DOMAIN t = 1 .. Len(t) /\ Len(t) \in Nat \ {0}
         /\ IsTokenLine(t)
         /\ \A k \in DOMAIN t : IsToken(t[k]) /\ HasValue(t[k])
<1>1. DOMAIN t = 1 .. Len(t) /\ Len(t) \in Nat \ {0}
  BY LenProperties, EmptySeq DEF IsValue, Sequence
<1> QED BY <1>1 DEF IsValue, IsTokenLine, Sequence, Elements

LEMMA LineWithValues ==
  ASSUME NEW t, IsTokenLine(t), ~IsMeta(t[1], "include")
  PROVE  IsValue(t)
<1>1. Len(t) # 0
  BY TokenLineFacts
<1>2. t # <<>>
  BY <1>1, EmptySeq
<1> QED BY <1>2, TokenLineFacts DEF IsValue

(* Part of a line that is no include. *)
LEMMA ValuesFrom ==
  ASSUME NEW t, IsValue(t), NEW m \in Nat \ {0}, NEW n \in Int, n <= Len(t)
  PROVE  /\ Sequence(SubSeq(t, m, n))
         /\ Len(SubSeq(t, m, n)) = IF m <= n THEN n - m + 1 ELSE 0
         /\ \A k \in DOMAIN SubSeq(t, m, n) :
              IsToken(SubSeq(t, m, n)[k]) /\ HasValue(SubSeq(t, m, n)[k])
         /\ m <= n => IsValue(SubSeq(t, m, n))
<1> DEFINE S == Elements(t)
           u == SubSeq(t, m, n)
<1>1. DOMAIN t = 1 .. Len(t) /\ Len(t) \in Nat /\ t \in Seq(S)
  BY ValueFacts DEF Sequence
<1>2. \A i \in m .. n : i \in DOMAIN t
  BY <1>1, SMT
<1>3. \A i \in m .. n : t[i] \in S
  BY <1>2 DEF Elements
<1>4. \A x \in S : IsToken(x) /\ HasValue(x)
  BY ValueFacts DEF Elements
<1> HIDE DEF S
<1>5. u \in Seq(S) /\ Len(u) = IF m <= n THEN n - m + 1 ELSE 0
  BY <1>3, SubSeqProperties
<1> HIDE DEF u
<1>6. Sequence(u) /\ u \in [1 .. Len(u) -> S] /\ DOMAIN u = 1 .. Len(u)
  BY <1>5, SequenceOf, SeqDef, LenProperties
<1>7. \A k \in DOMAIN u : IsToken(u[k]) /\ HasValue(u[k])
  BY <1>4, <1>6
<1>8. m <= n => u # <<>>
  <2>1. m <= n => Len(u) # 0
    BY <1>5, SMT
  <2> QED BY <2>1, EmptySeq
<1> QED BY <1>5, <1>6, <1>7, <1>8 DEF u, IsValue

(* Tokens that change their names, or parameters that become arguments. *)
LEMMA TokensBecome ==
  ASSUME NEW t, IsTokenLine(t), NEW u, u = [k \in DOMAIN t |-> u[k]],
         \A k \in DOMAIN t :
           /\ IsToken(u[k])
           /\ \/ /\ u[k].cat = t[k].cat
                 /\ t[k].cat \in {"label", "ref"} \/ u[k].val = t[k].val
              \/ t[k].cat = "param" /\ HasValue(u[k])
  PROVE  IsTokenLine(u)
<1>1. /\ DOMAIN t = 1 .. Len(t) /\ Len(t) \in Nat \ {0} /\ 1 \in DOMAIN t
      /\ \A k \in DOMAIN t : IsToken(t[k])
      /\ ~IsMeta(t[1], "include") => \A k \in DOMAIN t : HasValue(t[k])
  <2>1. /\ DOMAIN t = 1 .. Len(t) /\ Len(t) \in Nat \ {0}
        /\ \A k \in DOMAIN t : IsToken(t[k])
        /\ ~IsMeta(t[1], "include") => \A k \in DOMAIN t : HasValue(t[k])
    BY TokenLineFacts
  <2>2. 1 \in DOMAIN t
    BY <2>1, SMT
  <2> QED BY <2>1, <2>2
<1>2. Sequence(u) /\ Len(u) = Len(t) /\ DOMAIN u = DOMAIN t
  BY <1>1, FunctionIsSequence
<1>3. u # <<>>
  BY <1>1, <1>2, EmptySeq
<1>4. IsMeta(t[1], "include") => IsMeta(u[1], "include")
  BY <1>1 DEF IsMeta
<1>5. \A k \in DOMAIN t : HasValue(t[k]) => HasValue(u[k])
  BY DEF HasValue
<1> QED BY <1>1, <1>2, <1>3, <1>4, <1>5 DEF IsTokenLine, Sequence, Elements

-----------------------------------------------------------------------------
(* Files. *)

LEMMA TextIn ==
  ASSUME NEW S, NEW t \in Seq(S), \A l \in S : IsFileLine(l)
  PROVE  IsText(t)
<1>1. Sequence(t) /\ t \in [1 .. Len(t) -> S] /\ DOMAIN t = 1 .. Len(t)
  BY SequenceOf, SeqDef, LenProperties
<1> QED BY <1>1 DEF IsText

LEMMA TextFacts ==
  ASSUME NEW t, IsText(t)
  PROVE  /\ t \in Seq(Elements(t)) /\ \A l \in Elements(t) : IsFileLine(l)
         /\ DOMAIN t = 1 .. Len(t) /\ Len(t) \in Nat
  BY LenProperties DEF IsText, Sequence, Elements

LEMMA TextPart ==
  ASSUME NEW t, IsText(t), NEW m \in Nat \ {0}, NEW n \in Int, n <= Len(t)
  PROVE  IsText(SubSeq(t, m, n))
<1> DEFINE S == Elements(t)
<1>1. t \in Seq(S) /\ \A l \in S : IsFileLine(l)
  BY TextFacts
<1> HIDE DEF S
<1>2. SubSeq(t, m, n) \in Seq(S)
  BY <1>1, PartOf
<1> QED BY <1>1, <1>2, TextIn

LEMMA TextJoined ==
  ASSUME NEW t, NEW u, IsText(t), IsText(u)
  PROVE  IsText(t \o u) /\ Len(t \o u) = Len(t) + Len(u)
<1>1. Sequence(t) /\ Sequence(u)
  BY DEF IsText
<1>2. /\ Sequence(t \o u) /\ Len(t \o u) = Len(t) + Len(u)
      /\ DOMAIN (t \o u) = 1 .. Len(t) + Len(u)
      /\ \A k \in 1 .. Len(t) : (t \o u)[k] = t[k]
      /\ \A k \in 1 .. Len(u) : (t \o u)[Len(t) + k] = u[k]
      /\ DOMAIN t = 1 .. Len(t) /\ DOMAIN u = 1 .. Len(u)
      /\ Len(t) \in Nat /\ Len(u) \in Nat
  BY <1>1, Joined
<1>3. ASSUME NEW k \in DOMAIN (t \o u) PROVE IsFileLine((t \o u)[k])
  <2>1. CASE k \in 1 .. Len(t)
    BY <1>2, <2>1 DEF IsText
  <2>2. CASE k \notin 1 .. Len(t)
    <3>1. k - Len(t) \in 1 .. Len(u) /\ Len(t) + (k - Len(t)) = k
      BY <1>2, <2>2, SMT
    <3> QED BY <1>2, <3>1 DEF IsText
  <2> QED BY <2>1, <2>2
<1> QED BY <1>2, <1>3 DEF IsText

(* n lines at k give way to others. *)
LEMMA TextSpliced ==
  ASSUME NEW t, NEW u, IsText(t), IsText(u), NEW k \in DOMAIN t, NEW n \in Nat
  PROVE  /\ IsText(SubSeq(t, 1, k - 1) \o u \o Rest(t, k + n))
         /\ Len(SubSeq(t, 1, k - 1) \o u \o Rest(t, k + n)) \in Nat
         /\ k - 1 <= Len(SubSeq(t, 1, k - 1) \o u \o Rest(t, k + n))
<1> DEFINE a == SubSeq(t, 1, k - 1)
           z == Rest(t, k + n)
<1>1. /\ k \in 1 .. Len(t) /\ Len(t) \in Nat
  BY TextFacts
<1>2. k - 1 \in Nat /\ k - 1 <= Len(t) /\ k + n \in Nat \ {0} /\ 1 \in Nat \ {0}
  BY <1>1, SMT
<1>3. IsText(a) /\ IsText(z)
  BY <1>1, <1>2, TextPart DEF Rest
<1>4. Len(a) = k - 1
  <2>1. \A i \in 1 .. k - 1 : i \in DOMAIN t
    BY <1>1, TextFacts, SMT
  <2>2. \A i \in 1 .. k - 1 : t[i] \in Elements(t)
    BY <2>1 DEF Elements
  <2>3. Len(a) = IF 1 <= k - 1 THEN k - 1 - 1 + 1 ELSE 0
    BY <1>2, <2>2, SubSeqProperties
  <2> QED BY <1>2, <2>3, SMT
<1> HIDE DEF a, z
<1>5. IsText(a \o u) /\ Len(a \o u) = Len(a) + Len(u)
  BY <1>3, TextJoined
<1>6. IsText((a \o u) \o z) /\ Len((a \o u) \o z) = Len(a \o u) + Len(z)
  BY <1>3, <1>5, TextJoined
<1>7. Len(u) \in Nat /\ Len(z) \in Nat
  BY <1>3, TextFacts
<1>8. Len((a \o u) \o z) \in Nat /\ k - 1 <= Len((a \o u) \o z)
  BY <1>2, <1>4, <1>5, <1>6, <1>7, SMT
<1> QED BY <1>6, <1>8 DEF a, z

(* A line has its tokens changed. *)
LEMMA LineBecomes ==
  ASSUME NEW l, IsFileLine(l), NEW u, IsTokenLine(u)
  PROVE  IsFileLine([l EXCEPT !.toks = u]) /\ [l EXCEPT !.toks = u].toks = u
<1>1. l = [file |-> l.file, src |-> l.src, toks |-> l.toks]
  BY DEF IsFileLine
<1>2. [l EXCEPT !.toks = u] = [file |-> l.file, src |-> l.src, toks |-> u]
  BY <1>1
<1> QED BY <1>2 DEF IsFileLine

LEMMA TextMapped ==
  ASSUME NEW t, IsText(t), NEW u, u = [k \in DOMAIN t |-> u[k]],
         \A k \in DOMAIN t : IsFileLine(u[k])
  PROVE  IsText(u) /\ Len(u) = Len(t)
<1>1. DOMAIN t = 1 .. Len(t) /\ Len(t) \in Nat
  BY TextFacts
<1> QED BY <1>1, FunctionIsSequence DEF IsText

LEMMA EmptyText == IsText(<<>>) /\ Len(<<>>) = 0
<1> DEFINE S == {l \in {0} : FALSE}
<1>1. <<>> \in Seq(S) /\ Len(<<>>) = 0
  BY EmptySeq
<1>2. \A l \in S : IsFileLine(l)
  OBVIOUS
<1> HIDE DEF S
<1> QED BY <1>1, <1>2, TextIn

-----------------------------------------------------------------------------
(* What the actions have in common. *)

LEMMA AtFile ==
  ASSUME PostTypes
  PROVE  /\ Name \in FileNames /\ IsText(text)
         /\ DOMAIN text = 1 .. Len(text) /\ Len(text) \in Nat
         /\ Len(ByName) \in Nat \ {0} /\ DOMAIN ByName = 1 .. Len(ByName)
<1>1. DOMAIN ByName = 1 .. Len(ByName) /\ Len(ByName) \in Nat \ {0}
  BY ByNameAssumption, LenProperties, EmptySeq
<1>2. Name \in FileNames
  BY <1>1 DEF PostTypes, Name, FileNames
<1> QED BY <1>1, <1>2, TextFacts DEF PostTypes, text

LEMMA AtLine ==
  ASSUME PostTypes, NEW k \in Ahead
  PROVE  /\ k \in DOMAIN text /\ k \in Nat \ {0} /\ pos <= k
         /\ IsFileLine(text[k]) /\ IsTokenLine(text[k].toks) /\ First(k) = text[k].toks[1]
<1>1. IsText(text) /\ DOMAIN text = 1 .. Len(text) /\ Len(text) \in Nat
  BY AtFile
<1>2. k \in 1 .. Len(text) /\ k \in Nat \ {0} /\ pos <= k
  BY <1>1, SMT DEF Ahead, PostTypes
<1> QED BY <1>1, <1>2 DEF IsText, IsFileLine, First

LEMMA TextSet ==
  ASSUME PostTypes, NEW t, IsText(t), SetText(t)
  PROVE  /\ DOMAIN files' = FileNames /\ \A n \in FileNames : IsText(files'[n])
         /\ files'[Name] = t
         /\ \A n \in FileNames : n # Name => files'[n] = files[n]
<1>1. Name \in FileNames
  BY AtFile
<1> QED BY <1>1 DEF PostTypes, SetText

LEMMA NextFileTypes ==
  ASSUME PostTypes, NEW a, NEW b, NextFile(a, b)
  PROVE  file' \in 1 .. Len(ByName) /\ pos' = 1 /\ opened' = 0 /\ stage' \in {a, b}
<1>1. Len(ByName) \in Nat \ {0} /\ file \in 1 .. Len(ByName)
  BY AtFile DEF PostTypes
<1> QED BY <1>1, SMT DEF NextFile

LEMMA RefuseTypes ==
  ASSUME PostTypes, NEW why, Refuse(why), stage # "line",
         why \notin {"read", "include", "eqv", "macro", "line"}
  PROVE  PostTypes'
<1>1. stage' = why /\ UNCHANGED <<project, files, file, pos, opened, eqvs, macros>>
  BY DEF Refuse, cursor, tables
<1> QED BY <1>1 DEF PostTypes

(* A step within a file that puts other lines in. *)
LEMMA SplicedTypes ==
  ASSUME PostTypes, NEW k \in DOMAIN text, NEW n \in Nat, NEW u, IsText(u),
         SetText(Splice(k, n, u))
  PROVE  /\ DOMAIN files' = FileNames /\ \A m \in FileNames : IsText(files'[m])
         /\ files'[Name] = Splice(k, n, u)
         /\ \A m \in FileNames : m # Name => files'[m] = files[m]
         /\ Len(Splice(k, n, u)) \in Nat /\ k - 1 <= Len(Splice(k, n, u))
<1>1. /\ IsText(Splice(k, n, u))
      /\ Len(Splice(k, n, u)) \in Nat /\ k - 1 <= Len(Splice(k, n, u))
  BY AtFile, TextSpliced DEF Splice
<1> QED BY <1>1, TextSet

-----------------------------------------------------------------------------
(* Base addressing. *)

LEMMA BasedLine ==
  ASSUME NEW t, IsTokenLine(t), HasBase(t), ~AddressFault(t)
  PROVE  IsTokenLine(BaseAddressed(t)) /\ BaseAddressed(t)[1] = t[1]
<1> DEFINE n == Len(t)
           m == IF t[n - 3].cat = "imm" THEN n - 4 ELSE n - 3
           x == IF t[n - 3].cat = "imm" THEN t[n - 3] ELSE Token("imm", 0)
           a == SubSeq(t, 1, m)
           b == <<t[n - 1], x>>
<1>1. /\ n \in Nat /\ n >= 4 /\ DOMAIN t = 1 .. n /\ t[1].cat = "instr"
      /\ \A k \in 1 .. n : IsToken(t[k])
  BY TokenLineFacts, SMT DEF AddressFault, HasBase
<1>2. IsValue(t)
  BY <1>1, LineWithValues DEF IsMeta
<1>3. IsToken(x) /\ HasValue(x)
  <2>1. IsToken(Token("imm", 0)) /\ HasValue(Token("imm", 0))
    BY DEF Token, IsToken, HasValue
  <2>2. n - 3 \in 1 .. n
    BY <1>1, SMT
  <2> QED BY <1>1, <1>2, <2>1, <2>2, ValueFacts
<1>4. m \in 1 .. n
  <2>1. n = 4 => t[n - 3].cat # "imm"
    <3>1. n = 4 => n - 3 = 1
      BY SMT
    <3> QED BY <1>1, <3>1
  <2> QED BY <1>1, <2>1, SMT
<1>5. n - 1 \in 1 .. n
  BY <1>1, SMT
<1> HIDE DEF x, m
<1>6. BaseAddressed(t) = a \o b
  BY DEF BaseAddressed, x, m
<1>7. /\ Sequence(a) /\ Len(a) = m /\ DOMAIN a = 1 .. m
      /\ \A k \in DOMAIN a : IsToken(a[k]) /\ HasValue(a[k])
      /\ a[1] = t[1]
  <2>1. m \in Int /\ m <= n /\ 1 <= m /\ m - 1 + 1 = m /\ 1 \in Nat \ {0}
    BY <1>1, <1>4, SMT
  <2>2. /\ Sequence(a) /\ Len(a) = m
        /\ \A k \in DOMAIN a : IsToken(a[k]) /\ HasValue(a[k])
    BY <1>2, <2>1, ValuesFrom
  <2>3. DOMAIN a = 1 .. m
    BY <2>2, LenProperties DEF Sequence
  <2>4. a[1] = t[1]
    <3>1. \A i \in 1 .. m : i \in DOMAIN t
      BY <1>1, <2>1, SMT
    <3>2. \A i \in 1 .. m : t[i] \in Elements(t)
      BY <3>1 DEF Elements
    <3>3. \A i \in 1 .. m - 1 + 1 : a[i] = t[1 + i - 1]
      BY <2>1, <3>2, SubSeqProperties
    <3>4. \A i \in 1 .. m : i \in 1 .. m - 1 + 1 /\ 1 + i - 1 = i
      BY <2>1, SMT
    <3>5. \A i \in 1 .. m : a[i] = t[i]
      BY <3>3, <3>4
    <3>6. 1 \in 1 .. m
      BY <2>1, SMT
    <3> QED BY <3>5, <3>6
  <2> QED BY <2>2, <2>3, <2>4
<1>8. /\ Sequence(b) /\ Len(b) = 2 /\ DOMAIN b = 1 .. 2
      /\ \A k \in 1 .. 2 : IsToken(b[k]) /\ HasValue(b[k])
  <2>1. b = [k \in 1 .. 2 |-> b[k]]
    BY SMT
  <2>2. b[1] = t[n - 1] /\ b[2] = x
    OBVIOUS
  <2>3. IsToken(t[n - 1]) /\ HasValue(t[n - 1])
    BY <1>1, <1>2, <1>5, ValueFacts
  <2>4. \A k \in 1 .. 2 : k = 1 \/ k = 2
    BY SMT
  <2>5. Sequence(b) /\ Len(b) = 2 /\ DOMAIN b = 1 .. 2
    BY <2>1, FunctionIsSequence
  <2> QED BY <1>3, <2>2, <2>3, <2>4, <2>5
<1> HIDE DEF a, b
<1>9. IsValue(a \o b) /\ (a \o b)[1] = a[1]
  <2>1. /\ Sequence(a \o b) /\ Len(a \o b) = m + 2 /\ DOMAIN (a \o b) = 1 .. m + 2
        /\ \A k \in 1 .. m : (a \o b)[k] = a[k]
        /\ \A k \in 1 .. 2 : (a \o b)[m + k] = b[k]
    <3>1. /\ Sequence(a \o b) /\ Len(a \o b) = Len(a) + Len(b)
          /\ DOMAIN (a \o b) = 1 .. Len(a) + Len(b)
          /\ \A k \in 1 .. Len(a) : (a \o b)[k] = a[k]
          /\ \A k \in 1 .. Len(b) : (a \o b)[Len(a) + k] = b[k]
      <4>1. Sequence(a) /\ Sequence(b)
        BY <1>7, <1>8
      <4> QED BY <4>1, Joined
    <3> QED BY <1>7, <1>8, <3>1
  <2>2. ASSUME NEW k \in 1 .. m + 2 PROVE IsToken((a \o b)[k]) /\ HasValue((a \o b)[k])
    <3>1. CASE k \in 1 .. m
      BY <1>7, <2>1, <3>1
    <3>2. CASE k \notin 1 .. m
      <4>1. k - m \in 1 .. 2 /\ m + (k - m) = k
        BY <1>1, <1>4, <3>2, SMT
      <4> QED BY <1>8, <2>1, <4>1
    <3> QED BY <3>1, <3>2
  <2>3. m + 2 # 0 /\ 1 \in 1 .. m
    BY <1>1, <1>4, SMT
  <2>4. a \o b # <<>>
    BY <2>1, <2>3, EmptySeq
  <2> QED BY <2>1, <2>2, <2>3, <2>4 DEF IsValue
<1> QED BY <1>6, <1>7, <1>9, ValueFacts

LEMMA ReadTypes ==
  ASSUME PostTypes, Read
  PROVE  PostTypes'
<1> DEFINE raw   == IF Name \in DOMAIN project.text THEN project.text[Name] ELSE <<>>
           based == {k \in DOMAIN raw : HasBase(raw[k])}
           t     == [k \in DOMAIN raw |->
                       [file |-> Name, src |-> k,
                        toks |-> IF k \in based THEN BaseAddressed(raw[k]) ELSE raw[k]]]
<1>1. stage = "read" /\ project \in Projects /\ FilesNamed
  BY DEF Read, PostTypes
<1>2. CASE \E k \in based : AddressFault(raw[k])
  <2>1. Refuse("malformed address")
    BY <1>2 DEF Read
  <2> QED BY <1>1, <2>1, RefuseTypes
<1>3. CASE ~\E k \in based : AddressFault(raw[k])
  <2>1. /\ SetText(t) /\ NextFile("read", "include")
        /\ UNCHANGED <<project, eqvs, macros>>
    BY <1>3 DEF Read, tables
  <2>2. /\ DOMAIN raw = 1 .. Len(raw) /\ Len(raw) \in Nat
        /\ \A k \in DOMAIN raw : IsTokenLine(raw[k]) /\ NamesFile(raw[k])
    <3>1. CASE Name \in DOMAIN project.text
      BY <1>1, <3>1, ProjectsAssumption, LenProperties
    <3>2. CASE Name \notin DOMAIN project.text
      <4>1. raw = <<>> /\ DOMAIN raw = {}
        BY <3>2
      <4>2. Len(raw) = 0 /\ 1 .. 0 = {}
        BY <4>1, SMT
      <4> QED BY <4>1, <4>2
    <3> QED BY <3>1, <3>2
  <2>3. ASSUME NEW k \in DOMAIN raw
        PROVE  IsFileLine(t[k]) /\ NamesFile(t[k].toks)
    <3>1. CASE k \in based
      <4>1. t[k] = [file |-> Name, src |-> k, toks |-> BaseAddressed(raw[k])]
        BY <3>1
      <4>2. /\ IsTokenLine(BaseAddressed(raw[k])) /\ BaseAddressed(raw[k])[1] = raw[k][1]
            /\ raw[k][1].cat = "instr"
        BY <1>3, <2>2, <3>1, BasedLine DEF HasBase
      <4> QED BY <4>1, <4>2 DEF IsFileLine, NamesFile, IsMeta
    <3>2. CASE k \notin based
      <4>1. t[k] = [file |-> Name, src |-> k, toks |-> raw[k]]
        BY <3>2
      <4> QED BY <2>2, <4>1 DEF IsFileLine
    <3> QED BY <3>1, <3>2
  <2>4. DOMAIN t = DOMAIN raw /\ t = [k \in 1 .. Len(raw) |-> t[k]]
    BY <2>2
  <2> HIDE DEF t, raw, based
  <2>5. IsText(t)
    BY <2>2, <2>3, <2>4, FunctionIsSequence DEF IsText
  <2>6. /\ DOMAIN files' = FileNames /\ \A n \in FileNames : IsText(files'[n])
        /\ files'[Name] = t
        /\ \A n \in FileNames : n # Name => files'[n] = files[n]
    BY <2>1, <2>5, TextSet
  <2>7. \A n \in FileNames : \A k \in DOMAIN files'[n] : NamesFile(files'[n][k].toks)
    BY <1>1, <2>3, <2>4, <2>6 DEF FilesNamed
  <2>8. /\ file' \in 1 .. Len(ByName) /\ pos' = 1 /\ opened' = 0
        /\ stage' \in {"read", "include"}
    BY <2>1, NextFileTypes
  <2>9. 1 \in Nat \ {0} /\ 0 \in Nat
    BY SMT
  <2> QED BY <1>1, <2>1, <2>6, <2>7, <2>8, <2>9 DEF PostTypes, FilesNamed
<1> QED BY <1>2, <1>3

-----------------------------------------------------------------------------
(* Includes. *)

LEMMA IncludeTypes ==
  ASSUME PostTypes, Include
  PROVE  PostTypes'
<1>1. stage = "include" /\ FilesNamed /\ project \in Projects
  BY DEF Include, PostTypes
<1> DEFINE toks(k) == text[k].toks
<1>2. PICK k \in Ahead :
        /\ k \in IncludeLines
        /\ IF Len(toks(k)) # 2 \/ toks(k)[2].cat # "str"
           THEN Refuse("invalid include")
           ELSE IF toks(k)[2].val = Name
           THEN Refuse("undefined")
           ELSE /\ SetText(Splice(k, 1, files[toks(k)[2].val]))
                /\ GoTo(k + 1)
                /\ UNCHANGED <<project, stage, tables, expansions>>
  BY DEF Include, FirstOf
<1>3. CASE Refuse("invalid include") \/ Refuse("undefined")
  BY <1>1, <1>3, RefuseTypes
<1>4. CASE /\ Len(toks(k)) = 2 /\ toks(k)[2].cat = "str"
           /\ SetText(Splice(k, 1, files[toks(k)[2].val]))
           /\ GoTo(k + 1)
           /\ UNCHANGED <<project, stage, tables, expansions>>
  <2> DEFINE f == toks(k)[2].val
  <2>1. /\ k \in DOMAIN text /\ k \in Nat \ {0} /\ First(k) = toks(k)[1]
    BY AtLine
  <2>2. f \in FileNames
    <3>1. IsMeta(toks(k)[1], "include")
      BY <1>2, <2>1 DEF IncludeLines
    <3>2. NamesFile(toks(k))
      BY <1>1, <2>1, AtFile DEF FilesNamed, text
    <3> QED BY <1>4, <3>1, <3>2 DEF NamesFile
  <2> HIDE DEF f
  <2>3. IsText(files[f]) /\ 1 \in Nat
    BY <2>2, SMT DEF PostTypes
  <2>4. /\ DOMAIN files' = FileNames /\ \A m \in FileNames : IsText(files'[m])
        /\ files'[Name] = Splice(k, 1, files[f])
        /\ \A m \in FileNames : m # Name => files'[m] = files[m]
    BY <1>4, <2>1, <2>3, SplicedTypes DEF f
  <2>5. \A l \in Elements(Splice(k, 1, files[f])) :
          l \in Elements(text) \union Elements(files[f])
    <3> DEFINE S == Elements(text) \union Elements(files[f])
               a == SubSeq(text, 1, k - 1)
               z == Rest(text, k + 1)
    <3>1. text \in Seq(S) /\ files[f] \in Seq(S)
      <4>1. text \in Seq(Elements(text)) /\ files[f] \in Seq(Elements(files[f]))
        BY <2>3, AtFile, TextFacts
      <4>2. Elements(text) \subseteq S /\ Elements(files[f]) \subseteq S
        OBVIOUS
      <4> HIDE DEF S
      <4> QED BY <4>1, <4>2, SeqMonotonic
    <3> HIDE DEF S
    <3>2. /\ k - 1 \in Int /\ k - 1 <= Len(text) /\ k + 1 \in Nat \ {0} /\ 1 \in Nat \ {0}
          /\ Len(text) \in Int /\ Len(text) <= Len(text)
      BY <2>1, AtFile, SMT
    <3>3. a \in Seq(S) /\ z \in Seq(S)
      BY <3>1, <3>2, PartOf DEF Rest
    <3> HIDE DEF a, z
    <3>4. (a \o files[f]) \o z \in Seq(S)
      BY <3>1, <3>3, ConcatProperties
    <3>5. Splice(k, 1, files[f]) \in Seq(S)
      BY <3>4 DEF a, z, Splice
    <3>6. \A l \in Elements(Splice(k, 1, files[f])) : l \in S
      BY <3>5, SeqDef, LenProperties DEF Elements
    <3> QED BY <3>6 DEF S
  <2>6. FilesNamed'
    <3>1. \A l \in Elements(text) \union Elements(files[f]) : NamesFile(l.toks)
      BY <1>1, <2>2, AtFile DEF FilesNamed, Elements, text
    <3>2. \A j \in DOMAIN files'[Name] : NamesFile(files'[Name][j].toks)
      BY <2>4, <2>5, <3>1 DEF Elements
    <3>3. \A m \in FileNames : \A j \in DOMAIN files'[m] : NamesFile(files'[m][j].toks)
      BY <1>1, <2>4, <3>2 DEF FilesNamed
    <3> QED BY <3>3 DEF FilesNamed
  <2>7. k + 1 \in Nat \ {0}
    BY <2>1, SMT
  <2>8. /\ pos' = k + 1 /\ file' = file /\ opened' = opened /\ stage' = "include"
        /\ project' = project /\ eqvs' = eqvs /\ macros' = macros
    BY <1>1, <1>4 DEF GoTo, tables
  <2> QED BY <1>1, <2>4, <2>6, <2>7, <2>8 DEF PostTypes
<1> QED BY <1>2, <1>3, <1>4

(* The steps that only go to another file, or another loop. *)
LEMMA DoneTypes ==
  ASSUME PostTypes, NEW a, NEW b, NextFile(a, b), stage # "line",
         files' = files, project' = project, eqvs' = eqvs,
         macros' = macros \/ macros' = NoFile, b # "read", a # "read",
         "include" \in {a, b} => stage = "include", "macro" \notin {a, b}
  PROVE  PostTypes'
<1>1. /\ file' \in 1 .. Len(ByName) /\ pos' = 1 /\ opened' = 0 /\ stage' \in {a, b}
  BY NextFileTypes
<1>2. 1 \in Nat \ {0} /\ 0 \in Nat
  BY SMT
<1>3. \A n \in DOMAIN macros' : IsMacro(macros'[n])
  BY DEF PostTypes, NoFile
<1>4. stage' \in {"read", "include"} => FilesNamed'
  BY <1>1 DEF PostTypes, FilesNamed
<1>5. stage' # "macro"
  BY <1>1
<1> QED BY <1>1, <1>2, <1>3, <1>4, <1>5 DEF PostTypes

-----------------------------------------------------------------------------
(* .eqv *)

LEMMA ReplacedLine ==
  ASSUME PostTypes, NEW t, IsTokenLine(t)
  PROVE  IsTokenLine(Replaced(t))
<1> DEFINE S  == Elements(t) \union UNION {Elements(eqvs[n]) : n \in DOMAIN eqvs}
           ss == [j \in DOMAIN t |-> IF Stands(t[j]) THEN eqvs[t[j].val] ELSE <<t[j]>>]
           u  == FlattenSeq(ss)
<1>1. /\ Sequence(t) /\ DOMAIN t = 1 .. Len(t) /\ Len(t) \in Nat \ {0} /\ 1 \in DOMAIN t
      /\ \A k \in DOMAIN t : IsToken(t[k])
      /\ ~IsMeta(t[1], "include") => \A k \in DOMAIN t : HasValue(t[k])
  <2>1. /\ Sequence(t) /\ DOMAIN t = 1 .. Len(t) /\ Len(t) \in Nat \ {0}
        /\ \A k \in DOMAIN t : IsToken(t[k])
        /\ ~IsMeta(t[1], "include") => \A k \in DOMAIN t : HasValue(t[k])
    BY TokenLineFacts
  <2>2. 1 \in DOMAIN t
    BY <2>1, SMT
  <2> QED BY <2>1, <2>2
<1>2. \A n \in DOMAIN eqvs :
        /\ Sequence(eqvs[n]) /\ eqvs[n] # <<>>
        /\ \A k \in DOMAIN eqvs[n] : IsToken(eqvs[n][k]) /\ HasValue(eqvs[n][k])
  BY DEF PostTypes, IsValue
<1>3. \A x \in S : IsToken(x)
  BY <1>1, <1>2 DEF Elements
<1>4. ~IsMeta(t[1], "include") => \A x \in S : HasValue(x)
  BY <1>1, <1>2 DEF Elements
<1>5. /\ \A k \in DOMAIN t : t[k] \in S
      /\ \A n \in DOMAIN eqvs : Elements(eqvs[n]) \subseteq S
  BY DEF Elements
<1> HIDE DEF S
<1>6. ASSUME NEW j \in DOMAIN t PROVE ss[j] \in Seq(S) /\ ss[j] # <<>>
  <2>1. CASE Stands(t[j])
    <3>1. ss[j] = eqvs[t[j].val] /\ t[j].val \in DOMAIN eqvs
      BY <2>1 DEF Stands
    <3>2. eqvs[t[j].val] \in Seq(Elements(eqvs[t[j].val]))
      BY <1>2, <3>1 DEF Sequence
    <3> QED BY <1>2, <1>5, <3>1, <3>2, SeqMonotonic
  <2>2. CASE ~Stands(t[j])
    <3>1. ss[j] = <<t[j]>> /\ t[j] \in S
      BY <1>5, <2>2
    <3>2. <<t[j]>> \in Seq(S) /\ <<t[j]>> # <<>>
      BY <3>1, SMT
    <3> QED BY <3>1, <3>2
  <2> QED BY <2>1, <2>2
<1>7. ss \in Seq(Seq(S)) /\ ss # <<>> /\ ss[1] # <<>>
  <2>1. Len(t) \in Nat /\ ss \in [1 .. Len(t) -> Seq(S)] /\ DOMAIN ss = 1 .. Len(t)
    BY <1>1, <1>6
  <2> HIDE DEF ss
  <2>2. ss \in Seq(Seq(S))
    BY <2>1, SeqDef
  <2>3. ss # <<>>
    <3>1. Len(ss) = Len(t)
      BY <2>1, <2>2, LenProperties, SMT
    <3> QED BY <1>1, <3>1, EmptySeq
  <2> QED BY <1>1, <1>6, <2>2, <2>3
<1>8. IsMeta(t[1], "include") => ss[1] = <<t[1]>>
  BY <1>1 DEF IsMeta, Stands
<1>9. Replaced(t) = u
  BY DEF Replaced
<1> HIDE DEF ss
<1>10. u \in Seq(S) /\ u # <<>> /\ u[1] = ss[1][1]
  BY <1>7, Flattened
<1> HIDE DEF u
<1>11. /\ Sequence(u) /\ \A k \in DOMAIN u : u[k] \in S
  <2>1. u \in [1 .. Len(u) -> S] /\ DOMAIN u = 1 .. Len(u)
    BY <1>10, SeqDef, LenProperties
  <2> QED BY <1>10, <2>1, SequenceOf
<1>12. IsMeta(t[1], "include") => u[1] = t[1]
  <2>1. <<t[1]>>[1] = t[1]
    BY SMT
  <2> QED BY <1>8, <1>10, <2>1
<1>13. IsMeta(u[1], "include") \/ \A k \in DOMAIN u : HasValue(u[k])
  BY <1>4, <1>11, <1>12
<1> QED BY <1>3, <1>9, <1>10, <1>11, <1>13 DEF IsTokenLine, Sequence, Elements

(* A step that changes the tokens of one line. *)
LEMMA EqvTypes ==
  ASSUME PostTypes, Eqv
  PROVE  PostTypes'
<1> DEFINE toks(k) == text[k].toks
<1>1. stage = "eqv" /\ opened = 0 /\ project \in Projects
  BY DEF Eqv, PostTypes
<1>2. PICK k \in Ahead :
        IF ~IsEqv(k)
        THEN /\ SetText([text EXCEPT ![k].toks = Replaced(toks(k))])
             /\ GoTo(k + 1)
             /\ UNCHANGED <<project, stage, tables, expansions>>
        ELSE IF Len(toks(k)) < 3 \/ toks(k)[2].cat # "ref"
        THEN Refuse("invalid eqv")
        ELSE /\ eqvs' = Stored(eqvs, toks(k)[2].val, Rest(toks(k), 3))
             /\ SetText(Splice(k, 1, <<>>))
             /\ GoTo(k)
             /\ UNCHANGED <<project, stage, macros, globals, expansions>>
  BY DEF Eqv
<1>3. /\ k \in DOMAIN text /\ k \in Nat \ {0} /\ k + 1 \in Nat \ {0}
      /\ IsFileLine(text[k]) /\ IsTokenLine(toks(k)) /\ First(k) = toks(k)[1]
      /\ IsText(text)
  <2>1. /\ k \in DOMAIN text /\ k \in Nat \ {0}
        /\ IsFileLine(text[k]) /\ IsTokenLine(toks(k)) /\ First(k) = toks(k)[1]
    BY AtLine
  <2> QED BY <2>1, AtFile, SMT
<1>4. CASE Refuse("invalid eqv")
  BY <1>1, <1>4, RefuseTypes
<1>5. CASE /\ SetText([text EXCEPT ![k].toks = Replaced(toks(k))])
           /\ GoTo(k + 1)
           /\ UNCHANGED <<project, stage, tables, expansions>>
  <2> DEFINE u == [text EXCEPT ![k].toks = Replaced(toks(k))]
  <2>1. /\ u = [j \in DOMAIN text |-> u[j]]
        /\ u[k] = [text[k] EXCEPT !.toks = Replaced(toks(k))]
        /\ \A j \in DOMAIN text : j # k => u[j] = text[j]
    BY <1>3 DEF IsText
  <2>2. IsFileLine(u[k])
    BY <1>3, <2>1, ReplacedLine, LineBecomes
  <2>3. SetText(u)
    BY <1>5
  <2> HIDE DEF u
  <2>4. IsText(u)
    BY <1>3, <2>1, <2>2, TextMapped DEF IsText
  <2>5. DOMAIN files' = FileNames /\ \A n \in FileNames : IsText(files'[n])
    BY <2>3, <2>4, TextSet
  <2>6. /\ pos' = k + 1 /\ file' = file /\ opened' = opened /\ stage' = stage
        /\ project' = project /\ eqvs' = eqvs /\ macros' = macros
    BY <1>5 DEF GoTo, tables
  <2> QED BY <1>1, <1>3, <2>5, <2>6 DEF PostTypes
<1>6. CASE /\ IsEqv(k) /\ ~(Len(toks(k)) < 3 \/ toks(k)[2].cat # "ref")
           /\ eqvs' = Stored(eqvs, toks(k)[2].val, Rest(toks(k), 3))
           /\ SetText(Splice(k, 1, <<>>))
           /\ GoTo(k)
           /\ UNCHANGED <<project, stage, macros, globals, expansions>>
  <2>1. IsValue(toks(k)) /\ Len(toks(k)) \in Nat
    <3>1. ~IsMeta(toks(k)[1], "include")
      BY <1>3, <1>6 DEF IsEqv, IsMeta
    <3> QED BY <1>3, <3>1, LineWithValues, TokenLineFacts
  <2>2. IsValue(Rest(toks(k), 3))
    <3>1. /\ 3 \in Nat \ {0} /\ Len(toks(k)) \in Int /\ 3 <= Len(toks(k))
          /\ Len(toks(k)) <= Len(toks(k))
      BY <1>6, <2>1, SMT
    <3> QED BY <2>1, <3>1, ValuesFrom DEF Rest
  <2>3. \A n \in DOMAIN eqvs' : IsValue(eqvs'[n])
    BY <1>6, <2>2 DEF Stored, PostTypes
  <2>4. DOMAIN files' = FileNames /\ \A n \in FileNames : IsText(files'[n])
    <3>1. IsText(<<>>) /\ 1 \in Nat
      BY EmptyText, SMT
    <3> QED BY <1>3, <1>6, <3>1, SplicedTypes
  <2>5. /\ pos' = k /\ file' = file /\ opened' = opened /\ stage' = stage
        /\ project' = project /\ macros' = macros
    BY <1>6 DEF GoTo
  <2> QED BY <1>1, <1>3, <2>3, <2>4, <2>5 DEF PostTypes
<1> QED BY <1>2, <1>4, <1>5, <1>6

-----------------------------------------------------------------------------
(* Macros. *)

LEMMA OpenMacroTypes ==
  ASSUME PostTypes, OpenMacro
  PROVE  PostTypes'
<1>1. stage = "macro" /\ project \in Projects
  BY DEF OpenMacro, PostTypes
<1>2. CASE Refuse("invalid macro")
  BY <1>1, <1>2, RefuseTypes
<1>3. CASE ~Refuse("invalid macro")
  <2>1. PICK k \in Ahead :
          /\ opened' = k /\ pos' = k + 1
          /\ UNCHANGED <<project, files, stage, file, tables, expansions>>
    BY <1>3 DEF OpenMacro
  <2>2. /\ k \in 1 .. Len(text) /\ k \in Nat /\ k + 1 \in Nat \ {0} /\ k < k + 1
    <3>1. k \in DOMAIN text /\ DOMAIN text = 1 .. Len(text) /\ Len(text) \in Nat
      BY AtLine, AtFile
    <3> QED BY <3>1, SMT
  <2>3. text' = text /\ project' = project /\ stage' = stage /\ file' = file
        /\ files' = files /\ eqvs' = eqvs /\ macros' = macros
    BY <2>1 DEF text, Name, tables
  <2> QED BY <1>1, <2>1, <2>2, <2>3 DEF PostTypes, OpenedBefore
<1> QED BY <1>2, <1>3

LEMMA CloseMacroTypes ==
  ASSUME PostTypes, CloseMacro
  PROVE  PostTypes'
<1> DEFINE toks == text[opened].toks
           m(k) == [name |-> toks[2].val, params |-> Params(toks),
                    body |-> SubSeq(text, opened + 1, k - 1),
                    file |-> text[opened].file]
<1>1. /\ stage = "macro" /\ project \in Projects /\ opened # 0
      /\ opened \in 1 .. Len(text) /\ opened < pos
  BY DEF CloseMacro, PostTypes, OpenedBefore
<1>2. PICK k \in Ahead : macros' = Stored(macros, m(k).name, m(k))
                        /\ SetText(Splice(opened, k - opened + 1, <<>>))
                        /\ pos' = opened /\ opened' = 0
                        /\ UNCHANGED <<project, stage, file, eqvs, globals, expansions>>
  BY DEF CloseMacro
<1>3. /\ k \in 1 .. Len(text) /\ k \in Nat /\ Len(text) \in Nat /\ pos <= k
      /\ opened \in DOMAIN text /\ IsText(text) /\ pos \in Nat
  BY <1>1, AtLine, AtFile DEF PostTypes
<1>4. /\ opened + 1 \in Nat \ {0} /\ k - 1 \in Int /\ k - 1 <= Len(text)
      /\ k - opened + 1 \in Nat /\ opened \in Nat \ {0}
  BY <1>1, <1>3, SMT
<1>5. IsMacro(m(k))
  <2>1. IsText(SubSeq(text, opened + 1, k - 1))
    BY <1>3, <1>4, TextPart
  <2>2. IsTokenLine(toks)
    BY <1>3 DEF IsText, IsFileLine
  <2>3. Sequence(Params(toks))
    <3> DEFINE S == Elements(toks)
    <3>1. toks \in Seq(S) /\ Len(toks) \in Nat
      BY <2>2, TokenLineFacts DEF Sequence
    <3> HIDE DEF S
    <3>2. 4 \in Nat \ {0} /\ Len(toks) - 1 \in Int /\ Len(toks) - 1 <= Len(toks)
      BY <3>1, SMT
    <3>3. SubSeq(toks, 4, Len(toks) - 1) \in Seq(S)
      BY <3>1, <3>2, PartOf
    <3> QED BY <3>3, SequenceOf DEF Params
  <2> QED BY <2>1, <2>3 DEF IsMacro
<1>6. \A n \in DOMAIN macros' : IsMacro(macros'[n])
  <2> HIDE DEF m
  <2> QED BY <1>2, <1>5 DEF Stored, PostTypes
<1>7. DOMAIN files' = FileNames /\ \A n \in FileNames : IsText(files'[n])
  BY <1>2, <1>3, <1>4, EmptyText, SplicedTypes
<1>8. 0 \in Nat
  BY SMT
<1> QED BY <1>1, <1>2, <1>4, <1>6, <1>7, <1>8 DEF PostTypes, OpenedBefore

(* A token of another name. *)
LEMMA TokenBecomes ==
  ASSUME NEW tok, IsToken(tok), NEW r, r = [n \in DOMAIN tok |-> r[n]]
  PROVE  IsToken(r)
<1>1. tok = [cat |-> tok.cat, val |-> tok.val, was |-> tok.was, home |-> tok.home]
  BY DEF IsToken
<1>2. DOMAIN tok = {"cat", "val", "was", "home"}
  BY <1>1
<1>3. r = [n \in {"cat", "val", "was", "home"} |-> r[n]]
  BY <1>2
<1>4. r = [cat |-> r.cat, val |-> r.val, was |-> r.was, home |-> r.home]
  BY <1>3
<1> QED BY <1>4 DEF IsToken

LEMMA BodyMangled ==
  ASSUME NEW m, IsText(m.body), NEW k
  PROVE  IsText(MangledBody(m, k))
<1> DEFINE defs == {m.body[j].toks[1].val :
                      j \in {i \in DOMAIN m.body : m.body[i].toks[1].cat = "label"}}
           Mangled(tok) ==
             [tok EXCEPT !.home = Append(@, expansions + 1),
                         !.val = IF tok.cat \in {"label", "ref"} /\ tok.val \in defs
                                 THEN MangleMacroLabel(@, m, k) ELSE @]
           w(j) == [i \in DOMAIN m.body[j].toks |-> Mangled(m.body[j].toks[i])]
           u == [j \in DOMAIN m.body |-> [m.body[j] EXCEPT !.toks = w(j)]]
<1>1. MangledBody(m, k) = u
  BY DEF MangledBody
<1>2. ASSUME NEW tok, IsToken(tok)
      PROVE  /\ IsToken(Mangled(tok)) /\ Mangled(tok).cat = tok.cat
             /\ tok.cat \notin {"label", "ref"} => Mangled(tok).val = tok.val
  <2> DEFINE x == IF tok.cat \in {"label", "ref"} /\ tok.val \in defs
                  THEN MangleMacroLabel(tok.val, m, k) ELSE tok.val
             h == Append(tok.home, expansions + 1)
             r == Mangled(tok)
  <2>1. r = [tok EXCEPT !.home = h, !.val = x]
    OBVIOUS
  <2>2. tok.cat \notin {"label", "ref"} => x = tok.val
    OBVIOUS
  <2> HIDE DEF x, h, r
  <2>3. r = [n \in DOMAIN tok |-> r[n]]
    BY <2>1
  <2>4. IsToken(r)
    BY <1>2, <2>3, TokenBecomes
  <2>5. r.cat = tok.cat /\ r.val = x
    <3>1. tok = [cat |-> tok.cat, val |-> tok.val, was |-> tok.was, home |-> tok.home]
      BY <1>2 DEF IsToken
    <3> QED BY <2>1, <3>1
  <2> QED BY <2>2, <2>4, <2>5 DEF r
<1> HIDE DEF Mangled, defs
<1>3. ASSUME NEW j \in DOMAIN m.body PROVE IsFileLine([m.body[j] EXCEPT !.toks = w(j)])
  <2>1. IsFileLine(m.body[j]) /\ IsTokenLine(m.body[j].toks)
    BY DEF IsText, IsFileLine
  <2>2. \A i \in DOMAIN m.body[j].toks : IsToken(m.body[j].toks[i])
    BY <2>1, TokenLineFacts
  <2>3. \A i \in DOMAIN m.body[j].toks :
          /\ IsToken(w(j)[i]) /\ w(j)[i].cat = m.body[j].toks[i].cat
          /\ m.body[j].toks[i].cat \notin {"label", "ref"} =>
               w(j)[i].val = m.body[j].toks[i].val
    BY <1>2, <2>2
  <2>4. w(j) = [i \in DOMAIN m.body[j].toks |-> w(j)[i]]
    OBVIOUS
  <2> HIDE DEF w
  <2>5. IsTokenLine(w(j))
    BY <2>1, <2>3, <2>4, TokensBecome
  <2> QED BY <2>1, <2>5, LineBecomes
<1>4. /\ u = [j \in DOMAIN m.body |-> u[j]]
      /\ \A j \in DOMAIN m.body : u[j] = [m.body[j] EXCEPT !.toks = w(j)]
  OBVIOUS
<1> HIDE DEF u, w
<1>5. \A j \in DOMAIN m.body : IsFileLine(u[j])
  BY <1>3, <1>4
<1> QED BY <1>1, <1>4, <1>5, TextMapped

(* Where a name is among the parameters (SelectInSeq). *)
LEMMA Selected ==
  ASSUME NEW params, Sequence(params), NEW v, v \in {params[i].val : i \in DOMAIN params}
  PROVE  LET I == {i \in 1 .. Len(params) : params[i].val = v}
         IN  (IF I # {} THEN Min(I) ELSE 0) \in 1 .. Len(params)
<1> DEFINE I == {i \in 1 .. Len(params) : params[i].val = v}
<1>1. DOMAIN params = 1 .. Len(params) /\ Len(params) \in Nat
  BY LenProperties DEF Sequence
<1>2. I # {}
  BY <1>1
<1>3. I \subseteq Nat
  BY <1>1, SMT
<1> SUFFICES Min(I) \in 1 .. Len(params)
  BY <1>2
<1> HIDE DEF I
<1>4. \E m \in I : \A i \in I : m =< i
  BY <1>2, <1>3, LeastNumber
<1>5. Min(I) \in I
  BY <1>4 DEF Min
<1> QED BY <1>5 DEF I

LEMMA BoundLine ==
  ASSUME NEW t, IsTokenLine(t), NEW params, Sequence(params),
         NEW args, Sequence(args), Len(args) = Len(params),
         \A k \in DOMAIN args : IsToken(args[k]) /\ HasValue(args[k]),
         ParamsOf(t) \subseteq ParamsOf(params)
  PROVE  IsTokenLine(Bound(t, params, args))
<1> DEFINE u == Bound(t, params, args)
           sel(i) == SelectInSeq(params, LAMBDA p : p.val = t[i].val)
<1>1. u = [i \in DOMAIN t |-> IF t[i].cat = "param" THEN args[sel(i)] ELSE t[i]]
  BY DEF Bound
<1>2. /\ DOMAIN args = 1 .. Len(args) /\ \A k \in DOMAIN t : IsToken(t[k])
  BY TokenLineFacts, LenProperties DEF Sequence
<1>3. ASSUME NEW i \in DOMAIN t, t[i].cat = "param"
      PROVE  sel(i) \in DOMAIN args
  <2>1. t[i].val \in ParamsOf(params)
    BY <1>3 DEF ParamsOf
  <2>2. t[i].val \in {params[j].val : j \in DOMAIN params}
    BY <2>1 DEF ParamsOf
  <2> DEFINE v == t[i].val
             I == {j \in 1 .. Len(params) : params[j].val = v}
  <2>3. sel(i) = IF I # {} THEN Min(I) ELSE 0
    BY DEF SelectInSeq
  <2>4. (IF I # {} THEN Min(I) ELSE 0) \in 1 .. Len(params)
    <3>1. v \in {params[j].val : j \in DOMAIN params}
      BY <2>2
    <3> HIDE DEF v
    <3> QED BY <3>1, Selected
  <2> HIDE DEF sel, I
  <2> QED BY <1>2, <2>3, <2>4
<1> HIDE DEF sel, u
<1>4. \A i \in DOMAIN t :
        /\ IsToken(u[i])
        /\ \/ u[i].cat = t[i].cat /\ u[i].val = t[i].val
           \/ t[i].cat = "param" /\ HasValue(u[i])
  BY <1>1, <1>2, <1>3
<1>5. u = [i \in DOMAIN t |-> u[i]]
  BY <1>1
<1>6. IsTokenLine(u)
  BY <1>4, <1>5, TokensBecome
<1> QED BY <1>6 DEF u

LEMMA ExpandCallTypes ==
  ASSUME PostTypes, ExpandCall
  PROVE  PostTypes'
<1> DEFINE toks(k) == text[k].toks
           m(k)    == macros[toks(k)[1].val]
           args(k) == SubSeq(toks(k), 3, Len(toks(k)) - 1)
           body(k) == MangledBody(m(k), k)
           new(k)  == [j \in DOMAIN body(k) |->
                         [body(k)[j] EXCEPT !.toks = Bound(@, m(k).params, args(k))]]
<1>1. stage = "macro" /\ project \in Projects /\ OpenedBefore
  BY DEF ExpandCall, PostTypes
<1>2. PICK k \in Ahead :
        /\ IsCall(k)
        /\ IF Len(toks(k)) = 2 THEN Refuse("escaped")
           ELSE IF Len(args(k)) # Len(m(k).params)
           THEN Refuse("number of arguments")
           ELSE IF \E j \in DOMAIN body(k) :
                     ~(ParamsOf(body(k)[j].toks) \subseteq ParamsOf(m(k).params))
           THEN Refuse("invalid parameter")
           ELSE /\ SetText(Splice(k, 1, new(k)))
                /\ GoTo(k + Len(body(k)))
                /\ expansions' = expansions + 1
                /\ UNCHANGED <<project, stage, tables>>
  BY DEF ExpandCall
<1>3. CASE Refuse("escaped") \/ Refuse("number of arguments") \/ Refuse("invalid parameter")
  BY <1>1, <1>3, RefuseTypes
<1>4. CASE /\ Len(args(k)) = Len(m(k).params)
           /\ \A j \in DOMAIN body(k) :
                ParamsOf(body(k)[j].toks) \subseteq ParamsOf(m(k).params)
           /\ SetText(Splice(k, 1, new(k)))
           /\ GoTo(k + Len(body(k)))
           /\ UNCHANGED <<project, stage, tables>>
  <2>1. /\ k \in DOMAIN text /\ k \in Nat \ {0} /\ pos <= k
        /\ IsTokenLine(toks(k)) /\ First(k) = toks(k)[1]
    BY AtLine
  <2>2. IsMacro(m(k)) /\ toks(k)[1].cat = "ref"
    BY <1>2, <2>1 DEF IsCall, PostTypes
  <2>3. /\ Sequence(args(k))
        /\ \A j \in DOMAIN args(k) : IsToken(args(k)[j]) /\ HasValue(args(k)[j])
    <3>1. IsValue(toks(k)) /\ Len(toks(k)) \in Nat
      BY <2>1, <2>2, LineWithValues, TokenLineFacts DEF IsMeta
    <3>2. 3 \in Nat \ {0} /\ Len(toks(k)) - 1 \in Int /\ Len(toks(k)) - 1 <= Len(toks(k))
      BY <3>1, SMT
    <3> QED BY <3>1, <3>2, ValuesFrom
  <2>4. IsText(body(k)) /\ Sequence(m(k).params)
    BY <2>2, BodyMangled DEF IsMacro
  <2> HIDE DEF args, body, m, toks
  <2>5. \A j \in DOMAIN body(k) : IsFileLine(new(k)[j])
    <3> SUFFICES ASSUME NEW j \in DOMAIN body(k) PROVE IsFileLine(new(k)[j])
      OBVIOUS
    <3>1. IsFileLine(body(k)[j]) /\ IsTokenLine(body(k)[j].toks)
      BY <2>4 DEF IsText, IsFileLine
    <3>2. IsTokenLine(Bound(body(k)[j].toks, m(k).params, args(k)))
      BY <1>4, <2>3, <2>4, <3>1, BoundLine
    <3>3. new(k)[j] = [body(k)[j] EXCEPT !.toks =
                         Bound(body(k)[j].toks, m(k).params, args(k))]
      OBVIOUS
    <3> QED BY <3>1, <3>2, <3>3, LineBecomes
  <2>6. new(k) = [j \in DOMAIN body(k) |-> new(k)[j]]
    OBVIOUS
  <2>7. SetText(Splice(k, 1, new(k)))
    BY <1>4
  <2> HIDE DEF new
  <2>8. IsText(new(k))
    BY <2>4, <2>5, <2>6, TextMapped
  <2>9. /\ DOMAIN files' = FileNames /\ \A n \in FileNames : IsText(files'[n])
        /\ files'[Name] = Splice(k, 1, new(k))
        /\ Len(Splice(k, 1, new(k))) \in Nat /\ k - 1 <= Len(Splice(k, 1, new(k)))
    <3>1. 1 \in Nat
      BY SMT
    <3> QED BY <2>1, <2>7, <2>8, <3>1, SplicedTypes
  <2>10. /\ pos' = k + Len(body(k)) /\ file' = file /\ opened' = opened /\ stage' = stage
         /\ project' = project /\ eqvs' = eqvs /\ macros' = macros
    BY <1>4 DEF GoTo, tables
  <2>11. text' = Splice(k, 1, new(k))
    BY <2>9, <2>10 DEF text, Name
  <2>12. Len(body(k)) \in Nat
    BY <2>4, TextFacts
  <2>13. pos' \in Nat \ {0} /\ (opened # 0 => opened \in 1 .. Len(text') /\ opened < pos')
    <3> DEFINE x == Len(body(k))
               y == Len(Splice(k, 1, new(k)))
    <3>1. pos \in Nat /\ opened \in Nat /\ (opened # 0 => opened < pos)
      BY <1>1 DEF PostTypes, OpenedBefore
    <3>2. x \in Nat /\ y \in Nat /\ k - 1 <= y
      BY <2>9, <2>12
    <3> HIDE DEF x, y
    <3>3. k + x \in Nat \ {0} /\ (opened # 0 => opened \in 1 .. y /\ opened < k + x)
      BY <2>1, <3>1, <3>2, SMT
    <3> QED BY <2>10, <2>11, <3>3 DEF x, y
  <2>14. OpenedBefore'
    BY <2>10, <2>13 DEF OpenedBefore
  <2> QED BY <1>1, <2>9, <2>10, <2>13, <2>14 DEF PostTypes
<1> QED BY <1>2, <1>3, <1>4

-----------------------------------------------------------------------------
(* Globals, and the names of files. *)

LEMMA CollectGlobalTypes ==
  ASSUME PostTypes, CollectGlobal
  PROVE  PostTypes'
<1>1. stage = "globals" /\ project \in Projects
  BY DEF CollectGlobal, PostTypes
<1>2. CASE Refuse("invalid global")
  BY <1>1, <1>2, RefuseTypes
<1>3. CASE ~Refuse("invalid global")
  <2>1. PICK k \in Ahead : /\ SetText(Splice(k, 1, <<>>)) /\ GoTo(k)
                           /\ UNCHANGED <<project, stage, eqvs, macros, expansions>>
    BY <1>3 DEF CollectGlobal
  <2>2. k \in DOMAIN text /\ k \in Nat \ {0}
    BY AtLine
  <2>3. DOMAIN files' = FileNames /\ \A n \in FileNames : IsText(files'[n])
    <3>1. IsText(<<>>) /\ 1 \in Nat
      BY EmptyText, SMT
    <3> QED BY <2>1, <2>2, <3>1, SplicedTypes
  <2>4. /\ pos' = k /\ file' = file /\ opened' = opened /\ stage' = stage
        /\ project' = project /\ eqvs' = eqvs /\ macros' = macros
    BY <2>1 DEF GoTo
  <2> QED BY <1>1, <2>2, <2>3, <2>4 DEF PostTypes
<1> QED BY <1>2, <1>3

LEMMA MangledToken ==
  ASSUME NEW tok, IsToken(tok)
  PROVE  /\ IsToken(MangledInFile(tok)) /\ MangledInFile(tok).cat = tok.cat
         /\ tok.cat \notin {"label", "ref"} => MangledInFile(tok).val = tok.val
<1>1. CASE tok.cat \notin {"label", "ref"}
  <2>1. MangledInFile(tok) = tok
    BY <1>1 DEF MangledInFile
  <2> QED BY <2>1
<1>2. CASE tok.cat \in {"label", "ref"}
  <2> DEFINE x == IF tok.val \in GlobalNames THEN tok.val ELSE MangleLabel(tok.val, Name)
             h == Append(tok.home, -file)
             r == MangledInFile(tok)
  <2>1. r = [tok EXCEPT !.home = h, !.val = x]
    BY <1>2 DEF MangledInFile
  <2> HIDE DEF x, h, r
  <2>2. r = [n \in DOMAIN tok |-> r[n]]
    BY <2>1
  <2>3. IsToken(r)
    BY <2>2, TokenBecomes
  <2>4. r.cat = tok.cat
    <3>1. tok = [cat |-> tok.cat, val |-> tok.val, was |-> tok.was, home |-> tok.home]
      BY DEF IsToken
    <3> QED BY <2>1, <3>1
  <2> QED BY <1>2, <2>3, <2>4 DEF r
<1> QED BY <1>1, <1>2

LEMMA MangleLabelsTypes ==
  ASSUME PostTypes, MangleLabels
  PROVE  PostTypes'
<1> DEFINE w(k) == [j \in DOMAIN text[k].toks |-> MangledInFile(text[k].toks[j])]
           u    == [k \in DOMAIN text |-> [text[k] EXCEPT !.toks = w(k)]]
<1>1. stage = "mangle" /\ project \in Projects
  BY DEF MangleLabels, PostTypes
<1>2. /\ SetText(u) /\ NextFile("mangle", "match")
      /\ project' = project /\ eqvs' = eqvs /\ macros' = macros
  BY DEF MangleLabels, tables
<1>3. ASSUME NEW k \in DOMAIN text PROVE IsFileLine([text[k] EXCEPT !.toks = w(k)])
  <2>1. IsFileLine(text[k]) /\ IsTokenLine(text[k].toks)
    BY AtFile DEF IsText, IsFileLine
  <2>2. \A j \in DOMAIN text[k].toks : IsToken(text[k].toks[j])
    BY <2>1, TokenLineFacts
  <2>3. \A j \in DOMAIN text[k].toks :
          /\ IsToken(w(k)[j]) /\ w(k)[j].cat = text[k].toks[j].cat
          /\ text[k].toks[j].cat \notin {"label", "ref"} =>
               w(k)[j].val = text[k].toks[j].val
    BY <2>2, MangledToken
  <2>4. w(k) = [j \in DOMAIN text[k].toks |-> w(k)[j]]
    OBVIOUS
  <2> HIDE DEF w
  <2>5. IsTokenLine(w(k))
    BY <2>1, <2>3, <2>4, TokensBecome
  <2> QED BY <2>1, <2>5, LineBecomes
<1>4. /\ u = [k \in DOMAIN text |-> u[k]]
      /\ \A k \in DOMAIN text : u[k] = [text[k] EXCEPT !.toks = w(k)]
  OBVIOUS
<1> HIDE DEF u, w
<1>5. \A k \in DOMAIN text : IsFileLine(u[k])
  BY <1>3, <1>4
<1>6. IsText(u)
  BY <1>4, <1>5, AtFile, TextMapped
<1>7. DOMAIN files' = FileNames /\ \A n \in FileNames : IsText(files'[n])
  BY <1>2, <1>6, TextSet
<1>8. /\ file' \in 1 .. Len(ByName) /\ pos' = 1 /\ opened' = 0
      /\ stage' \in {"mangle", "match"}
  BY <1>2, NextFileTypes
<1>9. 1 \in Nat \ {0} /\ 0 \in Nat
  BY SMT
<1> QED BY <1>1, <1>2, <1>7, <1>8, <1>9 DEF PostTypes

-----------------------------------------------------------------------------
(* Every step of the post-processor. *)

LEMMA PostStep ==
  ASSUME PostTypes, PostNext
  PROVE  PostTypes'
<1>1. CASE Read
  BY <1>1, ReadTypes
<1>2. CASE Include
  BY <1>2, IncludeTypes
<1>3. CASE IncludesDone
  <2>1. /\ stage = "include" /\ NextFile("include", "eqv")
        /\ UNCHANGED <<project, files, eqvs, macros>>
    BY <1>3 DEF IncludesDone, tables
  <2> QED BY <2>1, DoneTypes
<1>4. CASE Eqv
  BY <1>4, EqvTypes
<1>5. CASE EqvDone
  <2>1. /\ stage = "eqv" /\ stage' = "macro" /\ eqvs' = NoFile
        /\ pos' = 1 /\ file' = file /\ opened' = opened
        /\ UNCHANGED <<project, files, macros>>
    BY <1>5 DEF EqvDone, GoTo
  <2>2. opened = 0 /\ project \in Projects
    BY <2>1 DEF PostTypes
  <2>3. \A n \in DOMAIN eqvs' : IsValue(eqvs'[n])
    BY <2>1 DEF NoFile
  <2>4. 1 \in Nat \ {0}
    BY SMT
  <2> QED BY <2>1, <2>2, <2>3, <2>4 DEF PostTypes, OpenedBefore
<1>6. CASE OpenMacro
  BY <1>6, OpenMacroTypes
<1>7. CASE ExpandCall
  BY <1>7, ExpandCallTypes
<1>8. CASE CloseMacro
  BY <1>8, CloseMacroTypes
<1>9. CASE MacrosDone
  <2>1. stage = "macro"
    BY <1>9 DEF MacrosDone
  <2>2. CASE opened # 0
    BY <1>9, <2>1, <2>2, RefuseTypes DEF MacrosDone
  <2>3. CASE opened = 0
    <3>1. /\ macros' = NoFile /\ NextFile("eqv", "globals")
          /\ UNCHANGED <<project, files, eqvs>>
      BY <1>9, <2>3 DEF MacrosDone
    <3> QED BY <2>1, <3>1, DoneTypes
  <2> QED BY <2>2, <2>3
<1>10. CASE CollectGlobal
  BY <1>10, CollectGlobalTypes
<1>11. CASE GlobalsDone
  <2>1. /\ stage = "globals" /\ NextFile("globals", "mangle")
        /\ UNCHANGED <<project, files, eqvs, macros>>
    BY <1>11 DEF GlobalsDone, tables
  <2> QED BY <2>1, DoneTypes
<1>12. CASE MangleLabels
  BY <1>12, MangleLabelsTypes
<1>13. CASE MatchGlobals
  <2>1. /\ stage = "match" /\ stage' \in {"combined", "undeclared global"}
        /\ UNCHANGED <<project, files, file, pos, opened, eqvs, macros>>
    BY <1>13 DEF MatchGlobals, cursor, tables
  <2> QED BY <2>1 DEF PostTypes
<1> QED
  BY <1>1, <1>2, <1>3, <1>4, <1>5, <1>6, <1>7, <1>8, <1>9, <1>10, <1>11, <1>12, <1>13
  DEF PostNext

-----------------------------------------------------------------------------
(* What tokenize returns. *)

LEMMA SourceLineFrom ==
  ASSUME NEW f, NEW s, NEW c, NEW m, NEW a,
         c \in {"section", "alloc", "instr", "label", "other"},
         c = "section" => m \in Sections,
         c = "alloc" => m \in Directives,
         AreOperands(a)
  PROVE  IsSourceLine(LineFrom(f, s, c, m, a))
<1> DEFINE x == LineFrom(f, s, c, m, a)
<1>1. x = LineFrom(x.file, x.src, x.cat, x.name, x.args) /\ x.cat = c /\ x.name = m
      /\ x.args = a
  BY DEF LineFrom
<1> HIDE DEF x
<1>2. IsSourceLine(x)
  BY <1>1 DEF IsSourceLine
<1> QED BY <1>2 DEF x

LEMMA ParsedLine ==
  ASSUME NEW l, IsFileLine(l)
  PROVE  IsSourceLine(Parsed(l))
<1> DEFINE t    == l.toks
           n    == Len(t) - 1
           args == [k \in 1 .. n |-> Argument(t[k + 1])]
<1>1. /\ IsTokenLine(t) /\ DOMAIN t = 1 .. Len(t) /\ n \in Nat
      /\ ~IsMeta(t[1], "include") => \A k \in DOMAIN t : HasValue(t[k])
  <2>1. /\ DOMAIN t = 1 .. Len(t) /\ Len(t) \in Nat \ {0} /\ IsTokenLine(t)
        /\ ~IsMeta(t[1], "include") => \A k \in DOMAIN t : HasValue(t[k])
    BY TokenLineFacts DEF IsFileLine
  <2> QED BY <2>1, SMT
<1>2. CASE t[1].cat \in {"instr", "alloc", "section", "label"}
  <2>1. \A k \in DOMAIN t : HasValue(t[k])
    BY <1>1, <1>2 DEF IsMeta
  <2>2. \A k \in 1 .. n : k + 1 \in DOMAIN t
    BY <1>1, SMT
  <2>3. ASSUME NEW k \in 1 .. n PROVE IsOperand(args[k])
    <3> DEFINE tok == t[k + 1]
    <3>1. HasValue(tok) /\ args[k] = Argument(tok)
      BY <2>1, <2>2
    <3> HIDE DEF tok
    <3>2. IsOperand(Argument(tok))
      BY <3>1 DEF HasValue, Argument, IsOperand, Reg, Imm, Ref, Str
    <3> QED BY <3>1, <3>2
  <2>4. args = [k \in 1 .. n |-> args[k]]
    OBVIOUS
  <2>5. Parsed(l) = LineFrom(l.file, l.src, t[1].cat, t[1].val, args)
    BY <1>2 DEF Parsed
  <2>6. 1 \in DOMAIN t
    BY <1>1, SMT
  <2>7. HasValue(t[1])
    BY <2>1, <2>6
  <2> HIDE DEF args, n
  <2>8. AreOperands(args)
    BY <1>1, <2>3, <2>4, OperandsOf
  <2>9. PICK h : h = t[1]
    OBVIOUS
  <2>10. h.cat \in {"instr", "alloc", "section", "label"} /\ HasValue(h)
    BY <1>2, <2>7, <2>9
  <2>11. IsSourceLine(LineFrom(l.file, l.src, h.cat, h.val, args))
    BY <2>8, <2>10, SourceLineFrom DEF HasValue
  <2> QED BY <2>5, <2>9, <2>11
<1>3. CASE t[1].cat \notin {"instr", "alloc", "section", "label"}
  <2>1. Parsed(l) = LineFrom(l.file, l.src, "other", "", <<>>)
    BY <1>3 DEF Parsed
  <2>2. AreOperands(<<>>)
    <3>1. <<>> \in Seq({<<>>[k] : k \in DOMAIN <<>>}) /\ DOMAIN <<>> = {}
      BY EmptySeq
    <3> QED BY <3>1 DEF AreOperands
  <2>3. PICK o, m, e : o = "other" /\ m = "" /\ e = <<>>
    OBVIOUS
  <2>4. /\ o \in {"section", "alloc", "instr", "label", "other"}
        /\ o = "section" => m \in Sections
        /\ o = "alloc" => m \in Directives
        /\ AreOperands(e)
    BY <2>2, <2>3
  <2>5. IsSourceLine(LineFrom(l.file, l.src, o, m, e))
    BY <2>4, SourceLineFrom
  <2> QED BY <2>1, <2>3, <2>5
<1> QED BY <1>2, <1>3

LEMMA ProgramHandedOn ==
  ASSUME PostTypes, stage = "combined"
  PROVE  IsProgram(Program)
<1> DEFINE S  == UNION {Elements(files[n]) : n \in FileNames}
           ss == [k \in DOMAIN project.order |-> files[project.order[k]]]
<1>1. /\ project.order \in Seq(FileNames)
      /\ \A n \in FileNames : IsText(files[n])
  BY ProjectsAssumption DEF PostTypes
<1>2. \A l \in S : IsFileLine(l)
  BY <1>1, TextFacts
<1>3. \A n \in FileNames : files[n] \in Seq(S)
  <2> TAKE n \in FileNames
  <2>1. files[n] \in Seq(Elements(files[n]))
    BY <1>1, TextFacts
  <2>2. Elements(files[n]) \subseteq S
    OBVIOUS
  <2> HIDE DEF S
  <2> QED BY <2>1, <2>2, SeqMonotonic
<1> HIDE DEF S
<1>4. ss \in Seq(Seq(S))
  <2>1. project.order \in [1 .. Len(project.order) -> FileNames] /\ Len(project.order) \in Nat
    BY <1>1, SeqDef, LenProperties
  <2>2. ss \in [1 .. Len(project.order) -> Seq(S)]
    BY <1>3, <2>1
  <2> HIDE DEF ss
  <2> QED BY <2>1, <2>2, SeqDef
<1>5. Combined = FlattenSeq(ss)
  BY DEF Combined
<1> HIDE DEF ss
<1>6. IsText(Combined)
  BY <1>2, <1>4, <1>5, Flattened, TextIn
<1>7. /\ DOMAIN Combined = 1 .. Len(Combined) /\ Len(Combined) \in Nat
      /\ \A k \in DOMAIN Combined : IsFileLine(Combined[k])
  BY <1>6, TextFacts DEF IsText
<1>8. /\ DOMAIN Program = 1 .. Len(Combined) /\ Program = [k \in 1 .. Len(Combined) |-> Program[k]]
      /\ \A k \in DOMAIN Program : IsSourceLine(Program[k])
  BY <1>7, ParsedLine DEF Program
<1>9. Sequence(Program)
  BY <1>7, <1>8, FunctionIsSequence
<1> QED BY <1>8, <1>9 DEF IsProgram, Sequence, Elements

-----------------------------------------------------------------------------
(* Numbers in four bytes. *)

LEMMA PowerFacts ==
  ASSUME NEW n \in Nat
  PROVE  2 ^ 0 = 1 /\ 2 ^ n \in Nat /\ 2 ^ n > 0
<1>1. IsFiniteSet(1 .. n) /\ Cardinality(1 .. n) = n
  <2>1. 1 \in Int /\ n \in Int
    OBVIOUS
  <2>2. IsFiniteSet(1 .. n) /\ Cardinality(1 .. n) = IF 1 > n THEN 0 ELSE n - 1 + 1
    BY <2>1, FS_Interval
  <2> QED BY <2>2, SMT
<1>2. IsFiniteSet(SUBSET (1 .. n)) /\ Cardinality(SUBSET (1 .. n)) = 2 ^ n
  BY <1>1, FS_SUBSET
<1>3. Cardinality(SUBSET (1 .. n)) # 0
  <2>1. SUBSET (1 .. n) # {}
    OBVIOUS
  <2> QED BY <1>2, <2>1, FS_EmptySet
<1>4. 2 ^ n \in Nat
  BY Doubling
<1>5. 2 ^ n > 0
  <2>1. PICK p \in Nat : p = 2 ^ n
    BY <1>4
  <2> QED BY <1>2, <1>3, <2>1, SMT
<1>6. 2 ^ 0 = 1
  <2>1. IsFiniteSet({}) /\ Cardinality({}) = 0
    BY FS_EmptySet
  <2>2. Cardinality(SUBSET {}) = 2 ^ 0
    BY <2>1, FS_SUBSET
  <2>3. PICK e : e = {}
    OBVIOUS
  <2>4. SUBSET {} = {} \union {e} /\ e \notin {}
    BY <2>3
  <2>5. Cardinality({} \union {e}) = 0 + 1
    BY <2>1, FS_AddElement
  <2> QED BY <2>2, <2>4, <2>5, SMT
<1> QED BY <1>4, <1>5, <1>6

LEMMA PowerSum ==
  ASSUME NEW a \in Nat, NEW b \in Nat
  PROVE  2 ^ (a + b) = 2 ^ a * 2 ^ b
<1> DEFINE S == {n \in Nat : 2 ^ (a + n) = 2 ^ a * 2 ^ n}
<1>1. 0 \in S
  <2>1. 2 ^ 0 = 1 /\ 2 ^ a \in Nat /\ a + 0 = a
    BY PowerFacts, SMT
  <2>2. PICK p \in Nat : p = 2 ^ a
    BY <2>1
  <2>3. p * 1 = p
    BY SMT
  <2> QED BY <2>1, <2>2, <2>3
<1>2. ASSUME NEW n \in Nat, n \in S PROVE n + 1 \in S
  <2>1. PICK p \in Nat, q \in Nat, r \in Nat : p = 2 ^ a /\ q = 2 ^ n /\ r = 2 ^ (a + n)
    <3>1. a + n \in Nat
      OBVIOUS
    <3> QED BY <3>1, PowerFacts
  <2>2. r = p * q
    BY <1>2, <2>1
  <2>3. 2 ^ (n + 1) = 2 * q
    BY <2>1, Doubling
  <2>4. 2 ^ (a + (n + 1)) = 2 * r
    <3>1. a + n \in Nat /\ a + (n + 1) = (a + n) + 1
      BY SMT
    <3> QED BY <2>1, <3>1, Doubling
  <2>5. p * (2 * q) = 2 * (p * q)
    BY SMT
  <2>6. n + 1 \in Nat
    OBVIOUS
  <2> QED BY <2>1, <2>2, <2>3, <2>4, <2>5, <2>6
<1>3. b \in S
  <2> HIDE DEF S
  <2> QED BY <1>1, <1>2, NumbersOf
<1> QED BY <1>3

LEMMA BytesOfWord ==
  /\ ByteMod \in Nat /\ ByteMod > 0 /\ WordMod \in Nat
  /\ WordMod = ByteMod * (ByteMod * (ByteMod * ByteMod))
<1>1. B \in Nat /\ 4 * B = B + (B + (B + B)) /\ B + B \in Nat /\ B + (B + B) \in Nat
      /\ 4 * B \in Nat
  BY ByteAssumption, SMT
<1>2. /\ 2 ^ (B + B) = 2 ^ B * 2 ^ B
      /\ 2 ^ (B + (B + B)) = 2 ^ B * 2 ^ (B + B)
      /\ 2 ^ (B + (B + (B + B))) = 2 ^ B * 2 ^ (B + (B + B))
  BY <1>1, PowerSum
<1>3. 2 ^ B \in Nat /\ 2 ^ B > 0 /\ 2 ^ (4 * B) \in Nat
  BY <1>1, PowerFacts
<1> QED BY <1>1, <1>2, <1>3 DEF ByteMod, WordMod, W

LEMMA Divided ==
  ASSUME NEW v \in Nat, NEW m \in Nat, m > 0, NEW k \in Nat, v < m * k
  PROVE  /\ v \div m \in Nat /\ v % m \in Nat /\ v % m < m
         /\ v = (v % m) + m * (v \div m)
         /\ v \div m < k
<1>1. /\ v \div m \in Nat /\ v % m \in Nat /\ v % m < m
      /\ v = (v % m) + m * (v \div m)
  BY SMT
<1>2. PICK d \in Nat, r \in Nat : d = v \div m /\ r = v % m
  BY <1>1
<1>3. v = r + m * d
  BY <1>1, <1>2
<1>4. CASE d < k
  BY <1>1, <1>2, <1>4
<1>5. CASE ~(d < k)
  <2>1. PICK e \in Nat : d = k + e
    <3>1. d - k \in Nat /\ d = k + (d - k)
      BY <1>5, SMT
    <3> QED BY <3>1
  <2>2. PICK x \in Nat, y \in Nat : x = m * k /\ y = m * e
    <3>1. m * k \in Nat /\ m * e \in Nat
      BY SMT
    <3> QED BY <3>1
  <2>3. m * d = x + y
    BY <2>1, <2>2, SMT
  <2>4. v = r + (x + y) /\ v < x
    BY <1>3, <2>2, <2>3
  <2> QED BY <2>4, SMT
<1> QED BY <1>4, <1>5

LEMMA FourLong ==
  ASSUME NEW v
  PROVE  DOMAIN LEBytes(v) = 1 .. 4 /\ Sequence(LEBytes(v)) /\ Len(LEBytes(v)) = 4
<1>1. PICK a, b, c, d : LEBytes(v) = <<a, b, c, d>>
  BY DEF LEBytes
<1>2. /\ DOMAIN <<a, b, c, d>> = 1 .. 4 /\ Len(<<a, b, c, d>>) = 4
      /\ <<a, b, c, d>> \in Seq({a, b, c, d})
  BY SMT
<1>3. Sequence(<<a, b, c, d>>)
  BY <1>2, SequenceOf
<1> QED BY <1>1, <1>2, <1>3

(* What is written is read. *)
LEMMA FourBytes ==
  ASSUME NEW v \in Nat, v < WordMod
  PROVE  OfBytes(LEBytes(v)[1], LEBytes(v)[2], LEBytes(v)[3], LEBytes(v)[4]) = v
<1>1. PICK m \in Nat : m = ByteMod /\ m > 0 /\ WordMod = m * (m * (m * m))
  BY BytesOfWord
<1>2. m * m \in Nat /\ m * (m * m) \in Nat
  BY SMT
<1>3. PICK w \in Nat, x \in Nat, y \in Nat : w = v \div m /\ x = w \div m /\ y = x \div m
  <2>1. v \div m \in Nat
    BY <1>1, SMT
  <2>2. (v \div m) \div m \in Nat
    BY <1>1, <2>1, SMT
  <2>3. ((v \div m) \div m) \div m \in Nat
    BY <1>1, <2>2, SMT
  <2> QED BY <2>1, <2>2, <2>3
<1>4. v = (v % m) + m * w /\ w < m * (m * m)
  BY <1>1, <1>2, <1>3, Divided
<1>5. w = (w % m) + m * x /\ x < m * m
  BY <1>1, <1>2, <1>3, <1>4, Divided
<1>6. x = (x % m) + m * y /\ y < m
  BY <1>1, <1>2, <1>3, <1>5, Divided
<1>7. y % m = y
  BY <1>1, <1>6, SMT
<1>8. LEBytes(v) = <<v % m, w % m, x % m, y % m>>
  BY <1>1, <1>3 DEF LEBytes
<1>9. OfBytes(v % m, w % m, x % m, y % m) = v
  BY <1>1, <1>4, <1>5, <1>6, <1>7 DEF OfBytes
<1>10. PICK a, b, c, d : a = v % m /\ b = w % m /\ c = x % m /\ d = y % m
  OBVIOUS
<1>11. /\ <<a, b, c, d>>[1] = a /\ <<a, b, c, d>>[2] = b
       /\ <<a, b, c, d>>[3] = c /\ <<a, b, c, d>>[4] = d
  BY SMT
<1> QED BY <1>8, <1>9, <1>10, <1>11

-----------------------------------------------------------------------------
(* Blocks of a file. *)

LEMMA BlockLonger ==
  ASSUME NEW f, Sequence(f), NEW bytes, Sequence(bytes), NEW header
  PROVE  /\ Sequence(AddBlock(f, header, bytes))
         /\ Len(f) \in Nat /\ Len(bytes) \in Nat /\ Len(AddBlock(f, header, bytes)) \in Nat
         /\ Len(AddBlock(f, header, bytes)) >= Len(f) + 4 + Len(bytes)
         /\ \A k \in 1 .. Len(f) :
              AddBlock(f, header, bytes)[k]
                = IF k - header \in 1 .. 4 THEN LEBytes(Len(f))[k - header] ELSE f[k]
         /\ \A k \in 1 .. 4 :
              AddBlock(f, header, bytes)[Len(f) + k] = LEBytes(Len(bytes))[k]
         /\ \A k \in 1 .. Len(bytes) :
              AddBlock(f, header, bytes)[Len(f) + 4 + k] = bytes[k]
<1> DEFINE off == LEBytes(Len(f))
           sz  == LEBytes(Len(bytes))
           g   == [k \in DOMAIN f |-> IF k - header \in 1 .. 4 THEN off[k - header] ELSE f[k]]
           h   == g \o sz
           e   == h \o bytes
           z   == [k \in 1 .. (4 - (Len(e) % 4)) % 4 |-> 0]
           r   == AddBlock(f, header, bytes)
<1>1. DOMAIN f = 1 .. Len(f) /\ Len(f) \in Nat /\ Len(bytes) \in Nat
      /\ DOMAIN bytes = 1 .. Len(bytes)
  BY LenProperties DEF Sequence
<1>2. Sequence(g) /\ Len(g) = Len(f) /\ DOMAIN g = 1 .. Len(f)
      /\ \A k \in 1 .. Len(f) : g[k] = IF k - header \in 1 .. 4 THEN off[k - header] ELSE f[k]
  <2>1. g = [k \in 1 .. Len(f) |-> g[k]]
    BY <1>1
  <2>2. \A k \in 1 .. Len(f) :
          g[k] = IF k - header \in 1 .. 4 THEN off[k - header] ELSE f[k]
    BY <1>1
  <2> HIDE DEF g
  <2> QED BY <1>1, <2>1, <2>2, FunctionIsSequence
<1>3. Sequence(sz) /\ Len(sz) = 4
  BY FourLong
<1>4. r = e \o z
  BY DEF AddBlock, BlockAdded, Padded
<1> HIDE DEF g, sz, off, r
<1>5. /\ Sequence(h) /\ Len(h) = Len(f) + 4
      /\ \A k \in 1 .. Len(f) : h[k] = g[k]
      /\ \A k \in 1 .. 4 : h[Len(f) + k] = sz[k]
  <2>1. /\ Sequence(h) /\ Len(h) = Len(g) + Len(sz)
        /\ \A k \in 1 .. Len(g) : h[k] = g[k]
        /\ \A k \in 1 .. Len(sz) : h[Len(g) + k] = sz[k]
    <3>1. Sequence(g) /\ Sequence(sz)
      BY <1>2, <1>3
    <3> QED BY <3>1, Joined
  <2> HIDE DEF h
  <2> QED BY <1>2, <1>3, <2>1
<1> HIDE DEF h
<1>6. /\ Sequence(e) /\ Len(e) = Len(f) + 4 + Len(bytes)
      /\ \A k \in 1 .. Len(f) + 4 : e[k] = h[k]
      /\ \A k \in 1 .. Len(bytes) : e[Len(f) + 4 + k] = bytes[k]
  <2>1. /\ Sequence(e) /\ Len(e) = Len(h) + Len(bytes)
        /\ \A k \in 1 .. Len(h) : e[k] = h[k]
        /\ \A k \in 1 .. Len(bytes) : e[Len(h) + k] = bytes[k]
    BY <1>5, Joined
  <2> HIDE DEF e
  <2> QED BY <1>5, <2>1
<1> HIDE DEF e
<1>7. Sequence(z)
  <2>1. PICK n \in Nat : n = (4 - (Len(e) % 4)) % 4
    <3>1. PICK l \in Nat : l = Len(e)
      BY <1>1, <1>6, SMT
    <3>2. (4 - (l % 4)) % 4 \in Nat
      BY SMT
    <3> QED BY <3>1, <3>2
  <2>2. z = [k \in 1 .. n |-> 0] /\ z = [k \in 1 .. n |-> z[k]]
    BY <2>1
  <2> HIDE DEF z
  <2> QED BY <2>2, FunctionIsSequence
<1> HIDE DEF z
<1>8. /\ Sequence(r) /\ Len(z) \in Nat /\ Len(r) = Len(e) + Len(z)
      /\ \A k \in 1 .. Len(e) : r[k] = e[k]
  <2>1. /\ Sequence(e \o z) /\ Len(z) \in Nat /\ Len(e \o z) = Len(e) + Len(z)
        /\ \A k \in 1 .. Len(e) : (e \o z)[k] = e[k]
    BY <1>6, <1>7, Joined
  <2> QED BY <1>4, <2>1
<1>9. /\ Len(r) \in Nat /\ Len(r) >= Len(f) + 4 + Len(bytes)
      /\ \A k \in 1 .. Len(f) : k \in 1 .. Len(f) + 4 /\ k \in 1 .. Len(e)
      /\ \A k \in 1 .. 4 : Len(f) + k \in 1 .. Len(f) + 4 /\ Len(f) + k \in 1 .. Len(e)
      /\ \A k \in 1 .. Len(bytes) : Len(f) + 4 + k \in 1 .. Len(e)
  <2> DEFINE x == Len(f)
             y == Len(bytes)
             w == Len(z)
  <2>1. /\ x \in Nat /\ y \in Nat /\ w \in Nat
        /\ Len(e) = x + 4 + y /\ Len(r) = x + 4 + y + w
    BY <1>1, <1>6, <1>8
  <2> HIDE DEF x, y, w
  <2>2. /\ x + 4 + y + w \in Nat /\ x + 4 + y + w >= x + 4 + y
        /\ \A k \in 1 .. x : k \in 1 .. x + 4 /\ k \in 1 .. x + 4 + y
        /\ \A k \in 1 .. 4 : x + k \in 1 .. x + 4 /\ x + k \in 1 .. x + 4 + y
        /\ \A k \in 1 .. y : x + 4 + k \in 1 .. x + 4 + y
    BY <2>1, SMT
  <2> QED BY <2>1, <2>2 DEF x, y, w
<1>10. /\ \A k \in 1 .. Len(f) : r[k] = g[k]
       /\ \A k \in 1 .. 4 : r[Len(f) + k] = sz[k]
       /\ \A k \in 1 .. Len(bytes) : r[Len(f) + 4 + k] = bytes[k]
  BY <1>5, <1>6, <1>8, <1>9
<1> QED BY <1>1, <1>2, <1>8, <1>9, <1>10 DEF r, sz, off

LEMMA Headers ==
  /\ HeaderSize = 24
  /\ \A k \in 1 .. 5 : HeaderOf(k) \in Nat /\ HeaderOf(k) = 4 * k
  /\ \A i, j \in 1 .. 5, k \in 1 .. 4 :
       /\ HeaderOf(i) + k \in 1 .. 24 /\ (HeaderOf(i) + k) - HeaderOf(i) = k
       /\ i # j => ~((HeaderOf(i) + k) - HeaderOf(j) \in 1 .. 4)
  /\ \A j \in 1 .. 5, k \in Nat : k > 24 => ~(k - HeaderOf(j) \in 1 .. 4)
<1>1. HeaderSize = 24
  <2>1. Len(SectionOrder) = 4
    BY SMT DEF SectionOrder
  <2> QED BY <2>1, SMT DEF HeaderSize, MagicSize
<1>2. \A k \in 1 .. 5 : HeaderOf(k) \in Nat /\ HeaderOf(k) = 4 * k
  BY SMT DEF HeaderOf, MagicSize
<1>3. ASSUME NEW i \in 1 .. 5, NEW j \in 1 .. 5, NEW k \in 1 .. 4
      PROVE  /\ HeaderOf(i) + k \in 1 .. 24 /\ (HeaderOf(i) + k) - HeaderOf(i) = k
             /\ i # j => ~((HeaderOf(i) + k) - HeaderOf(j) \in 1 .. 4)
  <2>1. HeaderOf(i) = 4 * i /\ HeaderOf(j) = 4 * j
    BY <1>2
  <2>2. 4 * i + k \in 1 .. 24 /\ (4 * i + k) - 4 * i = k
        /\ (i # j => ~((4 * i + k) - 4 * j \in 1 .. 4))
    BY SMT
  <2> QED BY <2>1, <2>2
<1>4. ASSUME NEW j \in 1 .. 5, NEW k \in Nat, k > 24
      PROVE  ~(k - HeaderOf(j) \in 1 .. 4)
  BY <1>2, <1>4, SMT
<1> QED BY <1>1, <1>2, <1>3, <1>4

LEMMA ValueOfFour ==
  ASSUME NEW r, NEW i \in Nat, NEW v \in Nat, v < WordMod,
         \A k \in 1 .. 4 : r[i + k] = LEBytes(v)[k]
  PROVE  LEValue(r, i + 1) = v
<1>1. i + 1 + 1 = i + 2 /\ i + 1 + 2 = i + 3 /\ i + 1 + 3 = i + 4
  BY SMT
<1>2. /\ r[i + 1] = LEBytes(v)[1] /\ r[i + 2] = LEBytes(v)[2]
      /\ r[i + 3] = LEBytes(v)[3] /\ r[i + 4] = LEBytes(v)[4]
  OBVIOUS
<1> QED BY <1>1, <1>2, FourBytes DEF LEValue

LEMMA SameFour ==
  ASSUME NEW f, NEW r, NEW i \in Nat, \A k \in 1 .. 4 : r[i + k] = f[i + k]
  PROVE  LEValue(r, i + 1) = LEValue(f, i + 1)
<1>1. i + 1 + 1 = i + 2 /\ i + 1 + 2 = i + 3 /\ i + 1 + 3 = i + 4
  BY SMT
<1>2. r[i + 1] = f[i + 1] /\ r[i + 2] = f[i + 2] /\ r[i + 3] = f[i + 3] /\ r[i + 4] = f[i + 4]
  OBVIOUS
<1> QED BY <1>1, <1>2 DEF LEValue

(* Where a header says, the file has these bytes. *)
BytesAt(f, p, bytes) ==
  /\ p \in Nat /\ p >= HeaderSize
  /\ LEValue(f, p + 1) = Len(bytes)
  /\ p + 4 + Len(bytes) <= Len(f)
  /\ \A k \in 1 .. Len(bytes) : f[p + 4 + k] = bytes[k]
InFile(f, header, bytes) == BytesAt(f, LEValue(f, header + 1), bytes)

LEMMA BlockPut ==
  ASSUME NEW f, Sequence(f), NEW bytes, Sequence(bytes), NEW j \in 1 .. 5,
         Len(f) >= HeaderSize, Len(AddBlock(f, HeaderOf(j), bytes)) < WordMod
  PROVE  InFile(AddBlock(f, HeaderOf(j), bytes), HeaderOf(j), bytes)
<1> DEFINE r == AddBlock(f, HeaderOf(j), bytes)
           h == HeaderOf(j)
           x == Len(f)
           y == Len(bytes)
<1>1. /\ x \in Nat /\ y \in Nat /\ Len(r) \in Nat /\ Len(r) >= x + 4 + y
      /\ \A k \in 1 .. x : r[k] = IF k - h \in 1 .. 4 THEN LEBytes(x)[k - h] ELSE f[k]
      /\ \A k \in 1 .. 4 : r[x + k] = LEBytes(y)[k]
      /\ \A k \in 1 .. y : r[x + 4 + k] = bytes[k]
  BY BlockLonger
<1>2. h \in Nat /\ \A k \in 1 .. 4 : h + k \in 1 .. 24 /\ (h + k) - h = k
  BY Headers
<1>3. x >= 24 /\ Len(r) < WordMod /\ WordMod \in Nat /\ HeaderSize = 24
  BY Headers, BytesOfWord
<1> HIDE DEF r, h, x, y
<1>4. x < WordMod /\ y < WordMod /\ \A k \in 1 .. 24 : k \in 1 .. x
  BY <1>1, <1>3, SMT
<1>5. \A k \in 1 .. 4 : r[h + k] = LEBytes(x)[k]
  BY <1>1, <1>2, <1>4
<1>6. LEValue(r, h + 1) = x
  BY <1>1, <1>2, <1>4, <1>5, ValueOfFour
<1>7. LEValue(r, x + 1) = y
  <2>1. x \in Nat /\ y \in Nat /\ y < WordMod /\ \A k \in 1 .. 4 : r[x + k] = LEBytes(y)[k]
    BY <1>1, <1>4
  <2> QED BY <2>1, ValueOfFour
<1>8. BytesAt(r, x, bytes)
  BY <1>1, <1>3, <1>7 DEF BytesAt, y
<1>9. InFile(r, h, bytes)
  BY <1>6, <1>8 DEF InFile
<1> QED BY <1>9 DEF r, h

LEMMA BlockStays ==
  ASSUME NEW f, Sequence(f), NEW bytes, Sequence(bytes), NEW j \in 1 .. 5,
         Len(f) >= HeaderSize, NEW i \in 1 .. 5, i # j
  PROVE  /\ LEValue(AddBlock(f, HeaderOf(j), bytes), HeaderOf(i) + 1)
               = LEValue(f, HeaderOf(i) + 1)
         /\ \A b : Sequence(b) /\ InFile(f, HeaderOf(i), b)
               => InFile(AddBlock(f, HeaderOf(j), bytes), HeaderOf(i), b)
<1> DEFINE r == AddBlock(f, HeaderOf(j), bytes)
           h == HeaderOf(j)
           g == HeaderOf(i)
           x == Len(f)
           y == Len(bytes)
<1>1. /\ x \in Nat /\ y \in Nat /\ Len(r) \in Nat /\ Len(r) >= x + 4 + y
      /\ \A k \in 1 .. x : r[k] = IF k - h \in 1 .. 4 THEN LEBytes(x)[k - h] ELSE f[k]
  BY BlockLonger
<1>2. /\ g \in Nat /\ \A k \in 1 .. 4 : g + k \in 1 .. 24 /\ ~((g + k) - h \in 1 .. 4)
      /\ \A k \in Nat : k > 24 => ~(k - h \in 1 .. 4)
  BY Headers
<1>3. x >= 24 /\ HeaderSize = 24
  BY Headers
<1> HIDE DEF r, h, g, x, y
<1>4. \A k \in 1 .. 24 : k \in 1 .. x
  BY <1>1, <1>3, SMT
<1>5. \A k \in 1 .. 4 : r[g + k] = f[g + k]
  <2> TAKE k \in 1 .. 4
  <2>1. g + k \in 1 .. 24
    BY <1>2
  <2>2. ~((g + k) - h \in 1 .. 4)
    BY <1>2
  <2>3. g + k \in 1 .. x
    BY <1>4, <2>1
  <2>4. PICK m : m = g + k
    OBVIOUS
  <2>5. m \in 1 .. x /\ ~(m - h \in 1 .. 4)
    BY <2>2, <2>3, <2>4
  <2>6. r[m] = IF m - h \in 1 .. 4 THEN LEBytes(x)[m - h] ELSE f[m]
    BY <1>1, <2>5
  <2>7. r[m] = f[m]
    BY <2>5, <2>6
  <2> QED BY <2>4, <2>7
<1>6. LEValue(r, g + 1) = LEValue(f, g + 1)
  BY <1>2, <1>5, SameFour
<1>7. ASSUME NEW b, Sequence(b), InFile(f, g, b) PROVE InFile(r, g, b)
  <2>1. PICK p, z : p = LEValue(f, g + 1) /\ z = Len(b)
    OBVIOUS
  <2>2. /\ p \in Nat /\ p >= 24 /\ LEValue(f, p + 1) = z /\ p + 4 + z <= x
        /\ \A k \in 1 .. z : f[p + 4 + k] = b[k]
    BY <1>3, <1>7, <2>1 DEF InFile, BytesAt, x
  <2>3. z \in Nat
    BY <1>7, <2>1, LenProperties DEF Sequence
  <2>4. \A k \in 1 .. 4 : p + k \in 1 .. x /\ p + k \in Nat /\ p + k > 24
    BY <1>1, <2>2, <2>3, SMT
  <2>5. \A k \in 1 .. z : /\ p + 4 + k \in 1 .. x /\ p + 4 + k \in Nat /\ p + 4 + k > 24
    BY <1>1, <2>2, <2>3, SMT
  <2>6. \A k \in 1 .. 4 : r[p + k] = f[p + k]
    BY <1>1, <1>2, <2>4
  <2>7. \A k \in 1 .. z : r[p + 4 + k] = b[k]
    BY <1>1, <1>2, <2>2, <2>5
  <2>8. LEValue(r, p + 1) = z
    BY <2>2, <2>6, SameFour
  <2>9. p + 4 + z <= Len(r)
    BY <1>1, <2>2, <2>3, SMT
  <2> QED BY <1>3, <1>6, <2>1, <2>2, <2>7, <2>8, <2>9 DEF InFile, BytesAt
<1> QED BY <1>6, <1>7 DEF r, g

LEMMA BlockRead ==
  ASSUME NEW f, NEW b, Sequence(b), NEW h, InFile(f, h, b)
  PROVE  HasBlock(f, h) /\ BlockAt(f, h) = b
<1>1. PICK p, z : p = LEValue(f, h + 1) /\ z = Len(b)
  OBVIOUS
<1>2. /\ p \in Nat /\ p >= 24 /\ LEValue(f, p + 1) = z
      /\ \A k \in 1 .. z : f[p + 4 + k] = b[k]
  BY <1>1, Headers DEF InFile, BytesAt
<1>3. z \in Nat /\ DOMAIN b = 1 .. z /\ b \in [1 .. z -> Elements(b)]
  BY <1>1, LenProperties DEF Sequence
<1>4. HasBlock(f, h)
  BY <1>1, <1>2, SMT DEF HasBlock
<1>5. BlockAt(f, h) = SubSeq(f, p + 5, p + 4 + z)
  BY <1>1, <1>2 DEF BlockAt
<1>6. /\ p + 5 \in Int /\ p + 4 + z \in Int /\ (p + 4 + z) - (p + 5) + 1 = z
      /\ (IF p + 5 <= p + 4 + z THEN (p + 4 + z) - (p + 5) + 1 ELSE 0) = z
      /\ \A k \in 1 .. z : p + 5 + k - 1 = p + 4 + k
  BY <1>2, <1>3, SMT
<1>7. \A i \in p + 5 .. p + 4 + z : f[i] \in Elements(b)
  <2> TAKE i \in p + 5 .. p + 4 + z
  <2>1. i - (p + 4) \in 1 .. z /\ p + 4 + (i - (p + 4)) = i
    BY <1>2, <1>3, SMT
  <2> QED BY <1>2, <1>3, <2>1
<1>8. PICK s : s = SubSeq(f, p + 5, p + 4 + z)
  OBVIOUS
<1>9. /\ s \in Seq(Elements(b)) /\ Len(s) = z
      /\ \A k \in 1 .. z : s[k] = f[p + 4 + k]
  <2>1. /\ s \in Seq(Elements(b))
        /\ Len(s) = IF p + 5 <= p + 4 + z THEN (p + 4 + z) - (p + 5) + 1 ELSE 0
        /\ \A k \in 1 .. (p + 4 + z) - (p + 5) + 1 : s[k] = f[p + 5 + k - 1]
    BY <1>6, <1>7, <1>8, SubSeqProperties
  <2> QED BY <1>6, <2>1
<1>10. s \in [1 .. z -> Elements(b)]
  BY <1>9, LenProperties
<1>11. s = b
  BY <1>2, <1>3, <1>9, <1>10
<1> QED BY <1>4, <1>5, <1>8, <1>11

-----------------------------------------------------------------------------
(* The sections of a file. *)

(* What data has a file to hold: the first j sections are written, the     *)
(* headers of the others and of the debug information are still zero.      *)
FileHolds(f, data, j) ==
  /\ Sequence(f) /\ Len(f) \in Nat /\ Len(f) >= 24
  /\ \A i \in 1 .. 4 :
       IF i <= j /\ SectionOrder[i] \in DOMAIN data
       THEN InFile(f, HeaderOf(i), data[SectionOrder[i]])
       ELSE LEValue(f, HeaderOf(i) + 1) = 0
  /\ LEValue(f, HeaderOf(5) + 1) = 0

LEMMA EmptyHolds ==
  ASSUME NEW data
  PROVE  FileHolds(EmptyFile, data, 0)
<1> DEFINE m == <<"M", "A", "S", "M">>
           z == [k \in 1 .. 20 |-> 0]
<1>1. EmptyFile = m \o z
  BY Headers DEF EmptyFile, MagicSize
<1>2. Sequence(m) /\ Len(m) = 4
  <2>1. m \in Seq({"M", "A", "S"}) /\ Len(m) = 4
    BY SMT
  <2> HIDE DEF m
  <2> QED BY <2>1, SequenceOf
<1>3. Sequence(z) /\ Len(z) = 20 /\ \A k \in 1 .. 20 : z[k] = 0
  <2>1. 20 \in Nat /\ z = [k \in 1 .. 20 |-> z[k]] /\ \A k \in 1 .. 20 : z[k] = 0
    BY SMT
  <2> HIDE DEF z
  <2> QED BY <2>1, FunctionIsSequence
<1> HIDE DEF m, z
<1>4. /\ Sequence(EmptyFile) /\ Len(EmptyFile) = 24
      /\ \A k \in 1 .. 20 : EmptyFile[4 + k] = 0
  <2>1. PICK e : e = m \o z
    OBVIOUS
  <2>2. /\ Sequence(e) /\ Len(e) = Len(m) + Len(z)
        /\ \A k \in 1 .. Len(z) : e[Len(m) + k] = z[k]
    BY <1>2, <1>3, <2>1, Joined
  <2>3. /\ Len(e) = 4 + 20 /\ \A k \in 1 .. 20 : e[4 + k] = 0
    BY <1>2, <1>3, <2>2
  <2>4. 4 + 20 = 24
    BY SMT
  <2> QED BY <1>1, <2>1, <2>2, <2>3, <2>4
<1>5. ASSUME NEW i \in 1 .. 5 PROVE LEValue(EmptyFile, HeaderOf(i) + 1) = 0
  <2>1. HeaderOf(i) = 4 * i
    BY Headers
  <2>2. \A k \in 1 .. 4 : /\ 4 * i - 4 + k \in 1 .. 20
                          /\ 4 + (4 * i - 4 + k) = 4 * i + k
    BY SMT
  <2>3. \A k \in 1 .. 4 : EmptyFile[4 * i + k] = 0
    BY <1>4, <2>2
  <2>4. 4 * i + 1 + 1 = 4 * i + 2 /\ 4 * i + 1 + 2 = 4 * i + 3 /\ 4 * i + 1 + 3 = 4 * i + 4
    BY SMT
  <2>5. LEValue(EmptyFile, 4 * i + 1) = OfBytes(0, 0, 0, 0)
    BY <2>3, <2>4 DEF LEValue
  <2>6. OfBytes(0, 0, 0, 0) = 0
    <3>1. PICK m1 \in Nat : m1 = ByteMod
      BY BytesOfWord
    <3>2. m1 * 0 = 0
      BY SMT
    <3> QED BY <3>1, <3>2, SMT DEF OfBytes
  <2> QED BY <2>1, <2>5, <2>6
<1>6. \A i \in 1 .. 4 : ~(i <= 0) /\ i \in 1 .. 5
  BY SMT
<1>7. 5 \in 1 .. 5 /\ 24 \in Nat /\ 24 >= 24
  BY SMT
<1> QED BY <1>4, <1>5, <1>6, <1>7 DEF FileHolds

LEMMA SectionLonger ==
  ASSUME NEW f, Sequence(f), NEW j, NEW data,
         \A s \in DOMAIN data : Sequence(data[s])
  PROVE  /\ Sequence(WithSection(f, j, data)) /\ Len(WithSection(f, j, data)) \in Nat
         /\ Len(WithSection(f, j, data)) >= Len(f)
<1>1. CASE SectionOrder[j] \in DOMAIN data
  <2>1. PICK b : b = data[SectionOrder[j]]
    OBVIOUS
  <2>2. WithSection(f, j, data) = AddBlock(f, HeaderOf(j), b)
    BY <1>1, <2>1 DEF WithSection
  <2>3. Sequence(b)
    BY <1>1, <2>1
  <2>4. PICK r : r = AddBlock(f, HeaderOf(j), b)
    OBVIOUS
  <2>5. /\ Sequence(r) /\ Len(f) \in Nat /\ Len(b) \in Nat /\ Len(r) \in Nat
        /\ Len(r) >= Len(f) + 4 + Len(b)
    BY <2>3, <2>4, BlockLonger
  <2>6. Len(r) >= Len(f)
    BY <2>5, SMT
  <2> QED BY <2>2, <2>4, <2>5, <2>6
<1>2. CASE SectionOrder[j] \notin DOMAIN data
  <2>1. WithSection(f, j, data) = f
    BY <1>2 DEF WithSection
  <2>2. Len(f) \in Nat
    BY LenProperties DEF Sequence
  <2> QED BY <2>1, <2>2, SMT
<1> QED BY <1>1, <1>2

LEMMA SectionHolds ==
  ASSUME NEW f, NEW data, NEW j \in 1 .. 4, FileHolds(f, data, j - 1),
         \A s \in DOMAIN data : Sequence(data[s]),
         Len(WithSection(f, j, data)) < WordMod
  PROVE  FileHolds(WithSection(f, j, data), data, j)
<1>1. PICK r : r = WithSection(f, j, data)
  OBVIOUS
<1>2. /\ Sequence(f) /\ Len(f) \in Nat /\ Len(f) >= 24 /\ LEValue(f, HeaderOf(5) + 1) = 0
      /\ \A i \in 1 .. 4 :
           IF i <= j - 1 /\ SectionOrder[i] \in DOMAIN data
           THEN InFile(f, HeaderOf(i), data[SectionOrder[i]])
           ELSE LEValue(f, HeaderOf(i) + 1) = 0
  BY DEF FileHolds
<1>3. Sequence(r) /\ Len(r) \in Nat /\ Len(r) >= 24
  <2>1. Sequence(r) /\ Len(r) \in Nat /\ Len(r) >= Len(f)
    BY <1>1, <1>2, SectionLonger
  <2> QED BY <1>2, <2>1, SMT
<1>4. \A i \in 1 .. 4 : /\ i \in 1 .. 5 /\ (i # j => (i <= j <=> i <= j - 1))
                        /\ ~(j <= j - 1) /\ j <= j /\ i # 5
  BY SMT
<1>5. 5 \in 1 .. 5 /\ j \in 1 .. 5 /\ j # 5
  BY SMT
<1>6. CASE SectionOrder[j] \in DOMAIN data
  <2>1. PICK b : b = data[SectionOrder[j]]
    OBVIOUS
  <2>2. r = AddBlock(f, HeaderOf(j), b) /\ Sequence(b) /\ Len(r) < WordMod
    BY <1>1, <1>6, <2>1 DEF WithSection
  <2>3. Len(f) >= HeaderSize
    BY <1>2, Headers
  <2>4. InFile(r, HeaderOf(j), b)
    BY <1>2, <1>5, <2>2, <2>3, BlockPut
  <2>5. ASSUME NEW i \in 1 .. 5, i # j
        PROVE  /\ LEValue(r, HeaderOf(i) + 1) = LEValue(f, HeaderOf(i) + 1)
               /\ \A c : Sequence(c) /\ InFile(f, HeaderOf(i), c) => InFile(r, HeaderOf(i), c)
    BY <1>2, <1>5, <2>2, <2>3, <2>5, BlockStays
  <2>6. LEValue(r, HeaderOf(5) + 1) = 0
    BY <1>2, <1>5, <2>5
  <2>7. ASSUME NEW i \in 1 .. 4
        PROVE  IF i <= j /\ SectionOrder[i] \in DOMAIN data
               THEN InFile(r, HeaderOf(i), data[SectionOrder[i]])
               ELSE LEValue(r, HeaderOf(i) + 1) = 0
    <3>1. CASE i = j
      BY <1>4, <1>6, <2>1, <2>4, <3>1
    <3>2. CASE i # j /\ i <= j - 1 /\ SectionOrder[i] \in DOMAIN data
      <4>1. InFile(f, HeaderOf(i), data[SectionOrder[i]])
        BY <1>2, <3>2
      <4> QED BY <1>4, <2>5, <3>2, <4>1
    <3>3. CASE i # j /\ ~(i <= j - 1 /\ SectionOrder[i] \in DOMAIN data)
      <4>1. LEValue(f, HeaderOf(i) + 1) = 0
        BY <1>2, <3>3
      <4>2. LEValue(r, HeaderOf(i) + 1) = 0
        BY <1>4, <2>5, <3>3, <4>1
      <4> QED BY <1>4, <3>3, <4>2
    <3> QED BY <3>1, <3>2, <3>3
  <2> QED BY <1>1, <1>3, <2>6, <2>7 DEF FileHolds
<1>7. CASE SectionOrder[j] \notin DOMAIN data
  <2>1. r = f
    BY <1>1, <1>7 DEF WithSection
  <2>2. ASSUME NEW i \in 1 .. 4
        PROVE  IF i <= j /\ SectionOrder[i] \in DOMAIN data
               THEN InFile(f, HeaderOf(i), data[SectionOrder[i]])
               ELSE LEValue(f, HeaderOf(i) + 1) = 0
    <3>1. CASE i = j
      BY <1>2, <1>4, <1>7, <3>1
    <3>2. CASE i # j
      BY <1>2, <1>4, <3>2
    <3> QED BY <3>1, <3>2
  <2> QED BY <1>1, <1>2, <2>1, <2>2 DEF FileHolds
<1> QED BY <1>6, <1>7

LEMMA LayoutHeld ==
  ASSUME NEW data, \A s \in DOMAIN data : Sequence(data[s]),
         NEW info, NEW debug, Sequence(DebugBytes(info)),
         NEW r, r = SaveLayout(data, info, debug), Len(r) < WordMod
  PROVE  /\ Len(r) \in Nat /\ Len(r) >= 24
         /\ \A i \in 1 .. 4 :
              IF SectionOrder[i] \in DOMAIN data
              THEN InFile(r, HeaderOf(i), data[SectionOrder[i]])
              ELSE LEValue(r, HeaderOf(i) + 1) = 0
         /\ IF debug /\ DOMAIN info # {}
            THEN InFile(r, HeaderOf(5), DebugBytes(info))
            ELSE LEValue(r, HeaderOf(5) + 1) = 0
<1> DEFINE d == DebugBytes(info)
           WithInfo == debug /\ DOMAIN info # {}
<1>1. PICK f0, f1, f2, f3, f4 :
        /\ f0 = EmptyFile /\ f1 = WithSection(f0, 1, data) /\ f2 = WithSection(f1, 2, data)
        /\ f3 = WithSection(f2, 3, data) /\ f4 = WithSection(f3, 4, data)
  OBVIOUS
<1>2. r = IF WithInfo THEN AddBlock(f4, HeaderOf(5), d) ELSE f4
  BY <1>1 DEF SaveLayout
<1> HIDE DEF d, WithInfo
<1>3. FileHolds(f0, data, 0)
  BY <1>1, EmptyHolds
<1>4. Sequence(f0)
  BY <1>3 DEF FileHolds
<1>5. Sequence(f1) /\ Len(f1) \in Nat
  BY <1>1, <1>4, SectionLonger
<1>6. Sequence(f2) /\ Len(f2) \in Nat /\ Len(f2) >= Len(f1)
  BY <1>1, <1>5, SectionLonger
<1>7. Sequence(f3) /\ Len(f3) \in Nat /\ Len(f3) >= Len(f2)
  BY <1>1, <1>6, SectionLonger
<1>8. Sequence(f4) /\ Len(f4) \in Nat /\ Len(f4) >= Len(f3)
  BY <1>1, <1>7, SectionLonger
<1>9. Len(r) \in Nat /\ Len(r) >= Len(f4)
  <2>1. CASE WithInfo
    <3>1. r = AddBlock(f4, HeaderOf(5), d) /\ Sequence(d)
      BY <1>2, <2>1 DEF d
    <3>2. /\ Len(d) \in Nat /\ Len(r) \in Nat /\ Len(r) >= Len(f4) + 4 + Len(d)
      BY <1>8, <3>1, BlockLonger
    <3> QED BY <1>8, <3>2, SMT
  <2>2. CASE ~WithInfo
    BY <1>2, <1>8, <2>2, SMT
  <2> QED BY <2>1, <2>2
<1>10. Len(f1) < WordMod /\ Len(f2) < WordMod /\ Len(f3) < WordMod /\ Len(f4) < WordMod
  <2>1. WordMod \in Nat /\ Len(r) < WordMod
    BY BytesOfWord
  <2> QED BY <1>5, <1>6, <1>7, <1>8, <1>9, <2>1, SMT
<1>11. /\ 1 \in 1 .. 4 /\ 2 \in 1 .. 4 /\ 3 \in 1 .. 4 /\ 4 \in 1 .. 4
       /\ 1 - 1 = 0 /\ 2 - 1 = 1 /\ 3 - 1 = 2 /\ 4 - 1 = 3
  BY SMT
<1>12. FileHolds(f1, data, 1)
  BY <1>1, <1>3, <1>10, <1>11, SectionHolds
<1>13. FileHolds(f2, data, 2)
  BY <1>1, <1>10, <1>11, <1>12, SectionHolds
<1>14. FileHolds(f3, data, 3)
  BY <1>1, <1>10, <1>11, <1>13, SectionHolds
<1>15. FileHolds(f4, data, 4)
  BY <1>1, <1>10, <1>11, <1>14, SectionHolds
<1>16. /\ Len(f4) >= 24 /\ LEValue(f4, HeaderOf(5) + 1) = 0
       /\ \A i \in 1 .. 4 :
            IF SectionOrder[i] \in DOMAIN data
            THEN InFile(f4, HeaderOf(i), data[SectionOrder[i]])
            ELSE LEValue(f4, HeaderOf(i) + 1) = 0
  <2>1. \A i \in 1 .. 4 : i <= 4
    BY SMT
  <2> QED BY <1>15, <2>1 DEF FileHolds
<1>17. Len(r) >= 24
  BY <1>8, <1>9, <1>16, SMT
<1>18. CASE ~WithInfo
  <2>1. r = f4
    BY <1>2, <1>18
  <2> QED BY <1>9, <1>16, <1>17, <1>18, <2>1 DEF WithInfo
<1>19. CASE WithInfo
  <2>1. r = AddBlock(f4, HeaderOf(5), d) /\ Sequence(d)
    BY <1>2, <1>19 DEF d
  <2>2. Len(f4) >= HeaderSize /\ 5 \in 1 .. 5
    BY <1>16, Headers, SMT
  <2>3. InFile(r, HeaderOf(5), d)
    BY <1>8, <2>1, <2>2, BlockPut
  <2>4. ASSUME NEW i \in 1 .. 4
        PROVE  IF SectionOrder[i] \in DOMAIN data
               THEN InFile(r, HeaderOf(i), data[SectionOrder[i]])
               ELSE LEValue(r, HeaderOf(i) + 1) = 0
    <3>1. i \in 1 .. 5 /\ i # 5
      BY SMT
    <3>2. /\ LEValue(r, HeaderOf(i) + 1) = LEValue(f4, HeaderOf(i) + 1)
          /\ \A b : Sequence(b) /\ InFile(f4, HeaderOf(i), b) => InFile(r, HeaderOf(i), b)
      BY <1>8, <2>1, <2>2, <3>1, BlockStays
    <3>3. CASE SectionOrder[i] \in DOMAIN data
      <4>1. PICK b : b = data[SectionOrder[i]]
        OBVIOUS
      <4>2. Sequence(b) /\ InFile(f4, HeaderOf(i), b)
        BY <1>16, <3>3, <4>1
      <4>3. InFile(r, HeaderOf(i), b)
        BY <3>2, <4>2
      <4> QED BY <3>3, <4>1, <4>3
    <3>4. CASE SectionOrder[i] \notin DOMAIN data
      BY <1>16, <3>2, <3>4
    <3> QED BY <3>3, <3>4
  <2> QED BY <1>9, <1>17, <1>19, <2>3, <2>4 DEF WithInfo, d
<1> QED BY <1>18, <1>19

LEMMA SectionNames ==
  /\ DOMAIN SectionOrder = 1 .. 4
  /\ \A i \in 1 .. 4 : SectionOrder[i] \in MEM_SEC_DIRECTIVES
  /\ \A s \in MEM_SEC_DIRECTIVES : \E i \in 1 .. 4 : SectionOrder[i] = s
  /\ \A i, j \in 1 .. 4 : SectionOrder[i] = SectionOrder[j] => i = j
<1>1. /\ DOMAIN SectionOrder = 1 .. 4
      /\ SectionOrder[1] = "text" /\ SectionOrder[2] = "data"
      /\ SectionOrder[3] = "ktext" /\ SectionOrder[4] = "kdata"
  BY SMT DEF SectionOrder
<1>2. \A i \in 1 .. 4 : i = 1 \/ i = 2 \/ i = 3 \/ i = 4
  BY SMT
<1>3. 1 \in 1 .. 4 /\ 2 \in 1 .. 4 /\ 3 \in 1 .. 4 /\ 4 \in 1 .. 4
  BY SMT
<1> QED BY <1>1, <1>2, <1>3 DEF MEM_SEC_DIRECTIVES

(* What loadLayout finds: the sections, and the block of the debug         *)
(* information.                                                            *)
LEMMA SectionsLoaded ==
  ASSUME NEW data, data = [s \in DOMAIN data |-> data[s]],
         DOMAIN data \subseteq MEM_SEC_DIRECTIVES,
         \A s \in DOMAIN data : Sequence(data[s]),
         NEW info, NEW debug, Sequence(DebugBytes(info)),
         NEW r, r = SaveLayout(data, info, debug), Len(r) < WordMod
  PROVE  /\ LoadLayout(r).data = data
         /\ LoadLayout(r).info = IF debug /\ DOMAIN info # {}
                                 THEN DebugInfoOf(DebugBytes(info)) ELSE <<>>
<1> DEFINE found == {k \in DOMAIN SectionOrder : HasBlock(r, HeaderOf(k))}
           Nr(s) == CHOOSE k \in DOMAIN SectionOrder : SectionOrder[k] = s
           read  == [s \in {SectionOrder[k] : k \in found} |-> BlockAt(r, HeaderOf(Nr(s)))]
<1>1. /\ \A i \in 1 .. 4 :
           IF SectionOrder[i] \in DOMAIN data
           THEN InFile(r, HeaderOf(i), data[SectionOrder[i]])
           ELSE LEValue(r, HeaderOf(i) + 1) = 0
      /\ IF debug /\ DOMAIN info # {}
         THEN InFile(r, HeaderOf(5), DebugBytes(info))
         ELSE LEValue(r, HeaderOf(5) + 1) = 0
  BY LayoutHeld
<1>2. \A h : LEValue(r, h + 1) = 0 => ~HasBlock(r, h)
  BY SMT DEF HasBlock
<1>3. ASSUME NEW i \in 1 .. 4
      PROVE  /\ HasBlock(r, HeaderOf(i)) <=> SectionOrder[i] \in DOMAIN data
             /\ SectionOrder[i] \in DOMAIN data
                  => BlockAt(r, HeaderOf(i)) = data[SectionOrder[i]]
  <2>1. CASE SectionOrder[i] \in DOMAIN data
    <3>1. PICK b, h : b = data[SectionOrder[i]] /\ h = HeaderOf(i)
      OBVIOUS
    <3>2. Sequence(b) /\ InFile(r, h, b)
      BY <1>1, <2>1, <3>1
    <3>3. HasBlock(r, h) /\ BlockAt(r, h) = b
      BY <3>2, BlockRead
    <3> QED BY <2>1, <3>1, <3>3
  <2>2. CASE SectionOrder[i] \notin DOMAIN data
    BY <1>1, <1>2, <2>2
  <2> QED BY <2>1, <2>2
<1>4. {SectionOrder[k] : k \in found} = DOMAIN data
  <2>1. \A s \in DOMAIN data : \E k \in found : SectionOrder[k] = s
    BY <1>3, SectionNames
  <2>2. \A k \in found : SectionOrder[k] \in DOMAIN data
    BY <1>3, SectionNames
  <2> QED BY <2>1, <2>2
<1>5. \A s \in DOMAIN data : BlockAt(r, HeaderOf(Nr(s))) = data[s]
  <2> TAKE s \in DOMAIN data
  <2>1. Nr(s) \in 1 .. 4 /\ SectionOrder[Nr(s)] = s
    BY SectionNames
  <2> HIDE DEF Nr
  <2> QED BY <1>3, <2>1
<1>6. read = data
  <2>1. read = [s \in DOMAIN data |-> BlockAt(r, HeaderOf(Nr(s)))]
    BY <1>4
  <2>2. [s \in DOMAIN data |-> BlockAt(r, HeaderOf(Nr(s)))] = [s \in DOMAIN data |-> data[s]]
    BY <1>5
  <2> QED BY <2>1, <2>2
<1>7. LoadLayout(r) = [data |-> read,
                       info |-> IF HasBlock(r, HeaderOf(5))
                                THEN DebugInfoOf(BlockAt(r, HeaderOf(5))) ELSE <<>>]
  BY DEF LoadLayout
<1>8. LoadLayout(r).data = data
  BY <1>6, <1>7
<1>9. LoadLayout(r).info = IF HasBlock(r, HeaderOf(5))
                           THEN DebugInfoOf(BlockAt(r, HeaderOf(5))) ELSE <<>>
  BY <1>7
<1>10. CASE debug /\ DOMAIN info # {}
  <2>1. PICK b, h : b = DebugBytes(info) /\ h = HeaderOf(5)
    OBVIOUS
  <2>2. Sequence(b) /\ InFile(r, h, b)
    BY <1>1, <1>10, <2>1
  <2>3. HasBlock(r, h) /\ BlockAt(r, h) = b
    BY <2>2, BlockRead
  <2> QED BY <1>8, <1>9, <1>10, <2>1, <2>3
<1>11. CASE ~(debug /\ DOMAIN info # {})
  <2>1. ~HasBlock(r, HeaderOf(5))
    BY <1>1, <1>2, <1>11
  <2> QED BY <1>8, <1>9, <1>11, <2>1
<1> QED BY <1>10, <1>11

-----------------------------------------------------------------------------
(* The addresses of debug information, in order. *)

(* How many of the addresses are below one. *)
AddressesBelow(D, a) == Cardinality({b \in D : b < a})

LEMMA AddressesCounted ==
  ASSUME NEW D, D \subseteq Nat, IsFiniteSet(D)
  PROVE  /\ Cardinality(D) \in Nat
         /\ \A n \in 1 .. Cardinality(D) : \E a \in D : AddressesBelow(D, a) = n - 1
         /\ \A a \in D : \E n \in 1 .. Cardinality(D) : AddressesBelow(D, a) = n - 1
         /\ \A a, c \in D : AddressesBelow(D, a) = AddressesBelow(D, c) => a = c
<1> DEFINE Below(a) == {b \in D : b < a}
           N == Cardinality(D)
<1>1. N \in Nat
  BY FS_CardinalityType
<1>2. ASSUME NEW a \in D
      PROVE  /\ IsFiniteSet(Below(a)) /\ Cardinality(Below(a)) \in Nat
             /\ Cardinality(Below(a) \union {a}) = Cardinality(Below(a)) + 1
             /\ Cardinality(Below(a)) + 1 <= N
  <2>1. Below(a) \in SUBSET D /\ Below(a) \union {a} \in SUBSET D
    OBVIOUS
  <2>2. a \notin Below(a)
    <3>1. a \in Nat
      OBVIOUS
    <3>2. ~(a < a)
      BY <3>1, SMT
    <3> QED BY <3>2
  <2>3. IsFiniteSet(Below(a))
    BY <2>1, FS_Subset
  <2>4. PICK U : U = Below(a)
    OBVIOUS
  <2>5. Cardinality(U \union {a}) = Cardinality(U) + 1
    BY <2>2, <2>3, <2>4, FS_AddElement
  <2>6. Cardinality(U) \in Nat
    BY <2>3, <2>4, FS_CardinalityType
  <2>7. Cardinality(U \union {a}) <= N
    BY <2>1, <2>4, FS_Subset
  <2> QED BY <2>3, <2>4, <2>5, <2>6, <2>7
<1>3. ASSUME NEW a \in D, NEW c \in D, a < c
      PROVE  Cardinality(Below(a)) < Cardinality(Below(c))
  <2>1. \A b \in D : b < a => b < c
    <3> TAKE b \in D
    <3>1. a \in Nat /\ b \in Nat /\ c \in Nat
      OBVIOUS
    <3> QED BY <1>3, <3>1, SMT
  <2>2. Below(a) \union {a} \in SUBSET Below(c)
    BY <1>3, <2>1
  <2>3. PICK x, y : x = Cardinality(Below(a)) /\ y = Cardinality(Below(c))
    OBVIOUS
  <2>4. Cardinality(Below(a) \union {a}) <= y
    BY <1>2, <2>2, <2>3, FS_Subset
  <2>5. x \in Nat /\ y \in Nat /\ x + 1 <= y
    BY <1>2, <2>3, <2>4
  <2>6. x < y
    BY <2>5, SMT
  <2> QED BY <2>3, <2>6
<1> HIDE DEF Below, N
<1>4. ASSUME NEW a \in D, NEW c \in D, Cardinality(Below(a)) = Cardinality(Below(c))
      PROVE  a = c
  <2>1. a \in Nat /\ c \in Nat
    OBVIOUS
  <2>2. a < c \/ c < a \/ a = c
    BY <2>1, SMT
  <2>3. Cardinality(Below(a)) \in Nat
    BY <1>2
  <2>4. ~(Cardinality(Below(a)) < Cardinality(Below(a)))
    BY <2>3, SMT
  <2> QED BY <1>3, <1>4, <2>2, <2>4
<1>5. PICK rank : rank = [a \in D |-> Cardinality(Below(a)) + 1]
  OBVIOUS
<1>6. ASSUME NEW a \in D
      PROVE  /\ rank[a] \in 1 .. N /\ Cardinality(Below(a)) = rank[a] - 1
  <2>1. PICK x : x = Cardinality(Below(a))
    OBVIOUS
  <2>2. x \in Nat /\ x + 1 <= N
    BY <1>2, <2>1
  <2>3. x + 1 \in 1 .. N /\ x = (x + 1) - 1
    BY <1>1, <2>2, SMT
  <2> QED BY <1>5, <2>1, <2>3
<1>7. rank \in Injection(D, 1 .. N)
  <2>1. rank \in [D -> 1 .. N]
    BY <1>5, <1>6
  <2>2. DOMAIN rank = D
    BY <1>5
  <2>3. ASSUME NEW a \in D, NEW c \in D, rank[a] = rank[c] PROVE a = c
    <3>1. Cardinality(Below(a)) = Cardinality(Below(c))
      BY <1>6, <2>3
    <3> QED BY <1>4, <3>1
  <2>4. \A a, c \in DOMAIN rank : rank[a] = rank[c] => a = c
    BY <2>2, <2>3
  <2>5. IsInjective(rank)
    BY <2>4, Zenon DEF IsInjective
  <2> QED BY <2>1, <2>5, Zenon DEF Injection
<1>8. IsFiniteSet(1 .. N) /\ Cardinality(1 .. N) = N
  <2>1. 1 \in Int /\ N \in Int
    BY <1>1
  <2>2. IsFiniteSet(1 .. N) /\ Cardinality(1 .. N) = IF 1 > N THEN 0 ELSE N - 1 + 1
    BY <2>1, FS_Interval
  <2> QED BY <1>1, <2>2, SMT
<1>9. rank \in Surjection(D, 1 .. N)
  <2>1. Cardinality(D) = Cardinality(1 .. N)
    BY <1>8 DEF N
  <2> QED BY <1>7, <1>8, <2>1, FS_Injection
<1>10. \A n \in 1 .. N : \E a \in D : rank[a] = n
  BY <1>9 DEF Surjection
<1>11. \A n \in 1 .. N : \E a \in D : Cardinality(Below(a)) = n - 1
  BY <1>6, <1>10
<1>12. \A a \in D : \E n \in 1 .. N : Cardinality(Below(a)) = n - 1
  BY <1>6
<1>13. \A a : AddressesBelow(D, a) = Cardinality(Below(a))
  BY DEF AddressesBelow, Below
<1> QED BY <1>1, <1>4, <1>11, <1>12, <1>13 DEF N

LEMMA AddressesInOrder ==
  ASSUME NEW info, DOMAIN info \subseteq Nat, IsFiniteSet(DOMAIN info)
  PROVE  /\ Cardinality(DOMAIN info) \in Nat
         /\ \A n \in 1 .. Cardinality(DOMAIN info) : NthAddress(info, n) \in DOMAIN info
         /\ {NthAddress(info, n) : n \in 1 .. Cardinality(DOMAIN info)} = DOMAIN info
<1>1. PICK D : D = DOMAIN info
  OBVIOUS
<1>2. PICK N : N = Cardinality(D)
  OBVIOUS
<1>3. /\ N \in Nat
      /\ \A n \in 1 .. N : \E a \in D : AddressesBelow(D, a) = n - 1
      /\ \A a \in D : \E n \in 1 .. N : AddressesBelow(D, a) = n - 1
      /\ \A a, c \in D : AddressesBelow(D, a) = AddressesBelow(D, c) => a = c
  <2>1. D \subseteq Nat /\ IsFiniteSet(D)
    BY <1>1
  <2> QED BY <1>2, <2>1, AddressesCounted
<1>4. \A n : NthAddress(info, n) = CHOOSE a \in D : AddressesBelow(D, a) = n - 1
  BY <1>1 DEF NthAddress, AddressesBelow
<1>5. \A n \in 1 .. N : NthAddress(info, n) \in D /\ AddressesBelow(D, NthAddress(info, n)) = n - 1
  BY <1>3, <1>4
<1>6. \A a \in D : \E n \in 1 .. N : NthAddress(info, n) = a
  BY <1>3, <1>5
<1>7. {NthAddress(info, n) : n \in 1 .. N} = D
  BY <1>5, <1>6
<1>8. N \in Nat /\ \A n \in 1 .. N : NthAddress(info, n) \in D
  BY <1>3, <1>5
<1> QED BY <1>1, <1>2, <1>7, <1>8

-----------------------------------------------------------------------------
(* A record of the debug information. *)

LEMMA BigFour ==
  ASSUME NEW v
  PROVE  /\ Sequence(BEBytes(v)) /\ Len(BEBytes(v)) = 4
         /\ BEBytes(v)[1] = LEBytes(v)[4] /\ BEBytes(v)[2] = LEBytes(v)[3]
         /\ BEBytes(v)[3] = LEBytes(v)[2] /\ BEBytes(v)[4] = LEBytes(v)[1]
<1>1. PICK s : s = LEBytes(v)
  OBVIOUS
<1>2. Len(s) = 4
  BY <1>1, FourLong
<1>3. PICK r : r = [i \in 1 .. 4 |-> s[(4 - i) + 1]]
  OBVIOUS
<1>4. BEBytes(v) = r
  BY <1>1, <1>2, <1>3 DEF BEBytes, Reverse
<1>5. /\ 4 \in Nat /\ 1 \in 1 .. 4 /\ 2 \in 1 .. 4 /\ 3 \in 1 .. 4 /\ 4 \in 1 .. 4
      /\ (4 - 1) + 1 = 4 /\ (4 - 2) + 1 = 3 /\ (4 - 3) + 1 = 2 /\ (4 - 4) + 1 = 1
  BY SMT
<1>6. r[1] = s[4] /\ r[2] = s[3] /\ r[3] = s[2] /\ r[4] = s[1]
  BY <1>3, <1>5
<1>7. r = [i \in 1 .. 4 |-> r[i]]
  BY <1>3
<1>8. Sequence(r) /\ Len(r) = 4
  BY <1>5, <1>7, FunctionIsSequence
<1> QED BY <1>1, <1>4, <1>6, <1>8

LEMMA BigValue ==
  ASSUME NEW f, NEW i \in Nat, NEW v \in Nat, v < WordMod,
         \A k \in 1 .. 4 : f[i + k] = BEBytes(v)[k]
  PROVE  BEValue(f, i + 1) = v
<1>1. /\ i + 1 + 1 = i + 2 /\ i + 1 + 2 = i + 3 /\ i + 1 + 3 = i + 4
      /\ 1 \in 1 .. 4 /\ 2 \in 1 .. 4 /\ 3 \in 1 .. 4 /\ 4 \in 1 .. 4
  BY SMT
<1>2. BEValue(f, i + 1) = OfBytes(f[i + 4], f[i + 3], f[i + 2], f[i + 1])
  BY <1>1 DEF BEValue
<1>3. /\ f[i + 1] = BEBytes(v)[1] /\ f[i + 2] = BEBytes(v)[2]
      /\ f[i + 3] = BEBytes(v)[3] /\ f[i + 4] = BEBytes(v)[4]
  BY <1>1
<1> QED BY <1>2, <1>3, BigFour, FourBytes

LEMMA CharsFacts ==
  ASSUME NEW s
  PROVE  /\ Sequence(Chars(s)) /\ Len(Chars(s)) \in Nat /\ Len(Chars(s)) >= 1
         /\ Chars(s)[1] = s
<1>1. CASE s = ""
  <2>1. PICK c : c = <<s>>
    OBVIOUS
  <2>2. c \in Seq({s}) /\ Len(c) = 1 /\ c[1] = s
    BY <2>1, SMT
  <2>3. Chars(s) = c
    BY <1>1, <2>1 DEF Chars
  <2> QED BY <2>2, <2>3, SequenceOf, SMT
<1>2. CASE s # ""
  <2>1. PICK c, z : z = "" /\ c = <<s, z>>
    OBVIOUS
  <2>2. c \in Seq({s, z}) /\ Len(c) = 2 /\ c[1] = s
    <3>1. s \in {s, z} /\ z \in {s, z}
      OBVIOUS
    <3>2. PICK T : T = {s, z}
      OBVIOUS
    <3>3. s \in T /\ z \in T
      BY <3>1, <3>2
    <3>4. <<s, z>> \in Seq(T)
      BY <3>3
    <3>5. Len(<<s, z>>) = 2 /\ <<s, z>>[1] = s
      BY SMT
    <3> QED BY <2>1, <3>2, <3>4, <3>5
  <2>3. Chars(s) = c
    BY <1>2, <2>1 DEF Chars
  <2>4. Sequence(c)
    BY <2>2, SequenceOf
  <2>5. 2 \in Nat /\ 2 >= 1
    BY SMT
  <2> QED BY <2>2, <2>3, <2>4, <2>5
<1> QED BY <1>1, <1>2

InfoBytes(a, x) ==
  BEBytes(a) \o Chars(x.file) \o BEBytes(x.src) \o Chars(x.text) \o Chars(x.label)
InfoLength(x) == ((8 + Len(Chars(x.file))) + Len(Chars(x.text))) + Len(Chars(x.label))

(* Where a record has what it says; p and q are the lengths of two strings. *)
InfoParts(e, a, x, p, q) ==
  /\ \A k \in 1 .. 4 : e[k] = BEBytes(a)[k]
  /\ e[5] = x.file
  /\ \A k \in 1 .. 4 : e[(4 + p) + k] = BEBytes(x.src)[k]
  /\ e[(8 + p) + 1] = x.text
  /\ e[((8 + p) + q) + 1] = x.label

LEMMA InfoShape ==
  ASSUME NEW a, NEW x
  PROVE  /\ Sequence(InfoBytes(a, x)) /\ Len(InfoBytes(a, x)) = InfoLength(x)
         /\ InfoLength(x) \in Nat /\ InfoLength(x) >= 11
         /\ InfoParts(InfoBytes(a, x), a, x, Len(Chars(x.file)), Len(Chars(x.text)))
<1>0. PICK p, q : p = Len(Chars(x.file)) /\ q = Len(Chars(x.text))
  OBVIOUS
<1>1. PICK s1, s2, s3, s4, s5 :
        /\ s1 = BEBytes(a) /\ s2 = Chars(x.file) /\ s3 = BEBytes(x.src)
        /\ s4 = Chars(x.text) /\ s5 = Chars(x.label)
  OBVIOUS
<1>2. PICK t : t = Len(s5)
  OBVIOUS
<1>3. /\ Sequence(s1) /\ Sequence(s2) /\ Sequence(s3) /\ Sequence(s4) /\ Sequence(s5)
      /\ Len(s1) = 4 /\ Len(s2) = p /\ Len(s3) = 4 /\ Len(s4) = q /\ Len(s5) = t
  BY <1>0, <1>1, <1>2, BigFour, CharsFacts
<1>4. /\ p \in Nat /\ q \in Nat /\ t \in Nat /\ p >= 1 /\ q >= 1 /\ t >= 1
      /\ s2[1] = x.file /\ s4[1] = x.text /\ s5[1] = x.label
  BY <1>0, <1>1, <1>2, CharsFacts
<1>5. PICK r2, r3, r4, r5 : r2 = s1 \o s2 /\ r3 = r2 \o s3 /\ r4 = r3 \o s4 /\ r5 = r4 \o s5
  OBVIOUS
<1>6. r5 = InfoBytes(a, x)
  BY <1>1, <1>5 DEF InfoBytes
<1>7. /\ Sequence(r2) /\ Len(r2) = 4 + p
      /\ \A k \in 1 .. 4 : r2[k] = s1[k]
      /\ \A k \in 1 .. p : r2[4 + k] = s2[k]
  <2>1. /\ Sequence(r2) /\ Len(r2) = Len(s1) + Len(s2)
        /\ \A k \in 1 .. Len(s1) : r2[k] = s1[k]
        /\ \A k \in 1 .. Len(s2) : r2[Len(s1) + k] = s2[k]
    <3>1. Sequence(s1) /\ Sequence(s2)
      BY <1>3
    <3>2. r2 = s1 \o s2
      BY <1>5
    <3> QED BY <3>1, <3>2, Joined
  <2> QED BY <1>3, <2>1
<1>8. /\ Sequence(r3) /\ Len(r3) = 8 + p
      /\ \A k \in 1 .. 4 + p : r3[k] = r2[k]
      /\ \A k \in 1 .. 4 : r3[(4 + p) + k] = s3[k]
  <2>1. /\ Sequence(r3) /\ Len(r3) = Len(r2) + Len(s3)
        /\ \A k \in 1 .. Len(r2) : r3[k] = r2[k]
        /\ \A k \in 1 .. Len(s3) : r3[Len(r2) + k] = s3[k]
    <3>1. Sequence(r2) /\ Sequence(s3)
      BY <1>3, <1>7
    <3>2. r3 = r2 \o s3
      BY <1>5
    <3> QED BY <3>1, <3>2, Joined
  <2>2. (4 + p) + 4 = 8 + p
    BY <1>4, SMT
  <2> QED BY <1>3, <1>7, <2>1, <2>2
<1>9. /\ Sequence(r4) /\ Len(r4) = (8 + p) + q
      /\ \A k \in 1 .. 8 + p : r4[k] = r3[k]
      /\ \A k \in 1 .. q : r4[(8 + p) + k] = s4[k]
  <2>1. /\ Sequence(r4) /\ Len(r4) = Len(r3) + Len(s4)
        /\ \A k \in 1 .. Len(r3) : r4[k] = r3[k]
        /\ \A k \in 1 .. Len(s4) : r4[Len(r3) + k] = s4[k]
    <3>1. Sequence(r3) /\ Sequence(s4)
      BY <1>3, <1>8
    <3>2. r4 = r3 \o s4
      BY <1>5
    <3> QED BY <3>1, <3>2, Joined
  <2> QED BY <1>3, <1>8, <2>1
<1>10. /\ Sequence(r5) /\ Len(r5) = ((8 + p) + q) + t
       /\ \A k \in 1 .. (8 + p) + q : r5[k] = r4[k]
       /\ \A k \in 1 .. t : r5[((8 + p) + q) + k] = s5[k]
  <2>1. /\ Sequence(r5) /\ Len(r5) = Len(r4) + Len(s5)
        /\ \A k \in 1 .. Len(r4) : r5[k] = r4[k]
        /\ \A k \in 1 .. Len(s5) : r5[Len(r4) + k] = s5[k]
    <3>1. Sequence(r4) /\ Sequence(s5)
      BY <1>3, <1>9
    <3>2. r5 = r4 \o s5
      BY <1>5
    <3> QED BY <3>1, <3>2, Joined
  <2> QED BY <1>3, <1>9, <2>1
<1>11. /\ \A k \in 1 .. 4 : k \in 1 .. 4 + p /\ k \in 1 .. 8 + p /\ k \in 1 .. (8 + p) + q
       /\ 1 \in 1 .. p /\ 1 \in 1 .. q /\ 1 \in 1 .. t /\ 4 + 1 = 5
       /\ 5 \in 1 .. 4 + p /\ 5 \in 1 .. 8 + p /\ 5 \in 1 .. (8 + p) + q
       /\ \A k \in 1 .. 4 : (4 + p) + k \in 1 .. 8 + p /\ (4 + p) + k \in 1 .. (8 + p) + q
       /\ (8 + p) + 1 \in 1 .. (8 + p) + q
       /\ ((8 + p) + q) + t \in Nat /\ ((8 + p) + q) + t >= 11
  BY <1>4, SMT
<1>12. \A k \in 1 .. 4 : r5[k] = s1[k]
  <2> TAKE k \in 1 .. 4
  <2>1. k \in 1 .. 4 + p /\ k \in 1 .. 8 + p /\ k \in 1 .. (8 + p) + q
    BY <1>11
  <2>2. r2[k] = s1[k] /\ r3[k] = r2[k]
    BY <1>7, <1>8, <2>1
  <2>3. r5[k] = r4[k] /\ r4[k] = r3[k]
    BY <1>9, <1>10, <2>1
  <2> QED BY <2>2, <2>3
<1>13. r5[5] = x.file
  <2>1. r2[5] = s2[1]
    BY <1>7, <1>11
  <2>2. r5[5] = r2[5]
    BY <1>8, <1>9, <1>10, <1>11
  <2> QED BY <1>4, <2>1, <2>2
<1>14. \A k \in 1 .. 4 : r5[(4 + p) + k] = s3[k]
  BY <1>8, <1>9, <1>10, <1>11
<1>15. r5[(8 + p) + 1] = x.text
  BY <1>4, <1>9, <1>10, <1>11
<1>16. r5[((8 + p) + q) + 1] = x.label
  BY <1>4, <1>10, <1>11
<1>17. InfoLength(x) = ((8 + p) + q) + t
  BY <1>0, <1>1, <1>2 DEF InfoLength
<1>18. InfoParts(r5, a, x, p, q)
  BY <1>1, <1>12, <1>13, <1>14, <1>15, <1>16 DEF InfoParts
<1> QED BY <1>0, <1>6, <1>10, <1>11, <1>17, <1>18

(* The map with one more record. *)
InfoFiled(info, a, x) ==
  [b \in {a} \union DOMAIN info |->
     IF b = a THEN [file |-> x.file, src |-> x.src, text |-> x.text, label |-> x.label]
     ELSE info[b]]

(* Where the record of an address is. *)
InfoAt(f, m, a, x) ==
  /\ m \in Nat /\ a \in Nat /\ a < WordMod /\ x.src \in Nat /\ x.src < WordMod
  /\ \A k \in 1 .. InfoLength(x) : f[m + k] = InfoBytes(a, x)[k]

(* A turn of the loop reads the record at its position. *)
LEMMA InfoRead ==
  ASSUME NEW f, NEW m, NEW r, NEW a, NEW x, InfoAt(f, m, a, x), r.at = m + 1
  PROVE  ReadInfo(f, r)
           = [at |-> (m + InfoLength(x)) + 1, info |-> InfoFiled(r.info, a, x)]
<1>0. /\ m \in Nat /\ a \in Nat /\ a < WordMod /\ x.src \in Nat /\ x.src < WordMod
      /\ \A k \in 1 .. InfoLength(x) : f[m + k] = InfoBytes(a, x)[k]
  BY DEF InfoAt
<1>1. PICK p, q, t : p = Len(Chars(x.file)) /\ q = Len(Chars(x.text)) /\ t = Len(Chars(x.label))
  OBVIOUS
<1>2. PICK l : l = InfoLength(x)
  OBVIOUS
<1>3. PICK e : e = InfoBytes(a, x)
  OBVIOUS
<1>4. /\ p \in Nat /\ q \in Nat
      /\ \A k \in 1 .. 4 : e[k] = BEBytes(a)[k]
      /\ e[5] = x.file
      /\ \A k \in 1 .. 4 : e[(4 + p) + k] = BEBytes(x.src)[k]
      /\ e[(8 + p) + 1] = x.text
      /\ e[((8 + p) + q) + 1] = x.label
  <2>1. InfoParts(e, a, x, p, q)
    BY <1>1, <1>3, InfoShape
  <2>2. p \in Nat /\ q \in Nat
    BY <1>1, CharsFacts
  <2> QED BY <2>1, <2>2 DEF InfoParts
<1>5. t \in Nat /\ p >= 1 /\ q >= 1 /\ t >= 1
  BY <1>1, CharsFacts
<1>6. l = ((8 + p) + q) + t
  BY <1>1, <1>2 DEF InfoLength
<1>7. \A k \in 1 .. l : f[m + k] = e[k]
  BY <1>0, <1>2, <1>3
<1>8. /\ \A k \in 1 .. 4 : k \in 1 .. l
      /\ 5 \in 1 .. l /\ (8 + p) + 1 \in 1 .. l /\ ((8 + p) + q) + 1 \in 1 .. l
      /\ \A k \in 1 .. 4 : (4 + p) + k \in 1 .. l /\ (m + (4 + p)) + k = m + ((4 + p) + k)
      /\ m + (4 + p) \in Nat
  BY <1>0, <1>4, <1>5, <1>6, SMT
<1>9. BEValue(f, m + 1) = a
  <2>1. \A k \in 1 .. 4 : f[m + k] = BEBytes(a)[k]
    BY <1>4, <1>7, <1>8
  <2> QED BY <1>0, <2>1, BigValue
<1>10. BEValue(f, (m + (4 + p)) + 1) = x.src
  <2>1. \A k \in 1 .. 4 : f[(m + (4 + p)) + k] = BEBytes(x.src)[k]
    BY <1>4, <1>7, <1>8
  <2>2. PICK v : v = x.src
    OBVIOUS
  <2>3. v \in Nat /\ v < WordMod /\ \A k \in 1 .. 4 : f[(m + (4 + p)) + k] = BEBytes(v)[k]
    BY <1>0, <2>1, <2>2
  <2>4. PICK i \in Nat : i = m + (4 + p)
    BY <1>8
  <2>5. BEValue(f, i + 1) = v
    BY <2>3, <2>4, BigValue
  <2> QED BY <2>2, <2>4, <2>5
<1>11. /\ f[m + 5] = x.file /\ f[m + ((8 + p) + 1)] = x.text
       /\ f[m + (((8 + p) + q) + 1)] = x.label
  BY <1>4, <1>7, <1>8
<1>12. /\ (m + 1) + 4 = m + 5
       /\ (m + 5) + p = (m + (4 + p)) + 1
       /\ ((m + (4 + p)) + 1) + 4 = m + ((8 + p) + 1)
       /\ (m + ((8 + p) + 1)) + q = m + (((8 + p) + q) + 1)
       /\ (m + (((8 + p) + q) + 1)) + t = (m + l) + 1
  BY <1>0, <1>4, <1>5, <1>6, SMT
<1>13. PICK src, txt, label : /\ src = (m + (4 + p)) + 1 /\ txt = m + ((8 + p) + 1)
                               /\ label = m + (((8 + p) + q) + 1)
  OBVIOUS
<1>14. r.at + 4 = m + 5
  BY <1>12
<1>15. EndOfChars(f, r.at + 4) = src
  BY <1>1, <1>11, <1>12, <1>13, <1>14 DEF EndOfChars, CharsAt
<1>16. src + 4 = txt
  BY <1>12, <1>13
<1>17. EndOfChars(f, src + 4) = label
  BY <1>1, <1>11, <1>12, <1>13, <1>16 DEF EndOfChars, CharsAt
<1>18. EndOfChars(f, label) = (m + l) + 1
  BY <1>1, <1>11, <1>12, <1>13 DEF EndOfChars, CharsAt
<1>19. /\ CharsAt(f, r.at + 4) = x.file /\ CharsAt(f, src + 4) = x.text
       /\ CharsAt(f, label) = x.label
  BY <1>11, <1>13, <1>14, <1>16 DEF CharsAt
<1>20. BEValue(f, r.at) = a /\ BEValue(f, src) = x.src
  BY <1>9, <1>10, <1>13
<1> QED BY <1>2, <1>15, <1>17, <1>18, <1>19, <1>20 DEF ReadInfo, InfoFiled

(* The records are one after the other. *)
LEMMA InfoBlocks ==
  ASSUME NEW info, DOMAIN info \subseteq Nat, IsFiniteSet(DOMAIN info)
  PROVE  /\ Sequence(DebugBytes(info))
         /\ \E p \in [0 .. Cardinality(DOMAIN info) -> Nat] :
              /\ p[0] = 0 /\ p[Cardinality(DOMAIN info)] = Len(DebugBytes(info))
              /\ \A i \in 1 .. Cardinality(DOMAIN info) :
                   /\ p[i] = p[i - 1] + InfoLength(info[NthAddress(info, i)])
                   /\ p[i] <= p[Cardinality(DOMAIN info)]
                   /\ \A k \in 1 .. InfoLength(info[NthAddress(info, i)]) :
                        DebugBytes(info)[p[i - 1] + k]
                          = InfoBytes(NthAddress(info, i), info[NthAddress(info, i)])[k]
<1>1. PICK n \in Nat : n = Cardinality(DOMAIN info)
  BY AddressesInOrder
<1>2. PICK ss : ss = [k \in 1 .. n |-> InfoBytes(NthAddress(info, k), info[NthAddress(info, k)])]
  OBVIOUS
<1>3. DebugBytes(info) = FlattenSeq(ss)
  BY <1>1, <1>2 DEF DebugBytes, InfoBytes
<1>4. ASSUME NEW k \in 1 .. n
      PROVE  /\ ss[k] = InfoBytes(NthAddress(info, k), info[NthAddress(info, k)])
             /\ Sequence(ss[k]) /\ Len(ss[k]) = InfoLength(info[NthAddress(info, k)])
  <2>1. ss[k] = InfoBytes(NthAddress(info, k), info[NthAddress(info, k)])
    BY <1>2
  <2> QED BY <2>1, InfoShape
<1>5. Len(ss) = n /\ \E S : ss \in Seq(Seq(S))
  <2>1. ss = [k \in 1 .. n |-> ss[k]]
    BY <1>2
  <2> QED BY <1>4, <2>1, SequencesOf
<1>6. PICK S : ss \in Seq(Seq(S))
  BY <1>5
<1>7. FlattenSeq(ss) \in Seq(S) /\ \E p : JoinedAt(FlattenSeq(ss), ss, n, p)
  BY <1>5, <1>6, FlattenedAt
<1>8. PICK p : JoinedAt(FlattenSeq(ss), ss, n, p)
  BY <1>7
<1>9. ASSUME NEW i \in 1 .. n
      PROVE  /\ p[i] = p[i - 1] + InfoLength(info[NthAddress(info, i)]) /\ p[i] <= p[n]
             /\ \A k \in 1 .. InfoLength(info[NthAddress(info, i)]) :
                  DebugBytes(info)[p[i - 1] + k]
                    = InfoBytes(NthAddress(info, i), info[NthAddress(info, i)])[k]
  BY <1>3, <1>4, <1>8 DEF JoinedAt
<1>10. Sequence(DebugBytes(info))
  BY <1>3, <1>7, SequenceOf
<1>11. p \in [0 .. n -> Nat] /\ p[0] = 0 /\ p[n] = Len(DebugBytes(info))
  BY <1>3, <1>8 DEF JoinedAt
<1> QED BY <1>1, <1>9, <1>10, <1>11

-----------------------------------------------------------------------------
(* The loop that reads. *)

Turn(f, r) == IF r.at > Len(f) THEN r ELSE ReadInfo(f, r)

LEMMA Turns ==
  ASSUME NEW f, Len(f) \in Nat
  PROVE  \E turn : /\ turn[0] = [at |-> 1, info |-> <<>>]
                   /\ \A n \in 1 .. Len(f) : turn[n] = Turn(f, turn[n - 1])
                   /\ DebugInfoOf(f) = turn[Len(f)].info
<1> DEFINE first == [at |-> 1, info |-> <<>>]
           Rec(t, m) == \A n \in 0 .. m : t[n] = IF n = 0 THEN first ELSE Turn(f, t[n - 1])
           F == {m \in Nat : \E t : t = [n \in 0 .. m |-> t[n]] /\ Rec(t, m)}
           g == CHOOSE turn :
                  turn = [n \in 0 .. Len(f) |->
                            IF n = 0 THEN [at |-> 1, info |-> <<>>]
                            ELSE LET r == turn[n - 1]
                                 IN  IF r.at > Len(f) THEN r ELSE ReadInfo(f, r)]
<1>1. PICK l \in Nat : l = Len(f)
  OBVIOUS
<1> HIDE DEF first
<1>2. 0 \in F
  <2>1. PICK t : t = [n \in 0 .. 0 |-> first]
    OBVIOUS
  <2>2. 0 .. 0 = {0} /\ 0 \in Nat
    BY SMT
  <2>3. t = [n \in 0 .. 0 |-> t[n]] /\ Rec(t, 0)
    BY <2>1, <2>2
  <2> QED BY <2>2, <2>3
<1>3. ASSUME NEW m \in Nat, m \in F PROVE m + 1 \in F
  <2>1. PICK t : t = [n \in 0 .. m |-> t[n]] /\ Rec(t, m)
    BY <1>3
  <2>2. PICK h : h = [n \in 0 .. m + 1 |-> IF n <= m THEN t[n] ELSE Turn(f, t[m])]
    OBVIOUS
  <2>3. \A n \in 0 .. m + 1 : h[n] = IF n = 0 THEN first ELSE Turn(f, h[n - 1])
    <3> TAKE n \in 0 .. m + 1
    <3>1. CASE n <= m
      <4>1. /\ n \in 0 .. m /\ (n # 0 => n - 1 \in 0 .. m + 1 /\ n - 1 <= m)
        BY <3>1, SMT
      <4>2. h[n] = t[n] /\ (n # 0 => h[n - 1] = t[n - 1])
        BY <2>2, <3>1, <4>1
      <4>3. t[n] = IF n = 0 THEN first ELSE Turn(f, t[n - 1])
        BY <2>1, <4>1
      <4> QED BY <4>2, <4>3
    <3>2. CASE n = m + 1
      <4>1. n # 0 /\ n - 1 = m /\ ~(n <= m) /\ m \in 0 .. m + 1 /\ m <= m
        BY <3>2, SMT
      <4>2. h[n] = Turn(f, t[m]) /\ h[m] = t[m]
        BY <2>2, <4>1
      <4> QED BY <4>1, <4>2
    <3> QED BY <3>1, <3>2, SMT
  <2>4. h = [n \in 0 .. m + 1 |-> h[n]] /\ Rec(h, m + 1)
    BY <2>2, <2>3
  <2>5. m + 1 \in Nat
    OBVIOUS
  <2> HIDE DEF Rec
  <2> QED BY <2>4, <2>5
<1>4. l \in F
  <2> HIDE DEF F
  <2> QED BY <1>1, <1>2, <1>3, NumbersOf
<1>5. PICK t : t = [n \in 0 .. l |-> t[n]] /\ Rec(t, l)
  BY <1>4
<1>6. t = [n \in 0 .. Len(f) |->
             IF n = 0 THEN [at |-> 1, info |-> <<>>]
             ELSE LET r == t[n - 1] IN IF r.at > Len(f) THEN r ELSE ReadInfo(f, r)]
  <2>1. t = [n \in 0 .. l |-> IF n = 0 THEN first ELSE Turn(f, t[n - 1])]
    BY <1>5
  <2> QED BY <1>1, <2>1 DEF Turn, first
<1>7. g = [n \in 0 .. Len(f) |->
             IF n = 0 THEN [at |-> 1, info |-> <<>>]
             ELSE LET r == g[n - 1] IN IF r.at > Len(f) THEN r ELSE ReadInfo(f, r)]
  BY <1>6
<1>8. DebugInfoOf(f) = g[Len(f)].info
  BY DEF DebugInfoOf
<1> HIDE DEF g
<1>9. g = [n \in 0 .. l |-> IF n = 0 THEN first ELSE Turn(f, g[n - 1])]
  BY <1>1, <1>7 DEF Turn, first
<1>10. 0 \in 0 .. l /\ \A n \in 1 .. l : n \in 0 .. l /\ n # 0
  BY SMT
<1>11. g[0] = first /\ \A n \in 1 .. l : g[n] = Turn(f, g[n - 1])
  BY <1>9, <1>10
<1> QED BY <1>1, <1>8, <1>11 DEF first

(* Debug information that a file can hold. *)
InfoFits(info) ==
  /\ info = [a \in DOMAIN info |-> info[a]]
  /\ \A a \in DOMAIN info :
       /\ a \in Word /\ info[a].src \in Word
       /\ info[a] = [file |-> info[a].file, src |-> info[a].src,
                     text |-> info[a].text, label |-> info[a].label]

LEMMA AddressesFinite ==
  ASSUME NEW info, InfoFits(info)
  PROVE  DOMAIN info \subseteq Nat /\ IsFiniteSet(DOMAIN info)
<1>1. WordMod \in Nat
  BY BytesOfWord
<1>2. PICK m \in Nat : m = WordMod
  BY <1>1
<1>3. \A a \in Word : a \in Nat /\ a <= m
  BY <1>2, SMT DEF Word
<1>4. DOMAIN info \in SUBSET Nat /\ \A a \in DOMAIN info : a <= m
  BY <1>3 DEF InfoFits
<1> QED BY <1>4, FS_BoundedSetOfNaturals

LEMMA InfoLoaded ==
  ASSUME NEW info, InfoFits(info)
  PROVE  DebugInfoOf(DebugBytes(info)) = info
<1>1. DOMAIN info \subseteq Nat /\ IsFiniteSet(DOMAIN info)
  BY AddressesFinite
<1>2. PICK f : f = DebugBytes(info)
  OBVIOUS
<1>3. PICK n \in Nat : n = Cardinality(DOMAIN info)
  BY <1>1, AddressesInOrder
<1>4. PICK A : A = [k \in 1 .. n |-> NthAddress(info, k)]
  OBVIOUS
<1>5. /\ \A k \in 1 .. n : A[k] = NthAddress(info, k) /\ A[k] \in DOMAIN info
      /\ {A[k] : k \in 1 .. n} = DOMAIN info
  <2>1. /\ \A k \in 1 .. n : NthAddress(info, k) \in DOMAIN info
        /\ {NthAddress(info, k) : k \in 1 .. n} = DOMAIN info
    BY <1>1, <1>3, AddressesInOrder
  <2>2. \A k \in 1 .. n : A[k] = NthAddress(info, k)
    BY <1>4
  <2> QED BY <2>1, <2>2
<1>6. Sequence(f)
  BY <1>1, <1>2, InfoBlocks
<1>7. PICK p \in [0 .. n -> Nat] :
        /\ p[0] = 0 /\ p[n] = Len(f)
        /\ \A i \in 1 .. n :
             /\ p[i] = p[i - 1] + InfoLength(info[A[i]]) /\ p[i] <= p[n]
             /\ \A k \in 1 .. InfoLength(info[A[i]]) :
                  f[p[i - 1] + k] = InfoBytes(A[i], info[A[i]])[k]
  <2>1. PICK p \in [0 .. n -> Nat] :
          /\ p[0] = 0 /\ p[n] = Len(f)
          /\ \A i \in 1 .. n :
               /\ p[i] = p[i - 1] + InfoLength(info[NthAddress(info, i)]) /\ p[i] <= p[n]
               /\ \A k \in 1 .. InfoLength(info[NthAddress(info, i)]) :
                    f[p[i - 1] + k]
                      = InfoBytes(NthAddress(info, i), info[NthAddress(info, i)])[k]
    BY <1>1, <1>2, <1>3, InfoBlocks
  <2>2. ASSUME NEW i \in 1 .. n
        PROVE  /\ p[i] = p[i - 1] + InfoLength(info[A[i]]) /\ p[i] <= p[n]
               /\ \A k \in 1 .. InfoLength(info[A[i]]) :
                    f[p[i - 1] + k] = InfoBytes(A[i], info[A[i]])[k]
    <3>1. A[i] = NthAddress(info, i)
      BY <1>5
    <3> QED BY <2>1, <3>1
  <2> QED BY <2>1, <2>2
<1>8. PICK l \in Nat : l = Len(f)
  BY <1>6, LenProperties DEF Sequence
<1>9. PICK turn : /\ turn[0] = [at |-> 1, info |-> <<>>]
                  /\ \A k \in 1 .. l : turn[k] = Turn(f, turn[k - 1])
                  /\ DebugInfoOf(f) = turn[l].info
  BY <1>8, Turns
<1> DEFINE Got(m) == [b \in {A[i] : i \in 1 .. m} |-> info[b]]
           State(m) == [at |-> p[m] + 1, info |-> Got(m)]
           Done == {m \in Nat : m <= n => m <= p[m] /\ turn[m] = State(m)}
           Past == {m \in Nat : n + m <= l => turn[n + m] = State(n)}
<1>10. 0 \in Done
  <2>1. 1 .. 0 = {} /\ 0 \in Nat /\ 0 + 1 = 1 /\ 0 <= 0
    BY SMT
  <2>2. Got(0) = <<>>
    <3>1. PICK e : e = Got(0)
      OBVIOUS
    <3>2. {A[i] : i \in 1 .. 0} = {}
      BY <2>1
    <3>3. DOMAIN e = {} /\ e = [b \in DOMAIN e |-> e[b]]
      BY <3>1, <3>2
    <3> QED BY <3>1, <3>3, NothingThere
  <2> HIDE DEF Got
  <2>3. turn[0] = State(0)
    BY <1>7, <1>9, <2>1, <2>2
  <2> QED BY <1>7, <2>1, <2>3
<1>11. ASSUME NEW m \in Nat, m \in Done PROVE m + 1 \in Done
  <2> SUFFICES ASSUME m + 1 <= n PROVE m + 1 <= p[m + 1] /\ turn[m + 1] = State(m + 1)
    <3>1. m + 1 \in Nat
      OBVIOUS
    <3> QED BY <3>1
  <2>1. /\ m <= n /\ m + 1 \in 1 .. n /\ (m + 1) - 1 = m /\ m \in 0 .. n /\ m + 1 \in 0 .. n
    BY SMT
  <2>2. PICK a, x, z : a = A[m + 1] /\ x = info[a] /\ z = InfoLength(x)
    OBVIOUS
  <2>3. PICK u, v : u = p[m] /\ v = p[m + 1]
    OBVIOUS
  <2>4. /\ u \in Nat /\ v \in Nat /\ v = u + z /\ v <= l
        /\ \A k \in 1 .. z : f[u + k] = InfoBytes(a, x)[k]
    BY <1>7, <1>8, <2>1, <2>2, <2>3
  <2>5. z \in Nat /\ z >= 11
    BY <2>2, InfoShape
  <2>6. m <= u /\ turn[m] = State(m)
    BY <1>11, <2>1, <2>3
  <2>7. /\ m + 1 <= v /\ ~(u + 1 > l) /\ m + 1 \in 1 .. l
    BY <2>4, <2>5, <2>6, SMT
  <2>8. PICK r : r = turn[m]
    OBVIOUS
  <2>9. r.at = u + 1 /\ r.info = Got(m)
    BY <2>3, <2>6, <2>8
  <2>10. /\ a \in DOMAIN info /\ a \in Nat /\ a < WordMod /\ x.src \in Nat /\ x.src < WordMod
         /\ x = [file |-> x.file, src |-> x.src, text |-> x.text, label |-> x.label]
    <3>1. \A w \in Word : w \in Nat /\ w < WordMod
      BY BytesOfWord, SMT DEF Word
    <3>2. a \in DOMAIN info
      BY <1>5, <2>1, <2>2
    <3> QED BY <2>2, <3>1, <3>2 DEF InfoFits
  <2>11. turn[m + 1] = ReadInfo(f, r)
    <3>1. turn[m + 1] = Turn(f, turn[(m + 1) - 1])
      BY <1>9, <2>7
    <3>2. turn[m + 1] = Turn(f, r)
      BY <2>1, <2>8, <3>1
    <3> QED BY <1>8, <2>7, <2>9, <3>2 DEF Turn
  <2>12. ReadInfo(f, r) = [at |-> (u + z) + 1, info |-> InfoFiled(r.info, a, x)]
    <3>1. r.at = u + 1 /\ InfoAt(f, u, a, x)
      BY <2>2, <2>4, <2>9, <2>10 DEF InfoAt
    <3>2. ReadInfo(f, r) = [at   |-> (u + InfoLength(x)) + 1,
                            info |-> InfoFiled(r.info, a, x)]
      BY <3>1, InfoRead
    <3> QED BY <2>2, <3>2
  <2>13. DOMAIN r.info = {A[i] : i \in 1 .. m}
         /\ \A b \in DOMAIN r.info : r.info[b] = info[b]
    BY <2>9
  <2>14. {a} \union DOMAIN r.info = {A[i] : i \in 1 .. m + 1}
    <3>1. \A i \in 1 .. m + 1 : i \in 1 .. m \/ i = m + 1
      BY SMT
    <3>2. m + 1 \in 1 .. m + 1 /\ \A i \in 1 .. m : i \in 1 .. m + 1
      BY SMT
    <3> QED BY <2>2, <2>13, <3>1, <3>2
  <2>15. InfoFiled(r.info, a, x) = Got(m + 1)
    <3>1. PICK y : y = [file |-> x.file, src |-> x.src, text |-> x.text, label |-> x.label]
      OBVIOUS
    <3>2. y = info[a]
      BY <2>2, <2>10, <3>1
    <3>3. [b \in {a} \union DOMAIN r.info |-> IF b = a THEN y ELSE r.info[b]]
            = [b \in {a} \union DOMAIN r.info |-> info[b]]
      BY <2>13, <3>2
    <3> QED BY <2>14, <3>1, <3>3 DEF InfoFiled
  <2> HIDE DEF Got
  <2>16. turn[m + 1] = State(m + 1)
    BY <2>3, <2>4, <2>11, <2>12, <2>15
  <2> QED BY <2>3, <2>7, <2>16
<1>12. n <= p[n] /\ turn[n] = State(n)
  <2>1. n \in Done
    <3> HIDE DEF Done
    <3> QED BY <1>10, <1>11, NumbersOf
  <2>2. n <= n
    OBVIOUS
  <2> HIDE DEF State
  <2> QED BY <2>1, <2>2
<1>13. 0 \in Past
  <2> HIDE DEF State
  <2>1. n + 0 = n
    BY SMT
  <2> QED BY <1>12, <2>1
<1>14. ASSUME NEW m \in Nat, m \in Past PROVE m + 1 \in Past
  <2> SUFFICES ASSUME n + (m + 1) <= l PROVE turn[n + (m + 1)] = State(n)
    <3>1. m + 1 \in Nat
      OBVIOUS
    <3> QED BY <3>1
  <2>1. n + m <= l /\ n + (m + 1) \in 1 .. l /\ (n + (m + 1)) - 1 = n + m
    BY SMT
  <2>2. PICK r : r = State(n)
    OBVIOUS
  <2>3. r.at = l + 1 /\ l + 1 > l
    <3>1. r.at = p[n] + 1
      BY <2>2
    <3> QED BY <1>7, <1>8, <3>1, SMT
  <2> HIDE DEF State
  <2>4. turn[n + m] = r
    BY <1>14, <2>1, <2>2
  <2>5. turn[n + (m + 1)] = Turn(f, turn[(n + (m + 1)) - 1])
    BY <1>9, <2>1
  <2>6. turn[n + (m + 1)] = Turn(f, r)
    BY <2>1, <2>4, <2>5
  <2> QED BY <1>8, <2>2, <2>3, <2>6 DEF Turn
<1>15. turn[l] = State(n)
  <2>1. n <= l
    BY <1>7, <1>8, <1>12
  <2>2. l - n \in Nat /\ n + (l - n) = l /\ l <= l
    BY <2>1, SMT
  <2> HIDE DEF State
  <2>3. l - n \in Past
    <3> HIDE DEF Past
    <3> QED BY <1>13, <1>14, <2>2, NumbersOf
  <2> QED BY <2>2, <2>3
<1>16. turn[l].info = Got(n)
  <2> HIDE DEF Got
  <2> QED BY <1>15
<1>17. Got(n) = info
  BY <1>5 DEF InfoFits
<1> HIDE DEF Got
<1> QED BY <1>2, <1>9, <1>16, <1>17

LEMMA LayoutLoaded ==
  ASSUME NEW data, data = [s \in DOMAIN data |-> data[s]],
         DOMAIN data \subseteq MEM_SEC_DIRECTIVES,
         \A s \in DOMAIN data : Sequence(data[s]),
         NEW info, InfoFits(info), NEW debug,
         NEW r, r = SaveLayout(data, info, debug), Len(r) < WordMod
  PROVE  /\ LoadLayout(r).data = data
         /\ LoadLayout(r).info = IF debug THEN info ELSE <<>>
<1>1. Sequence(DebugBytes(info))
  BY AddressesFinite, InfoBlocks
<1>2. /\ LoadLayout(r).data = data
      /\ LoadLayout(r).info = IF debug /\ DOMAIN info # {}
                              THEN DebugInfoOf(DebugBytes(info)) ELSE <<>>
  BY <1>1, SectionsLoaded
<1>3. DOMAIN info = {} => info = <<>>
  BY NothingThere DEF InfoFits
<1> QED BY <1>2, <1>3, InfoLoaded

-----------------------------------------------------------------------------
(* The build. *)

(* Until a program is handed on, parse has nothing, and has done nothing. *)
BuildInv ==
  /\ PostTypes
  /\ phase = "tokens" => Idle /\ program = <<>>
  /\ AssemblerInv

LEMMA PostStays ==
  ASSUME PostTypes, UNCHANGED postVars
  PROVE  PostTypes'
BY DEF PostTypes, postVars, cursor, tables, FilesNamed, OpenedBefore, text, Name

LEMMA NoProgram == IsProgram(<<>>)
<1>1. <<>> \in Seq({<<>>[k] : k \in DOMAIN <<>>}) /\ DOMAIN <<>> = {}
  BY EmptySeq
<1> QED BY <1>1 DEF IsProgram

LEMMA BuildStarts ==
  ASSUME BuildInit
  PROVE  PostTypes /\ Unread /\ program = <<>>
<1>1. Unread /\ program = <<>>
  BY NoProgram DEF BuildInit, Unread
<1>2. PostIdle /\ (stage = "line" \/ (stage = "read" /\ project \in Projects))
  BY DEF BuildInit, PostInit
<1>3. /\ \A n \in FileNames : IsText(files[n]) /\ DOMAIN files[n] = {}
      /\ DOMAIN files = FileNames
  <2>1. DOMAIN <<>> = {}
    OBVIOUS
  <2> QED BY <1>2, <2>1, EmptyText DEF PostIdle
<1>4. file \in 1 .. Len(ByName) /\ pos \in Nat \ {0} /\ opened \in Nat
  <2>1. ByName \in Seq(FileNames) /\ ByName # <<>>
    BY ByNameAssumption
  <2>2. 1 \in 1 .. Len(ByName) /\ 1 \in Nat \ {0} /\ 0 \in Nat
    BY <2>1, SMT
  <2> QED BY <1>2, <2>2 DEF PostIdle
<1>5. DOMAIN eqvs = {} /\ DOMAIN macros = {}
  BY <1>2 DEF PostIdle, NoFile
<1> QED BY <1>1, <1>2, <1>3, <1>4, <1>5 DEF PostTypes, FilesNamed

(* parse does nothing before it is given a program, and nothing at its end. *)
LEMMA NothingRead ==
  ASSUME AsmNext
  PROVE  phase # "tokens" /\ phase # "done" /\ phase' # "tokens"
BY DEF AsmNext, Begin, EnterSection, NoFirstLine, MeasureAlloc, MeasureInstr, DefineLabel,
       MeasureOther, Measure, Reading, AllRead, KeepLine, Expand, StartExpanding,
       StartParsing, ParseAlloc, ParseInstr, Place, PassLabel, RejectToken, Finish,
       NextLine, Fail, Lost

LEMMA BuildStep ==
  ASSUME BuildInv, [BuildNext]_buildVars
  PROVE  /\ PostTypes'
         /\ phase' = "tokens" => Idle' /\ program' = <<>>
         /\ AssemblerInv' \/ Unread'
<1>1. CASE UNCHANGED asmVars
  <2>1. AssemblerInv'
    BY <1>1, AssemblerStep DEF BuildInv
  <2>2. phase' = "tokens" => Idle' /\ program' = <<>>
    BY <1>1 DEF BuildInv, asmVars, passVars, mapVars, textVars, outVars, Idle, Sections
  <2>3. PostTypes'
    <3>1. UNCHANGED postVars \/ PostNext
      BY DEF BuildNext, buildVars, TokenizeLine, Tokenize, Parse, Assemble, Save, Load
    <3> QED BY <3>1, PostStays, PostStep DEF BuildInv
  <2> QED BY <2>1, <2>2, <2>3
<1>2. CASE Parse
  <2>1. /\ phase = "tokens" /\ stage = "combined" /\ program' = Program
        /\ phase' = "start" /\ Idle
        /\ UNCHANGED <<postVars, passVars, mapVars, textVars, outVars, reason>>
    BY <1>2 DEF Parse, BuildInv
  <2>2. PostTypes'
    BY <2>1, PostStays DEF BuildInv
  <2>3. Idle'
    BY <2>1 DEF Idle, passVars, mapVars, textVars, outVars, Sections
  <2>4. IsProgram(program')
    BY <2>1, ProgramHandedOn DEF BuildInv
  <2> QED BY <2>1, <2>2, <2>3, <2>4 DEF Unread, IsProgram
<1>3. CASE Assemble
  <2>1. AsmNext /\ UNCHANGED postVars
    BY <1>3 DEF Assemble
  <2> QED BY <2>1, PostStays, AssemblerStep, NothingRead DEF BuildInv
<1>4. UNCHANGED asmVars \/ Parse \/ Assemble
  BY DEF BuildNext, buildVars, TokenizeLine, Tokenize, Save, Load
<1> QED BY <1>1, <1>2, <1>3, <1>4

(* Whatever files are given, what the post-processor keeps is what its     *)
(* passes and the parser can take, and the parser keeps to its invariant.  *)
THEOREM BuildInvariant == BuildSpec => []BuildInv
<1>1. BuildInit => PostTypes /\ Unread /\ (phase = "tokens" => Idle /\ program = <<>>)
  BY BuildStarts DEF Unread
<1>2. BuildInv /\ [BuildNext]_buildVars
        => /\ PostTypes' /\ (phase = "tokens" => Idle /\ program = <<>>)'
           /\ AssemblerInv' \/ Unread'
  BY BuildStep
<1>3. PostTypes /\ (phase = "tokens" => Idle /\ program = <<>>) /\ AssemblerInv <=> BuildInv
  BY DEF BuildInv
<1> QED BY <1>1, <1>2, <1>3, UnreadHolds, PTL DEF BuildSpec

LEMMA BuildHolds ==
  BuildInv => /\ AsmTypeOK /\ PassesAgree /\ LabelsFindTheirLine /\ FirstItemsAligned
              /\ DebugInfoNamesLine /\ RefusedForCause /\ MainRunsFirst
<1> SUFFICES ASSUME BuildInv
             PROVE  /\ AsmTypeOK /\ PassesAgree /\ LabelsFindTheirLine /\ FirstItemsAligned
                    /\ DebugInfoNamesLine /\ RefusedForCause /\ MainRunsFirst
  OBVIOUS
<1>1. /\ AsmTypeOK /\ PassesAgree /\ LabelsFindTheirLine /\ FirstItemsAligned
      /\ DebugInfoNamesLine /\ RefusedForCause /\ StartsAtMain
  BY AssemblerHolds DEF BuildInv
<1>2. program[1].file = project.order[1]
        => MangledMain = MangleLabel("main", project.order[1])
  BY DEF MangledMain
<1>3. MainRunsFirst
  BY <1>1, <1>2 DEF MainRunsFirst, StartsAtMain
<1> QED BY <1>1, <1>3

(* Whatever files are given, with whatever they include and define, the    *)
(* program parse is handed is one of lines it knows, and every structure   *)
(* of parse keeps to its type.                                             *)
THEOREM BuildTypes == BuildSpec => []AsmTypeOK
<1> QED BY BuildHolds, BuildInvariant, PTL

(* The two passes count and lay out the same bytes of what the             *)
(* post-processor makes of any files.                                      *)
THEOREM BuildPassesAgree == BuildSpec => []PassesAgree
<1> QED BY BuildHolds, BuildInvariant, PTL

(* So is every label at what follows it, also one that a macro made. *)
THEOREM BuildLabelsFindTheirLine == BuildSpec => []LabelsFindTheirLine
<1> QED BY BuildHolds, BuildInvariant, PTL

(* The first value of every directive is aligned, whatever stands before   *)
(* it once files and macros are put in.                                    *)
THEOREM BuildItemsAligned == BuildSpec => []FirstItemsAligned
<1> QED BY BuildHolds, BuildInvariant, PTL

(* The debug information names the file and the line the user wrote: the   *)
(* one that was tokenized, through include, macro and pseudo instruction.  *)
THEOREM BuildDebugInfoNamesLine == BuildSpec => []DebugInfoNamesLine
<1> QED BY BuildHolds, BuildInvariant, PTL

(* A build is refused over a label only if the program that is put         *)
(* together defines it twice or not at all.                                *)
THEOREM BuildRefusedForCause == BuildSpec => []RefusedForCause
<1> QED BY BuildHolds, BuildInvariant, PTL

(* What parse makes of the first line and the name the post-processor      *)
(* gives a local main meet: a first file with one starts at it.            *)
THEOREM BuildMainRunsFirst == BuildSpec => []MainRunsFirst
<1> QED BY BuildHolds, BuildInvariant, PTL

-----------------------------------------------------------------------------
(* The lines that were read. *)

(* A build that reads a line returns the tokens the line writes down, each *)
(* in the order of the line and with the category its place gives it.      *)
THEOREM BuildTokensAsWritten == BuildSpec => []TokensAsWritten
<1>1. BuildInit => TokInv
  <2>1. "ok" \in {"reading", "ok"} /\ "reading" \in {"reading", "ok"}
    OBVIOUS
  <2> QED BY <2>1, AtStart DEF BuildInit, TokInit
<1>2. TokInv /\ [BuildNext]_buildVars => TokInv'
  <2>1. [BuildNext]_buildVars => [TokNext]_tokVars
    BY DEF BuildNext, TokenizeLine, Tokenize, Parse, Assemble, Save, Load, buildVars
  <2> QED BY <2>1, TokInvKept
<1>3. TokInv => TokensAsWritten
  BY DEF TokInv
<1> QED BY <1>1, <1>2, <1>3, PTL DEF BuildSpec

-----------------------------------------------------------------------------
(* The object file. *)

(* What was saved is the layout at the end, which nothing changes after it. *)
SavedInv ==
  /\ binary # <<>> => /\ phase = "done"
                      /\ binary = SaveLayout(LayoutData, LayoutInfo, withDebug)
  /\ loaded # <<>> => binary # <<>> /\ loaded = LoadLayout(binary)

LEMMA LayoutKept ==
  ASSUME UNCHANGED asmVars
  PROVE  LayoutData' = LayoutData /\ LayoutInfo' = LayoutInfo /\ phase' = phase
<1>1. UNCHANGED <<lines, layout, debugInfo, phase>>
  BY DEF asmVars, passVars, mapVars, textVars, outVars
<1>2. Present' = Present
  BY <1>1 DEF Present
<1>3. LayoutData' = LayoutData
  BY <1>1, <1>2 DEF LayoutData
<1>4. LayoutInfo' = LayoutInfo
  BY <1>1 DEF LayoutInfo, TextOf
<1> QED BY <1>1, <1>3, <1>4

LEMMA SavedStep ==
  ASSUME SavedInv, [BuildNext]_buildVars
  PROVE  SavedInv'
<1>1. CASE UNCHANGED asmVars /\ UNCHANGED objVars
  <2>1. UNCHANGED <<binary, loaded, withDebug>>
    BY <1>1 DEF objVars
  <2> QED BY <1>1, <2>1, LayoutKept DEF SavedInv
<1>2. CASE Parse
  <2>1. phase = "tokens" /\ UNCHANGED <<binary, loaded, withDebug>>
    BY <1>2 DEF Parse, objVars
  <2> QED BY <2>1 DEF SavedInv
<1>3. CASE Assemble
  <2>1. phase # "done" /\ UNCHANGED <<binary, loaded, withDebug>>
    BY <1>3, NothingRead DEF Assemble, objVars
  <2> QED BY <2>1 DEF SavedInv
<1>4. CASE Save
  <2>1. /\ phase = "done" /\ binary = <<>> /\ loaded' = loaded /\ UNCHANGED asmVars
        /\ binary' = SaveLayout(LayoutData, LayoutInfo, withDebug')
    BY <1>4 DEF Save
  <2>2. loaded' = <<>>
    BY <2>1 DEF SavedInv
  <2>3. /\ LayoutData' = LayoutData /\ LayoutInfo' = LayoutInfo /\ phase' = "done"
    BY <2>1, LayoutKept
  <2> QED BY <2>1, <2>2, <2>3 DEF SavedInv
<1>5. CASE Load
  <2>1. /\ binary # <<>> /\ loaded' = LoadLayout(binary) /\ UNCHANGED asmVars
        /\ UNCHANGED <<binary, withDebug>>
    BY <1>5 DEF Load
  <2>2. /\ LayoutData' = LayoutData /\ LayoutInfo' = LayoutInfo /\ phase' = phase
    BY <2>1, LayoutKept
  <2> QED BY <2>1, <2>2 DEF SavedInv
<1>6. \/ UNCHANGED asmVars /\ UNCHANGED objVars
      \/ Parse \/ Assemble \/ Save \/ Load
  BY DEF BuildNext, buildVars, TokenizeLine, Tokenize
<1> QED BY <1>1, <1>2, <1>3, <1>4, <1>5, <1>6

(* The sections that a layout at the end has. *)
LEMMA LayoutSections ==
  ASSUME AsmInv, phase = "done"
  PROVE  /\ Present \subseteq MEM_SEC_DIRECTIVES
         /\ \A s \in Present : Sequence(layout[s])
<1>1. PICK g, q : ThirdPass(g, q)
  BY DEF AsmInv
<1>2. /\ IsProgram(program) /\ Len(lines) \in Nat /\ DOMAIN lines = 1 .. Len(lines)
  BY LiveLines DEF Live
<1>3. ASSUME NEW i \in DOMAIN lines, lines[i].cat = "section"
      PROVE  lines[i].name \in Sections
  <2>1. i < Len(lines) + 1
    BY <1>2, SMT
  <2>2. Expanded(lines[i])
    BY <1>1, <2>1 DEF ThirdPass, LinesInv
  <2>3. Written(lines[i]) /\ ~IsInstr(lines[i].no)
    BY <1>3, <2>2 DEF Expanded
  <2>4. /\ lines[i].no \in DOMAIN program /\ program[lines[i].no].cat = "section"
        /\ lines[i].name = program[lines[i].no].name
    BY <1>2, <1>3, <2>3, WrittenFacts DEF IsInstr
  <2> QED BY <1>2, <2>4, SourceFacts
<1>4. Present \subseteq Sections
  BY <1>3, TextAssumption DEF Present
<1>5. \A s \in Sections : Sequence(layout[s])
  BY ParsedSections
<1> QED BY <1>4, <1>5, SectionsAssumption

LEMMA SavedLoads ==
  ASSUME AsmInv, SavedInv
  PROVE  LoadsWhatWasSaved
<1> SUFFICES ASSUME loaded # <<>>, FileFits
             PROVE  /\ loaded.data = LayoutData
                    /\ loaded.info = IF withDebug THEN LayoutInfo ELSE <<>>
  BY DEF LoadsWhatWasSaved
<1>1. /\ phase = "done" /\ loaded = LoadLayout(binary)
      /\ binary = SaveLayout(LayoutData, LayoutInfo, withDebug)
  BY DEF SavedInv
<1>2. PICK data, info : data = LayoutData /\ info = LayoutInfo
  OBVIOUS
<1>3. /\ DOMAIN data = Present /\ data = [s \in DOMAIN data |-> data[s]]
      /\ \A s \in DOMAIN data : data[s] = layout[s]
  BY <1>2 DEF LayoutData
<1>4. DOMAIN data \subseteq MEM_SEC_DIRECTIVES /\ \A s \in DOMAIN data : Sequence(data[s])
  BY <1>1, <1>3, LayoutSections
<1>5. InfoFits(info)
  <2>1. /\ DOMAIN info = DOMAIN debugInfo /\ info = [a \in DOMAIN info |-> info[a]]
        /\ \A a \in DOMAIN info :
             info[a] = [file |-> debugInfo[a].file, src |-> debugInfo[a].src,
                        text |-> TextOf(debugInfo[a]), label |-> debugInfo[a].label]
    BY <1>2 DEF LayoutInfo
  <2>2. \A a \in DOMAIN info :
          /\ a \in Word /\ info[a].src \in Word
          /\ info[a] = [file |-> info[a].file, src |-> info[a].src,
                        text |-> info[a].text, label |-> info[a].label]
    BY <2>1 DEF FileFits
  <2> QED BY <2>1, <2>2 DEF InfoFits
<1>6. Len(binary) < WordMod
  BY DEF FileFits
<1>7. PICK r : r = binary
  OBVIOUS
<1>8. r = SaveLayout(data, info, withDebug) /\ Len(r) < WordMod /\ loaded = LoadLayout(r)
  BY <1>1, <1>2, <1>6, <1>7
<1>9. /\ LoadLayout(r).data = data
      /\ LoadLayout(r).info = IF withDebug THEN info ELSE <<>>
  BY <1>3, <1>4, <1>5, <1>8, LayoutLoaded
<1> QED BY <1>2, <1>8, <1>9

LEMMA SavedInvariant == BuildSpec => []SavedInv
<1>1. BuildInit => SavedInv
  BY DEF BuildInit, SavedInv
<1>2. SavedInv /\ [BuildNext]_buildVars => SavedInv'
  BY SavedStep
<1> QED BY <1>1, <1>2, PTL DEF BuildSpec

(* Whatever is assembled, what is read back from the file is what was      *)
(* saved, byte for byte and record for record, if the file can hold it.    *)
THEOREM BuildLoadsWhatWasSaved == BuildSpec => []LoadsWhatWasSaved
<1>1. BuildInv => AsmInv
  BY DEF BuildInv, AssemblerInv
<1> QED BY <1>1, SavedLoads, SavedInvariant, BuildInvariant, PTL
=============================================================================
