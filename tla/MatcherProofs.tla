----------------------------- MODULE MatcherProofs -----------------------------
(***************************************************************************)
(* The matchers, for any routes, and for any requests a client may send:   *)
(* the C matcher and the Python matcher each find the first route whose    *)
(* pattern means the path and whose methods, as that matcher reads them,   *)
(* take the method, with the values of the path (MatchersFindTheMeaning).  *)
(*                                                                         *)
(* A pattern's meaning says nothing of how a path is scanned.  Between the *)
(* two stands the way through the path: how far each segment takes the     *)
(* scan.  Each matcher follows it, and it goes to the end of the path for  *)
(* the paths that the pattern means.  What the definitions compute from    *)
(* one position to the next is proved by induction along the text, from    *)
(* the well-foundedness of the naturals.                                   *)
(***************************************************************************)
EXTENDS Request, SequenceTheorems, WellFoundedInduction, FiniteSetTheorems, TLAPS

(***************************************************************************)
(* Sequences, whatever their elements are.                                 *)
(***************************************************************************)
LEMMA SequenceOf ==
  ASSUME NEW T, NEW s \in Seq(T)
  PROVE  IsSequence(s)
<1>1. DOMAIN s = 1..Len(s) /\ Len(s) \in Nat
  OBVIOUS
<1>2. \A i \in 1..Len(s) : s[i] \in ToSet(s)
  BY <1>1 DEF ToSet
<1>3. s \in [1..Len(s) -> ToSet(s)]
  BY <1>1, <1>2
<1> HIDE DEF ToSet
<1> QED
  BY <1>1, <1>3 DEF IsSequence

LEMMA SequenceFacts ==
  ASSUME NEW s, IsSequence(s)
  PROVE  /\ Len(s) \in Nat /\ DOMAIN s = 1..Len(s)
         /\ s = [i \in 1..Len(s) |-> s[i]]
         /\ s \in Seq(ToSet(s))
BY DEF IsSequence

LEMMA SequenceIn ==
  ASSUME NEW s, IsSequence(s), NEW T, ToSet(s) \subseteq T
  PROVE  s \in Seq(T)
<1>1. /\ Len(s) \in Nat /\ DOMAIN s = 1..Len(s) /\ s \in Seq(ToSet(s))
  BY SequenceFacts
<1>2. \A i \in 1..Len(s) : s[i] \in T
  BY <1>1
<1>3. s \in [1..Len(s) -> T]
  BY <1>1, <1>2
<1> QED
  BY <1>1, <1>3

\* A function on 1..n is a sequence.
LEMMA FunctionSequence ==
  ASSUME NEW n \in Nat, NEW f, f = [i \in 1..n |-> f[i]]
  PROVE  IsSequence(f) /\ Len(f) = n
<1> DEFINE T == {f[i] : i \in 1..n}
<1>1. f \in [1..n -> T]
  OBVIOUS
<1>2. f \in Seq(T) /\ Len(f) = n
  BY <1>1
<1> QED
  BY <1>2, SequenceOf

LEMMA EqualSequences ==
  ASSUME NEW s, IsSequence(s), NEW t, IsSequence(t), Len(s) = Len(t),
         \A i \in 1..Len(s) : s[i] = t[i]
  PROVE  s = t
<1>1. /\ s = [i \in 1..Len(s) |-> s[i]]
      /\ t = [i \in 1..Len(t) |-> t[i]]
  BY SequenceFacts
<1> QED
  BY <1>1

LEMMA Joined ==
  ASSUME NEW s, IsSequence(s), NEW t, IsSequence(t)
  PROVE  /\ IsSequence(s \o t) /\ Len(s \o t) = Len(s) + Len(t)
         /\ \A i \in 1..Len(s) : (s \o t)[i] = s[i]
         /\ \A i \in 1..Len(t) : (s \o t)[Len(s) + i] = t[i]
         /\ \A i \in 1..(Len(s) + Len(t)) :
              (s \o t)[i] = IF i <= Len(s) THEN s[i] ELSE t[i - Len(s)]
<1> DEFINE T == ToSet(s) \cup ToSet(t)
<1>1. s \in Seq(T) /\ t \in Seq(T)
  BY SequenceIn
<1>2. Len(s) \in Nat /\ Len(t) \in Nat
  BY SequenceFacts
<1> HIDE DEF T
<1>3. /\ s \o t \in Seq(T) /\ Len(s \o t) = Len(s) + Len(t)
      /\ \A i \in 1..(Len(s) + Len(t)) :
              (s \o t)[i] = IF i <= Len(s) THEN s[i] ELSE t[i - Len(s)]
  BY <1>1, ConcatProperties
<1>4. IsSequence(s \o t)
  BY <1>3, SequenceOf
<1>5. \A i \in 1..Len(s) : (s \o t)[i] = s[i]
  BY <1>2, <1>3
<1>6. \A i \in 1..Len(t) : (s \o t)[Len(s) + i] = t[i]
  BY <1>2, <1>3
<1> QED
  BY <1>3, <1>4, <1>5, <1>6

LEMMA Cut ==
  ASSUME NEW s, IsSequence(s), NEW a \in Nat, NEW n \in Nat, a + n <= Len(s)
  PROVE  /\ IsSequence(SubSeq(s, a + 1, a + n)) /\ Len(SubSeq(s, a + 1, a + n)) = n
         /\ \A i \in 1..n : SubSeq(s, a + 1, a + n)[i] = s[a + i]
<1>1. SubSeq(s, a + 1, a + n) = [i \in 1..(a + n - (a + 1) + 1) |-> s[i + (a + 1) - 1]]
  OBVIOUS
<1>2. a + n - (a + 1) + 1 = n /\ \A i \in 1..n : i + (a + 1) - 1 = a + i
  OBVIOUS
<1>3. SubSeq(s, a + 1, a + n) = [i \in 1..n |-> s[a + i]]
  BY <1>1, <1>2
<1> DEFINE t == SubSeq(s, a + 1, a + n)
<1>4. t = [i \in 1..n |-> t[i]]
  BY <1>3
<1> HIDE DEF t
<1>5. IsSequence(t) /\ Len(t) = n
  BY <1>4, FunctionSequence
<1> QED
  BY <1>3, <1>5 DEF t

LEMMA Added ==
  ASSUME NEW s, IsSequence(s), NEW e
  PROVE  /\ IsSequence(Append(s, e)) /\ Len(Append(s, e)) = Len(s) + 1
         /\ \A i \in 1..Len(s) : Append(s, e)[i] = s[i]
         /\ Append(s, e)[Len(s) + 1] = e
<1> DEFINE T == ToSet(s) \cup {e}
<1>1. s \in Seq(T) /\ e \in T
  BY SequenceIn
<1> HIDE DEF T
<1>2. /\ Append(s, e) \in Seq(T) /\ Len(Append(s, e)) = Len(s) + 1
      /\ \A i \in 1..Len(s) : Append(s, e)[i] = s[i]
      /\ Append(s, e)[Len(s) + 1] = e
  BY <1>1, AppendProperties
<1> QED
  BY <1>2, SequenceOf

(***************************************************************************)
(* Induction, from the well-foundedness of the naturals.                   *)
(***************************************************************************)
LEMMA LeastOf ==
  ASSUME NEW T \in SUBSET Nat, T # {}
  PROVE  \E i \in T : \A j \in T : i <= j
<1>1. PICK i \in T : \A j \in T : ~ (<<j, i>> \in OpToRel(<, Nat))
  BY NatLessThanWellFounded, WFMin
<1>2. \A j \in T : ~(j < i)
  BY <1>1 DEF OpToRel
<1> QED
  BY <1>2

LEMMA Induct ==
  ASSUME NEW S \in SUBSET Nat, 0 \in S, \A n \in S : n + 1 \in S
  PROVE  S = Nat
<1> SUFFICES ASSUME S # Nat PROVE FALSE
  OBVIOUS
<1> DEFINE T == Nat \ S
<1>1. T \in SUBSET Nat /\ T # {}
  OBVIOUS
<1> HIDE DEF T
<1>2. PICK i \in T : \A j \in T : i <= j
  BY <1>1, LeastOf
<1> USE DEF T
<1>3. i \in Nat /\ i # 0 /\ i \notin S
  OBVIOUS
<1>4. i - 1 \in Nat /\ i - 1 \notin T
  BY <1>2, <1>3
<1> QED
  BY <1>3, <1>4

---------------------------------------------------------------------------
(***************************************************************************)
(* FlattenSeq: its partial results.                                        *)
(***************************************************************************)
Joins(f, n, ss) == f = [i \in 1..n |-> IF i = 1 THEN ss[i] ELSE f[i - 1] \o ss[i]]

Flat(ss) == CHOOSE f : f = [i \in 1..Len(ss) |-> IF i = 1 THEN ss[i] ELSE f[i - 1] \o ss[i]]

LEMMA JoinsExists ==
  ASSUME NEW ss, NEW n \in Nat
  PROVE  \E f : Joins(f, n, ss)
<1> DEFINE S == {k \in Nat : \E f : Joins(f, k, ss)}
<1>1. 0 \in S
  <2> DEFINE f == [i \in 1..0 |-> <<>>]
  <2>1. Joins(f, 0, ss)
    BY DEF Joins
  <2> HIDE DEF f
  <2> QED
    BY <2>1
<1>2. ASSUME NEW k \in S PROVE k + 1 \in S
  <2>1. k \in Nat /\ k + 1 \in Nat
    OBVIOUS
  <2>2. PICK f : Joins(f, k, ss)
    OBVIOUS
  <2> DEFINE Step(h, i) == IF i = 1 THEN ss[i] ELSE h[i - 1] \o ss[i]
             g == [i \in 1..k + 1 |-> IF i = k + 1 THEN Step(f, i) ELSE f[i]]
             h == [i \in 1..k + 1 |-> Step(g, i)]
  <2>3. ASSUME NEW i \in 1..k + 1 PROVE g[i] = h[i]
    <3>1. Step(g, i) = Step(f, i)
      <4>1. CASE i = 1
        BY <4>1
      <4>2. CASE i # 1
        <5>1. i - 1 \in 1..k + 1 /\ i - 1 # k + 1
          BY <2>1, <4>2
        <5>2. g[i - 1] = f[i - 1]
          BY <5>1
        <5> HIDE DEF g
        <5> QED
          BY <5>2
      <4> QED
        BY <4>1, <4>2
    <3>2. h[i] = Step(g, i)
      BY <2>3
    <3>3. CASE i = k + 1
      BY <3>1, <3>2, <3>3
    <3>4. CASE i # k + 1
      <4>1. i \in 1..k
        BY <2>1, <2>3, <3>4
      <4>2. f[i] = Step(f, i)
        <5> HIDE DEF g, h
        <5> QED
          BY <2>2, <4>1 DEF Joins
      <4>3. g[i] = f[i]
        BY <2>3, <3>4
      <4> HIDE DEF g, h, Step
      <4> QED
        BY <3>1, <3>2, <4>2, <4>3
    <3> QED
      BY <3>3, <3>4
  <2>4. g = [i \in 1..k + 1 |-> g[i]] /\ h = [i \in 1..k + 1 |-> h[i]]
    OBVIOUS
  <2>5. g = h
    <3> HIDE DEF g, h
    <3> QED
      BY <2>3, <2>4
  <2>6. Joins(g, k + 1, ss)
    <3> HIDE DEF g
    <3> QED
      BY <2>5 DEF Joins
  <2> HIDE DEF g, Step
  <2> QED
    BY <2>1, <2>6
<1>3. S = Nat
  <2>1. S \in SUBSET Nat
    OBVIOUS
  <2> HIDE DEF S
  <2> QED
    BY <1>1, <1>2, <2>1, Induct
<1> QED
  BY <1>3

LEMMA FlatJoins ==
  ASSUME NEW ss, Len(ss) \in Nat
  PROVE  Joins(Flat(ss), Len(ss), ss)
<1>1. \E f : Joins(f, Len(ss), ss)
  BY JoinsExists
<1> QED
  BY <1>1 DEF Joins, Flat

LEMMA JoinsSteps ==
  ASSUME NEW ss, NEW n \in Nat, NEW f, Joins(f, n, ss)
  PROVE  /\ n > 0 => f[1] = ss[1]
         /\ \A i \in 1..n : i > 1 => f[i] = f[i - 1] \o ss[i]
<1> DEFINE Step(i) == IF i = 1 THEN ss[i] ELSE f[i - 1] \o ss[i]
<1>1. f = [i \in 1..n |-> Step(i)]
  BY DEF Joins
<1> HIDE DEF Step
<1>2. \A i \in 1..n : f[i] = Step(i)
  BY <1>1
<1>3. ASSUME n > 0 PROVE f[1] = ss[1]
  <2>1. f[1] = Step(1)
    BY <1>2, <1>3
  <2> QED
    BY <2>1 DEF Step
<1>4. ASSUME NEW i \in 1..n, i > 1 PROVE f[i] = f[i - 1] \o ss[i]
  <2>1. f[i] = Step(i) /\ i # 1
    BY <1>2, <1>4
  <2> QED
    BY <2>1 DEF Step
<1> QED
  BY <1>3, <1>4

LEMMA FlattenIsFlat ==
  ASSUME NEW ss, Len(ss) \in Nat
  PROVE  /\ Len(ss) = 0 => FlattenSeq(ss) = ss
         /\ Len(ss) # 0 => FlattenSeq(ss) = Flat(ss)[Len(ss)]
BY DEF FlattenSeq, Flat

LEMMA FlatSequence ==
  ASSUME NEW n \in Nat, NEW ss, \A i \in 1..n : IsSequence(ss[i]),
         NEW f, Joins(f, n, ss)
  PROVE  \A i \in 1..n : IsSequence(f[i])
<1> DEFINE S == {k \in Nat : k + 1 <= n => IsSequence(f[k + 1])}
<1>1. /\ n > 0 => f[1] = ss[1]
      /\ \A i \in 1..n : i > 1 => f[i] = f[i - 1] \o ss[i]
  BY JoinsSteps
<1>2. 0 \in S
  BY <1>1
<1>3. ASSUME NEW k \in S PROVE k + 1 \in S
  <2> SUFFICES ASSUME k + 2 <= n PROVE IsSequence(f[k + 2])
    OBVIOUS
  <2>1. k + 2 \in 1..n /\ (k + 2) - 1 = k + 1 /\ k + 2 > 1
    OBVIOUS
  <2>2. f[k + 2] = f[k + 1] \o ss[k + 2]
    <3> HIDE DEF S
    <3> QED
      BY <1>1, <2>1
  <2>3. IsSequence(f[k + 1])
    BY <2>1
  <2>4. IsSequence(ss[k + 2])
    BY <2>1
  <2> QED
    BY <2>2, <2>3, <2>4, Joined
<1>4. S = Nat
  <2>1. S \in SUBSET Nat
    OBVIOUS
  <2> HIDE DEF S
  <2> QED
    BY <1>2, <1>3, <2>1, Induct
<1>5. ASSUME NEW i \in 1..n PROVE IsSequence(f[i])
  <2>1. i - 1 \in S /\ (i - 1) + 1 = i
    <3> HIDE DEF S
    <3> QED
      BY <1>4
  <2> QED
    BY <2>1
<1> QED
  BY <1>5

LEMMA FlattenSequence ==
  ASSUME NEW ss, IsSequence(ss), \A i \in 1..Len(ss) : IsSequence(ss[i])
  PROVE  IsSequence(FlattenSeq(ss))
<1>1. Len(ss) \in Nat
  BY SequenceFacts
<1>2. CASE Len(ss) = 0
  BY <1>1, <1>2, FlattenIsFlat
<1>3. CASE Len(ss) # 0
  <2>1. Joins(Flat(ss), Len(ss), ss) /\ FlattenSeq(ss) = Flat(ss)[Len(ss)]
    BY <1>1, <1>3, FlatJoins, FlattenIsFlat
  <2>2. \A i \in 1..Len(ss) : IsSequence(Flat(ss)[i])
    BY <1>1, <2>1, FlatSequence
  <2>3. Len(ss) \in 1..Len(ss)
    BY <1>1, <1>3
  <2> QED
    BY <2>1, <2>2, <2>3
<1> QED
  BY <1>2, <1>3

\* The last part of what is joined comes last.
LEMMA FlattenLast ==
  ASSUME NEW n \in Nat, NEW ss, IsSequence(ss), Len(ss) = n + 1,
         NEW tt, IsSequence(tt), Len(tt) = n, \A i \in 1..n : tt[i] = ss[i],
         \A i \in 1..(n + 1) : IsSequence(ss[i])
  PROVE  FlattenSeq(ss) = FlattenSeq(tt) \o ss[n + 1]
<1> DEFINE f == Flat(ss)
           g == Flat(tt)
<1>1. Joins(f, n + 1, ss) /\ Joins(g, n, tt)
  BY FlatJoins
<1>2. FlattenSeq(ss) = f[n + 1] /\ (n # 0 => FlattenSeq(tt) = g[n]) /\ (n = 0 => FlattenSeq(tt) = tt)
  BY FlattenIsFlat
<1> HIDE DEF f, g
<1>3. /\ f[1] = ss[1]
      /\ \A i \in 1..(n + 1) : i > 1 => f[i] = f[i - 1] \o ss[i]
  <2> DEFINE l == n + 1
  <2>1. l \in Nat /\ l > 0 /\ Joins(f, l, ss)
    BY <1>1
  <2> HIDE DEF l
  <2>2. /\ l > 0 => f[1] = ss[1]
        /\ \A i \in 1..l : i > 1 => f[i] = f[i - 1] \o ss[i]
    BY <2>1, JoinsSteps, ZenonT(60)
  <2> QED
    BY <2>1, <2>2 DEF l
<1>4. /\ n > 0 => g[1] = tt[1]
      /\ \A i \in 1..n : i > 1 => g[i] = g[i - 1] \o tt[i]
  <2> DEFINE l == n
  <2>1. l \in Nat /\ Joins(g, l, tt)
    BY <1>1
  <2> HIDE DEF l
  <2>2. /\ l > 0 => g[1] = tt[1]
        /\ \A i \in 1..l : i > 1 => g[i] = g[i - 1] \o tt[i]
    BY <2>1, JoinsSteps, ZenonT(60)
  <2> QED
    BY <2>2 DEF l
<1>5. CASE n = 0
  <2>1. Len(tt) = 0 /\ tt = <<>> /\ IsSequence(ss[1])
    BY <1>5, EmptySeq, SequenceFacts
  <2>2. <<>> \o ss[1] = ss[1]
    <3>1. ss[1] \in Seq(ToSet(ss[1]))
      BY <2>1, SequenceFacts
    <3> QED
      BY <3>1, ConcatEmptySeq
  <2>3. FlattenSeq(ss) = ss[1] /\ FlattenSeq(tt) = <<>>
    BY <1>2, <1>3, <1>5, <2>1
  <2>4. ss[n + 1] = ss[1]
    BY <1>5
  <2> QED
    BY <2>2, <2>3, <2>4
<1>6. CASE n # 0
  <2> DEFINE S == {k \in Nat : k + 1 <= n => f[k + 1] = g[k + 1]}
  <2>1. 0 \in S
    BY <1>3, <1>4, <1>6
  <2>2. ASSUME NEW k \in S PROVE k + 1 \in S
    <3> SUFFICES ASSUME k + 2 <= n PROVE f[k + 2] = g[k + 2]
      OBVIOUS
    <3>1. k + 2 \in 1..n /\ k + 2 \in 1..(n + 1) /\ (k + 2) - 1 = k + 1 /\ k + 2 > 1
      OBVIOUS
    <3>2. f[k + 2] = f[k + 1] \o ss[k + 2] /\ g[k + 2] = g[k + 1] \o tt[k + 2]
      BY <1>3, <1>4, <3>1
    <3>3. f[k + 1] = g[k + 1]
      BY <3>1
    <3>4. ss[k + 2] = tt[k + 2]
      BY <3>1
    <3> HIDE DEF S
    <3> QED
      BY <3>2, <3>3, <3>4
  <2>3. S = Nat
    <3>1. S \in SUBSET Nat
      OBVIOUS
    <3> HIDE DEF S
    <3> QED
      BY <2>1, <2>2, <3>1, Induct
  <2>4. f[n] = g[n]
    <3>1. n - 1 \in S /\ (n - 1) + 1 = n
      <4> HIDE DEF S
      <4> QED
        BY <2>3, <1>6
    <3> QED
      BY <3>1
  <2>5. f[n + 1] = f[n] \o ss[n + 1]
    <3>1. n + 1 \in 1..(n + 1) /\ n + 1 > 1 /\ (n + 1) - 1 = n
      BY <1>6
    <3> QED
      BY <1>3, <3>1
  <2> QED
    BY <1>2, <1>6, <2>4, <2>5
<1> QED
  BY <1>5, <1>6

LEMMA EmptyIsSequence == IsSequence(<<>>) /\ Len(<<>>) = 0
<1>1. <<>> \in Seq({})
  OBVIOUS
<1> QED
  BY <1>1, SequenceOf

\* The text of the first headers is the beginning of the text of more.
Begins(s, t) ==
  /\ IsSequence(s) /\ IsSequence(t) /\ Len(s) \in Nat /\ Len(t) \in Nat /\ Len(s) <= Len(t)
  /\ \A i \in 1..Len(s) : t[i] = s[i]

LEMMA BeginsJoined ==
  ASSUME NEW s, NEW t, Begins(s, t), NEW u, IsSequence(u)
  PROVE  Begins(s, t \o u)
<1>1. /\ IsSequence(t \o u) /\ Len(t \o u) = Len(t) + Len(u) /\ Len(u) \in Nat
      /\ \A i \in 1..Len(t) : (t \o u)[i] = t[i]
  BY Joined, SequenceFacts DEF Begins
<1> DEFINE v == t \o u
<1> HIDE DEF v
<1>2. Begins(s, v)
  BY <1>1 DEF Begins, v
<1> QED
  BY <1>2 DEF v

(***************************************************************************)
(* What the matcher finds is a list.                                       *)
(***************************************************************************)
EndStep(f, i, p) ==
  IF i > Len(p) THEN Len(p) + 1
  ELSE IF p[i] # Open THEN f[i + 1]
  ELSE IF i < Len(p) /\ p[i + 1] = Open THEN f[i + 2] ELSE i

Ends(f, k, p) ==
  /\ f = [i \in 1..(Len(p) + 2) |-> f[i]]
  /\ \A i \in 1..(Len(p) + 2) : i + k > Len(p) => f[i] = EndStep(f, i, p)

LEMMA EndStepLocal ==
  ASSUME NEW p, NEW i, NEW f, NEW g, f[i + 1] = g[i + 1], f[i + 2] = g[i + 2]
  PROVE  EndStep(f, i, p) = EndStep(g, i, p)
BY DEF EndStep

LEMMA EndsExists ==
  ASSUME NEW p, Len(p) \in Nat, NEW k \in Nat
  PROVE  \E f : Ends(f, k, p)
<1> DEFINE n == Len(p)
           S == {j \in Nat : \E f : Ends(f, j, p)}
<1>1. 0 \in S
  <2> DEFINE f == [i \in 1..(n + 2) |-> n + 1]
  <2>1. \A i \in 1..(n + 2) : i + 0 > n => f[i] = EndStep(f, i, p)
    BY DEF EndStep
  <2>2. f = [i \in 1..(n + 2) |-> f[i]]
    OBVIOUS
  <2> HIDE DEF f
  <2>3. Ends(f, 0, p)
    BY <2>1, <2>2 DEF Ends
  <2> QED
    BY <2>3
<1>2. ASSUME NEW j \in S PROVE j + 1 \in S
  <2>1. j \in Nat
    OBVIOUS
  <2>2. PICK f : Ends(f, j, p)
    OBVIOUS
  <2> DEFINE l == n - j
             v == EndStep(f, l, p)
             g == [i \in 1..(n + 2) |-> IF i = l THEN v ELSE f[i]]
  <2>3. g = [i \in 1..(n + 2) |-> g[i]]
    OBVIOUS
  <2>4. /\ \A i \in 1..(n + 2) : i # l => g[i] = f[i]
        /\ l \in 1..(n + 2) => g[l] = v
    <3> HIDE DEF v, l
    <3> QED
      OBVIOUS
  <2> HIDE DEF v, g
  <2>5. ASSUME NEW i \in 1..(n + 2), i + (j + 1) > n
        PROVE  g[i] = EndStep(g, i, p)
    <3>1. CASE i > n
      <4>1. i # l /\ i + j > n
        BY <2>1, <3>1
      <4>2. f[i] = EndStep(f, i, p)
        BY <2>2, <4>1 DEF Ends
      <4>3. EndStep(f, i, p) = EndStep(g, i, p)
        BY <3>1 DEF EndStep
      <4> QED
        BY <2>4, <4>1, <4>2, <4>3
    <3>2. CASE i <= n
      <4>1. /\ i + 1 \in 1..(n + 2) /\ i + 2 \in 1..(n + 2)
            /\ i + 1 # l /\ i + 2 # l
        BY <2>1, <2>5, <3>2
      <4>2. g[i + 1] = f[i + 1] /\ g[i + 2] = f[i + 2]
        BY <2>4, <4>1
      <4>3. EndStep(g, i, p) = EndStep(f, i, p)
        BY <4>2, EndStepLocal
      <4>4. CASE i = l
        BY <2>4, <4>3, <4>4 DEF v
      <4>5. CASE i # l
        <5>1. i + j > n
          BY <2>1, <2>5, <4>5
        <5> QED
          BY <2>2, <2>4, <4>3, <4>5, <5>1 DEF Ends
      <4> QED
        BY <4>4, <4>5
    <3> QED
      BY <3>1, <3>2
  <2>6. Ends(g, j + 1, p)
    BY <2>3, <2>5 DEF Ends
  <2> QED
    BY <2>1, <2>6
<1>3. S = Nat
  <2>1. S \in SUBSET Nat
    OBVIOUS
  <2> HIDE DEF S
  <2> QED
    BY <1>1, <1>2, <2>1, Induct
<1> QED
  BY <1>3

LEMMA ExactEndStep ==
  ASSUME NEW p, Len(p) \in Nat
  PROVE  \A i \in 1..(Len(p) + 2) : ExactEnd(p)[i] = EndStep(ExactEnd(p), i, p)
<1> DEFINE e == CHOOSE f : f = [i \in 1..(Len(p) + 2) |->
                  IF i > Len(p) THEN Len(p) + 1
                  ELSE IF p[i] # Open THEN f[i + 1]
                  ELSE IF i < Len(p) /\ p[i + 1] = Open THEN f[i + 2] ELSE i]
<1>1. PICK f : Ends(f, Len(p), p)
  BY EndsExists
<1>2. f = [i \in 1..(Len(p) + 2) |-> EndStep(f, i, p)]
  <2>1. \A i \in 1..(Len(p) + 2) : f[i] = EndStep(f, i, p)
    BY <1>1 DEF Ends
  <2> QED
    BY <1>1, <2>1 DEF Ends
<1>3. e = [i \in 1..(Len(p) + 2) |-> EndStep(e, i, p)]
  BY <1>2 DEF EndStep
<1>4. ExactEnd(p) = e
  BY DEF ExactEnd
<1> DEFINE x == ExactEnd(p)
<1>5. x = [i \in 1..(Len(p) + 2) |-> EndStep(x, i, p)]
  BY <1>3, <1>4
<1> HIDE DEF x
<1>6. \A i \in 1..(Len(p) + 2) : x[i] = EndStep(x, i, p)
  BY <1>5
<1> QED
  BY <1>6 DEF x

LEMMA ExactEndRange ==
  ASSUME NEW p, Len(p) \in Nat, NEW i \in 1..(Len(p) + 1)
  PROVE  ExactEnd(p)[i] \in i..(Len(p) + 1)
<1> DEFINE n == Len(p)
           x == ExactEnd(p)
           S == {j \in Nat : \A l \in 1..(n + 1) : l + j > n => x[l] \in l..(n + 1)}
<1>1. \A l \in 1..(n + 2) : x[l] = EndStep(x, l, p)
  BY ExactEndStep
<1> HIDE DEF x
<1>2. 0 \in S
  BY <1>1 DEF EndStep
<1>3. ASSUME NEW j \in S PROVE j + 1 \in S
  <2>1. j \in Nat /\ \A l \in 1..(n + 1) : l + j > n => x[l] \in l..(n + 1)
    OBVIOUS
  <2> SUFFICES ASSUME NEW l \in 1..(n + 1), l + (j + 1) > n PROVE x[l] \in l..(n + 1)
    BY <2>1
  <2> HIDE DEF S
  <2>2. x[l] = EndStep(x, l, p)
    BY <1>1
  <2>3. CASE l > n
    BY <2>2, <2>3 DEF EndStep
  <2>4. CASE l <= n
    <3>1. x[l + 1] \in (l + 1)..(n + 1)
      <4>1. l + 1 \in 1..(n + 1) /\ l + 1 + j > n
        BY <2>1, <2>4
      <4> QED
        BY <2>1, <4>1
    <3>2. l < n => x[l + 2] \in (l + 2)..(n + 1)
      <4>1. l < n => l + 2 \in 1..(n + 1) /\ l + 2 + j > n
        BY <2>1, <2>4
      <4> QED
        BY <2>1, <4>1
    <3>3. x[l] = x[l + 1] \/ (l < n /\ x[l] = x[l + 2]) \/ x[l] = l
      BY <2>2, <2>4 DEF EndStep
    <3> QED
      BY <3>1, <3>2, <3>3, <2>4
  <2> QED
    BY <2>3, <2>4
<1>4. S = Nat
  <2>1. S \in SUBSET Nat
    OBVIOUS
  <2> HIDE DEF S
  <2> QED
    BY <1>2, <1>3, <2>1, Induct
<1>5. n \in S
  <2> HIDE DEF S
  <2> QED
    BY <1>4
<1>6. x[i] \in i..(n + 1)
  BY <1>5
<1> QED
  BY <1>6 DEF x

LEMMA NameEndRange ==
  ASSUME NEW p, Len(p) \in Nat, WellFormed(p), NEW i \in 1..(Len(p) + 1),
         ExactEnd(p)[i] < Len(p)
  PROVE  NameEnd(p, ExactEnd(p)[i] + 1) \in (i + 1)..Len(p)
<1> DEFINE open == ExactEnd(p)[i]
           opens == {l \in 1..(Len(p) - 1) : \E j \in 1..l : ExactEnd(p)[j] = l}
           ends == {j \in (open + 1)..Len(p) : p[j] = Close}
<1>1. open \in i..(Len(p) - 1)
  BY ExactEndRange
<1>2. open \in opens
  <2>1. open \in 1..(Len(p) - 1) /\ i \in 1..open /\ ExactEnd(p)[i] = open
    BY <1>1
  <2> QED
    BY <2>1
<1>3. NameEnd(p, open + 1) # 0
  <2>1. \A l \in opens : NameEnd(p, l + 1) # 0
    BY DEF WellFormed
  <2> HIDE DEF opens, open
  <2> QED
    BY <1>2, <2>1
<1>4. NameEnd(p, open + 1) = IF ends = {} THEN 0 ELSE Min(ends)
  BY DEF NameEnd
<1> HIDE DEF open
<1>5. ends # {} /\ NameEnd(p, open + 1) = Min(ends)
  BY <1>3, <1>4
<1>6. ends \in SUBSET Nat
  BY <1>1
<1>7. Min(ends) \in ends
  <2> HIDE DEF ends
  <2>1. \E l \in ends : \A j \in ends : l <= j
    BY <1>5, <1>6, LeastOf
  <2> QED
    BY <2>1 DEF Min
<1>8. NameEnd(p, open + 1) \in (open + 1)..Len(p)
  BY <1>5, <1>7
<1> DEFINE c == NameEnd(p, open + 1)
<1> HIDE DEF c
<1>9. c \in (open + 1)..Len(p)
  BY <1>8 DEF c
<1>10. c \in (i + 1)..Len(p)
  BY <1>1, <1>9
<1> QED
  BY <1>10 DEF c, open

\* The exact text that starts at i, if any.
ExactAt(p, i) ==
  IF ExactEnd(p)[i] = i THEN <<>>
  ELSE <<Exact(Unescaped(SubSeq(p, i, ExactEnd(p)[i] - 1)))>>

CloseAt(p, i) == NameEnd(p, ExactEnd(p)[i] + 1)

PlaceholderAt(p, i) == <<Placeholder(SubSeq(p, ExactEnd(p)[i] + 1, CloseAt(p, i) - 1))>>

SegmentStep(f, i, p) ==
  IF ExactEnd(p)[i] >= Len(p) THEN ExactAt(p, i)
  ELSE ExactAt(p, i) \o PlaceholderAt(p, i) \o f[CloseAt(p, i) + 1]

Segments(f, k, p) ==
  /\ f = [i \in 1..(Len(p) + 1) |-> f[i]]
  /\ \A i \in 1..(Len(p) + 1) : i + k > Len(p) + 1 => f[i] = SegmentStep(f, i, p)

LEMMA SegmentStepLocal ==
  ASSUME NEW p, NEW i, NEW f, NEW g,
         ExactEnd(p)[i] >= Len(p) \/ f[CloseAt(p, i) + 1] = g[CloseAt(p, i) + 1]
  PROVE  SegmentStep(f, i, p) = SegmentStep(g, i, p)
BY DEF SegmentStep

LEMMA SegmentsExists ==
  ASSUME NEW p, Len(p) \in Nat, WellFormed(p), NEW k \in Nat
  PROVE  \E f : Segments(f, k, p)
<1> DEFINE n == Len(p)
           S == {j \in Nat : \E f : Segments(f, j, p)}
<1>1. 0 \in S
  <2> DEFINE f == [i \in 1..(n + 1) |-> <<>>]
  <2>1. f = [i \in 1..(n + 1) |-> f[i]]
    OBVIOUS
  <2> HIDE DEF f
  <2>2. \A i \in 1..(n + 1) : ~(i + 0 > n + 1)
    OBVIOUS
  <2>3. Segments(f, 0, p)
    BY <2>1, <2>2 DEF Segments
  <2> QED
    BY <2>3
<1>2. ASSUME NEW j \in S PROVE j + 1 \in S
  <2>1. j \in Nat
    OBVIOUS
  <2>2. PICK f : Segments(f, j, p)
    OBVIOUS
  <2> DEFINE l == n + 1 - j
             v == SegmentStep(f, l, p)
             g == [i \in 1..(n + 1) |-> IF i = l THEN v ELSE f[i]]
  <2>3. g = [i \in 1..(n + 1) |-> g[i]]
    OBVIOUS
  <2>4. /\ \A i \in 1..(n + 1) : i # l => g[i] = f[i]
        /\ l \in 1..(n + 1) => g[l] = v
    <3> HIDE DEF v, l
    <3> QED
      OBVIOUS
  <2> HIDE DEF v, g
  <2>5. ASSUME NEW i \in 1..(n + 1), i + (j + 1) > n + 1
        PROVE  g[i] = SegmentStep(g, i, p)
    <3>1. ExactEnd(p)[i] >= n \/ (CloseAt(p, i) + 1 \in 1..(n + 1) /\ CloseAt(p, i) + 1 # l)
      <4>1. ExactEnd(p)[i] \in i..(n + 1)
        BY ExactEndRange
      <4>2. ExactEnd(p)[i] < n => CloseAt(p, i) \in (i + 1)..n
        BY NameEndRange DEF CloseAt
      <4> QED
        BY <2>1, <2>5, <4>1, <4>2
    <3>2. ExactEnd(p)[i] >= n \/ g[CloseAt(p, i) + 1] = f[CloseAt(p, i) + 1]
      BY <2>4, <3>1
    <3>3. SegmentStep(g, i, p) = SegmentStep(f, i, p)
      BY <3>2, SegmentStepLocal
    <3>4. CASE i = l
      BY <2>4, <3>3, <3>4 DEF v
    <3>5. CASE i # l
      <4>1. i + j > n + 1
        BY <2>1, <2>5, <3>5
      <4> QED
        BY <2>2, <2>4, <3>3, <3>5, <4>1 DEF Segments
    <3> QED
      BY <3>4, <3>5
  <2>6. Segments(g, j + 1, p)
    BY <2>3, <2>5 DEF Segments
  <2> QED
    BY <2>1, <2>6
<1>3. S = Nat
  <2>1. S \in SUBSET Nat
    OBVIOUS
  <2> HIDE DEF S
  <2> QED
    BY <1>1, <1>2, <2>1, Induct
<1> QED
  BY <1>3

Parsed(p) ==
  CHOOSE f : f = [i \in 1..(Len(p) + 1) |->
        LET open == ExactEnd(p)[i]
            close == NameEnd(p, open + 1)
            exact == IF open = i THEN <<>>
                     ELSE <<Exact(Unescaped(SubSeq(p, i, open - 1)))>>
        IN IF open >= Len(p) THEN exact
           ELSE exact \o <<Placeholder(SubSeq(p, open + 1, close - 1))>>
                      \o f[close + 1]]

LEMMA ParsedSteps ==
  ASSUME NEW p, Len(p) \in Nat, WellFormed(p)
  PROVE  /\ p # <<>> => parse(p) = Parsed(p)[1]
         /\ p = <<>> => parse(p) = <<>>
         /\ \A i \in 1..(Len(p) + 1) : Parsed(p)[i] = SegmentStep(Parsed(p), i, p)
<1>1. PICK f : Segments(f, Len(p) + 1, p)
  <2>1. Len(p) + 1 \in Nat
    OBVIOUS
  <2> QED
    BY <2>1, SegmentsExists
<1>2. f = [i \in 1..(Len(p) + 1) |-> SegmentStep(f, i, p)]
  <2>1. \A i \in 1..(Len(p) + 1) : f[i] = SegmentStep(f, i, p)
    BY <1>1 DEF Segments
  <2> QED
    BY <1>1, <2>1 DEF Segments
<1> DEFINE d == Parsed(p)
<1>3. d = [i \in 1..(Len(p) + 1) |-> SegmentStep(d, i, p)]
  BY <1>2 DEF Parsed, SegmentStep, ExactAt, PlaceholderAt, CloseAt
<1>4. (p # <<>> => parse(p) = d[1]) /\ (p = <<>> => parse(p) = <<>>)
  BY DEF parse, Parsed
<1> HIDE DEF d
<1>5. \A i \in 1..(Len(p) + 1) : d[i] = SegmentStep(d, i, p)
  BY <1>3
<1> QED
  BY <1>4, <1>5 DEF d

LEMMA SegmentsSequence ==
  ASSUME NEW p, Len(p) \in Nat, WellFormed(p)
  PROVE  IsSequence(parse(p)) /\ Len(parse(p)) \in Nat
<1> DEFINE n == Len(p)
           d == Parsed(p)
           S == {j \in Nat : \A i \in 1..(n + 1) : i + j > n + 1 => IsSequence(d[i])}
<1>1. \A i \in 1..(n + 1) : d[i] = SegmentStep(d, i, p)
  BY ParsedSteps
<1> HIDE DEF d
<1>2. 0 \in S
  OBVIOUS
<1>3. ASSUME NEW j \in S PROVE j + 1 \in S
  <2>1. j \in Nat /\ \A i \in 1..(n + 1) : i + j > n + 1 => IsSequence(d[i])
    OBVIOUS
  <2> SUFFICES ASSUME NEW i \in 1..(n + 1), i + (j + 1) > n + 1 PROVE IsSequence(d[i])
    BY <2>1
  <2> HIDE DEF S
  <2>2. ASSUME NEW e PROVE IsSequence(<<e>>)
    <3>1. <<e>> \in Seq({e})
      OBVIOUS
    <3> QED
      BY <3>1, SequenceOf
  <2> DEFINE s == ExactAt(p, i)
             t == PlaceholderAt(p, i)
             u == d[CloseAt(p, i) + 1]
  <2>3. IsSequence(s) /\ IsSequence(t)
    BY <2>2, EmptyIsSequence DEF ExactAt, PlaceholderAt
  <2>4. CASE ExactEnd(p)[i] >= n
    <3>1. d[i] = s
      BY <1>1, <2>4 DEF SegmentStep
    <3> QED
      BY <2>3, <3>1
  <2>5. CASE ~(ExactEnd(p)[i] >= n)
    <3>1. d[i] = s \o t \o u
      BY <1>1, <2>5 DEF SegmentStep
    <3>2. ExactEnd(p)[i] \in i..(n + 1)
      BY ExactEndRange
    <3>3. CloseAt(p, i) \in (i + 1)..n
      BY <2>5, <3>2, NameEndRange DEF CloseAt
    <3>4. CloseAt(p, i) + 1 \in 1..(n + 1) /\ CloseAt(p, i) + 1 + j > n + 1
      BY <2>1, <3>3
    <3>5. IsSequence(u)
      BY <2>1, <3>4
    <3> HIDE DEF s, t, u
    <3>6. IsSequence(s \o t)
      <4>1. IsSequence(s) /\ IsSequence(t)
        BY <2>3
      <4> QED
        BY <4>1, Joined
    <3> DEFINE v == s \o t
    <3>7. IsSequence(v) /\ IsSequence(u)
      BY <3>5, <3>6
    <3>8. d[i] = v \o u
      BY <3>1
    <3> HIDE DEF v
    <3> QED
      BY <3>7, <3>8, Joined
  <2> QED
    BY <2>4, <2>5
<1>4. S = Nat
  <2>1. S \in SUBSET Nat
    OBVIOUS
  <2> HIDE DEF S
  <2> QED
    BY <1>2, <1>3, <2>1, Induct
<1>5. n + 1 \in S
  <2> HIDE DEF S
  <2> QED
    BY <1>4
<1>6. IsSequence(d[1])
  BY <1>5
<1>7. IsSequence(parse(p))
  <2>1. p # <<>> => parse(p) = d[1]
    BY ParsedSteps DEF d
  <2>2. p = <<>> => parse(p) = <<>>
    BY ParsedSteps
  <2> QED
    BY <1>6, <2>1, <2>2, EmptyIsSequence
<1> QED
  BY <1>7, SequenceFacts

ScanStep(f, n, entry, path) ==
  IF n = 0 THEN ScanStart(path) ELSE ScanSegment(path, f[n - 1], entry.segments[n])

Scans(f, k, entry, path) ==
  /\ f = [n \in 0..Len(entry.segments) |-> f[n]]
  /\ \A n \in 0..Len(entry.segments) : n < k => f[n] = ScanStep(f, n, entry, path)

LEMMA ScanStepLocal ==
  ASSUME NEW n, NEW entry, NEW path, NEW f, NEW g, n = 0 \/ f[n - 1] = g[n - 1]
  PROVE  ScanStep(f, n, entry, path) = ScanStep(g, n, entry, path)
BY DEF ScanStep

LEMMA ScansExists ==
  ASSUME NEW entry, NEW path, Len(entry.segments) \in Nat, NEW k \in Nat
  PROVE  \E f : Scans(f, k, entry, path)
<1> DEFINE m == Len(entry.segments)
           S == {j \in Nat : \E f : Scans(f, j, entry, path)}
<1>1. 0 \in S
  <2> DEFINE f == [n \in 0..m |-> <<>>]
  <2>1. f = [n \in 0..m |-> f[n]]
    OBVIOUS
  <2> HIDE DEF f
  <2>2. \A n \in 0..m : ~(n < 0)
    OBVIOUS
  <2>3. Scans(f, 0, entry, path)
    BY <2>1, <2>2 DEF Scans
  <2> QED
    BY <2>3
<1>2. ASSUME NEW j \in S PROVE j + 1 \in S
  <2>1. j \in Nat
    OBVIOUS
  <2>2. PICK f : Scans(f, j, entry, path)
    OBVIOUS
  <2> DEFINE v == ScanStep(f, j, entry, path)
             g == [n \in 0..m |-> IF n = j THEN v ELSE f[n]]
  <2>3. g = [n \in 0..m |-> g[n]]
    OBVIOUS
  <2>4. /\ \A n \in 0..m : n # j => g[n] = f[n]
        /\ j \in 0..m => g[j] = v
    <3> HIDE DEF v
    <3> QED
      OBVIOUS
  <2> HIDE DEF v, g
  <2>5. ASSUME NEW n \in 0..m, n < j + 1
        PROVE  g[n] = ScanStep(g, n, entry, path)
    <3>1. n = 0 \/ (n - 1 \in 0..m /\ n - 1 # j)
      BY <2>1, <2>5
    <3>2. ScanStep(g, n, entry, path) = ScanStep(f, n, entry, path)
      BY <2>4, <3>1, ScanStepLocal
    <3>3. CASE n = j
      BY <2>4, <3>2, <3>3 DEF v
    <3>4. CASE n # j
      <4>1. n < j
        BY <2>1, <2>5, <3>4
      <4> QED
        BY <2>2, <2>4, <3>2, <3>4, <4>1 DEF Scans
    <3> QED
      BY <3>3, <3>4
  <2>6. Scans(g, j + 1, entry, path)
    BY <2>3, <2>5 DEF Scans
  <2> QED
    BY <2>1, <2>6
<1>3. S = Nat
  <2>1. S \in SUBSET Nat
    OBVIOUS
  <2> HIDE DEF S
  <2> QED
    BY <1>1, <1>2, <2>1, Induct
<1> QED
  BY <1>3

Scanned(entry, path) ==
  CHOOSE f : f = [n \in 0..Len(entry.segments) |->
        IF n = 0 THEN ScanStart(path)
        ELSE ScanSegment(path, f[n - 1], entry.segments[n])]

LEMMA ScannedSteps ==
  ASSUME NEW entry, NEW path, Len(entry.segments) \in Nat
  PROVE  /\ Scan(entry, path) = Scanned(entry, path)[Len(entry.segments)]
         /\ \A n \in 0..Len(entry.segments) :
              Scanned(entry, path)[n] = ScanStep(Scanned(entry, path), n, entry, path)
<1> DEFINE m == Len(entry.segments)
<1>1. PICK f : Scans(f, m + 1, entry, path)
  <2>1. m + 1 \in Nat
    OBVIOUS
  <2> QED
    BY <2>1, ScansExists
<1>2. f = [n \in 0..m |-> ScanStep(f, n, entry, path)]
  <2>1. \A n \in 0..m : f[n] = ScanStep(f, n, entry, path)
    BY <1>1 DEF Scans
  <2> QED
    BY <1>1, <2>1 DEF Scans
<1> DEFINE d == Scanned(entry, path)
<1>3. d = [n \in 0..m |-> ScanStep(d, n, entry, path)]
  BY <1>2 DEF Scanned, ScanStep
<1>4. Scan(entry, path) = d[m]
  BY DEF Scan, Scanned
<1> HIDE DEF d
<1>5. \A n \in 0..m : d[n] = ScanStep(d, n, entry, path)
  BY <1>3
<1> QED
  BY <1>4, <1>5 DEF d

\* What the scan has found so far is a list.
Listed(scan) ==
  /\ scan = [rest |-> scan.rest, value_length |-> scan.value_length,
             entries |-> scan.entries, stopped |-> scan.stopped]
  /\ IsSequence(scan.entries)

LEMMA SegmentListed ==
  ASSUME NEW path, NEW scan, Listed(scan), NEW segment
  PROVE  Listed(ScanSegment(path, scan, segment))
<1> DEFINE e == scan.entries
           v == [key |-> segment.data, value_length |-> Len(UpToSlash(scan.rest)),
                 value |-> Len(path) - Len(scan.rest)]
           t == Append(e, v)
           q == ScanSegment(path, scan, segment)
<1>1. IsSequence(e)
  BY DEF Listed
<1>2. IsSequence(t)
  <2> HIDE DEF e, v
  <2> QED
    BY <1>1, Added
<1>3. \/ q = scan
      \/ \E r : q = [scan EXCEPT !.rest = r]
      \/ q = [scan EXCEPT !.stopped = TRUE]
      \/ \E r, l, b : \/ q = [rest |-> r, value_length |-> l, entries |-> e, stopped |-> b]
                      \/ q = [rest |-> r, value_length |-> l, entries |-> t, stopped |-> b]
  BY DEF ScanSegment
<1> HIDE DEF q, t, e
<1>4. q = scan => Listed(q)
  OBVIOUS
<1>5. ASSUME NEW r, q = [scan EXCEPT !.rest = r] PROVE Listed(q)
  BY <1>5 DEF Listed
<1>6. q = [scan EXCEPT !.stopped = TRUE] => Listed(q)
  BY DEF Listed
<1>7. ASSUME NEW r, NEW l, NEW b, NEW u \in {e, t},
             q = [rest |-> r, value_length |-> l, entries |-> u, stopped |-> b]
      PROVE  Listed(q)
  BY <1>1, <1>2, <1>7 DEF Listed
<1>8. Listed(q)
  BY <1>3, <1>4, <1>5, <1>6, <1>7
<1> QED
  BY <1>8 DEF q

LEMMA ScanListed ==
  ASSUME NEW entry, NEW path, Len(entry.segments) \in Nat
  PROVE  IsSequence(Scan(entry, path).entries)
<1> DEFINE m == Len(entry.segments)
           d == Scanned(entry, path)
           S == {n \in Nat : n <= m => Listed(d[n])}
<1>1. Scan(entry, path) = d[m] /\ \A n \in 0..m : d[n] = ScanStep(d, n, entry, path)
  BY ScannedSteps
<1> HIDE DEF d
<1>2. 0 \in S
  <2>1. d[0] = ScanStart(path)
    BY <1>1 DEF ScanStep
  <2>2. Listed(ScanStart(path))
    BY EmptyIsSequence DEF Listed, ScanStart
  <2> QED
    BY <2>1, <2>2
<1>3. ASSUME NEW n \in S PROVE n + 1 \in S
  <2> SUFFICES ASSUME n + 1 <= m PROVE Listed(d[n + 1])
    OBVIOUS
  <2>1. n + 1 \in 0..m /\ n + 1 # 0 /\ (n + 1) - 1 = n /\ Listed(d[n])
    OBVIOUS
  <2>2. d[n + 1] = ScanSegment(path, d[n], entry.segments[n + 1])
    BY <1>1, <2>1 DEF ScanStep
  <2> QED
    BY <2>1, <2>2, SegmentListed
<1>4. S = Nat
  <2>1. S \in SUBSET Nat
    OBVIOUS
  <2> HIDE DEF S
  <2> QED
    BY <1>2, <1>3, <2>1, Induct
<1>5. m \in S
  <2> HIDE DEF S
  <2> QED
    BY <1>4
<1> QED
  BY <1>1, <1>5 DEF Listed

LEMMA MatchListed ==
  ASSUME NEW path, NEW method
  PROVE  IsSequence(Matcher_match_request(path, method).entries)
<1> DEFINE matching == {i \in DOMAIN compile_all : EntryMatches(compile_all[i], path, method)}
           e == Min(matching)
<1>1. CASE matching = {}
  BY <1>1, EmptyIsSequence DEF Matcher_match_request
<1>2. CASE matching # {}
  <2>1. DOMAIN compile_all = DOMAIN Routes /\ DOMAIN Routes = 1..Len(Routes)
    BY RouteAssumption, SequenceFacts DEF compile_all
  <2>2. matching \in SUBSET Nat
    BY <2>1
  <2>3. e \in matching
    <3> HIDE DEF matching
    <3>1. \E i \in matching : \A j \in matching : i <= j
      BY <1>2, <2>2, LeastOf
    <3> QED
      BY <3>1 DEF Min
  <2>4. e \in DOMAIN Routes /\ compile_all[e] = compile(Routes[e])
    <3>1. e \in DOMAIN Routes
      BY <2>1, <2>3
    <3> HIDE DEF e
    <3> QED
      BY <3>1 DEF compile_all
  <2>5. Matcher_match_request(path, method).entries = Scan(compile_all[e], path).entries
    BY <1>2 DEF Matcher_match_request
  <2> HIDE DEF e
  <2>6. compile_all[e].segments = parse(Routes[e].pattern)
    BY <2>4 DEF compile
  <2>7. Len(Routes[e].pattern) \in Nat /\ WellFormed(Routes[e].pattern)
    BY <2>4, RouteAssumption, SequenceFacts
  <2>8. Len(compile_all[e].segments) \in Nat
    BY <2>6, <2>7, SegmentsSequence
  <2> QED
    BY <2>5, <2>8, ScanListed
<1> QED
  BY <1>1, <1>2

(***************************************************************************)
(* What parse makes of a pattern: a placeholder's value ends where the     *)
(* next segment begins, with a '/', or with the path.                      *)
(***************************************************************************)
UnescapeStep(f, i, s) ==
  IF i > Len(s) THEN <<>>
  ELSE IF s[i] \in {Open, Close} /\ i < Len(s) /\ s[i + 1] = s[i]
  THEN <<s[i]>> \o f[i + 2] ELSE <<s[i]>> \o f[i + 1]

Unescapes(f, k, s) ==
  /\ f = [i \in 1..(Len(s) + 2) |-> f[i]]
  /\ \A i \in 1..(Len(s) + 2) : i + k > Len(s) => f[i] = UnescapeStep(f, i, s)

LEMMA UnescapeStepLocal ==
  ASSUME NEW s, NEW i, NEW f, NEW g, f[i + 1] = g[i + 1], f[i + 2] = g[i + 2]
  PROVE  UnescapeStep(f, i, s) = UnescapeStep(g, i, s)
BY DEF UnescapeStep

LEMMA UnescapesExists ==
  ASSUME NEW s, Len(s) \in Nat, NEW k \in Nat
  PROVE  \E f : Unescapes(f, k, s)
<1> DEFINE n == Len(s)
           S == {j \in Nat : \E f : Unescapes(f, j, s)}
<1>1. 0 \in S
  <2> DEFINE f == [i \in 1..(n + 2) |-> <<>>]
  <2>1. \A i \in 1..(n + 2) : i + 0 > n => f[i] = UnescapeStep(f, i, s)
    BY DEF UnescapeStep
  <2>2. f = [i \in 1..(n + 2) |-> f[i]]
    OBVIOUS
  <2> HIDE DEF f
  <2>3. Unescapes(f, 0, s)
    BY <2>1, <2>2 DEF Unescapes
  <2> QED
    BY <2>3
<1>2. ASSUME NEW j \in S PROVE j + 1 \in S
  <2>1. j \in Nat
    OBVIOUS
  <2>2. PICK f : Unescapes(f, j, s)
    OBVIOUS
  <2> DEFINE l == n - j
             v == UnescapeStep(f, l, s)
             g == [i \in 1..(n + 2) |-> IF i = l THEN v ELSE f[i]]
  <2>3. g = [i \in 1..(n + 2) |-> g[i]]
    OBVIOUS
  <2>4. /\ \A i \in 1..(n + 2) : i # l => g[i] = f[i]
        /\ l \in 1..(n + 2) => g[l] = v
    <3> HIDE DEF v, l
    <3> QED
      OBVIOUS
  <2> HIDE DEF v, g
  <2>5. ASSUME NEW i \in 1..(n + 2), i + (j + 1) > n
        PROVE  g[i] = UnescapeStep(g, i, s)
    <3>1. CASE i > n
      <4>1. i # l /\ i + j > n
        BY <2>1, <3>1
      <4>2. f[i] = UnescapeStep(f, i, s)
        BY <2>2, <4>1 DEF Unescapes
      <4>3. UnescapeStep(f, i, s) = UnescapeStep(g, i, s)
        BY <3>1 DEF UnescapeStep
      <4> QED
        BY <2>4, <4>1, <4>2, <4>3
    <3>2. CASE i <= n
      <4>1. /\ i + 1 \in 1..(n + 2) /\ i + 2 \in 1..(n + 2)
            /\ i + 1 # l /\ i + 2 # l
        BY <2>1, <2>5, <3>2
      <4>2. g[i + 1] = f[i + 1] /\ g[i + 2] = f[i + 2]
        BY <2>4, <4>1
      <4>3. UnescapeStep(g, i, s) = UnescapeStep(f, i, s)
        BY <4>2, UnescapeStepLocal
      <4>4. CASE i = l
        BY <2>4, <4>3, <4>4 DEF v
      <4>5. CASE i # l
        <5>1. i + j > n
          BY <2>1, <2>5, <4>5
        <5> QED
          BY <2>2, <2>4, <4>3, <4>5, <5>1 DEF Unescapes
      <4> QED
        BY <4>4, <4>5
    <3> QED
      BY <3>1, <3>2
  <2>6. Unescapes(g, j + 1, s)
    BY <2>3, <2>5 DEF Unescapes
  <2> QED
    BY <2>1, <2>6
<1>3. S = Nat
  <2>1. S \in SUBSET Nat
    OBVIOUS
  <2> HIDE DEF S
  <2> QED
    BY <1>1, <1>2, <2>1, Induct
<1> QED
  BY <1>3

Unescaper(s) ==
  CHOOSE f : f = [i \in 1..(Len(s) + 2) |->
        IF i > Len(s) THEN <<>>
        ELSE IF s[i] \in {Open, Close} /\ i < Len(s) /\ s[i + 1] = s[i]
        THEN <<s[i]>> \o f[i + 2] ELSE <<s[i]>> \o f[i + 1]]

LEMMA UnescaperSteps ==
  ASSUME NEW s, Len(s) \in Nat
  PROVE  /\ Unescaped(s) = Unescaper(s)[1]
         /\ \A i \in 1..(Len(s) + 2) : Unescaper(s)[i] = UnescapeStep(Unescaper(s), i, s)
<1>1. PICK f : Unescapes(f, Len(s), s)
  BY UnescapesExists
<1>2. f = [i \in 1..(Len(s) + 2) |-> UnescapeStep(f, i, s)]
  <2>1. \A i \in 1..(Len(s) + 2) : f[i] = UnescapeStep(f, i, s)
    BY <1>1 DEF Unescapes
  <2> QED
    BY <1>1, <2>1 DEF Unescapes
<1> DEFINE d == Unescaper(s)
<1>3. d = [i \in 1..(Len(s) + 2) |-> UnescapeStep(d, i, s)]
  BY <1>2 DEF Unescaper, UnescapeStep
<1>4. Unescaped(s) = d[1]
  BY DEF Unescaped, Unescaper
<1> HIDE DEF d
<1>5. \A i \in 1..(Len(s) + 2) : d[i] = UnescapeStep(d, i, s)
  BY <1>3
<1> QED
  BY <1>4, <1>5 DEF d

LEMMA UnescapedOne ==
  ASSUME NEW s, Len(s) \in Nat, NEW f, NEW i \in 1..Len(s), f[i] = UnescapeStep(f, i, s)
  PROVE  f[i] = <<s[i]>> \o f[i + 2] \/ f[i] = <<s[i]>> \o f[i + 1]
<1>1. ~(i > Len(s))
  OBVIOUS
<1> DEFINE a == <<s[i]>> \o f[i + 2]
           b == <<s[i]>> \o f[i + 1]
<1>2. UnescapeStep(f, i, s) = IF i > Len(s) THEN <<>> ELSE
        IF s[i] \in {Open, Close} /\ i < Len(s) /\ s[i + 1] = s[i] THEN a ELSE b
  BY DEF UnescapeStep
<1> HIDE DEF a, b
<1>3. f[i] = a \/ f[i] = b
  BY <1>1, <1>2
<1> QED
  BY <1>3 DEF a, b

LEMMA One ==
  ASSUME NEW e
  PROVE  IsSequence(<<e>>) /\ Len(<<e>>) = 1 /\ <<e>>[1] = e
<1>1. <<e>> \in Seq({e})
  OBVIOUS
<1> QED
  BY <1>1, SequenceOf

\* One element in front.
LEMMA InFront ==
  ASSUME NEW e, NEW t, IsSequence(t)
  PROVE  /\ IsSequence(<<e>> \o t) /\ Len(<<e>> \o t) = Len(t) + 1
         /\ Len(t) \in Nat /\ (<<e>> \o t)[1] = e
         /\ \A i \in 1..Len(t) : (<<e>> \o t)[i + 1] = t[i]
<1> DEFINE s == <<e>>
<1>1. IsSequence(s) /\ Len(s) = 1 /\ s[1] = e
  BY One
<1>2. Len(t) \in Nat
  BY SequenceFacts
<1> HIDE DEF s
<1>3. /\ IsSequence(s \o t) /\ Len(s \o t) = Len(s) + Len(t)
      /\ \A i \in 1..Len(s) : (s \o t)[i] = s[i]
      /\ \A i \in 1..Len(t) : (s \o t)[Len(s) + i] = t[i]
  <2>1. IsSequence(s) /\ IsSequence(t)
    BY <1>1
  <2>2. /\ IsSequence(s \o t) /\ Len(s \o t) = Len(s) + Len(t)
        /\ \A i \in 1..Len(s) : (s \o t)[i] = s[i]
        /\ \A i \in 1..Len(t) : (s \o t)[Len(s) + i] = t[i]
        /\ \A i \in 1..(Len(s) + Len(t)) :
             (s \o t)[i] = IF i <= Len(s) THEN s[i] ELSE t[i - Len(s)]
    BY <2>1, Joined
  <2> QED
    BY <2>2
<1>4. 1 \in 1..Len(s) /\ \A i \in 1..Len(t) : Len(s) + i = i + 1
  BY <1>1, <1>2
<1>5. /\ IsSequence(s \o t) /\ Len(s \o t) = Len(t) + 1
      /\ (s \o t)[1] = e /\ \A i \in 1..Len(t) : (s \o t)[i + 1] = t[i]
  BY <1>1, <1>2, <1>3, <1>4
<1> QED
  BY <1>2, <1>5 DEF s

\* An exact text that is not empty stays so, and begins as it did.
LEMMA UnescapedFacts ==
  ASSUME NEW s, IsSequence(s)
  PROVE  /\ IsSequence(Unescaped(s))
         /\ Len(s) > 0 => Len(Unescaped(s)) > 0 /\ Unescaped(s)[1] = s[1]
<1> DEFINE n == Len(s)
           d == Unescaper(s)
           S == {j \in Nat : \A i \in 1..(n + 2) : i + j > n => IsSequence(d[i])}
<1>1. n \in Nat
  BY SequenceFacts
<1>2. Unescaped(s) = d[1] /\ \A i \in 1..(n + 2) : d[i] = UnescapeStep(d, i, s)
  BY <1>1, UnescaperSteps
<1> HIDE DEF d
<1>3. \A i \in 1..(n + 2) : i > n => IsSequence(d[i])
  BY <1>2, EmptyIsSequence DEF UnescapeStep
<1>4. 0 \in S
  BY <1>1, <1>3
<1>5. ASSUME NEW j \in S PROVE j + 1 \in S
  <2>1. j \in Nat /\ \A i \in 1..(n + 2) : i + j > n => IsSequence(d[i])
    OBVIOUS
  <2> SUFFICES ASSUME NEW i \in 1..(n + 2), i + (j + 1) > n PROVE IsSequence(d[i])
    BY <2>1
  <2> HIDE DEF S
  <2>2. CASE i > n
    BY <1>3, <2>2
  <2>3. CASE i <= n
    <3>1. /\ i + 1 \in 1..(n + 2) /\ i + 2 \in 1..(n + 2)
          /\ (i + 1) + j > n /\ (i + 2) + j > n
      BY <1>1, <2>1, <2>3
    <3>2. IsSequence(d[i + 1]) /\ IsSequence(d[i + 2])
      BY <2>1, <3>1
    <3> DEFINE e == s[i]
               t == d[i + 1]
               u == d[i + 2]
    <3>3. d[i] = <<e>> \o u \/ d[i] = <<e>> \o t
      BY <1>1, <1>2, <2>3, UnescapedOne
    <3> HIDE DEF e, t, u
    <3>4. IsSequence(<<e>> \o u) /\ IsSequence(<<e>> \o t)
      <4>1. IsSequence(t) /\ IsSequence(u)
        BY <3>2 DEF t, u
      <4> QED
        BY <4>1, InFront
    <3> QED
      BY <3>3, <3>4
  <2> QED
    BY <1>1, <2>2, <2>3
<1>6. S = Nat
  <2>1. S \in SUBSET Nat
    OBVIOUS
  <2> HIDE DEF S
  <2> QED
    BY <1>4, <1>5, <2>1, Induct
<1>7. \A i \in 1..(n + 2) : IsSequence(d[i])
  <2>1. n \in S
    <3> HIDE DEF S
    <3> QED
      BY <1>1, <1>6
  <2> QED
    BY <1>1, <2>1
<1>8. ASSUME n > 0 PROVE Len(d[1]) > 0 /\ d[1][1] = s[1]
  <2>1. 1 \in 1..(n + 2) /\ 2 \in 1..(n + 2) /\ 3 \in 1..(n + 2)
    BY <1>1, <1>8
  <2>2. IsSequence(d[2]) /\ IsSequence(d[3])
    BY <1>7, <2>1
  <2>3. d[1] = <<s[1]>> \o d[3] \/ d[1] = <<s[1]>> \o d[2]
    <3>1. 1 + 1 = 2 /\ 1 + 2 = 3 /\ 1 <= n
      BY <1>1, <1>8
    <3> QED
      BY <1>1, <1>2, <2>1, <3>1, UnescapedOne
  <2>4. ASSUME NEW t, IsSequence(t), d[1] = <<s[1]>> \o t PROVE Len(d[1]) > 0 /\ d[1][1] = s[1]
    <3> DEFINE e == s[1]
    <3> HIDE DEF e
    <3>1. Len(<<e>> \o t) = Len(t) + 1 /\ Len(t) \in Nat /\ (<<e>> \o t)[1] = e
      BY <2>4, InFront
    <3> QED
      BY <2>4, <3>1 DEF e
  <2> QED
    BY <2>2, <2>3, <2>4
<1> QED
  BY <1>1, <1>2, <1>7, <1>8

Text(x) == x.type = "exact" /\ IsSequence(x.data) /\ Len(x.data) > 0
Hole(x) == x = Placeholder(x.data)

\* What can come after a placeholder: nothing, or a text that begins with '/'.
Follows(t) == Len(t) > 0 => Text(t[1]) /\ t[1].data[1] = Slash

\* Exact texts, none empty, and placeholders with such a text behind them.
Shaped(segments) ==
  /\ IsSequence(segments)
  /\ \A i \in 1..Len(segments) : Text(segments[i]) \/ Hole(segments[i])
  /\ \A i \in 1..Len(segments) :
       Hole(segments[i]) /\ i + 1 <= Len(segments)
         => Text(segments[i + 1]) /\ segments[i + 1].data[1] = Slash

LEMMA ShapedInFront ==
  ASSUME NEW t, Shaped(t), NEW x, Text(x) \/ (Hole(x) /\ Follows(t))
  PROVE  Shaped(<<x>> \o t)
<1> DEFINE s == <<x>> \o t
           l == Len(t)
<1>1. IsSequence(t)
  BY DEF Shaped
<1>2. /\ IsSequence(s) /\ Len(s) = l + 1
      /\ l \in Nat /\ s[1] = x
      /\ \A i \in 1..l : s[i + 1] = t[i]
  BY <1>1, InFront
<1> HIDE DEF s, l
<1>3. ~(Text(x) /\ Hole(x))
  BY DEF Text, Hole, Placeholder
<1>4. ASSUME NEW i \in 1..Len(s) PROVE Text(s[i]) \/ Hole(s[i])
  <2>1. CASE i = 1
    BY <1>2, <2>1
  <2>2. CASE i # 1
    <3>1. i - 1 \in 1..l /\ s[i - 1 + 1] = t[i - 1] /\ i - 1 + 1 = i
      BY <1>2, <1>4, <2>2
    <3> QED
      BY <3>1 DEF Shaped, l
  <2> QED
    BY <2>1, <2>2
<1>5. ASSUME NEW i \in 1..Len(s), Hole(s[i]), i + 1 <= Len(s)
      PROVE  Text(s[i + 1]) /\ s[i + 1].data[1] = Slash
  <2>1. i \in 1..l /\ s[i + 1] = t[i]
    BY <1>2, <1>5
  <2>2. CASE i = 1
    <3>1. Follows(t)
      BY <1>2, <1>3, <1>5, <2>2
    <3> QED
      BY <1>2, <2>1, <2>2, <3>1 DEF Follows, l
  <2>3. CASE i # 1
    <3>1. i - 1 \in 1..l /\ s[i - 1 + 1] = t[i - 1] /\ i - 1 + 1 = i
      BY <1>2, <2>1, <2>3
    <3>2. Hole(t[i - 1]) /\ i - 1 + 1 <= l
      BY <1>5, <2>1, <3>1
    <3>3. Text(t[i - 1 + 1]) /\ t[i - 1 + 1].data[1] = Slash
      BY <3>1, <3>2 DEF Shaped, l
    <3> QED
      BY <2>1, <3>1, <3>3
  <2> QED
    BY <2>2, <2>3
<1>6. Shaped(s)
  BY <1>2, <1>4, <1>5 DEF Shaped
<1> QED
  BY <1>6 DEF s

LEMMA ShapedEmpty == Shaped(<<>>) /\ Follows(<<>>)
BY EmptyIsSequence DEF Shaped, Follows

\* Joining in two steps.
LEMMA Regrouped ==
  ASSUME NEW s, IsSequence(s), NEW t, IsSequence(t), NEW u, IsSequence(u)
  PROVE  (s \o t) \o u = s \o (t \o u)
<1> DEFINE T == ToSet(s) \cup ToSet(t) \cup ToSet(u)
<1>1. s \in Seq(T) /\ t \in Seq(T) /\ u \in Seq(T)
  BY SequenceIn
<1> HIDE DEF T
<1> QED
  BY <1>1, ConcatAssociative

LEMMA EmptyInFront ==
  ASSUME NEW s, IsSequence(s)
  PROVE  <<>> \o s = s /\ s \o <<>> = s
<1> DEFINE T == ToSet(s)
<1>1. s \in Seq(T)
  BY SequenceFacts
<1> HIDE DEF T
<1> QED
  BY <1>1, ConcatEmptySeq

\* The exact text at i begins like the pattern there.
LEMMA ExactBegins ==
  ASSUME NEW p, IsSequence(p), NEW i \in 1..(Len(p) + 1), ExactEnd(p)[i] # i
  PROVE  \E x : ExactAt(p, i) = <<x>> /\ Text(x) /\ x.data[1] = p[i]
<1> DEFINE n == Len(p)
           open == ExactEnd(p)[i]
           l == open - i
           s == SubSeq(p, i, open - 1)
           x == Exact(Unescaped(s))
<1>1. n \in Nat
  BY SequenceFacts
<1>2. open \in i..(n + 1)
  BY <1>1, ExactEndRange
<1>3. ExactAt(p, i) = <<x>>
  BY DEF ExactAt
<1> HIDE DEF open
<1>4. l \in Nat /\ l > 0 /\ i - 1 \in Nat /\ (i - 1) + l <= n /\ (i - 1) + 1 = i /\ (i - 1) + l = open - 1
  BY <1>1, <1>2 DEF open
<1> DEFINE a == i - 1
<1>5. /\ IsSequence(SubSeq(p, a + 1, a + l)) /\ Len(SubSeq(p, a + 1, a + l)) = l
      /\ \A j \in 1..l : SubSeq(p, a + 1, a + l)[j] = p[a + j]
  <2> HIDE DEF a, l
  <2>1. a \in Nat /\ l \in Nat /\ a + l <= Len(p)
    BY <1>4 DEF a, l
  <2> QED
    BY <2>1, Cut
<1>6. s = SubSeq(p, a + 1, a + l)
  BY <1>4
<1> HIDE DEF s, l, a
<1>7. IsSequence(s) /\ Len(s) > 0 /\ s[1] = p[i]
  <2>1. 1 \in 1..l /\ a + 1 = i
    BY <1>4 DEF a
  <2> QED
    BY <1>4, <1>5, <1>6, <2>1
<1> DEFINE t == Unescaped(s)
<1>8. IsSequence(t) /\ Len(t) > 0 /\ t[1] = p[i]
  BY <1>7, UnescapedFacts
<1> HIDE DEF t
<1>9. x.type = "exact" /\ x.data = t
  BY DEF Exact, t
<1> QED
  BY <1>3, <1>8, <1>9 DEF Text

\* A '/' is part of an exact text.
LEMMA SlashIsExact ==
  ASSUME NEW p, Len(p) \in Nat, NEW i \in 1..Len(p), p[i] = Slash
  PROVE  ExactEnd(p)[i] # i
<1>1. ExactEnd(p)[i] = EndStep(ExactEnd(p), i, p)
  BY ExactEndStep
<1>2. EndStep(ExactEnd(p), i, p) = ExactEnd(p)[i + 1]
  BY CharacterAssumption DEF EndStep
<1>3. i + 1 \in 1..(Len(p) + 1)
  OBVIOUS
<1>4. ExactEnd(p)[i + 1] \in (i + 1)..(Len(p) + 1)
  BY <1>3, ExactEndRange
<1> QED
  BY <1>1, <1>2, <1>4

\* The name that starts behind an open brace ends where a '/' follows, or nothing.
LEMMA SlashBehind ==
  ASSUME NEW p, Len(p) \in Nat, WellFormed(p), NEW i \in 1..(Len(p) + 1),
         ExactEnd(p)[i] < Len(p), CloseAt(p, i) < Len(p)
  PROVE  p[CloseAt(p, i) + 1] = Slash
<1> DEFINE open == ExactEnd(p)[i]
           opens == {l \in 1..(Len(p) - 1) : \E j \in 1..l : ExactEnd(p)[j] = l}
<1>1. open \in i..(Len(p) - 1)
  BY ExactEndRange
<1>2. open \in opens
  <2>1. open \in 1..(Len(p) - 1) /\ i \in 1..open /\ ExactEnd(p)[i] = open
    BY <1>1
  <2> QED
    BY <2>1
<1>3. \A l \in opens : NameEnd(p, l + 1) < Len(p) => p[NameEnd(p, l + 1) + 1] = Slash
  BY DEF WellFormed
<1> HIDE DEF opens
<1> QED
  BY <1>2, <1>3 DEF CloseAt

LEMMA ParsedShaped ==
  ASSUME NEW p, IsSequence(p), WellFormed(p)
  PROVE  Shaped(parse(p))
<1> DEFINE n == Len(p)
           d == Parsed(p)
           Good(i) == /\ Shaped(d[i])
                      /\ i <= n => (p[i] = Slash => Follows(d[i]) /\ Len(d[i]) > 0)
                      /\ i = n + 1 => d[i] = <<>>
           S == {j \in Nat : \A i \in 1..(n + 1) : i + j > n + 1 => Good(i)}
<1>0. n \in Nat
  BY SequenceFacts
<1>1. \A i \in 1..(n + 1) : d[i] = SegmentStep(d, i, p)
  BY <1>0, ParsedSteps
<1> HIDE DEF d
<1>2. 0 \in S
  BY <1>0
<1>3. ASSUME NEW j \in S PROVE j + 1 \in S
  <2>1. j \in Nat /\ \A i \in 1..(n + 1) : i + j > n + 1 => Good(i)
    OBVIOUS
  <2> SUFFICES ASSUME NEW i \in 1..(n + 1), i + (j + 1) > n + 1 PROVE Good(i)
    BY <2>1
  <2> HIDE DEF S
  <2> DEFINE open == ExactEnd(p)[i]
             close == CloseAt(p, i)
             s == ExactAt(p, i)
             h == Placeholder(SubSeq(p, open + 1, close - 1))
             u == d[close + 1]
             w == IF open >= n THEN <<>> ELSE <<h>> \o u
  <2>2. open \in i..(n + 1)
    BY <1>0, ExactEndRange
  <2>3. s = <<>> \/ \E x : s = <<x>> /\ Text(x) /\ x.data[1] = p[i]
    <3>1. open = i => s = <<>>
      BY DEF ExactAt
    <3> QED
      BY <3>1, ExactBegins
  <2>4. IsSequence(s)
    BY <2>3, One, EmptyIsSequence
  <2>5. Shaped(w) /\ d[i] = s \o w /\ IsSequence(w)
    <3>1. CASE open >= n
      <4>1. d[i] = s /\ w = <<>>
        BY <1>1, <3>1 DEF SegmentStep
      <4> HIDE DEF s, w
      <4>2. s \o <<>> = s
        BY <2>4, EmptyInFront
      <4> QED
        BY <4>1, <4>2, ShapedEmpty, EmptyIsSequence
    <3>2. CASE ~(open >= n)
      <4>1. close \in (i + 1)..n
        BY <1>0, <2>2, <3>2, NameEndRange DEF CloseAt
      <4>2. close + 1 \in 1..(n + 1) /\ close + 1 + j > n + 1
        BY <1>0, <2>1, <4>1
      <4>3. Good(close + 1)
        BY <2>1, <4>2
      <4>4. Shaped(u) /\ IsSequence(u)
        BY <4>3 DEF Shaped
      <4>5. Follows(u)
        <5>1. CASE close = n
          BY <4>3, <5>1, ShapedEmpty
        <5>2. CASE close < n
          <6>1. p[close + 1] = Slash
            BY <1>0, <2>2, <3>2, <5>2, SlashBehind
          <6>2. close + 1 <= n
            BY <1>0, <4>1, <5>2
          <6> QED
            BY <4>3, <6>1, <6>2
        <5> QED
          BY <1>0, <4>1, <5>1, <5>2
      <4>6. Hole(h)
        BY DEF Hole, Placeholder
      <4>7. d[i] = s \o <<h>> \o u
        BY <1>1, <3>2 DEF SegmentStep, PlaceholderAt
      <4>8. w = <<h>> \o u
        BY <3>2
      <4> HIDE DEF s, h, u, w
      <4>9. Shaped(<<h>> \o u)
        BY <4>4, <4>5, <4>6, ShapedInFront
      <4>10. IsSequence(<<h>>)
        BY One
      <4> DEFINE hh == <<h>>
      <4> HIDE DEF hh
      <4>11. (s \o hh) \o u = s \o (hh \o u)
        <5>1. IsSequence(s) /\ IsSequence(hh) /\ IsSequence(u)
          BY <2>4, <4>4, <4>10 DEF hh
        <5> QED
          BY <5>1, Regrouped
      <4> QED
        BY <4>7, <4>8, <4>9, <4>11 DEF hh, Shaped
    <3> QED
      BY <3>1, <3>2
  <2>6. CASE s = <<>>
    <3>1. d[i] = w
      <4> HIDE DEF s, w
      <4>1. <<>> \o w = w
        BY <2>5, EmptyInFront
      <4> QED
        BY <2>5, <2>6, <4>1
    <3>2. open = i
      <4>1. ASSUME open # i PROVE FALSE
        <5>1. \E x : s = <<x>>
          BY <4>1, ExactBegins
        <5> QED
          BY <2>6, <5>1
      <4> QED
        BY <4>1
    <3>3. i <= n => p[i] # Slash
      BY <1>0, <3>2, SlashIsExact
    <3>4. i = n + 1 => d[i] = <<>>
      BY <1>0, <3>1, <3>2
    <3> QED
      BY <2>5, <3>1, <3>3, <3>4
  <2>7. ASSUME NEW x, s = <<x>>, Text(x), x.data[1] = p[i] PROVE Good(i)
    <3> HIDE DEF w, s
    <3>1. Shaped(<<x>> \o w)
      BY <2>5, <2>7, ShapedInFront
    <3>2. /\ IsSequence(<<x>> \o w) /\ Len(<<x>> \o w) = Len(w) + 1
          /\ Len(w) \in Nat /\ (<<x>> \o w)[1] = x
          /\ \A l \in 1..Len(w) : (<<x>> \o w)[l + 1] = w[l]
      BY <2>5, InFront
    <3>3. d[i] = <<x>> \o w
      BY <2>5, <2>7
    <3>4. Len(d[i]) > 0 /\ d[i][1] = x
      BY <3>2, <3>3
    <3>5. i # n + 1
      <4>1. ASSUME i = n + 1 PROVE FALSE
        <5>1. open = i
          BY <1>0, <2>2, <4>1
        <5>2. s = <<>>
          BY <5>1 DEF ExactAt, s
        <5> QED
          BY <2>7, <5>2
      <4> QED
        BY <4>1
    <3> QED
      BY <2>7, <3>1, <3>3, <3>4, <3>5 DEF Follows
  <2> QED
    BY <2>3, <2>6, <2>7
<1>4. S = Nat
  <2>1. S \in SUBSET Nat
    OBVIOUS
  <2> HIDE DEF S
  <2> QED
    BY <1>2, <1>3, <2>1, Induct
<1>5. n + 1 \in S
  <2> HIDE DEF S
  <2> QED
    BY <1>0, <1>4
<1>6. Shaped(d[1])
  BY <1>0, <1>5
<1>7. p # <<>> => parse(p) = d[1]
  BY <1>0, ParsedSteps DEF d
<1>8. p = <<>> => parse(p) = <<>>
  BY <1>0, ParsedSteps
<1> QED
  BY <1>6, <1>7, <1>8, ShapedEmpty

\* The first n parts are found in the path one behind the other, part i from P[i - 1]
\* to P[i].
Cuts(P, parts, n, path) ==
  /\ P[0] = 0
  /\ \A i \in 1..n : /\ P[i - 1] \in Nat /\ P[i] \in Nat
                     /\ P[i] = P[i - 1] + Len(parts[i])
                     /\ \A x \in 1..Len(parts[i]) : path[P[i - 1] + x] = parts[i][x]

LEMMA EmptyOnly ==
  ASSUME NEW s, IsSequence(s), Len(s) = 0
  PROVE  s = <<>>
<1>1. IsSequence(<<>>) /\ Len(<<>>) = 0
  BY EmptyIsSequence
<1>2. \A i \in 1..Len(s) : s[i] = <<>>[i]
  OBVIOUS
<1> DEFINE t == <<>>
<1> HIDE DEF t
<1>3. IsSequence(t) /\ Len(s) = Len(t) /\ \A i \in 1..Len(s) : s[i] = t[i]
  BY <1>1, <1>2 DEF t
<1>4. s = t
  BY <1>3, EqualSequences
<1> QED
  BY <1>4 DEF t

LEMMA CutsJoin ==
  ASSUME NEW parts, IsSequence(parts), \A i \in 1..Len(parts) : IsSequence(parts[i]),
         NEW path, IsSequence(path), NEW P, Cuts(P, parts, Len(parts), path),
         P[Len(parts)] = Len(path)
  PROVE  FlattenSeq(parts) = path
<1> DEFINE n == Len(parts)
           f == Flat(parts)
           Good(i) == Len(f[i]) = P[i] /\ \A x \in 1..P[i] : f[i][x] = path[x]
           S == {i \in Nat : i + 1 <= n => Good(i + 1)}
<1>1. n \in Nat
  BY SequenceFacts
<1>2. Joins(f, n, parts)
  BY <1>1, FlatJoins
<1>3. \A i \in 1..n : IsSequence(f[i])
  BY <1>1, <1>2, FlatSequence
<1>4. (n > 0 => f[1] = parts[1]) /\ \A i \in 1..n : i > 1 => f[i] = f[i - 1] \o parts[i]
  BY <1>1, <1>2, JoinsSteps
<1>5. (n = 0 => FlattenSeq(parts) = parts) /\ (n # 0 => FlattenSeq(parts) = f[n])
  BY <1>1, FlattenIsFlat
<1> HIDE DEF f
<1>6. P[0] = 0
  BY DEF Cuts
<1>7. 0 \in S
  <2>1. ASSUME 1 <= n PROVE Good(1)
    <3>1. 1 \in 1..n /\ 1 - 1 = 0
      BY <1>1, <2>1
    <3>2. /\ P[1 - 1] \in Nat /\ P[1] \in Nat /\ P[1] = P[1 - 1] + Len(parts[1])
          /\ \A x \in 1..Len(parts[1]) : path[P[1 - 1] + x] = parts[1][x]
      BY <3>1 DEF Cuts
    <3> QED
      BY <1>1, <1>4, <1>6, <2>1, <3>1, <3>2
  <2> QED
    BY <2>1
<1>8. ASSUME NEW i \in S PROVE i + 1 \in S
  <2>1. i \in Nat /\ (i + 1 <= n => Good(i + 1))
    OBVIOUS
  <2> HIDE DEF S
  <2>2. ASSUME i + 1 + 1 <= n PROVE Good(i + 1 + 1)
    <3> DEFINE k == i + 1
               l == i + 1 + 1
               s == f[k]
               t == parts[l]
    <3>1. k \in 1..n /\ l \in 1..n /\ l - 1 = k /\ l > 1 /\ k \in Nat
      BY <1>1, <2>1, <2>2
    <3>2. Good(k)
      BY <2>1, <3>1
    <3> HIDE DEF k, l
    <3>3. /\ P[k] \in Nat /\ P[l] \in Nat /\ P[l] = P[k] + Len(t)
          /\ \A x \in 1..Len(t) : path[P[k] + x] = t[x]
      BY <3>1 DEF Cuts
    <3>4. f[l] = s \o t
      BY <1>4, <3>1
    <3>5. IsSequence(s) /\ IsSequence(t)
      BY <1>3, <3>1
    <3>6. Len(s) = P[k] /\ \A x \in 1..P[k] : s[x] = path[x]
      BY <3>2
    <3>7. Len(t) \in Nat
      BY <3>5, SequenceFacts
    <3> HIDE DEF s, t
    <3>8. /\ IsSequence(s \o t) /\ Len(s \o t) = Len(s) + Len(t)
          /\ \A x \in 1..Len(s) : (s \o t)[x] = s[x]
          /\ \A x \in 1..Len(t) : (s \o t)[Len(s) + x] = t[x]
          /\ \A x \in 1..(Len(s) + Len(t)) :
               (s \o t)[x] = IF x <= Len(s) THEN s[x] ELSE t[x - Len(s)]
      BY <3>5, Joined
    <3>9. ASSUME NEW x \in 1..P[l] PROVE f[l][x] = path[x]
      <4>1. CASE x <= P[k]
        BY <3>3, <3>4, <3>6, <3>7, <3>8, <4>1
      <4>2. CASE ~(x <= P[k])
        <5>1. x - P[k] \in 1..Len(t) /\ P[k] + (x - P[k]) = x
          BY <3>3, <3>7, <3>9, <4>2
        <5>2. path[P[k] + (x - P[k])] = t[x - P[k]]
          BY <3>3, <5>1
        <5>3. x \in 1..(Len(s) + Len(t)) /\ ~(x <= Len(s))
          BY <3>3, <3>6, <4>2
        <5>4. (s \o t)[x] = t[x - Len(s)]
          BY <3>8, <5>3
        <5> QED
          BY <3>4, <3>6, <5>1, <5>2, <5>4
      <4> QED
        BY <4>1, <4>2
    <3>10. Len(f[l]) = P[l]
      BY <3>3, <3>4, <3>6, <3>8
    <3> QED
      BY <3>9, <3>10 DEF l
  <2> QED
    BY <2>1, <2>2 DEF S
<1>9. S = Nat
  <2>1. S \in SUBSET Nat
    OBVIOUS
  <2> HIDE DEF S
  <2> QED
    BY <1>7, <1>8, <2>1, Induct
<1>10. CASE n = 0
  <2>1. Len(parts) = 0 /\ Len(path) = 0
    BY <1>6, <1>10
  <2>2. parts = <<>> /\ path = <<>>
    BY <2>1, EmptyOnly
  <2> QED
    BY <1>5, <1>10, <2>2
<1>11. CASE n # 0
  <2>1. n - 1 \in Nat /\ n - 1 + 1 = n
    BY <1>1, <1>11
  <2>2. n - 1 \in S
    <3> HIDE DEF S
    <3> QED
      BY <1>9, <2>1
  <2>3. Good(n)
    BY <1>1, <2>1, <2>2
  <2> DEFINE s == f[n]
  <2>4. n \in 1..n
    BY <1>1, <1>11
  <2>5. IsSequence(s) /\ Len(s) = Len(path) /\ \A x \in 1..Len(s) : s[x] = path[x]
    BY <1>3, <2>3, <2>4
  <2> HIDE DEF s
  <2>6. s = path
    BY <2>5, EqualSequences
  <2> QED
    BY <1>5, <1>11, <2>6 DEF s
<1> QED
  BY <1>10, <1>11

LEMMA BeginsItself ==
  ASSUME NEW s, IsSequence(s)
  PROVE  Begins(s, s)
BY SequenceFacts DEF Begins

\* Each partial result is the beginning of the later ones.
LEMMA JoinsBegin ==
  ASSUME NEW n \in Nat, NEW parts, \A i \in 1..n : IsSequence(parts[i]),
         NEW f, Joins(f, n, parts), NEW i \in 1..n, NEW d \in Nat, i + d <= n
  PROVE  Begins(f[i], f[i + d])
<1> DEFINE S == {x \in Nat : i + x <= n => Begins(f[i], f[i + x])}
<1>1. \A l \in 1..n : IsSequence(f[l])
  BY FlatSequence
<1>2. \A l \in 1..n : l > 1 => f[l] = f[l - 1] \o parts[l]
  BY JoinsSteps
<1>3. 0 \in S
  <2>1. i + 0 = i
    OBVIOUS
  <2>2. Begins(f[i], f[i])
    <3> DEFINE s == f[i]
    <3>1. IsSequence(s)
      BY <1>1
    <3> HIDE DEF s
    <3>2. Begins(s, s)
      BY <3>1, BeginsItself
    <3> QED
      BY <3>2 DEF s
  <2> QED
    BY <2>1, <2>2
<1>4. ASSUME NEW x \in S PROVE x + 1 \in S
  <2>1. x \in Nat /\ (i + x <= n => Begins(f[i], f[i + x]))
    OBVIOUS
  <2> HIDE DEF S
  <2>2. ASSUME i + (x + 1) <= n PROVE Begins(f[i], f[i + (x + 1)])
    <3> DEFINE l == i + (x + 1)
               s == f[i]
               t == f[i + x]
               u == parts[l]
    <3>1. l \in 1..n /\ l > 1 /\ l - 1 = i + x /\ i + x <= n
      BY <2>1, <2>2
    <3>2. f[l] = t \o u
      <4> HIDE DEF l
      <4> QED
        BY <1>2, <3>1
    <3>3. Begins(s, t) /\ IsSequence(u)
      <4>1. Begins(f[i], f[i + x])
        BY <2>1, <3>1
      <4> QED
        BY <3>1, <4>1
    <3> HIDE DEF s, t, u, l
    <3>4. Begins(s, t \o u)
      BY <3>3, BeginsJoined
    <3> QED
      BY <3>2, <3>4 DEF s, l
  <2> QED
    BY <2>1, <2>2 DEF S
<1>5. S = Nat
  <2>1. S \in SUBSET Nat
    OBVIOUS
  <2> HIDE DEF S
  <2> QED
    BY <1>3, <1>4, <2>1, Induct
<1>6. d \in S
  <2> HIDE DEF S
  <2> QED
    BY <1>5
<1> QED
  BY <1>6

LEMMA JoinCuts ==
  ASSUME NEW parts, IsSequence(parts), \A i \in 1..Len(parts) : IsSequence(parts[i]),
         NEW path, FlattenSeq(parts) = path
  PROVE  \E P : /\ Cuts(P, parts, Len(parts), path) /\ P[Len(parts)] = Len(path)
               /\ \A i \in 0..Len(parts) : P[i] \in Nat /\ P[i] <= Len(path)
<1> DEFINE n == Len(parts)
           f == Flat(parts)
           P == [i \in 0..n |-> IF i = 0 THEN 0 ELSE Len(f[i])]
<1>1. n \in Nat
  BY SequenceFacts
<1>2. Joins(f, n, parts)
  BY <1>1, FlatJoins
<1>3. \A i \in 1..n : IsSequence(f[i])
  BY <1>1, <1>2, FlatSequence
<1>4. (n > 0 => f[1] = parts[1]) /\ \A i \in 1..n : i > 1 => f[i] = f[i - 1] \o parts[i]
  BY <1>1, <1>2, JoinsSteps
<1>5. (n = 0 => FlattenSeq(parts) = parts) /\ (n # 0 => FlattenSeq(parts) = f[n])
  BY <1>1, FlattenIsFlat
<1>6. P[0] = 0 /\ \A i \in 1..n : P[i] = Len(f[i])
  BY <1>1
<1> HIDE DEF P, f
<1>7. \A i \in 1..n : P[i] \in Nat
  BY <1>3, <1>6, SequenceFacts
<1>8. \A i \in 1..n : \A x \in 1..P[i] : path[x] = f[i][x]
  <2> SUFFICES ASSUME NEW i \in 1..n PROVE \A x \in 1..P[i] : path[x] = f[i][x]
    OBVIOUS
  <2>1. n - i \in Nat /\ i + (n - i) = n /\ i + (n - i) <= n /\ n # 0
    BY <1>1
  <2>2. Begins(f[i], f[i + (n - i)])
    <3> DEFINE d == n - i
    <3> HIDE DEF d
    <3>1. d \in Nat /\ i + d <= n
      BY <2>1 DEF d
    <3>2. Begins(f[i], f[i + d])
      BY <1>1, <1>2, <3>1, JoinsBegin
    <3> QED
      BY <3>2 DEF d
  <2> QED
    BY <1>5, <1>6, <2>1, <2>2 DEF Begins
<1>8a. \A i \in 1..n : P[i] <= P[n]
  <2> SUFFICES ASSUME NEW i \in 1..n PROVE P[i] <= P[n]
    OBVIOUS
  <2> DEFINE d == n - i
  <2>1. d \in Nat /\ i + d = n /\ i + d <= n /\ n \in 1..n
    BY <1>1
  <2> HIDE DEF d
  <2>2. Begins(f[i], f[i + d])
    BY <1>1, <1>2, <2>1, JoinsBegin
  <2> QED
    BY <1>6, <2>1, <2>2 DEF Begins
<1>9. ASSUME NEW i \in 1..n
      PROVE  /\ P[i - 1] \in Nat /\ P[i] \in Nat
             /\ P[i] = P[i - 1] + Len(parts[i])
             /\ \A x \in 1..Len(parts[i]) : path[P[i - 1] + x] = parts[i][x]
  <2> DEFINE t == parts[i]
  <2>1. IsSequence(t) /\ Len(t) \in Nat
    BY SequenceFacts
  <2>2. CASE i = 1
    <3>1. P[i - 1] = 0 /\ P[i] = Len(t) /\ f[i] = t
      BY <1>1, <1>4, <1>6, <2>2
    <3> QED
      BY <1>8, <2>1, <3>1
  <2>3. CASE i # 1
    <3> DEFINE s == f[i - 1]
    <3>1. i - 1 \in 1..n /\ i > 1
      BY <1>1, <2>3
    <3>2. f[i] = s \o t /\ IsSequence(s) /\ P[i - 1] = Len(s) /\ P[i - 1] \in Nat
      BY <1>3, <1>4, <1>6, <1>7, <3>1
    <3> HIDE DEF s, t
    <3>3. /\ IsSequence(s \o t) /\ Len(s \o t) = Len(s) + Len(t)
          /\ \A x \in 1..Len(s) : (s \o t)[x] = s[x]
          /\ \A x \in 1..Len(t) : (s \o t)[Len(s) + x] = t[x]
          /\ \A x \in 1..(Len(s) + Len(t)) :
               (s \o t)[x] = IF x <= Len(s) THEN s[x] ELSE t[x - Len(s)]
      BY <2>1, <3>2, Joined
    <3>4. P[i] = P[i - 1] + Len(t)
      BY <1>6, <3>2, <3>3
    <3>5. \A x \in 1..Len(t) : path[P[i - 1] + x] = t[x]
      <4> SUFFICES ASSUME NEW x \in 1..Len(t) PROVE path[P[i - 1] + x] = t[x]
        OBVIOUS
      <4>1. P[i - 1] + x \in 1..P[i]
        BY <2>1, <3>2, <3>4
      <4>2. path[P[i - 1] + x] = f[i][P[i - 1] + x]
        BY <1>8, <4>1
      <4> QED
        BY <3>2, <3>3, <4>2
    <3> QED
      BY <1>7, <3>2, <3>4, <3>5 DEF t
  <2> QED
    BY <2>2, <2>3
<1>10. Cuts(P, parts, n, path)
  BY <1>6, <1>9 DEF Cuts
<1>11. P[n] = Len(path)
  <2>1. CASE n = 0
    BY <1>5, <1>6, <2>1
  <2>2. CASE n # 0
    BY <1>1, <1>5, <1>6, <2>2
  <2> QED
    BY <2>1, <2>2
<1>12. Len(path) \in Nat
  BY <1>1, <1>6, <1>7, <1>11
<1>13. \A i \in 0..n : P[i] \in Nat /\ P[i] <= Len(path)
  <2>1. P[0] \in Nat /\ P[0] <= Len(path)
    BY <1>6, <1>12
  <2>2. \A i \in 1..n : P[i] <= P[n]
    BY <1>8a
  <2> QED
    BY <1>1, <1>7, <1>11, <2>1, <2>2
<1> QED
  BY <1>10, <1>11, <1>13

(***************************************************************************)
(* One way through the path: how far each segment takes the scan.          *)
(***************************************************************************)
LEMMA DropFacts ==
  ASSUME NEW s, IsSequence(s), NEW n \in Nat, n <= Len(s)
  PROVE  /\ IsSequence(Drop(s, n)) /\ Len(Drop(s, n)) = Len(s) - n
         /\ \A i \in 1..(Len(s) - n) : Drop(s, n)[i] = s[n + i]
<1> DEFINE l == Len(s) - n
           t == SubSeq(s, n + 1, n + l)
<1>1. Len(s) \in Nat
  BY SequenceFacts
<1>2. l \in Nat /\ n + l = Len(s)
  BY <1>1
<1>3. Drop(s, n) = t
  BY <1>2 DEF Drop
<1>4. IsSequence(t) /\ Len(t) = l /\ \A i \in 1..l : t[i] = s[n + i]
  <2> HIDE DEF l
  <2>1. n + l <= Len(s)
    BY <1>1, <1>2
  <2> QED
    BY <1>2, <2>1, Cut
<1> HIDE DEF t
<1> QED
  BY <1>3, <1>4

LEMMA DropTwice ==
  ASSUME NEW s, IsSequence(s), NEW n \in Nat, NEW d \in Nat, n + d <= Len(s)
  PROVE  Drop(Drop(s, n), d) = Drop(s, n + d)
<1> DEFINE t == Drop(s, n)
           u == Drop(t, d)
           v == Drop(s, n + d)
<1>1. Len(s) \in Nat
  BY SequenceFacts
<1>2. n <= Len(s) /\ n + d \in Nat
  BY <1>1
<1>3. /\ IsSequence(t) /\ Len(t) = Len(s) - n
      /\ \A i \in 1..(Len(s) - n) : t[i] = s[n + i]
  BY <1>2, DropFacts
<1>4. /\ IsSequence(v) /\ Len(v) = Len(s) - (n + d)
      /\ \A i \in 1..(Len(s) - (n + d)) : v[i] = s[n + d + i]
  BY <1>2, DropFacts
<1> HIDE DEF t, v
<1>5. d <= Len(t)
  BY <1>1, <1>3
<1>6. /\ IsSequence(u) /\ Len(u) = Len(t) - d
      /\ \A i \in 1..(Len(t) - d) : u[i] = t[d + i]
  BY <1>3, <1>5, DropFacts
<1> HIDE DEF u
<1>7. Len(u) = Len(v)
  BY <1>1, <1>3, <1>4, <1>6
<1>8. ASSUME NEW i \in 1..Len(u) PROVE u[i] = v[i]
  <2>1. /\ i \in 1..(Len(t) - d) /\ d + i \in 1..(Len(s) - n)
        /\ i \in 1..(Len(s) - (n + d)) /\ n + (d + i) = n + d + i
    BY <1>1, <1>3, <1>6
  <2> QED
    BY <1>3, <1>4, <1>6, <2>1
<1>9. u = v
  BY <1>4, <1>6, <1>7, <1>8, EqualSequences
<1> QED
  BY <1>9 DEF u, v, t

LEMMA UpToSlashFacts ==
  ASSUME NEW s, IsSequence(s)
  PROVE  LET u == UpToSlash(s)
         IN  /\ IsSequence(u) /\ Len(u) \in Nat /\ Len(u) <= Len(s)
             /\ \A i \in 1..Len(u) : u[i] = s[i] /\ s[i] # Slash
             /\ Len(u) < Len(s) => s[Len(u) + 1] = Slash
<1> DEFINE u == UpToSlash(s)
           slashes == {i \in DOMAIN s : s[i] = Slash}
<1>1. Len(s) \in Nat /\ DOMAIN s = 1..Len(s)
  BY SequenceFacts
<1>2. u = IF slashes = {} THEN s ELSE SubSeq(s, 1, Min(slashes) - 1)
  BY DEF UpToSlash
<1>3. CASE slashes = {}
  <2>1. u = s
    BY <1>2, <1>3
  <2>2. \A i \in 1..Len(s) : s[i] # Slash
    BY <1>1, <1>3
  <2> HIDE DEF u, slashes
  <2> QED
    BY <1>1, <2>1, <2>2 DEF u
<1>4. CASE slashes # {}
  <2> DEFINE c == Min(slashes)
  <2>1. c \in slashes /\ \A i \in slashes : c <= i
    <3>1. slashes \in SUBSET Nat
      BY <1>1
    <3> HIDE DEF slashes
    <3>2. \E l \in slashes : \A j \in slashes : l <= j
      BY <1>4, <3>1, LeastOf
    <3> QED
      BY <3>2 DEF Min
  <2>2. u = SubSeq(s, 1, c - 1)
    BY <1>2, <1>4
  <2> HIDE DEF c, u
  <2>3. c \in 1..Len(s) /\ s[c] = Slash
    BY <1>1, <2>1
  <2>4. \A i \in 1..(c - 1) : s[i] # Slash
    BY <1>1, <2>1, <2>3
  <2> DEFINE l == c - 1
  <2>5. l \in Nat /\ 0 \in Nat /\ 0 + l <= Len(s) /\ 0 + 1 = 1 /\ 0 + l = l /\ l + 1 = c /\ l < Len(s)
    BY <1>1, <2>3
  <2> HIDE DEF l
  <2>6. /\ IsSequence(SubSeq(s, 0 + 1, 0 + l)) /\ Len(SubSeq(s, 0 + 1, 0 + l)) = l
        /\ \A i \in 1..l : SubSeq(s, 0 + 1, 0 + l)[i] = s[0 + i]
    BY <2>5, Cut
  <2>7. SubSeq(s, 0 + 1, 0 + l) = u
    BY <2>2, <2>5 DEF l
  <2>8. IsSequence(u) /\ Len(u) = l /\ \A i \in 1..l : u[i] = s[i]
    <3>1. \A i \in 1..l : 0 + i = i
      BY <2>5
    <3> QED
      BY <2>6, <2>7, <3>1
  <2> QED
    BY <1>1, <2>3, <2>4, <2>5, <2>8 DEF l, u
<1> QED
  BY <1>3, <1>4

\* The text without a '/' at place q of the path.
Run(path, q) == Len(UpToSlash(Drop(path, q)))

LEMMA RunFacts ==
  ASSUME NEW path, IsSequence(path), NEW q \in Nat, q <= Len(path)
  PROVE  /\ Run(path, q) \in Nat /\ q + Run(path, q) <= Len(path)
         /\ \A y \in 1..Run(path, q) : path[q + y] # Slash
         /\ q + Run(path, q) < Len(path) => path[q + Run(path, q) + 1] = Slash
         /\ UpToSlash(Drop(path, q)) = SubSeq(path, q + 1, q + Run(path, q))
<1> DEFINE s == Drop(path, q)
           u == UpToSlash(s)
           r == Run(path, q)
<1>0. Len(path) \in Nat
  BY SequenceFacts
<1>1. /\ IsSequence(s) /\ Len(s) = Len(path) - q
      /\ \A i \in 1..(Len(path) - q) : s[i] = path[q + i]
  BY DropFacts
<1>2. r = Len(u)
  BY DEF Run
<1> HIDE DEF s, r
<1>3. /\ IsSequence(u) /\ Len(u) \in Nat /\ Len(u) <= Len(s)
      /\ \A i \in 1..Len(u) : u[i] = s[i] /\ s[i] # Slash
      /\ Len(u) < Len(s) => s[Len(u) + 1] = Slash
  BY <1>1, UpToSlashFacts
<1> HIDE DEF u
<1>4. r \in Nat /\ q + r <= Len(path) /\ \A i \in 1..r : i \in 1..(Len(path) - q)
  BY <1>0, <1>1, <1>2, <1>3
<1>5. \A y \in 1..r : path[q + y] # Slash /\ u[y] = path[q + y]
  BY <1>1, <1>2, <1>3, <1>4
<1>6. q + r < Len(path) => path[q + r + 1] = Slash
  <2>1. ASSUME q + r < Len(path) PROVE path[q + r + 1] = Slash
    <3>1. Len(u) < Len(s) /\ r + 1 \in 1..(Len(path) - q) /\ q + (r + 1) = q + r + 1
      BY <1>0, <1>1, <1>2, <1>4, <2>1
    <3> QED
      BY <1>1, <1>2, <1>3, <3>1
  <2> QED
    BY <2>1
<1>7. u = SubSeq(path, q + 1, q + r)
  <2> DEFINE v == SubSeq(path, q + 1, q + r)
  <2>1. IsSequence(v) /\ Len(v) = r /\ \A i \in 1..r : v[i] = path[q + i]
    BY <1>4, Cut
  <2> HIDE DEF v
  <2>2. Len(u) = Len(v) /\ \A i \in 1..Len(u) : u[i] = v[i]
    BY <1>2, <1>5, <2>1
  <2>3. u = v
    BY <1>3, <2>1, <2>2, EqualSequences
  <2> QED
    BY <2>3 DEF v
<1> QED
  BY <1>4, <1>5, <1>6, <1>7 DEF r, u, s

LEMMA RunOnly ==
  ASSUME NEW path, IsSequence(path), NEW q \in Nat, q <= Len(path),
         NEW n \in Nat, q + n <= Len(path), \A y \in 1..n : path[q + y] # Slash,
         q + n < Len(path) => path[q + n + 1] = Slash
  PROVE  n = Run(path, q)
<1> DEFINE r == Run(path, q)
<1>0. Len(path) \in Nat
  BY SequenceFacts
<1>1. /\ r \in Nat /\ q + r <= Len(path)
      /\ \A y \in 1..r : path[q + y] # Slash
      /\ q + r < Len(path) => path[q + r + 1] = Slash
  BY RunFacts
<1> HIDE DEF r
<1>2. ASSUME n < r PROVE FALSE
  <2>1. n + 1 \in 1..r /\ q + n < Len(path) /\ q + n + 1 = q + (n + 1)
    BY <1>0, <1>1, <1>2
  <2> QED
    BY <1>1, <2>1
<1>3. ASSUME r < n PROVE FALSE
  <2>1. r + 1 \in 1..n /\ q + r < Len(path) /\ q + r + 1 = q + (r + 1)
    BY <1>0, <1>1, <1>3
  <2> QED
    BY <1>1, <2>1
<1> QED
  BY <1>1, <1>2, <1>3 DEF r

\* How much of the path a segment takes at place q, and whether it can.
Amount(x, path, q) == IF x.type = "exact" THEN Len(x.data) ELSE Run(path, q)

Goes(x, path, q) ==
  IF x.type = "exact" THEN IsPrefix(x.data, Drop(path, q)) ELSE Run(path, q) # 0

LEMMA GoesText ==
  ASSUME NEW path, IsSequence(path), NEW q \in Nat, q <= Len(path), NEW x, Text(x)
  PROVE  Goes(x, path, q)
           <=> q + Len(x.data) <= Len(path) /\ \A y \in 1..Len(x.data) : path[q + y] = x.data[y]
<1> DEFINE s == x.data
           t == Drop(path, q)
           l == Len(s)
<1>1. IsSequence(s) /\ l \in Nat /\ Len(path) \in Nat
  BY SequenceFacts DEF Text
<1>2. /\ IsSequence(t) /\ Len(t) = Len(path) - q
      /\ \A i \in 1..(Len(path) - q) : t[i] = path[q + i]
  BY DropFacts
<1>3. Goes(x, path, q) <=> IsPrefix(s, t)
  BY DEF Goes, Text
<1> HIDE DEF s, t
<1>4. IsPrefix(s, t) <=> l <= Len(t) /\ SubSeq(s, 1, l) = SubSeq(t, 1, l)
  BY DEF IsPrefix
<1> HIDE DEF l
<1>5. 0 \in Nat /\ 0 + 1 = 1 /\ 0 + l = l /\ 0 + l <= Len(s)
  BY <1>1 DEF l
<1>6. ASSUME NEW u, IsSequence(u), l <= Len(u)
      PROVE  /\ IsSequence(SubSeq(u, 1, l)) /\ Len(SubSeq(u, 1, l)) = l
             /\ \A i \in 1..l : SubSeq(u, 1, l)[i] = u[i]
  <2>1. /\ IsSequence(SubSeq(u, 0 + 1, 0 + l)) /\ Len(SubSeq(u, 0 + 1, 0 + l)) = l
        /\ \A i \in 1..l : SubSeq(u, 0 + 1, 0 + l)[i] = u[0 + i]
    BY <1>1, <1>5, <1>6, Cut
  <2>2. \A i \in 1..l : 0 + i = i
    BY <1>1
  <2> QED
    BY <1>5, <2>1, <2>2
<1> DEFINE a == SubSeq(s, 1, l)
           b == SubSeq(t, 1, l)
<1>7. IsSequence(a) /\ Len(a) = l /\ \A i \in 1..l : a[i] = s[i]
  <2>1. l <= Len(s)
    BY <1>1 DEF l
  <2> QED
    BY <1>1, <1>6, <2>1
<1>8. ASSUME l <= Len(t) PROVE IsSequence(b) /\ Len(b) = l /\ \A i \in 1..l : b[i] = t[i]
  BY <1>2, <1>6, <1>8
<1> HIDE DEF a, b
<1>9. ASSUME l <= Len(t) PROVE a = b <=> \A i \in 1..l : path[q + i] = s[i]
  <2>1. \A i \in 1..l : t[i] = path[q + i]
    BY <1>1, <1>2, <1>9
  <2>2. ASSUME \A i \in 1..l : path[q + i] = s[i] PROVE a = b
    <3>1. Len(a) = Len(b) /\ \A i \in 1..Len(a) : a[i] = b[i]
      BY <1>7, <1>8, <1>9, <2>1, <2>2
    <3> QED
      BY <1>7, <1>8, <1>9, <3>1, EqualSequences
  <2> QED
    BY <1>7, <1>8, <1>9, <2>1, <2>2
<1>10. l <= Len(t) <=> q + l <= Len(path)
  BY <1>1, <1>2
<1> QED
  BY <1>3, <1>4, <1>9, <1>10 DEF a, b, l, s

\* The first j segments take the path from Q[0] to Q[j].
Way(Q, segments, path, j) ==
  /\ Q[0] = 0
  /\ \A i \in 1..j : /\ Goes(segments[i], path, Q[i - 1])
                     /\ Q[i] = Q[i - 1] + Amount(segments[i], path, Q[i - 1])

\* What one segment takes is something, and lies within the path.
LEMMA Advances ==
  ASSUME NEW path, IsSequence(path), NEW q \in Nat, q <= Len(path),
         NEW x, Text(x) \/ Hole(x), Goes(x, path, q)
  PROVE  Amount(x, path, q) \in Nat /\ Amount(x, path, q) > 0
         /\ q + Amount(x, path, q) <= Len(path)
<1>1. CASE Text(x)
  <2>1. q + Len(x.data) <= Len(path)
    BY <1>1, GoesText
  <2>2. Len(x.data) \in Nat /\ Len(x.data) > 0
    BY <1>1, SequenceFacts DEF Text
  <2> QED
    BY <1>1, <2>1, <2>2 DEF Amount, Text
<1>2. CASE Hole(x)
  <2>1. x.type # "exact"
    BY <1>2 DEF Hole, Placeholder
  <2> QED
    BY <2>1, RunFacts DEF Amount, Goes
<1> QED
  BY <1>1, <1>2

LEMMA WayRange ==
  ASSUME NEW path, IsSequence(path), NEW segments, Shaped(segments),
         NEW j \in 0..Len(segments), NEW Q, Way(Q, segments, path, j)
  PROVE  /\ \A i \in 0..j : Q[i] \in Nat /\ Q[i] <= Len(path)
         /\ \A i \in 1..j : Q[i - 1] < Q[i]
<1> DEFINE S == {i \in Nat : i <= j => Q[i] \in Nat /\ Q[i] <= Len(path)}
<1>1. Len(path) \in Nat /\ Len(segments) \in Nat
  BY SequenceFacts DEF Shaped
<1>2. 0 \in S
  BY <1>1 DEF Way
<1>3. ASSUME NEW i \in 1..j, Q[i - 1] \in Nat, Q[i - 1] <= Len(path)
      PROVE  Q[i] \in Nat /\ Q[i] <= Len(path) /\ Q[i - 1] < Q[i]
  <2> DEFINE x == segments[i]
             q == Q[i - 1]
  <2>1. Goes(x, path, q) /\ Q[i] = q + Amount(x, path, q)
    BY DEF Way
  <2>2. Text(x) \/ Hole(x)
    BY <1>1 DEF Shaped
  <2> HIDE DEF x, q
  <2>3. q \in Nat /\ q <= Len(path)
    BY <1>3 DEF q
  <2>4. Amount(x, path, q) \in Nat /\ Amount(x, path, q) > 0
        /\ q + Amount(x, path, q) <= Len(path)
    BY <2>1, <2>2, <2>3, Advances
  <2> QED
    BY <1>1, <2>1, <2>3, <2>4 DEF q
<1>4. ASSUME NEW i \in S PROVE i + 1 \in S
  <2>1. i \in Nat /\ (i <= j => Q[i] \in Nat /\ Q[i] <= Len(path))
    OBVIOUS
  <2> HIDE DEF S
  <2>2. ASSUME i + 1 <= j PROVE Q[i + 1] \in Nat /\ Q[i + 1] <= Len(path)
    <3>1. i + 1 \in 1..j /\ i + 1 - 1 = i /\ i <= j
      BY <1>1, <2>1, <2>2
    <3> QED
      BY <1>3, <2>1, <3>1
  <2> QED
    BY <2>1, <2>2 DEF S
<1>5. S = Nat
  <2>1. S \in SUBSET Nat
    OBVIOUS
  <2> HIDE DEF S
  <2> QED
    BY <1>2, <1>4, <2>1, Induct
<1>6. \A i \in 0..j : Q[i] \in Nat /\ Q[i] <= Len(path)
  BY <1>1, <1>5
<1>7. \A i \in 1..j : i - 1 \in 0..j
  BY <1>1
<1> HIDE DEF S
<1> QED
  BY <1>3, <1>6, <1>7

\* Two ways agree as far as both go.
LEMMA WayUnique ==
  ASSUME NEW path, NEW segments, NEW j \in Nat, NEW P, Way(P, segments, path, j),
         NEW Q, Way(Q, segments, path, j)
  PROVE  \A i \in 0..j : P[i] = Q[i]
<1> DEFINE S == {i \in Nat : i <= j => P[i] = Q[i]}
<1>1. 0 \in S
  BY DEF Way
<1>2. ASSUME NEW i \in S PROVE i + 1 \in S
  <2>1. i \in Nat /\ (i <= j => P[i] = Q[i])
    OBVIOUS
  <2> HIDE DEF S
  <2>2. ASSUME i + 1 <= j PROVE P[i + 1] = Q[i + 1]
    <3>1. i + 1 \in 1..j /\ i + 1 - 1 = i /\ i <= j
      BY <2>1, <2>2
    <3> DEFINE k == i + 1
    <3>2. k \in 1..j /\ k - 1 = i
      BY <2>1, <3>1
    <3> HIDE DEF k
    <3>3. /\ P[k] = P[k - 1] + Amount(segments[k], path, P[k - 1])
          /\ Q[k] = Q[k - 1] + Amount(segments[k], path, Q[k - 1])
      BY <3>2 DEF Way
    <3>4. P[k] = Q[k]
      BY <2>1, <3>1, <3>2, <3>3
    <3> QED
      BY <3>4 DEF k
  <2> QED
    BY <2>1, <2>2 DEF S
<1>3. S = Nat
  <2>1. S \in SUBSET Nat
    OBVIOUS
  <2> HIDE DEF S
  <2> QED
    BY <1>1, <1>2, <2>1, Induct
<1> QED
  BY <1>3

\* The way as far as it goes: to the end of the segments, or to one that does not go on.
Ended(Q, segments, path, j) ==
  /\ j \in 0..Len(segments) /\ Way(Q, segments, path, j)
  /\ j < Len(segments) => ~Goes(segments[j + 1], path, Q[j])

LEMMA WayEnds ==
  ASSUME NEW segments, Len(segments) \in Nat, NEW path
  PROVE  \E j, Q : Ended(Q, segments, path, j)
<1> DEFINE N == Len(segments)
           S == {n \in Nat : n <= N =>
                   \/ \E j, Q : Ended(Q, segments, path, j)
                   \/ \E Q : Way(Q, segments, path, n)}
<1>1. 0 \in S
  <2> DEFINE Q == [i \in {0} |-> 0]
  <2>1. Q[0] = 0
    OBVIOUS
  <2> HIDE DEF Q
  <2>2. Way(Q, segments, path, 0)
    BY <2>1 DEF Way
  <2> QED
    BY <2>2
<1>2. ASSUME NEW n \in S PROVE n + 1 \in S
  <2>1. n \in Nat /\ (n <= N => \/ \E j, Q : Ended(Q, segments, path, j)
                                \/ \E Q : Way(Q, segments, path, n))
    OBVIOUS
  <2> HIDE DEF S
  <2>2. ASSUME n + 1 <= N, ~\E j, Q : Ended(Q, segments, path, j)
        PROVE  \E Q : Way(Q, segments, path, n + 1)
    <3>1. PICK Q : Way(Q, segments, path, n)
      BY <2>1, <2>2
    <3> DEFINE x == segments[n + 1]
               v == Q[n] + Amount(x, path, Q[n])
               P == [i \in 0..(n + 1) |-> IF i = n + 1 THEN v ELSE Q[i]]
    <3>2. Goes(x, path, Q[n])
      <4>1. n \in 0..N /\ n < N
        BY <2>1, <2>2
      <4> QED
        BY <2>2, <3>1, <4>1 DEF Ended
    <3> HIDE DEF v
    <3>3. P[n + 1] = v /\ \A i \in 0..n : P[i] = Q[i]
      BY <2>1
    <3> HIDE DEF P
    <3>4. P[0] = 0
      BY <2>1, <3>1, <3>3 DEF Way
    <3>5. ASSUME NEW i \in 1..(n + 1)
          PROVE  /\ Goes(segments[i], path, P[i - 1])
                 /\ P[i] = P[i - 1] + Amount(segments[i], path, P[i - 1])
      <4>1. CASE i = n + 1
        <5>1. P[i - 1] = Q[n] /\ P[i] = v
          BY <2>1, <3>3, <4>1
        <5> QED
          BY <3>2, <4>1, <5>1 DEF v
      <4>2. CASE i # n + 1
        <5>1. i \in 1..n /\ i \in 0..n /\ i - 1 \in 0..n
          BY <2>1, <4>2
        <5> QED
          BY <3>1, <3>3, <5>1 DEF Way
      <4> QED
        BY <4>1, <4>2
    <3>6. Way(P, segments, path, n + 1)
      BY <3>4, <3>5 DEF Way
    <3> QED
      BY <3>6
  <2> QED
    BY <2>1, <2>2 DEF S
<1>3. S = Nat
  <2>1. S \in SUBSET Nat
    OBVIOUS
  <2> HIDE DEF S
  <2> QED
    BY <1>1, <1>2, <2>1, Induct
<1>4. N \in S
  <2> HIDE DEF S
  <2> QED
    BY <1>3
<1>5. ASSUME NEW Q, Way(Q, segments, path, N) PROVE Ended(Q, segments, path, N)
  BY <1>5 DEF Ended
<1> QED
  BY <1>4, <1>5

(***************************************************************************)
(* The scan of the C matcher follows the way.                              *)
(***************************************************************************)
\* The placeholders among the first i segments.
Holes(segments, i) == {l \in 1..i : Hole(segments[l])}

LEMMA HolesFacts ==
  ASSUME NEW segments, NEW i \in Nat
  PROVE  /\ IsFiniteSet(Holes(segments, i)) /\ Cardinality(Holes(segments, i)) \in Nat
         /\ Cardinality(Holes(segments, 0)) = 0
         /\ ~Hole(segments[i + 1]) => Holes(segments, i + 1) = Holes(segments, i)
         /\ Hole(segments[i + 1])
              => Cardinality(Holes(segments, i + 1)) = Cardinality(Holes(segments, i)) + 1
<1> DEFINE S == Holes(segments, i)
           T == Holes(segments, i + 1)
<1>1. IsFiniteSet(1..i)
  BY FS_Interval
<1>2. S \subseteq 1..i
  BY DEF Holes
<1>3. IsFiniteSet(S) /\ Cardinality(S) \in Nat
  BY <1>1, <1>2, FS_Subset, FS_CardinalityType
<1>4. Holes(segments, 0) = {}
  BY DEF Holes
<1>5. ~Hole(segments[i + 1]) => T = S
  BY DEF Holes
<1>6. Hole(segments[i + 1]) => T = S \cup {i + 1} /\ i + 1 \notin S
  BY DEF Holes
<1> HIDE DEF S, T
<1>7. Hole(segments[i + 1]) => Cardinality(T) = Cardinality(S) + 1
  BY <1>3, <1>6, FS_AddElement
<1> QED
  BY <1>3, <1>4, <1>5, <1>7, FS_EmptySet DEF S, T

LEMMA NamesAreHoles ==
  ASSUME NEW segments, Shaped(segments)
  PROVE  Names(segments) = Holes(segments, Len(segments))
<1>1. DOMAIN segments = 1..Len(segments)
  BY SequenceFacts DEF Shaped
<1>2. \A i \in 1..Len(segments) : segments[i].type = "placeholder" <=> Hole(segments[i])
  BY DEF Shaped, Text, Hole, Placeholder
<1> QED
  BY <1>1, <1>2 DEF Names, Holes

\* What is remembered of placeholder l: its value's place in the path.
Taken(segments, Q, l) ==
  [key |-> segments[l].data, value_length |-> Q[l] - Q[l - 1], value |-> Q[l - 1]]

\* A list of the values of the first i segments' placeholders.
Tells(e, Q, segments, i) ==
  /\ IsSequence(e) /\ Len(e) = Cardinality(Holes(segments, i))
  /\ \A x \in 1..Len(e) : \E l \in Holes(segments, i) : e[x] = Taken(segments, Q, l)
  /\ \A l \in Holes(segments, i) : \E x \in 1..Len(e) : e[x] = Taken(segments, Q, l)

LEMMA TellsMore ==
  ASSUME NEW segments, NEW i \in Nat, NEW Q, NEW e, Tells(e, Q, segments, i)
  PROVE  /\ ~Hole(segments[i + 1]) => Tells(e, Q, segments, i + 1)
         /\ Hole(segments[i + 1])
              => Tells(Append(e, Taken(segments, Q, i + 1)), Q, segments, i + 1)
<1> DEFINE S == Holes(segments, i)
           T == Holes(segments, i + 1)
           v == Taken(segments, Q, i + 1)
           t == Append(e, v)
<1>1. ~Hole(segments[i + 1]) => Tells(e, Q, segments, i + 1)
  <2>1. ~Hole(segments[i + 1]) => T = S
    BY HolesFacts
  <2> HIDE DEF T, S
  <2> QED
    BY <2>1 DEF Tells, T, S
<1>2. ASSUME Hole(segments[i + 1]) PROVE Tells(t, Q, segments, i + 1)
  <2>1. IsSequence(e) /\ Len(e) = Cardinality(S) /\ Len(e) \in Nat
    BY SequenceFacts DEF Tells
  <2>2. /\ IsSequence(t) /\ Len(t) = Len(e) + 1
        /\ \A x \in 1..Len(e) : t[x] = e[x]
        /\ t[Len(e) + 1] = v
    <3> HIDE DEF v
    <3> QED
      BY <2>1, Added
  <2>3. T = S \cup {i + 1} /\ Cardinality(T) = Cardinality(S) + 1
    <3>1. T = S \cup {i + 1}
      BY <1>2 DEF Holes
    <3> QED
      BY <1>2, <3>1, HolesFacts
  <2> HIDE DEF t
  <2>4. ASSUME NEW x \in 1..Len(t) PROVE \E l \in T : t[x] = Taken(segments, Q, l)
    <3>1. CASE x \in 1..Len(e)
      <4>1. PICK l \in S : e[x] = Taken(segments, Q, l)
        BY <3>1 DEF Tells
      <4> QED
        BY <2>2, <2>3, <3>1, <4>1
    <3>2. CASE x = Len(e) + 1
      BY <2>2, <2>3, <3>2
    <3> QED
      BY <2>1, <2>2, <3>1, <3>2
  <2>5. ASSUME NEW l \in T PROVE \E x \in 1..Len(t) : t[x] = Taken(segments, Q, l)
    <3>1. CASE l \in S
      <4>1. PICK x \in 1..Len(e) : e[x] = Taken(segments, Q, l)
        BY <3>1 DEF Tells
      <4>2. x \in 1..Len(t) /\ t[x] = e[x]
        BY <2>1, <2>2
      <4> QED
        BY <4>1, <4>2
    <3>2. CASE l = i + 1
      <4>1. Len(e) + 1 \in 1..Len(t)
        BY <2>1, <2>2
      <4> QED
        BY <2>2, <3>2, <4>1
    <3> QED
      BY <2>3, <3>1, <3>2
  <2>6. Len(t) = Cardinality(T)
    BY <2>1, <2>2, <2>3
  <2> HIDE DEF T
  <2>7. /\ IsSequence(t) /\ Len(t) = Cardinality(T)
        /\ \A x \in 1..Len(t) : \E l \in T : t[x] = Taken(segments, Q, l)
        /\ \A l \in T : \E x \in 1..Len(t) : t[x] = Taken(segments, Q, l)
    BY <2>2, <2>4, <2>5, <2>6
  <2> QED
    BY <2>7 DEF Tells, T
<1> QED
  BY <1>1, <1>2

\* The scan has come to place q of the path and goes on.
Going(scan, path, q) ==
  /\ Listed(scan) /\ scan.rest = Drop(path, q) /\ ~scan.stopped /\ scan.value_length # 0

LEMMA SegmentGoes ==
  ASSUME NEW path, IsSequence(path), NEW q \in Nat, q <= Len(path),
         NEW x, Text(x) \/ Hole(x), Goes(x, path, q), NEW scan, Going(scan, path, q)
  PROVE  LET next == ScanSegment(path, scan, x)
             a == Amount(x, path, q)
         IN  /\ Going(next, path, q + a)
             /\ Text(x) => next.entries = scan.entries
             /\ Hole(x) => next.entries = Append(scan.entries, [key |-> x.data, value_length |-> a,
                                                                value |-> q])
<1> DEFINE next == ScanSegment(path, scan, x)
           a == Amount(x, path, q)
           rest == Drop(path, q)
<1>0. Len(path) \in Nat
  BY SequenceFacts
<1>1. a \in Nat /\ a > 0 /\ q + a <= Len(path)
  BY Advances
<1>2. Listed(next)
  BY SegmentListed DEF Going
<1>3. Drop(rest, a) = Drop(path, q + a)
  <2> HIDE DEF a
  <2> QED
    BY <1>1, DropTwice
<1>4. scan.rest = rest /\ ~scan.stopped /\ scan.value_length # 0
  BY DEF Going
<1>5. scan = [rest |-> scan.rest, value_length |-> scan.value_length,
              entries |-> scan.entries, stopped |-> scan.stopped]
  BY DEF Going, Listed
<1>6. CASE Text(x)
  <2>1. x.type = "exact" /\ a = Len(x.data) /\ IsPrefix(x.data, rest)
    BY <1>6 DEF Text, Amount, Goes
  <2> HIDE DEF a, rest
  <2>2. next = [scan EXCEPT !.rest = Drop(@, Len(x.data))]
    BY <1>4, <2>1 DEF ScanSegment
  <2>3. /\ next.rest = Drop(rest, a) /\ next.stopped = scan.stopped
        /\ next.value_length = scan.value_length /\ next.entries = scan.entries
    BY <1>4, <1>5, <2>1, <2>2
  <2>4. ~Hole(x)
    BY <2>1 DEF Hole, Placeholder
  <2> HIDE DEF next
  <2>5. Going(next, path, q + a) /\ next.entries = scan.entries
    BY <1>2, <1>3, <1>4, <2>3 DEF Going
  <2> QED
    BY <2>4, <2>5 DEF next, a
<1>7. CASE Hole(x)
  <2>1. x.type # "exact" /\ a = Len(UpToSlash(rest))
    BY <1>7 DEF Hole, Placeholder, Amount, Run
  <2>2. Len(rest) = Len(path) - q
    BY DropFacts
  <2> HIDE DEF a, rest
  <2> DEFINE e == [key |-> x.data, value_length |-> a, value |-> Len(path) - Len(rest)]
             entries == IF a = 0 THEN scan.entries ELSE Append(scan.entries, e)
  <2>3. next = [rest |-> Drop(rest, a), value_length |-> a, entries |-> entries,
                stopped |-> a = 0]
    BY <1>4, <2>1 DEF ScanSegment
  <2>4. entries = Append(scan.entries, e) /\ Len(path) - Len(rest) = q
    BY <1>0, <1>1, <2>2
  <2>5. e = [key |-> x.data, value_length |-> a, value |-> q]
    BY <2>4
  <2> HIDE DEF entries, e
  <2>6. /\ next.rest = Drop(rest, a) /\ next.value_length = a /\ next.entries = entries
        /\ next.stopped = (a = 0)
    BY <2>3
  <2>7. ~next.stopped
    <3>1. ~(a = 0)
      BY <1>1
    <3> HIDE DEF next
    <3> QED
      BY <2>6, <3>1, Zenon
  <2>8. x.type # "exact" => ~Text(x)
    BY DEF Text
  <2> HIDE DEF next
  <2>9. Going(next, path, q + a) /\ next.entries = Append(scan.entries, e)
    BY <1>1, <1>2, <1>3, <2>4, <2>6, <2>7 DEF Going
  <2> QED
    BY <2>1, <2>5, <2>8, <2>9 DEF next, a
<1> QED
  BY <1>6, <1>7

LEMMA SegmentStops ==
  ASSUME NEW path, IsSequence(path), NEW q \in Nat, q <= Len(path),
         NEW x, Text(x) \/ Hole(x), ~Goes(x, path, q), NEW scan, Going(scan, path, q)
  PROVE  LET next == ScanSegment(path, scan, x)
         IN  /\ next.rest = Drop(path, q) /\ next.stopped = TRUE /\ next.entries = scan.entries
             /\ next.value_length = 0 <=> Hole(x)
<1> DEFINE next == ScanSegment(path, scan, x)
           rest == Drop(path, q)
<1>1. scan.rest = rest /\ ~scan.stopped /\ scan.value_length # 0
  BY DEF Going
<1>2. scan = [rest |-> scan.rest, value_length |-> scan.value_length,
              entries |-> scan.entries, stopped |-> scan.stopped]
  BY DEF Going, Listed
<1>3. CASE Text(x)
  <2>1. x.type = "exact" /\ ~IsPrefix(x.data, rest) /\ ~Hole(x)
    BY <1>3 DEF Text, Hole, Placeholder, Goes
  <2> HIDE DEF rest
  <2>2. next = [scan EXCEPT !.stopped = TRUE]
    BY <1>1, <2>1 DEF ScanSegment
  <2>3. /\ next.rest = rest /\ next.stopped = TRUE /\ next.entries = scan.entries
        /\ next.value_length = scan.value_length
    BY <1>1, <1>2, <2>2
  <2> HIDE DEF next
  <2> QED
    BY <1>1, <2>1, <2>3 DEF next, rest
<1>4. CASE Hole(x)
  <2>1. x.type # "exact" /\ Len(UpToSlash(rest)) = 0
    BY <1>4 DEF Hole, Placeholder, Goes, Run
  <2>2. Drop(rest, 0) = rest
    <3>1. q + 0 <= Len(path) /\ q + 0 = q
      OBVIOUS
    <3> QED
      BY <3>1, DropTwice
  <2> HIDE DEF rest
  <2>3. next = [rest |-> Drop(rest, 0), value_length |-> 0, entries |-> scan.entries,
                stopped |-> TRUE]
    BY <1>1, <2>1 DEF ScanSegment
  <2>4. /\ next.rest = rest /\ next.stopped = TRUE /\ next.entries = scan.entries
        /\ next.value_length = 0
    BY <2>2, <2>3
  <2> HIDE DEF next
  <2> QED
    BY <1>4, <2>4 DEF next, rest
<1> QED
  BY <1>3, <1>4

\* What the C scan has found at the end of the way.
LEMMA ScanFollows ==
  ASSUME NEW path, IsSequence(path), NEW entry, Shaped(entry.segments),
         NEW j, NEW Q, Ended(Q, entry.segments, path, j)
  PROVE  LET scan == Scan(entry, path)
         IN  /\ scan.rest = Drop(path, Q[j]) /\ Tells(scan.entries, Q, entry.segments, j)
             /\ scan.value_length = 0 <=> j < Len(entry.segments) /\ Hole(entry.segments[j + 1])
<1> DEFINE segments == entry.segments
           N == Len(segments)
           d == Scanned(entry, path)
           Before(n) == Going(d[n], path, Q[n]) /\ Tells(d[n].entries, Q, segments, n)
           After(n) == /\ d[n].rest = Drop(path, Q[j]) /\ d[n].stopped = TRUE
                       /\ Tells(d[n].entries, Q, segments, j)
                       /\ d[n].value_length = 0 <=> Hole(segments[j + 1])
           Good(n) == IF n <= j THEN Before(n) ELSE After(n)
           S == {n \in Nat : n <= N => Good(n)}
<1>1. N \in Nat /\ j \in 0..N
  BY SequenceFacts DEF Shaped, Ended
<1>2. Scan(entry, path) = d[N] /\ \A n \in 0..N : d[n] = ScanStep(d, n, entry, path)
  BY <1>1, ScannedSteps
<1> HIDE DEF d
<1>3. \A i \in 0..j : Q[i] \in Nat /\ Q[i] <= Len(path)
  BY WayRange DEF Ended
<1>4. Q[0] = 0
  BY DEF Ended, Way
<1>5. 0 \in S
  <2>1. d[0] = ScanStart(path)
    BY <1>1, <1>2 DEF ScanStep
  <2>2. Listed(ScanStart(path)) /\ ScanStart(path).entries = <<>>
    BY EmptyIsSequence DEF Listed, ScanStart
  <2>3. Drop(path, 0) = path
    <3> DEFINE t == Drop(path, 0)
    <3>1. Len(path) \in Nat
      BY SequenceFacts
    <3>2. /\ IsSequence(t) /\ Len(t) = Len(path) - 0
          /\ \A i \in 1..(Len(path) - 0) : t[i] = path[0 + i]
      BY <3>1, DropFacts
    <3> HIDE DEF t
    <3>3. Len(t) = Len(path) /\ \A i \in 1..Len(t) : t[i] = path[i]
      BY <3>1, <3>2
    <3>4. t = path
      BY <3>2, <3>3, EqualSequences
    <3> QED
      BY <3>4 DEF t
  <2>4. Going(d[0], path, Q[0])
    <3>1. /\ d[0].rest = path /\ d[0].stopped = FALSE /\ d[0].value_length = 1
      BY <2>1 DEF ScanStart
    <3> QED
      BY <1>4, <2>1, <2>2, <2>3, <3>1 DEF Going
  <2>5. Tells(<<>>, Q, segments, 0)
    <3>1. Holes(segments, 0) = {}
      BY DEF Holes
    <3>2. Cardinality(Holes(segments, 0)) = 0
      BY <3>1, FS_EmptySet
    <3> QED
      BY <3>1, <3>2, EmptyIsSequence DEF Tells
  <2>6. Good(0)
    BY <1>1, <2>1, <2>2, <2>4, <2>5
  <2> QED
    BY <2>6
<1>6. ASSUME NEW n \in S PROVE n + 1 \in S
  <2> DEFINE x == segments[n + 1]
  <2> HIDE DEF Good
  <2>1. n \in Nat /\ (n <= N => Good(n))
    OBVIOUS
  <2> SUFFICES ASSUME n + 1 <= N PROVE Good(n + 1)
    BY <2>1
  <2> USE DEF Good
  <2> HIDE DEF S
  <2>2. n <= N /\ n + 1 \in 0..N /\ n + 1 # 0 /\ n + 1 - 1 = n /\ n + 1 \in 1..N
    BY <1>1, <2>1
  <2>3. d[n + 1] = ScanSegment(path, d[n], x)
    <3> DEFINE k == n + 1
    <3>1. k \in 0..N /\ k # 0 /\ k - 1 = n
      BY <2>1, <2>2
    <3> HIDE DEF k
    <3>2. d[k] = ScanSegment(path, d[n], entry.segments[k])
      BY <1>2, <3>1 DEF ScanStep
    <3> QED
      BY <3>2 DEF k
  <2>4. Text(x) \/ Hole(x)
    BY <2>2 DEF Shaped
  <2>5. CASE n + 1 <= j
    <3> DEFINE q == Q[n]
               a == Amount(x, path, q)
               v == [key |-> x.data, value_length |-> a, value |-> q]
    <3>1. Before(n)
      BY <1>1, <2>1, <2>2, <2>5
    <3>2. n + 1 \in 1..j /\ n \in 0..j
      BY <1>1, <2>1, <2>5
    <3>3. Goes(x, path, q) /\ Q[n + 1] = q + a
      <4> DEFINE k == n + 1
      <4>1. k \in 1..j /\ k - 1 = n
        BY <2>2, <3>2
      <4> HIDE DEF k
      <4>2. Goes(segments[k], path, Q[k - 1])
            /\ Q[k] = Q[k - 1] + Amount(segments[k], path, Q[k - 1])
        BY <4>1 DEF Ended, Way
      <4> QED
        BY <4>1, <4>2 DEF k
    <3>4. q \in Nat /\ q <= Len(path)
      BY <1>3, <3>2
    <3> HIDE DEF x, q
    <3> DEFINE scan == d[n]
               next == ScanSegment(path, scan, x)
    <3>5. Going(scan, path, q)
      BY <3>1 DEF q
    <3> HIDE DEF scan
    <3>6. /\ Going(next, path, q + a)
          /\ Text(x) => next.entries = scan.entries
          /\ Hole(x) => next.entries = Append(scan.entries, v)
      BY <2>4, <3>3, <3>4, <3>5, SegmentGoes
    <3>7. next = d[n + 1]
      BY <2>3 DEF scan
    <3>8. v = Taken(segments, Q, n + 1)
      <4>1. Q[n + 1] - Q[n] = a
        <5>1. a \in Nat
          BY <2>4, <3>3, <3>4, Advances
        <5> HIDE DEF a
        <5> QED
          BY <3>3, <3>4, <5>1 DEF q
      <4> DEFINE k == n + 1
      <4>2. k - 1 = n /\ Q[k] - Q[n] = a
        BY <2>1, <2>2, <4>1
      <4>3. v = [key |-> segments[k].data, value_length |-> Q[k] - Q[n], value |-> Q[n]]
        BY <4>1 DEF x, q
      <4> HIDE DEF k, v
      <4>4. v = Taken(segments, Q, k)
        BY <4>2, <4>3 DEF Taken
      <4> QED
        BY <4>4 DEF k
    <3>9. Tells(scan.entries, Q, segments, n)
      BY <3>1 DEF scan
    <3> HIDE DEF next, v, a
    <3>10. Tells(next.entries, Q, segments, n + 1)
      <4> DEFINE e == scan.entries
                 u == Taken(segments, Q, n + 1)
      <4>1. Tells(e, Q, segments, n)
        BY <3>9
      <4> HIDE DEF e
      <4>2. /\ ~Hole(segments[n + 1]) => Tells(e, Q, segments, n + 1)
            /\ Hole(segments[n + 1]) => Tells(Append(e, u), Q, segments, n + 1)
        BY <2>1, <4>1, TellsMore
      <4> QED
        BY <2>4, <3>6, <3>8, <4>2 DEF e, x
    <3> QED
      BY <2>5, <3>3, <3>6, <3>7, <3>10
  <2>6. CASE ~(n + 1 <= j) /\ n <= j
    <3>1. n = j /\ j < N
      BY <1>1, <2>1, <2>2, <2>6
    <3>2. Before(n)
      BY <2>1, <2>2, <2>6
    <3>3. ~Goes(x, path, Q[j])
      BY <3>1 DEF Ended
    <3> DEFINE scan == d[n]
               next == ScanSegment(path, scan, x)
               q == Q[j]
    <3>4. Going(scan, path, q)
      BY <3>1, <3>2
    <3>5. q \in Nat /\ q <= Len(path) /\ ~Goes(x, path, q)
      BY <1>1, <1>3, <3>3
    <3>6. x = segments[j + 1] /\ Tells(scan.entries, Q, segments, j)
      BY <3>1, <3>2
    <3>7. next = d[n + 1]
      BY <2>3
    <3> HIDE DEF scan, x, q
    <3>8. /\ next.rest = Drop(path, q) /\ next.stopped = TRUE /\ next.entries = scan.entries
          /\ next.value_length = 0 <=> Hole(x)
      BY <2>4, <3>4, <3>5, SegmentStops
    <3> HIDE DEF next
    <3> QED
      BY <2>6, <3>6, <3>7, <3>8 DEF q
  <2>7. CASE ~(n + 1 <= j) /\ ~(n <= j)
    <3>1. After(n)
      BY <2>1, <2>2, <2>7
    <3> DEFINE scan == d[n]
    <3>2. d[n + 1] = d[n]
      <4>1. scan.stopped = TRUE
        BY <3>1
      <4> HIDE DEF scan, x
      <4>2. ScanSegment(path, scan, x) = scan
        BY <4>1 DEF ScanSegment
      <4> QED
        BY <2>3, <4>2 DEF scan
    <3> QED
      BY <2>7, <3>1, <3>2
  <2> QED
    BY <2>5, <2>6, <2>7
<1>7. S = Nat
  <2>1. S \in SUBSET Nat
    OBVIOUS
  <2> HIDE DEF S
  <2> QED
    BY <1>5, <1>6, <2>1, Induct
<1>8. Good(N)
  <2>1. N \in S
    <3> HIDE DEF S
    <3> QED
      BY <1>1, <1>7
  <2> QED
    BY <1>1, <2>1
<1>9. CASE N <= j
  <2>1. N = j
    BY <1>1, <1>9
  <2> QED
    BY <1>2, <1>8, <2>1 DEF Going
<1>10. CASE ~(N <= j)
  <2>1. j < N
    BY <1>1, <1>10
  <2>2. After(N)
    BY <1>8, <1>10
  <2> DEFINE scan == d[N]
  <2>3. /\ scan.rest = Drop(path, Q[j]) /\ Tells(scan.entries, Q, segments, j)
        /\ scan.value_length = 0 <=> Hole(segments[j + 1])
    BY <2>2
  <2>4. Scan(entry, path) = scan
    BY <1>2
  <2> HIDE DEF scan
  <2> QED
    BY <2>1, <2>3, <2>4
<1> QED
  BY <1>9, <1>10

(***************************************************************************)
(* So does the scan of the Python matcher.                                 *)
(***************************************************************************)
PyStep(f, n, segments, path) ==
  IF n = 0 THEN PyStart(path) ELSE PySegment(f[n - 1], segments[n])

PyScans(f, k, segments, path) ==
  /\ f = [n \in 0..Len(segments) |-> f[n]]
  /\ \A n \in 0..Len(segments) : n < k => f[n] = PyStep(f, n, segments, path)

LEMMA PyStepLocal ==
  ASSUME NEW n, NEW segments, NEW path, NEW f, NEW g, n = 0 \/ f[n - 1] = g[n - 1]
  PROVE  PyStep(f, n, segments, path) = PyStep(g, n, segments, path)
BY DEF PyStep

LEMMA PyScansExists ==
  ASSUME NEW segments, NEW path, Len(segments) \in Nat, NEW k \in Nat
  PROVE  \E f : PyScans(f, k, segments, path)
<1> DEFINE m == Len(segments)
           S == {j \in Nat : \E f : PyScans(f, j, segments, path)}
<1>1. 0 \in S
  <2> DEFINE f == [n \in 0..m |-> <<>>]
  <2>1. f = [n \in 0..m |-> f[n]]
    OBVIOUS
  <2> HIDE DEF f
  <2>2. \A n \in 0..m : ~(n < 0)
    OBVIOUS
  <2>3. PyScans(f, 0, segments, path)
    BY <2>1, <2>2 DEF PyScans
  <2> QED
    BY <2>3
<1>2. ASSUME NEW j \in S PROVE j + 1 \in S
  <2>1. j \in Nat
    OBVIOUS
  <2>2. PICK f : PyScans(f, j, segments, path)
    OBVIOUS
  <2> DEFINE v == PyStep(f, j, segments, path)
             g == [n \in 0..m |-> IF n = j THEN v ELSE f[n]]
  <2>3. g = [n \in 0..m |-> g[n]]
    OBVIOUS
  <2>4. /\ \A n \in 0..m : n # j => g[n] = f[n]
        /\ j \in 0..m => g[j] = v
    <3> HIDE DEF v
    <3> QED
      OBVIOUS
  <2> HIDE DEF v, g
  <2>5. ASSUME NEW n \in 0..m, n < j + 1
        PROVE  g[n] = PyStep(g, n, segments, path)
    <3>1. n = 0 \/ (n - 1 \in 0..m /\ n - 1 # j)
      BY <2>1, <2>5
    <3>2. PyStep(g, n, segments, path) = PyStep(f, n, segments, path)
      BY <2>4, <3>1, PyStepLocal
    <3>3. CASE n = j
      BY <2>4, <3>2, <3>3 DEF v
    <3>4. CASE n # j
      <4>1. n < j
        BY <2>1, <2>5, <3>4
      <4> QED
        BY <2>2, <2>4, <3>2, <3>4, <4>1 DEF PyScans
    <3> QED
      BY <3>3, <3>4
  <2>6. PyScans(g, j + 1, segments, path)
    BY <2>3, <2>5 DEF PyScans
  <2> QED
    BY <2>1, <2>6
<1>3. S = Nat
  <2>1. S \in SUBSET Nat
    OBVIOUS
  <2> HIDE DEF S
  <2> QED
    BY <1>1, <1>2, <2>1, Induct
<1> QED
  BY <1>3

PyScanned(segments, path) ==
  CHOOSE f : f = [n \in 0..Len(segments) |->
        IF n = 0 THEN PyStart(path) ELSE PySegment(f[n - 1], segments[n])]

LEMMA PyScannedSteps ==
  ASSUME NEW segments, NEW path, Len(segments) \in Nat
  PROVE  /\ PyScan(segments, path) = PyScanned(segments, path)[Len(segments)]
         /\ \A n \in 0..Len(segments) :
              PyScanned(segments, path)[n] = PyStep(PyScanned(segments, path), n, segments, path)
<1> DEFINE m == Len(segments)
<1>1. PICK f : PyScans(f, m + 1, segments, path)
  <2>1. m + 1 \in Nat
    OBVIOUS
  <2> QED
    BY <2>1, PyScansExists
<1>2. f = [n \in 0..m |-> PyStep(f, n, segments, path)]
  <2>1. \A n \in 0..m : f[n] = PyStep(f, n, segments, path)
    BY <1>1 DEF PyScans
  <2> QED
    BY <1>1, <2>1 DEF PyScans
<1> DEFINE d == PyScanned(segments, path)
<1>3. d = [n \in 0..m |-> PyStep(d, n, segments, path)]
  BY <1>2 DEF PyScanned, PyStep
<1>4. PyScan(segments, path) = d[m]
  BY DEF PyScan, PyScanned
<1> HIDE DEF d
<1>5. \A n \in 0..m : d[n] = PyStep(d, n, segments, path)
  BY <1>3
<1> QED
  BY <1>4, <1>5 DEF d

\* The value placeholder l has on a way, by name, and those of the first i segments.
ValueOf(segments, Q, path, l) == <<segments[l].data, SubSeq(path, Q[l - 1] + 1, Q[l])>>

ValuesOf(segments, Q, path, i) == {ValueOf(segments, Q, path, l) : l \in Holes(segments, i)}

LEMMA ValuesMore ==
  ASSUME NEW segments, NEW i \in Nat, NEW Q, NEW path
  PROVE  /\ ~Hole(segments[i + 1])
              => ValuesOf(segments, Q, path, i + 1) = ValuesOf(segments, Q, path, i)
         /\ Hole(segments[i + 1])
              => ValuesOf(segments, Q, path, i + 1)
                   = ValuesOf(segments, Q, path, i) \cup {ValueOf(segments, Q, path, i + 1)}
<1>1. ~Hole(segments[i + 1]) => Holes(segments, i + 1) = Holes(segments, i)
  BY DEF Holes
<1>2. Hole(segments[i + 1]) => Holes(segments, i + 1) = Holes(segments, i) \cup {i + 1}
  BY DEF Holes
<1> QED
  BY <1>1, <1>2 DEF ValuesOf

\* The Python scan has come to place q of the path and goes on.
PyGoing(scan, path, q) ==
  /\ scan = [rest |-> scan.rest, value |-> scan.value, match_dict |-> scan.match_dict,
             stopped |-> scan.stopped]
  /\ scan.rest = Drop(path, q) /\ scan.value /\ ~scan.stopped

LEMMA PySegmentGoes ==
  ASSUME NEW path, IsSequence(path), NEW q \in Nat, q <= Len(path),
         NEW x, Text(x) \/ Hole(x), Goes(x, path, q), NEW scan, PyGoing(scan, path, q)
  PROVE  LET next == PySegment(scan, x)
             a == Amount(x, path, q)
         IN  /\ PyGoing(next, path, q + a)
             /\ Text(x) => next.match_dict = scan.match_dict
             /\ Hole(x) => next.match_dict
                             = scan.match_dict \cup {<<x.data, SubSeq(path, q + 1, q + a)>>}
<1> DEFINE next == PySegment(scan, x)
           a == Amount(x, path, q)
           rest == Drop(path, q)
<1>0. Len(path) \in Nat
  BY SequenceFacts
<1>1. a \in Nat /\ a > 0 /\ q + a <= Len(path)
  BY Advances
<1>3. Drop(rest, a) = Drop(path, q + a)
  <2> HIDE DEF a
  <2> QED
    BY <1>1, DropTwice
<1>4. scan.rest = rest /\ ~scan.stopped /\ scan.value
  BY DEF PyGoing
<1>5. scan = [rest |-> scan.rest, value |-> scan.value, match_dict |-> scan.match_dict,
              stopped |-> scan.stopped]
  BY DEF PyGoing
<1>6. CASE Text(x)
  <2>1. x.type = "exact" /\ a = Len(x.data) /\ IsPrefix(x.data, rest)
    BY <1>6 DEF Text, Amount, Goes
  <2> HIDE DEF a, rest
  <2>2. next = [scan EXCEPT !.rest = Drop(@, Len(x.data))]
    BY <1>4, <2>1 DEF PySegment
  <2>3. /\ next.rest = Drop(rest, a) /\ next.stopped = scan.stopped
        /\ next.value = scan.value /\ next.match_dict = scan.match_dict
        /\ next = [rest |-> next.rest, value |-> next.value, match_dict |-> next.match_dict,
                   stopped |-> next.stopped]
    BY <1>4, <1>5, <2>1, <2>2
  <2>4. ~Hole(x)
    BY <2>1 DEF Hole, Placeholder
  <2> HIDE DEF next
  <2>5. PyGoing(next, path, q + a) /\ next.match_dict = scan.match_dict
    BY <1>3, <1>4, <2>3 DEF PyGoing
  <2> QED
    BY <2>4, <2>5 DEF next, a
<1>7. CASE Hole(x)
  <2> DEFINE value == UpToSlash(rest)
             md == scan.match_dict \cup {<<x.data, value>>}
  <2>1. x.type # "exact" /\ a = Len(value)
    BY <1>7 DEF Hole, Placeholder, Amount, Run
  <2>2. value = SubSeq(path, q + 1, q + a)
    <3>1. value = SubSeq(path, q + 1, q + Run(path, q))
      BY RunFacts
    <3>2. a = Run(path, q)
      BY <1>7 DEF Hole, Placeholder, Amount
    <3> QED
      BY <3>1, <3>2
  <2>3. value # <<>>
    <3> HIDE DEF value, a
    <3> QED
      BY <1>1, <2>1, EmptyIsSequence
  <2>4. UpToSlash(scan.rest) = value
    BY <1>4
  <2> HIDE DEF a, rest, value
  <2>5. next = [scan EXCEPT !.rest = Drop(@, Len(value)), !.value = TRUE,
                            !.match_dict = @ \cup {<<x.data, value>>}]
    BY <1>4, <2>1, <2>3, <2>4 DEF PySegment
  <2>6. next = [rest |-> Drop(rest, a), value |-> TRUE, match_dict |-> md,
                stopped |-> scan.stopped]
    BY <1>4, <1>5, <2>1, <2>5
  <2> HIDE DEF next, md
  <2>7. /\ next.rest = Drop(rest, a) /\ next.value = TRUE /\ next.match_dict = md
        /\ next.stopped = scan.stopped
        /\ next = [rest |-> next.rest, value |-> next.value, match_dict |-> next.match_dict,
                   stopped |-> next.stopped]
    BY <2>6
  <2>8. x.type # "exact" => ~Text(x)
    BY DEF Text
  <2>9. PyGoing(next, path, q + a) /\ next.match_dict = md
    BY <1>3, <1>4, <2>7 DEF PyGoing
  <2> QED
    BY <2>1, <2>2, <2>8, <2>9 DEF next, a, md
<1> QED
  BY <1>6, <1>7

\* The scan stops at a text that is not there, or at an empty value.
LEMMA PySegmentStops ==
  ASSUME NEW path, IsSequence(path), NEW q \in Nat, q <= Len(path),
         NEW x, Text(x) \/ Hole(x), ~Goes(x, path, q), NEW scan, PyGoing(scan, path, q)
  PROVE  LET next == PySegment(scan, x)
         IN  /\ next.stopped = TRUE /\ next.match_dict = scan.match_dict
             /\ next.value <=> ~Hole(x)
             /\ ~Hole(x) => next.rest = Drop(path, q)
<1> DEFINE next == PySegment(scan, x)
           rest == Drop(path, q)
<1>1. scan.rest = rest /\ ~scan.stopped /\ scan.value
  BY DEF PyGoing
<1>2. scan = [rest |-> scan.rest, value |-> scan.value, match_dict |-> scan.match_dict,
              stopped |-> scan.stopped]
  BY DEF PyGoing
<1>3. CASE Text(x)
  <2>1. x.type = "exact" /\ ~IsPrefix(x.data, rest) /\ ~Hole(x)
    BY <1>3 DEF Text, Hole, Placeholder, Goes
  <2> HIDE DEF rest
  <2>2. next = [scan EXCEPT !.stopped = TRUE]
    BY <1>1, <2>1 DEF PySegment
  <2>3. /\ next.rest = rest /\ next.stopped = TRUE /\ next.match_dict = scan.match_dict
        /\ next.value = scan.value
    BY <1>1, <1>2, <2>2
  <2> HIDE DEF next
  <2> QED
    BY <1>1, <2>1, <2>3 DEF next, rest
<1>4. CASE Hole(x)
  <2>1. x.type # "exact" /\ Len(UpToSlash(rest)) = 0
    BY <1>4 DEF Hole, Placeholder, Goes, Run
  <2>2. UpToSlash(rest) = <<>>
    <3> DEFINE u == UpToSlash(rest)
    <3>1. IsSequence(rest)
      BY DropFacts
    <3> HIDE DEF rest
    <3>2. IsSequence(u) /\ Len(u) = 0
      BY <2>1, <3>1, UpToSlashFacts
    <3> HIDE DEF u
    <3>3. u = <<>>
      BY <3>2, EmptyOnly
    <3> QED
      BY <3>3 DEF u
  <2> HIDE DEF rest
  <2>3. next = [scan EXCEPT !.rest = Drop(@, 1), !.value = FALSE, !.stopped = TRUE]
    BY <1>1, <2>1, <2>2 DEF PySegment
  <2>4. next = [rest |-> Drop(rest, 1), value |-> FALSE, match_dict |-> scan.match_dict,
                stopped |-> TRUE]
    BY <1>1, <1>2, <2>3
  <2>5. /\ next.stopped = TRUE /\ next.match_dict = scan.match_dict /\ next.value = FALSE
    BY <2>4
  <2> HIDE DEF next
  <2> QED
    BY <1>4, <2>5 DEF next
<1> QED
  BY <1>3, <1>4

\* What the Python scan has found at the end of the way.
LEMMA PyScanFollows ==
  ASSUME NEW path, IsSequence(path), NEW segments, Shaped(segments),
         NEW j, NEW Q, Ended(Q, segments, path, j)
  PROVE  LET scan == PyScan(segments, path)
             stuck == j < Len(segments) /\ Hole(segments[j + 1])
         IN  /\ scan.match_dict = ValuesOf(segments, Q, path, j)
             /\ scan.value <=> ~stuck
             /\ ~stuck => scan.rest = Drop(path, Q[j])
<1> DEFINE N == Len(segments)
           d == PyScanned(segments, path)
           stuck == Hole(segments[j + 1])
           Before(n) == PyGoing(d[n], path, Q[n]) /\ d[n].match_dict = ValuesOf(segments, Q, path, n)
           After(n) == /\ d[n].stopped = TRUE /\ d[n].match_dict = ValuesOf(segments, Q, path, j)
                       /\ d[n].value <=> ~stuck
                       /\ ~stuck => d[n].rest = Drop(path, Q[j])
           Good(n) == IF n <= j THEN Before(n) ELSE After(n)
           S == {n \in Nat : n <= N => Good(n)}
<1>1. N \in Nat /\ j \in 0..N
  BY SequenceFacts DEF Shaped, Ended
<1>2. PyScan(segments, path) = d[N] /\ \A n \in 0..N : d[n] = PyStep(d, n, segments, path)
  BY <1>1, PyScannedSteps
<1> HIDE DEF d
<1>3. \A i \in 0..j : Q[i] \in Nat /\ Q[i] <= Len(path)
  BY WayRange DEF Ended
<1>4. Q[0] = 0
  BY DEF Ended, Way
<1>5. 0 \in S
  <2>1. d[0] = PyStart(path)
    BY <1>1, <1>2 DEF PyStep
  <2>2. Drop(path, 0) = path
    <3> DEFINE t == Drop(path, 0)
    <3>1. Len(path) \in Nat
      BY SequenceFacts
    <3>2. /\ IsSequence(t) /\ Len(t) = Len(path) - 0
          /\ \A i \in 1..(Len(path) - 0) : t[i] = path[0 + i]
      BY <3>1, DropFacts
    <3> HIDE DEF t
    <3>3. Len(t) = Len(path) /\ \A i \in 1..Len(t) : t[i] = path[i]
      BY <3>1, <3>2
    <3>4. t = path
      BY <3>2, <3>3, EqualSequences
    <3> QED
      BY <3>4 DEF t
  <2>3. PyGoing(d[0], path, Q[0])
    BY <1>4, <2>1, <2>2 DEF PyGoing, PyStart
  <2>4. d[0].match_dict = ValuesOf(segments, Q, path, 0)
    <3>1. Holes(segments, 0) = {}
      BY DEF Holes
    <3>2. ValuesOf(segments, Q, path, 0) = {}
      BY <3>1 DEF ValuesOf
    <3> QED
      BY <2>1, <3>2 DEF PyStart
  <2>5. Good(0)
    BY <1>1, <2>3, <2>4
  <2> QED
    BY <2>5
<1>6. ASSUME NEW n \in S PROVE n + 1 \in S
  <2> DEFINE x == segments[n + 1]
  <2> HIDE DEF Good
  <2>1. n \in Nat /\ (n <= N => Good(n))
    OBVIOUS
  <2> SUFFICES ASSUME n + 1 <= N PROVE Good(n + 1)
    BY <2>1
  <2> USE DEF Good
  <2> HIDE DEF S
  <2>2. n <= N /\ n + 1 \in 0..N /\ n + 1 # 0 /\ n + 1 - 1 = n /\ n + 1 \in 1..N
    BY <1>1, <2>1
  <2>3. d[n + 1] = PySegment(d[n], x)
    <3> DEFINE k == n + 1
    <3>1. k \in 0..N /\ k # 0 /\ k - 1 = n
      BY <2>1, <2>2
    <3> HIDE DEF k
    <3>2. d[k] = PySegment(d[n], segments[k])
      BY <1>2, <3>1 DEF PyStep
    <3> QED
      BY <3>2 DEF k
  <2>4. Text(x) \/ Hole(x)
    BY <2>2 DEF Shaped
  <2>5. CASE n + 1 <= j
    <3> DEFINE q == Q[n]
               a == Amount(x, path, q)
               v == <<x.data, SubSeq(path, q + 1, q + a)>>
    <3>1. Before(n)
      BY <1>1, <2>1, <2>2, <2>5
    <3>2. n + 1 \in 1..j /\ n \in 0..j
      BY <1>1, <2>1, <2>5
    <3>3. Goes(x, path, q) /\ Q[n + 1] = q + a
      <4> DEFINE k == n + 1
      <4>1. k \in 1..j /\ k - 1 = n
        BY <2>2, <3>2
      <4> HIDE DEF k
      <4>2. Goes(segments[k], path, Q[k - 1])
            /\ Q[k] = Q[k - 1] + Amount(segments[k], path, Q[k - 1])
        BY <4>1 DEF Ended, Way
      <4> QED
        BY <4>1, <4>2 DEF k
    <3>4. q \in Nat /\ q <= Len(path)
      BY <1>3, <3>2
    <3>5. v = ValueOf(segments, Q, path, n + 1)
      <4> DEFINE k == n + 1
      <4>1. k - 1 = n
        BY <2>1
      <4>2. v = <<segments[k].data, SubSeq(path, Q[n] + 1, Q[k])>>
        BY <3>3
      <4> HIDE DEF k, v
      <4>3. v = ValueOf(segments, Q, path, k)
        BY <4>1, <4>2 DEF ValueOf
      <4> QED
        BY <4>3 DEF k
    <3> DEFINE scan == d[n]
               next == PySegment(scan, x)
               md == ValuesOf(segments, Q, path, n)
    <3>6. PyGoing(scan, path, q) /\ scan.match_dict = md
      BY <3>1
    <3>7. next = d[n + 1]
      BY <2>3
    <3>8. /\ ~Hole(x) => ValuesOf(segments, Q, path, n + 1) = md
          /\ Hole(x) => ValuesOf(segments, Q, path, n + 1)
                          = md \cup {ValueOf(segments, Q, path, n + 1)}
      <4>1. n \in Nat
        BY <2>1
      <4> QED
        BY <4>1, ValuesMore, ZenonT(60)
    <3> HIDE DEF x, q, scan, md
    <3>9. /\ PyGoing(next, path, q + a)
          /\ Text(x) => next.match_dict = scan.match_dict
          /\ Hole(x) => next.match_dict = scan.match_dict \cup {v}
      BY <2>4, <3>3, <3>4, <3>6, PySegmentGoes, SMTT(30)
    <3> HIDE DEF next, v, a
    <3>10. next.match_dict = ValuesOf(segments, Q, path, n + 1)
      BY <2>4, <3>5, <3>6, <3>8, <3>9
    <3> QED
      BY <2>5, <3>3, <3>7, <3>9, <3>10
  <2>6. CASE ~(n + 1 <= j) /\ n <= j
    <3>1. n = j /\ j < N
      BY <1>1, <2>1, <2>2, <2>6
    <3>2. Before(n)
      BY <2>1, <2>2, <2>6
    <3>3. ~Goes(x, path, Q[j])
      BY <3>1 DEF Ended
    <3> DEFINE scan == d[n]
               next == PySegment(scan, x)
               q == Q[j]
    <3>4. PyGoing(scan, path, q)
      BY <3>1, <3>2
    <3>5. q \in Nat /\ q <= Len(path) /\ ~Goes(x, path, q)
      BY <1>1, <1>3, <3>3
    <3>6. x = segments[j + 1] /\ scan.match_dict = ValuesOf(segments, Q, path, j)
      BY <3>1, <3>2
    <3>7. next = d[n + 1]
      BY <2>3
    <3> HIDE DEF scan, x, q
    <3>8. /\ next.stopped = TRUE /\ next.match_dict = scan.match_dict
          /\ next.value <=> ~Hole(x)
          /\ ~Hole(x) => next.rest = Drop(path, q)
      BY <2>4, <3>4, <3>5, PySegmentStops
    <3> HIDE DEF next
    <3>9. After(n + 1)
      BY <3>6, <3>7, <3>8 DEF q
    <3> QED
      BY <2>6, <3>9
  <2>7. CASE ~(n + 1 <= j) /\ ~(n <= j)
    <3>1. After(n)
      BY <2>1, <2>2, <2>7
    <3> DEFINE scan == d[n]
    <3>2. d[n + 1] = d[n]
      <4>1. scan.stopped = TRUE
        BY <3>1
      <4> HIDE DEF scan, x
      <4>2. PySegment(scan, x) = scan
        BY <4>1 DEF PySegment
      <4> QED
        BY <2>3, <4>2 DEF scan
    <3> QED
      BY <2>7, <3>1, <3>2
  <2> QED
    BY <2>5, <2>6, <2>7
<1>7. S = Nat
  <2>1. S \in SUBSET Nat
    OBVIOUS
  <2> HIDE DEF S
  <2> QED
    BY <1>5, <1>6, <2>1, Induct
<1>8. Good(N)
  <2>1. N \in S
    <3> HIDE DEF S
    <3> QED
      BY <1>1, <1>7
  <2> QED
    BY <1>1, <2>1
<1>9. CASE N <= j
  <2>1. N = j
    BY <1>1, <1>9
  <2>2. Before(N) /\ ~(j < N)
    BY <1>1, <1>8, <2>1
  <2> QED
    BY <1>2, <2>1, <2>2 DEF PyGoing
<1>10. CASE ~(N <= j)
  <2>1. j < N
    BY <1>1, <1>10
  <2>2. After(N)
    BY <1>8, <1>10
  <2> DEFINE scan == d[N]
  <2>3. /\ scan.match_dict = ValuesOf(segments, Q, path, j)
        /\ scan.value <=> ~stuck
        /\ ~stuck => scan.rest = Drop(path, Q[j])
    BY <2>2
  <2>4. PyScan(segments, path) = scan
    BY <1>2
  <2> HIDE DEF scan
  <2> QED
    BY <2>1, <2>3, <2>4
<1> QED
  BY <1>9, <1>10

(***************************************************************************)
(* Both matchers accept where the way covers the path and no placeholder   *)
(* is left behind it.                                                      *)
(***************************************************************************)
Covers(Q, segments, path, j) ==
  Q[j] = Len(path) /\ Holes(segments, Len(segments)) = Holes(segments, j)

\* No name twice.
Distinct(segments) ==
  \A i, l \in Holes(segments, Len(segments)) : segments[i] = segments[l] => i = l

LEMMA HolesWithin ==
  ASSUME NEW segments, Len(segments) \in Nat, NEW j \in 0..Len(segments)
  PROVE  LET all == Holes(segments, Len(segments))
             some == Holes(segments, j)
         IN  /\ IsFiniteSet(all) /\ IsFiniteSet(some) /\ some \subseteq all
             /\ Cardinality(all) = Cardinality(some) => all = some
             /\ all = some <=> all \subseteq 1..j
<1> DEFINE all == Holes(segments, Len(segments))
           some == Holes(segments, j)
<1>1. IsFiniteSet(all) /\ IsFiniteSet(some)
  BY HolesFacts
<1>2. some \subseteq all
  BY DEF Holes
<1>3. all = some <=> all \subseteq 1..j
  BY DEF Holes
<1> HIDE DEF all, some
<1>4. Cardinality(all) = Cardinality(some) => all = some
  BY <1>1, <1>2, FS_Subset
<1> QED
  BY <1>1, <1>2, <1>3, <1>4 DEF all, some

LEMMA DropAll ==
  ASSUME NEW path, IsSequence(path), NEW q \in Nat, q <= Len(path)
  PROVE  Drop(path, q) = <<>> <=> q = Len(path)
<1> DEFINE t == Drop(path, q)
<1>1. Len(path) \in Nat /\ IsSequence(t) /\ Len(t) = Len(path) - q
  BY DropFacts, SequenceFacts
<1> HIDE DEF t
<1>2. t = <<>> <=> Len(t) = 0
  BY <1>1, EmptyOnly, EmptyIsSequence
<1>3. t = <<>> <=> q = Len(path)
  BY <1>1, <1>2
<1> QED
  BY <1>3 DEF t

\* Where the scan stopped at a placeholder, one is left.
LEMMA StuckLeaves ==
  ASSUME NEW segments, Len(segments) \in Nat, NEW j \in 0..Len(segments),
         j < Len(segments), Hole(segments[j + 1])
  PROVE  Holes(segments, Len(segments)) # Holes(segments, j)
<1>1. j + 1 \in Holes(segments, Len(segments))
  BY DEF Holes
<1>2. j + 1 \notin Holes(segments, j)
  BY DEF Holes
<1> QED
  BY <1>1, <1>2

LEMMA ScanAccepts ==
  ASSUME NEW path, IsSequence(path), NEW entry, Shaped(entry.segments),
         NEW j, NEW Q, Ended(Q, entry.segments, path, j)
  PROVE  LET scan == Scan(entry, path)
         IN  (/\ scan.rest = <<>> /\ scan.value_length # 0
              /\ Len(scan.entries) = Cardinality(Names(entry.segments)))
               <=> Covers(Q, entry.segments, path, j)
<1> DEFINE segments == entry.segments
           N == Len(segments)
           scan == Scan(entry, path)
           stuck == j < N /\ Hole(segments[j + 1])
           all == Holes(segments, N)
           some == Holes(segments, j)
<1>1. N \in Nat /\ j \in 0..N
  BY SequenceFacts DEF Shaped, Ended
<1>2. Q[j] \in Nat /\ Q[j] <= Len(path)
  <2>1. \A i \in 0..j : Q[i] \in Nat /\ Q[i] <= Len(path)
    BY <1>1, WayRange DEF Ended
  <2> QED
    BY <1>1, <2>1
<1>3. /\ scan.rest = Drop(path, Q[j]) /\ Tells(scan.entries, Q, segments, j)
      /\ scan.value_length = 0 <=> stuck
  BY ScanFollows
<1>4. Len(scan.entries) = Cardinality(some)
  BY <1>3 DEF Tells
<1>5. Names(segments) = all
  BY NamesAreHoles
<1>6. Cardinality(all) = Cardinality(some) => all = some
  BY <1>1, HolesWithin
<1>7. stuck => all # some
  BY <1>1, StuckLeaves
<1>8. scan.rest = <<>> <=> Q[j] = Len(path)
  <2>1. Drop(path, Q[j]) = <<>> <=> Q[j] = Len(path)
    BY <1>2, DropAll
  <2> QED
    BY <1>3, <2>1
<1>9. Covers(Q, segments, path, j) <=> Q[j] = Len(path) /\ all = some
  BY DEF Covers
<1> HIDE DEF scan, stuck, all, some, segments
<1>10. (/\ scan.rest = <<>> /\ scan.value_length # 0
        /\ Len(scan.entries) = Cardinality(Names(segments)))
         <=> Covers(Q, segments, path, j)
  BY <1>3, <1>4, <1>5, <1>6, <1>7, <1>8, <1>9
<1> QED
  BY <1>10 DEF scan, segments

\* Each placeholder has its own value.
LEMMA ValuesCounted ==
  ASSUME NEW segments, Len(segments) \in Nat, Distinct(segments), NEW j \in 0..Len(segments),
         NEW Q, NEW path
  PROVE  Cardinality(ValuesOf(segments, Q, path, j)) = Cardinality(Holes(segments, j))
<1> DEFINE H == Holes(segments, j)
           V == ValuesOf(segments, Q, path, j)
           f == [l \in H |-> ValueOf(segments, Q, path, l)]
<1>1. IsFiniteSet(H) /\ H \subseteq Holes(segments, Len(segments))
  BY HolesWithin
<1>2. \A l \in H : f[l] = ValueOf(segments, Q, path, l)
  OBVIOUS
<1>3. \A v \in V : \E l \in H : f[l] = v
  BY DEF ValuesOf
<1>4. \A l \in H : f[l] \in V
  BY DEF ValuesOf
<1>5. \A i, l \in H : f[i] = f[l] => i = l
  <2> SUFFICES ASSUME NEW i \in H, NEW l \in H, f[i] = f[l] PROVE i = l
    OBVIOUS
  <2>1. segments[i].data = segments[l].data
    BY <1>2 DEF ValueOf
  <2>2. segments[i] = Placeholder(segments[i].data) /\ segments[l] = Placeholder(segments[l].data)
    BY DEF Holes, Hole
  <2>3. segments[i] = segments[l]
    BY <2>1, <2>2
  <2> QED
    BY <1>1, <2>3 DEF Distinct
<1>6. f \in [H -> V]
  BY <1>4
<1> HIDE DEF f, H, V
<1>7. f \in Bijection(H, V)
  BY <1>3, <1>5, <1>6 DEF Bijection, Injection, Surjection, IsInjective
<1>8. ExistsBijection(H, V)
  BY <1>7 DEF ExistsBijection
<1>9. Cardinality(V) = Cardinality(H)
  BY <1>1, <1>8, FS_Bijection
<1> QED
  BY <1>9 DEF V, H

LEMMA PyScanAccepts ==
  ASSUME NEW path, IsSequence(path), NEW segments, Shaped(segments), Distinct(segments),
         NEW j, NEW Q, Ended(Q, segments, path, j)
  PROVE  LET scan == PyScan(segments, path)
         IN  (/\ scan.rest = <<>> /\ scan.value
              /\ Cardinality(scan.match_dict) = Cardinality(Names(segments)))
               <=> Covers(Q, segments, path, j)
<1> DEFINE N == Len(segments)
           scan == PyScan(segments, path)
           stuck == j < N /\ Hole(segments[j + 1])
           all == Holes(segments, N)
           some == Holes(segments, j)
<1>1. N \in Nat /\ j \in 0..N
  BY SequenceFacts DEF Shaped, Ended
<1>2. Q[j] \in Nat /\ Q[j] <= Len(path)
  <2>1. \A i \in 0..j : Q[i] \in Nat /\ Q[i] <= Len(path)
    BY <1>1, WayRange DEF Ended
  <2> QED
    BY <1>1, <2>1
<1>3. /\ scan.match_dict = ValuesOf(segments, Q, path, j)
      /\ scan.value <=> ~stuck
      /\ ~stuck => scan.rest = Drop(path, Q[j])
  BY PyScanFollows
<1>4. Cardinality(scan.match_dict) = Cardinality(some)
  <2>1. Cardinality(ValuesOf(segments, Q, path, j)) = Cardinality(Holes(segments, j))
    BY <1>1, ValuesCounted
  <2> QED
    BY <1>3, <2>1
<1>5. Names(segments) = all
  BY NamesAreHoles
<1>6. Cardinality(all) = Cardinality(some) => all = some
  BY <1>1, HolesWithin
<1>7. stuck => all # some
  BY <1>1, StuckLeaves
<1>8. Drop(path, Q[j]) = <<>> <=> Q[j] = Len(path)
  BY <1>2, DropAll
<1>9. Covers(Q, segments, path, j) <=> Q[j] = Len(path) /\ all = some
  BY DEF Covers
<1> HIDE DEF scan, stuck, all, some
<1>10. (/\ scan.rest = <<>> /\ scan.value
        /\ Cardinality(scan.match_dict) = Cardinality(Names(segments)))
         <=> Covers(Q, segments, path, j)
  BY <1>3, <1>4, <1>5, <1>6, <1>7, <1>8, <1>9
<1> QED
  BY <1>10 DEF scan

(***************************************************************************)
(* The way is what the pattern means: the instances of the first k         *)
(* segments that give the path are the ways of k segments to its end.      *)
(***************************************************************************)
PartOf(x, value) == IF x.type = "exact" THEN x.data ELSE value

\* The first k segments, with values v for the placeholders.
Filled(segments, k, v) == [i \in 1..k |-> PartOf(segments[i], v[i])]

LEMMA HeadNames ==
  ASSUME NEW segments, Shaped(segments), NEW k \in 0..Len(segments)
  PROVE  LET head == SubSeq(segments, 1, k)
         IN  /\ Names(head) = Holes(segments, k)
             /\ \A v : Substituted(head, v) = FlattenSeq(Filled(segments, k, v))
<1> DEFINE head == SubSeq(segments, 1, k)
<1>1. IsSequence(segments) /\ Len(segments) \in Nat /\ k \in Nat
  BY SequenceFacts DEF Shaped
<1>2. IsSequence(head) /\ Len(head) = k /\ \A i \in 1..k : head[i] = segments[i]
  <2>1. 0 \in Nat /\ 0 + 1 = 1 /\ 0 + k = k /\ 0 + k <= Len(segments)
    BY <1>1
  <2>2. /\ IsSequence(SubSeq(segments, 0 + 1, 0 + k)) /\ Len(SubSeq(segments, 0 + 1, 0 + k)) = k
        /\ \A i \in 1..k : SubSeq(segments, 0 + 1, 0 + k)[i] = segments[0 + i]
    BY <1>1, <2>1, Cut
  <2>3. \A i \in 1..k : 0 + i = i
    BY <1>1
  <2> QED
    BY <2>1, <2>2, <2>3
<1> HIDE DEF head
<1>3. DOMAIN head = 1..k
  BY <1>2, SequenceFacts
<1>4. \A i \in 1..k : segments[i].type = "placeholder" <=> Hole(segments[i])
  <2>1. 1..k \subseteq 1..Len(segments)
    BY <1>1
  <2>2. \A i \in 1..k : Text(segments[i]) \/ Hole(segments[i])
    BY <2>1 DEF Shaped
  <2> QED
    BY <2>2 DEF Text, Hole, Placeholder
<1>5. Names(head) = Holes(segments, k)
  BY <1>2, <1>3, <1>4 DEF Names, Holes
<1>6. ASSUME NEW v PROVE Substituted(head, v) = FlattenSeq(Filled(segments, k, v))
  <2>1. [i \in DOMAIN head |-> IF head[i].type = "exact" THEN head[i].data ELSE v[i]]
          = Filled(segments, k, v)
    BY <1>2, <1>3 DEF Filled, PartOf
  <2> QED
    BY <2>1 DEF Substituted
<1> QED
  BY <1>5, <1>6 DEF head

\* What a placeholder can stand for in a path.
Values(path) ==
  {t \in Substrings(path) \ {<<>>} : \A i \in DOMAIN t : t[i] # Slash}

LEMMA InstancesAre ==
  ASSUME NEW segments, Shaped(segments), NEW k \in 0..Len(segments), NEW path
  PROVE  Instances(segments, k, path)
           = {v \in [Holes(segments, k) -> Values(path)] :
                FlattenSeq(Filled(segments, k, v)) = path}
<1> DEFINE head == SubSeq(segments, 1, k)
<1>1. /\ Names(head) = Holes(segments, k)
      /\ \A v : Substituted(head, v) = FlattenSeq(Filled(segments, k, v))
  BY HeadNames
<1>2. Instances(segments, k, path)
        = {v \in [Names(head) -> Values(path)] : Substituted(head, v) = path}
  BY DEF Instances, Values
<1> HIDE DEF head
<1> QED
  BY <1>1, <1>2

LEMMA SubstringsAre ==
  ASSUME NEW s, NEW t
  PROVE  t \in Substrings(s) <=> \E i, j \in DOMAIN s : t = SubSeq(s, i, j)
BY SMT DEF Substrings

\* A value of a placeholder is a piece of the path without a '/'.
LEMMA ValueFacts ==
  ASSUME NEW path, IsSequence(path), NEW t \in Values(path)
  PROVE  IsSequence(t) /\ Len(t) \in Nat /\ Len(t) > 0 /\ \A y \in 1..Len(t) : t[y] # Slash
<1>1. PICK i \in DOMAIN path, j \in DOMAIN path : t = SubSeq(path, i, j)
  BY DEF Values, Substrings
<1>2. t # <<>> /\ \A y \in DOMAIN t : t[y] # Slash
  BY DEF Values
<1>3. DOMAIN path = 1..Len(path) /\ Len(path) \in Nat
  BY SequenceFacts
<1>4. IsSequence(t)
  <2>1. CASE j < i
    <3>1. t = <<>>
      BY <1>1, <1>3, <2>1, SequenceFacts
    <3> QED
      BY <1>2, <3>1
  <2>2. CASE i <= j
    <3> DEFINE a == i - 1
               n == j - a
    <3>1. a \in Nat /\ n \in Nat /\ a + 1 = i /\ a + n = j /\ a + n <= Len(path)
      BY <1>1, <1>3, <2>2
    <3> HIDE DEF a, n
    <3>2. IsSequence(SubSeq(path, a + 1, a + n))
      BY <3>1, Cut
    <3> QED
      BY <1>1, <3>1, <3>2
  <2> QED
    BY <1>1, <1>3, <2>1, <2>2
<1>5. Len(t) \in Nat /\ DOMAIN t = 1..Len(t)
  BY <1>4, SequenceFacts
<1>6. Len(t) # 0
  BY <1>2, <1>4, EmptyOnly
<1> QED
  BY <1>2, <1>4, <1>5, <1>6

LEMMA FilledFacts ==
  ASSUME NEW segments, Shaped(segments), NEW k \in 0..Len(segments), NEW path, IsSequence(path),
         NEW v, \A i \in Holes(segments, k) : IsSequence(v[i])
  PROVE  LET parts == Filled(segments, k, v)
         IN  /\ IsSequence(parts) /\ Len(parts) = k
             /\ \A i \in 1..k : /\ IsSequence(parts[i])
                                /\ Text(segments[i]) => parts[i] = segments[i].data
                                /\ Hole(segments[i]) => parts[i] = v[i]
<1> DEFINE parts == Filled(segments, k, v)
<1>1. k \in Nat /\ 1..k \subseteq 1..Len(segments)
  BY SequenceFacts DEF Shaped
<1>2. parts = [i \in 1..k |-> parts[i]] /\ \A i \in 1..k : parts[i] = PartOf(segments[i], v[i])
  BY DEF Filled
<1> HIDE DEF parts
<1>3. IsSequence(parts) /\ Len(parts) = k
  BY <1>1, <1>2, FunctionSequence
<1>4. ASSUME NEW i \in 1..k
      PROVE  /\ IsSequence(parts[i])
             /\ Text(segments[i]) => parts[i] = segments[i].data
             /\ Hole(segments[i]) => parts[i] = v[i]
  <2>1. Text(segments[i]) \/ Hole(segments[i])
    BY <1>1 DEF Shaped
  <2>2. Text(segments[i]) => parts[i] = segments[i].data /\ IsSequence(parts[i])
    BY <1>2 DEF PartOf, Text
  <2>3. Hole(segments[i]) => parts[i] = v[i] /\ i \in Holes(segments, k)
    BY <1>2 DEF PartOf, Hole, Placeholder, Holes
  <2> QED
    BY <2>1, <2>2, <2>3
<1> QED
  BY <1>3, <1>4 DEF parts

\* The values a way gives the placeholders.
WayValues(segments, Q, path, k) ==
  [l \in Holes(segments, k) |-> SubSeq(path, Q[l - 1] + 1, Q[l])]

\* From a way to an instance.
LEMMA WayInstance ==
  ASSUME NEW path, IsSequence(path), NEW segments, Shaped(segments),
         NEW k \in 0..Len(segments), NEW Q, Way(Q, segments, path, k), Q[k] = Len(path)
  PROVE  WayValues(segments, Q, path, k) \in Instances(segments, k, path)
<1> DEFINE v == WayValues(segments, Q, path, k)
           parts == Filled(segments, k, v)
           Piece(l) == SubSeq(path, Q[l - 1] + 1, Q[l])
<1>0. k \in Nat /\ Len(path) \in Nat /\ Len(segments) \in Nat /\ DOMAIN path = 1..Len(path)
  BY SequenceFacts DEF Shaped
<1>1. /\ \A i \in 0..k : Q[i] \in Nat /\ Q[i] <= Len(path)
      /\ \A i \in 1..k : Q[i - 1] < Q[i]
  BY WayRange
<1>2. ASSUME NEW l \in 1..k
      PROVE  /\ Q[l - 1] \in Nat /\ Q[l] \in Nat /\ Q[l - 1] < Q[l] /\ Q[l] <= Len(path)
             /\ IsSequence(Piece(l)) /\ Len(Piece(l)) = Q[l] - Q[l - 1]
             /\ \A y \in 1..(Q[l] - Q[l - 1]) : Piece(l)[y] = path[Q[l - 1] + y]
  <2> DEFINE a == Q[l - 1]
             n == Q[l] - a
  <2>1. l - 1 \in 0..k /\ l \in 0..k
    BY <1>0
  <2>2. a \in Nat /\ Q[l] \in Nat /\ a < Q[l] /\ Q[l] <= Len(path)
    BY <1>1, <2>1
  <2>3. n \in Nat /\ a + n = Q[l] /\ a + n <= Len(path)
    BY <1>0, <2>2
  <2> HIDE DEF n, a
  <2>4. /\ IsSequence(SubSeq(path, a + 1, a + n)) /\ Len(SubSeq(path, a + 1, a + n)) = n
        /\ \A i \in 1..n : SubSeq(path, a + 1, a + n)[i] = path[a + i]
    BY <2>2, <2>3, Cut, ZenonT(60)
  <2>5. SubSeq(path, a + 1, a + n) = Piece(l)
    BY <2>3 DEF a
  <2> HIDE DEF Piece
  <2>6. /\ IsSequence(Piece(l)) /\ Len(Piece(l)) = n
        /\ \A y \in 1..n : Piece(l)[y] = path[a + y]
    BY <2>4, <2>5
  <2> QED
    BY <2>2, <2>6 DEF n, a
<1>3. ASSUME NEW l \in Holes(segments, k) PROVE v[l] = Piece(l) /\ l \in 1..k /\ Hole(segments[l])
  BY DEF WayValues, Holes
<1> HIDE DEF Piece, v
<1>4. \A l \in Holes(segments, k) : IsSequence(v[l])
  BY <1>2, <1>3
<1>5. /\ IsSequence(parts) /\ Len(parts) = k
      /\ \A i \in 1..k : /\ IsSequence(parts[i])
                         /\ Text(segments[i]) => parts[i] = segments[i].data
                         /\ Hole(segments[i]) => parts[i] = v[i]
  BY <1>4, FilledFacts
<1> HIDE DEF parts
<1>6. ASSUME NEW i \in 1..k
      PROVE  Goes(segments[i], path, Q[i - 1]) /\ Q[i] = Q[i - 1] + Amount(segments[i], path, Q[i - 1])
  BY DEF Way
<1>7. ASSUME NEW i \in 1..k
      PROVE  /\ Q[i] = Q[i - 1] + Len(parts[i])
             /\ \A x \in 1..Len(parts[i]) : path[Q[i - 1] + x] = parts[i][x]
  <2>1. Text(segments[i]) \/ Hole(segments[i])
    BY <1>0 DEF Shaped
  <2>2. CASE Text(segments[i])
    <3> DEFINE x == segments[i]
               q == Q[i - 1]
    <3>1. q \in Nat /\ q <= Len(path) /\ Text(x) /\ Goes(x, path, q) /\ Q[i] = q + Amount(x, path, q)
      <4>1. Q[i - 1] \in Nat /\ Q[i - 1] <= Len(path)
        BY <1>0, <1>2, SMTT(30)
      <4> QED
        BY <1>6, <2>2, <4>1
    <3>2. parts[i] = x.data
      BY <1>5, <2>2
    <3>3. Q[i - 1] = q
      OBVIOUS
    <3> HIDE DEF x, q
    <3>4. \A y \in 1..Len(x.data) : path[q + y] = x.data[y]
      BY <3>1, GoesText
    <3>5. Amount(x, path, q) = Len(x.data)
      BY <3>1 DEF Amount, Text
    <3> QED
      BY <3>1, <3>2, <3>3, <3>4, <3>5
  <2>3. CASE Hole(segments[i])
    <3>1. i \in Holes(segments, k)
      BY <2>3 DEF Holes
    <3>2. parts[i] = Piece(i)
      BY <1>3, <1>5, <2>3, <3>1
    <3>3. /\ Q[i - 1] \in Nat /\ Q[i] \in Nat /\ Q[i - 1] < Q[i]
          /\ Len(Piece(i)) = Q[i] - Q[i - 1]
          /\ \A y \in 1..(Q[i] - Q[i - 1]) : Piece(i)[y] = path[Q[i - 1] + y]
      BY <1>2
    <3> QED
      BY <3>2, <3>3
  <2> QED
    BY <2>1, <2>2, <2>3
<1>8. Cuts(Q, parts, k, path)
  <2>1. Q[0] = 0
    BY DEF Way
  <2>2. \A i \in 1..k : Q[i - 1] \in Nat /\ Q[i] \in Nat
    BY <1>2
  <2> QED
    BY <1>7, <2>1, <2>2 DEF Cuts
<1>9. FlattenSeq(parts) = path
  BY <1>5, <1>8, CutsJoin
<1>10. ASSUME NEW l \in Holes(segments, k) PROVE v[l] \in Values(path)
  <2>1. l \in 1..k /\ v[l] = Piece(l) /\ Hole(segments[l])
    BY <1>3
  <2>2. /\ Q[l - 1] \in Nat /\ Q[l] \in Nat /\ Q[l - 1] < Q[l] /\ Q[l] <= Len(path)
        /\ IsSequence(Piece(l)) /\ Len(Piece(l)) = Q[l] - Q[l - 1]
        /\ \A y \in 1..(Q[l] - Q[l - 1]) : Piece(l)[y] = path[Q[l - 1] + y]
    BY <1>2, <2>1
  <2>3. Piece(l) \in Substrings(path)
    <3>1. Q[l - 1] + 1 \in DOMAIN path /\ Q[l] \in DOMAIN path
      BY <1>0, <2>2
    <3> DEFINE a == Q[l - 1] + 1
               b == Q[l]
    <3>2. Piece(l) = SubSeq(path, a, b)
      BY DEF Piece
    <3> HIDE DEF a, b
    <3>3. a \in DOMAIN path /\ b \in DOMAIN path
      BY <3>1 DEF a, b
    <3>4. \E i, y \in DOMAIN path : Piece(l) = SubSeq(path, i, y)
      BY <3>2, <3>3
    <3> QED
      BY <3>4, SubstringsAre
  <2>4. Piece(l) # <<>>
    <3>1. Len(Piece(l)) > 0
      BY <2>2
    <3> QED
      BY <3>1, EmptyIsSequence
  <2>5. \A y \in DOMAIN Piece(l) : Piece(l)[y] # Slash
    <3>1. DOMAIN Piece(l) = 1..(Q[l] - Q[l - 1])
      BY <2>2, SequenceFacts
    <3> DEFINE q == Q[l - 1]
               x == segments[l]
    <3>2. q \in Nat /\ q <= Len(path) /\ Q[l] = q + Run(path, q)
      <4>1. Amount(x, path, q) = Run(path, q)
        BY <2>1 DEF Amount, Hole, Placeholder
      <4>2. Q[l] = q + Amount(x, path, q)
        BY <1>6, <2>1
      <4>3. q \in Nat /\ q <= Len(path)
        BY <1>0, <2>2
      <4> QED
        BY <4>1, <4>2, <4>3
    <3> HIDE DEF q
    <3>3. Run(path, q) \in Nat /\ \A y \in 1..Run(path, q) : path[q + y] # Slash
      BY <3>2, RunFacts
    <3>4. Q[l] - q = Run(path, q)
      BY <3>2, <3>3
    <3> QED
      BY <2>2, <3>1, <3>3, <3>4 DEF q
  <2> QED
    BY <2>1, <2>3, <2>4, <2>5 DEF Values
<1>11. v \in [Holes(segments, k) -> Values(path)]
  <2>1. v = [l \in Holes(segments, k) |-> v[l]]
    BY DEF v, WayValues
  <2> QED
    BY <1>10, <2>1
<1> QED
  BY <1>9, <1>11, InstancesAre DEF v, parts

\* From an instance to a way.
LEMMA InstanceWay ==
  ASSUME NEW path, IsSequence(path), NEW segments, Shaped(segments),
         NEW k \in 0..Len(segments), NEW v \in Instances(segments, k, path)
  PROVE  \E P : /\ Way(P, segments, path, k) /\ P[k] = Len(path)
                /\ v = WayValues(segments, P, path, k)
<1> DEFINE parts == Filled(segments, k, v)
<1>0. k \in Nat /\ Len(path) \in Nat /\ Len(segments) \in Nat /\ 1..k \subseteq 1..Len(segments)
  BY SequenceFacts DEF Shaped
<1>1. v \in [Holes(segments, k) -> Values(path)] /\ FlattenSeq(parts) = path
  BY InstancesAre
<1>2. \A i \in Holes(segments, k) :
        IsSequence(v[i]) /\ Len(v[i]) \in Nat /\ Len(v[i]) > 0 /\ \A y \in 1..Len(v[i]) : v[i][y] # Slash
  BY <1>1, ValueFacts
<1>3. /\ IsSequence(parts) /\ Len(parts) = k
      /\ \A i \in 1..k : /\ IsSequence(parts[i])
                         /\ Text(segments[i]) => parts[i] = segments[i].data
                         /\ Hole(segments[i]) => parts[i] = v[i]
  BY <1>2, FilledFacts
<1> HIDE DEF parts
<1>4. PICK P : /\ Cuts(P, parts, k, path) /\ P[k] = Len(path)
               /\ \A i \in 0..k : P[i] \in Nat /\ P[i] <= Len(path)
  BY <1>1, <1>3, JoinCuts
<1>5. ASSUME NEW i \in 1..k
      PROVE  /\ P[i - 1] \in Nat /\ P[i] \in Nat /\ P[i] <= Len(path) /\ P[i - 1] <= Len(path)
             /\ P[i] = P[i - 1] + Len(parts[i])
             /\ \A x \in 1..Len(parts[i]) : path[P[i - 1] + x] = parts[i][x]
  <2>1. i - 1 \in 0..k /\ i \in 0..k
    BY <1>0
  <2> QED
    BY <1>4, <2>1 DEF Cuts
<1>6. ASSUME NEW i \in 1..k, Hole(segments[i])
      PROVE  /\ parts[i] = v[i] /\ Len(parts[i]) > 0 /\ Len(parts[i]) \in Nat
             /\ Run(path, P[i - 1]) = Len(parts[i])
  <2> DEFINE t == parts[i]
             n == Len(t)
             q == P[i - 1]
  <2>1. i \in Holes(segments, k) /\ t = v[i]
    BY <1>3, <1>6 DEF Holes
  <2>2. IsSequence(t) /\ n \in Nat /\ n > 0 /\ \A y \in 1..n : t[y] # Slash
    BY <1>2, <2>1
  <2>3. q \in Nat /\ q <= Len(path) /\ q + n = P[i] /\ q + n <= Len(path)
        /\ \A y \in 1..n : path[q + y] = t[y]
    BY <1>5
  <2>4. \A y \in 1..n : path[q + y] # Slash
    BY <2>2, <2>3
  <2>5. ASSUME q + n < Len(path) PROVE path[q + n + 1] = Slash
    <3>1. i # k
      BY <1>4, <2>3, <2>5
    <3> DEFINE l == i + 1
    <3>2. l \in 1..k /\ l - 1 = i /\ i + 1 <= Len(segments) /\ i \in 1..Len(segments)
      BY <1>0, <3>1
    <3>3. Text(segments[i + 1]) /\ segments[i + 1].data[1] = Slash
      BY <1>6, <3>2 DEF Shaped
    <3>4. Text(segments[l]) /\ segments[l].data[1] = Slash
      BY <3>3
    <3> HIDE DEF l
    <3>5. parts[l] = segments[l].data /\ Len(parts[l]) \in Nat /\ Len(parts[l]) > 0
      BY <1>3, <3>2, <3>4, SequenceFacts DEF Text
    <3>6. 1 \in 1..Len(parts[l])
      BY <3>5
    <3>7. path[P[l - 1] + 1] = parts[l][1]
      BY <1>5, <3>2, <3>6
    <3> QED
      BY <2>3, <3>2, <3>4, <3>5, <3>7
  <2> HIDE DEF n, q
  <2>6. n = Run(path, q)
    BY <2>2, <2>3, <2>4, <2>5, RunOnly
  <2> QED
    BY <2>1, <2>2, <2>6 DEF n, q
<1>7. ASSUME NEW i \in 1..k
      PROVE  Goes(segments[i], path, P[i - 1]) /\ P[i] = P[i - 1] + Amount(segments[i], path, P[i - 1])
  <2>1. Text(segments[i]) \/ Hole(segments[i])
    BY <1>0 DEF Shaped
  <2>2. CASE Text(segments[i])
    <3> DEFINE x == segments[i]
               q == P[i - 1]
    <3>1. parts[i] = x.data
      BY <1>3, <2>2
    <3>2. /\ q \in Nat /\ q <= Len(path) /\ P[i] = q + Len(x.data) /\ q + Len(x.data) <= Len(path)
          /\ \A y \in 1..Len(x.data) : path[q + y] = x.data[y]
      BY <1>5, <3>1, SMTT(30)
    <3>3. Text(x)
      BY <2>2
    <3> HIDE DEF x, q
    <3>4. Goes(x, path, q)
      BY <3>2, <3>3, GoesText
    <3>5. Amount(x, path, q) = Len(x.data)
      BY <3>3 DEF Amount, Text
    <3> QED
      BY <3>2, <3>4, <3>5 DEF x, q
  <2>3. CASE Hole(segments[i])
    <3>1. Run(path, P[i - 1]) = Len(parts[i]) /\ Len(parts[i]) > 0 /\ Len(parts[i]) \in Nat
      BY <1>6, <2>3
    <3>2. segments[i].type # "exact"
      BY <2>3 DEF Hole, Placeholder
    <3>3. P[i] = P[i - 1] + Len(parts[i])
      BY <1>5
    <3>4. Run(path, P[i - 1]) # 0
      BY <3>1
    <3> QED
      BY <3>1, <3>2, <3>3, <3>4 DEF Goes, Amount
  <2> QED
    BY <2>1, <2>2, <2>3
<1>8. Way(P, segments, path, k)
  BY <1>4, <1>7 DEF Way, Cuts
<1>9. ASSUME NEW l \in Holes(segments, k) PROVE v[l] = SubSeq(path, P[l - 1] + 1, P[l])
  <2> DEFINE t == v[l]
             a == P[l - 1]
             n == Len(t)
             u == SubSeq(path, a + 1, a + n)
  <2>1. l \in 1..k /\ Hole(segments[l])
    BY DEF Holes
  <2>2. t = parts[l] /\ IsSequence(t) /\ n \in Nat
    BY <1>2, <1>3, <2>1
  <2>3. a \in Nat /\ a + n = P[l] /\ a + n <= Len(path) /\ \A y \in 1..n : path[a + y] = t[y]
    BY <1>5, <2>1, <2>2
  <2> HIDE DEF t, a, n
  <2>4. IsSequence(u) /\ Len(u) = n /\ \A i \in 1..n : u[i] = path[a + i]
    BY <2>2, <2>3, Cut
  <2> HIDE DEF u
  <2>5. Len(t) = Len(u) /\ \A i \in 1..Len(t) : t[i] = u[i]
    BY <2>3, <2>4 DEF n
  <2>6. t = u
    BY <2>2, <2>4, <2>5, EqualSequences
  <2> QED
    BY <2>3, <2>6 DEF t, u, a
<1>10. v = WayValues(segments, P, path, k)
  <2>1. v = [l \in Holes(segments, k) |-> v[l]]
    BY <1>1
  <2> QED
    BY <1>9, <2>1 DEF WayValues
<1> QED
  BY <1>4, <1>8, <1>10

LEMMA WaysAgree ==
  ASSUME NEW path, NEW segments, NEW k \in Nat, NEW P, Way(P, segments, path, k),
         NEW j \in Nat, NEW Q, Way(Q, segments, path, j), NEW n \in Nat, n <= k, n <= j
  PROVE  \A i \in 0..n : P[i] = Q[i]
<1>1. 1..n \subseteq 1..k /\ 1..n \subseteq 1..j
  OBVIOUS
<1>2. Way(P, segments, path, n) /\ Way(Q, segments, path, n)
  BY <1>1 DEF Way
<1> QED
  BY <1>2, WayUnique

\* A way of k segments to the end of the path.
Reaches(P, segments, path, k) ==
  k \in 0..Len(segments) /\ Way(P, segments, path, k) /\ P[k] = Len(path)

\* Such a way is the way as far as it goes.
LEMMA OneWay ==
  ASSUME NEW path, IsSequence(path), NEW segments, Shaped(segments),
         NEW k, NEW P, Reaches(P, segments, path, k),
         NEW j, NEW Q, Ended(Q, segments, path, j)
  PROVE  k = j /\ \A i \in 0..j : P[i] = Q[i]
<1>0. Len(segments) \in Nat /\ Len(path) \in Nat /\ j \in 0..Len(segments) /\ k \in Nat
      /\ j \in Nat /\ k \in 0..Len(segments) /\ P[k] = Len(path)
  BY SequenceFacts DEF Shaped, Ended, Reaches
<1>a. k \in Nat /\ j \in Nat
  BY <1>0
<1>b. Way(P, segments, path, k)
  BY DEF Reaches
<1>1. Way(Q, segments, path, j)
  BY DEF Ended
<1>2. ASSUME NEW n \in Nat, n <= k, n <= j, NEW i \in 0..n PROVE P[i] = Q[i]
  BY <1>a, <1>b, <1>1, <1>2, WaysAgree
<1>3. ASSUME k < j PROVE FALSE
  <2>1. P[k] = Q[k]
    BY <1>0, <1>2, <1>3
  <2>2. /\ \A i \in 0..j : Q[i] \in Nat /\ Q[i] <= Len(path)
        /\ \A i \in 1..j : Q[i - 1] < Q[i]
    BY <1>0, <1>1, WayRange
  <2> DEFINE l == k + 1
  <2>3. l \in 1..j /\ l \in 0..j /\ l - 1 = k /\ k \in 0..j
    BY <1>0, <1>3
  <2> HIDE DEF l
  <2>4. Q[l - 1] < Q[l] /\ Q[l] <= Len(path) /\ Q[l] \in Nat /\ Q[k] \in Nat
    BY <2>2, <2>3
  <2> QED
    BY <1>0, <2>1, <2>3, <2>4
<1>4. ASSUME j < k PROVE FALSE
  <2>1. P[j] = Q[j]
    BY <1>0, <1>2, <1>4, SMTT(30)
  <2>2. ~Goes(segments[j + 1], path, Q[j])
    BY <1>0, <1>4 DEF Ended
  <2> DEFINE l == j + 1
  <2>3. l \in 1..k /\ l - 1 = j
    BY <1>0, <1>4
  <2> HIDE DEF l
  <2>4. Goes(segments[l], path, P[l - 1])
    BY <1>b, <2>3 DEF Way
  <2> QED
    BY <2>1, <2>2, <2>3, <2>4 DEF l
<1>5. k = j
  BY <1>0, <1>3, <1>4
<1> QED
  BY <1>0, <1>2, <1>5

LEMMA SameValues ==
  ASSUME NEW segments, NEW j, NEW P, NEW Q, NEW path, j \in Nat, \A i \in 0..j : P[i] = Q[i]
  PROVE  WayValues(segments, P, path, j) = WayValues(segments, Q, path, j)
<1>1. \A l \in Holes(segments, j) : l - 1 \in 0..j /\ l \in 0..j
  BY DEF Holes
<1>2. \A l \in Holes(segments, j) : P[l - 1] = Q[l - 1] /\ P[l] = Q[l]
  BY <1>1
<1> QED
  BY <1>2 DEF WayValues

LEMMA LengthsAre ==
  ASSUME NEW segments, Shaped(segments), NEW k
  PROVE  k \in Lengths(segments)
           <=> k \in 0..Len(segments) /\ Holes(segments, Len(segments)) = Holes(segments, k)
<1>1. Names(segments) = Holes(segments, Len(segments)) /\ Len(segments) \in Nat
  BY NamesAreHoles, SequenceFacts DEF Shaped
<1>2. ASSUME k \in 0..Len(segments)
      PROVE  Holes(segments, Len(segments)) = Holes(segments, k)
               <=> Holes(segments, Len(segments)) \subseteq 1..k
  BY <1>1, <1>2, HolesWithin
<1> QED
  BY <1>1, <1>2 DEF Lengths

\* All instances of all lengths.
LEMMA OneInstance ==
  ASSUME NEW path, IsSequence(path), NEW segments, Shaped(segments),
         NEW j, NEW Q, Ended(Q, segments, path, j), NEW k \in Lengths(segments),
         NEW v \in Instances(segments, k, path)
  PROVE  Covers(Q, segments, path, j) /\ v = WayValues(segments, Q, path, j)
<1>1. k \in 0..Len(segments) /\ Holes(segments, Len(segments)) = Holes(segments, k)
  BY LengthsAre
<1>2. PICK P : /\ Way(P, segments, path, k) /\ P[k] = Len(path)
               /\ v = WayValues(segments, P, path, k)
  BY <1>1, InstanceWay
<1>3. k = j /\ \A i \in 0..j : P[i] = Q[i]
  BY <1>1, <1>2, OneWay DEF Reaches
<1>4. j \in Nat /\ j \in 0..j
  BY <1>1, <1>3, SequenceFacts DEF Shaped
<1>5. Covers(Q, segments, path, j)
  BY <1>1, <1>2, <1>3, <1>4 DEF Covers
<1>6. WayValues(segments, P, path, j) = WayValues(segments, Q, path, j)
  BY <1>3, <1>4, SameValues
<1> QED
  BY <1>2, <1>3, <1>5, <1>6

LEMMA CoversInstance ==
  ASSUME NEW path, IsSequence(path), NEW segments, Shaped(segments),
         NEW j, NEW Q, Ended(Q, segments, path, j), Covers(Q, segments, path, j)
  PROVE  j \in Lengths(segments) /\ WayValues(segments, Q, path, j) \in Instances(segments, j, path)
<1>1. j \in 0..Len(segments) /\ Way(Q, segments, path, j)
  BY DEF Ended
<1>2. j \in Lengths(segments)
  BY <1>1, LengthsAre DEF Covers
<1>3. Q[j] = Len(path)
  BY DEF Covers
<1> QED
  BY <1>1, <1>2, <1>3, WayInstance

LEMMA DescribesCovers ==
  ASSUME NEW path, IsSequence(path), NEW segments, Shaped(segments),
         NEW j, NEW Q, Ended(Q, segments, path, j)
  PROVE  Describes(segments, path) <=> Covers(Q, segments, path, j)
<1>1. ASSUME Describes(segments, path) PROVE Covers(Q, segments, path, j)
  <2>1. PICK k \in Lengths(segments) : Instances(segments, k, path) # {}
    BY <1>1 DEF Describes
  <2>2. PICK v : v \in Instances(segments, k, path)
    BY <2>1
  <2> QED
    BY <2>1, <2>2, OneInstance
<1>2. ASSUME Covers(Q, segments, path, j) PROVE Describes(segments, path)
  <2>1. /\ j \in Lengths(segments)
        /\ WayValues(segments, Q, path, j) \in Instances(segments, j, path)
    BY <1>2, CoversInstance
  <2> QED
    BY <2>1 DEF Describes
<1> QED
  BY <1>1, <1>2

LEMMA DescribedValuesAre ==
  ASSUME NEW path, IsSequence(path), NEW segments, Shaped(segments),
         NEW j, NEW Q, Ended(Q, segments, path, j), Covers(Q, segments, path, j)
  PROVE  DescribedValues(segments, path) = ValuesOf(segments, Q, path, j)
<1> DEFINE w == WayValues(segments, Q, path, j)
           all == UNION {Instances(segments, k, path) : k \in Lengths(segments)}
           Named(v) == {<<segments[i].data, v[i]>> : i \in DOMAIN v}
<1>1. \A v \in all : v = w
  BY OneInstance
<1>2. w \in all
  BY CoversInstance
<1>3. all = {w}
  BY <1>1, <1>2
<1>4. DescribedValues(segments, path) = UNION {Named(v) : v \in all}
  BY DEF DescribedValues
<1> HIDE DEF all, Named
<1>5. DescribedValues(segments, path) = Named(w)
  BY <1>3, <1>4
<1>6. DOMAIN w = Holes(segments, j)
      /\ \A i \in DOMAIN w : w[i] = SubSeq(path, Q[i - 1] + 1, Q[i])
  BY DEF WayValues
<1> HIDE DEF w
<1>7. Named(w) = ValuesOf(segments, Q, path, j)
  BY <1>6 DEF Named, ValuesOf, ValueOf
<1> QED
  BY <1>5, <1>7

\* The values of a list of entries, which hold places in the path.
EntryValues(e, path) ==
  {<<e[x].key, SubSeq(path, e[x].value + 1, e[x].value + e[x].value_length)>> : x \in 1..Len(e)}

\* An entry with a place in the path.
InPath(e, path) ==
  /\ e = [key |-> e.key, value_length |-> e.value_length, value |-> e.value]
  /\ e.value \in Nat /\ e.value_length \in Nat /\ e.value + e.value_length <= Len(path)

LEMMA TakenFacts ==
  ASSUME NEW path, IsSequence(path), NEW segments, Shaped(segments),
         NEW j, NEW Q, Ended(Q, segments, path, j), NEW l \in Holes(segments, j)
  PROVE  LET e == Taken(segments, Q, l)
         IN  /\ InPath(e, path)
             /\ <<e.key, SubSeq(path, e.value + 1, e.value + e.value_length)>>
                  = ValueOf(segments, Q, path, l)
<1> DEFINE e == Taken(segments, Q, l)
           a == Q[l - 1]
           b == Q[l]
<1>0. Len(path) \in Nat /\ j \in 0..Len(segments) /\ j \in Nat
  BY SequenceFacts DEF Shaped, Ended
<1>1. l - 1 \in 0..j /\ l \in 0..j /\ l \in 1..j
  BY <1>0 DEF Holes
<1>2. /\ \A i \in 0..j : Q[i] \in Nat /\ Q[i] <= Len(path)
      /\ \A i \in 1..j : Q[i - 1] < Q[i]
  BY <1>0, WayRange DEF Ended
<1>3. a \in Nat /\ b \in Nat /\ a < b /\ b <= Len(path)
  BY <1>1, <1>2
<1>4. /\ e.key = segments[l].data /\ e.value_length = b - a /\ e.value = a
      /\ e = [key |-> e.key, value_length |-> e.value_length, value |-> e.value]
  BY DEF Taken
<1> HIDE DEF e, a, b
<1>5. e.value_length \in Nat /\ e.value + e.value_length = b
  BY <1>3, <1>4
<1>6. InPath(e, path)
  BY <1>3, <1>4, <1>5 DEF InPath
<1>7. <<e.key, SubSeq(path, e.value + 1, e.value + e.value_length)>> = ValueOf(segments, Q, path, l)
  BY <1>4, <1>5 DEF ValueOf, a, b
<1> QED
  BY <1>6, <1>7 DEF e

LEMMA ToldValues ==
  ASSUME NEW path, IsSequence(path), NEW segments, Shaped(segments),
         NEW j, NEW Q, Ended(Q, segments, path, j), NEW e, Tells(e, Q, segments, j)
  PROVE  /\ EntryValues(e, path) = ValuesOf(segments, Q, path, j)
         /\ \A x \in 1..Len(e) : InPath(e[x], path)
<1> DEFINE V(y) == <<y.key, SubSeq(path, y.value + 1, y.value + y.value_length)>>
<1>1. ASSUME NEW l \in Holes(segments, j)
      PROVE  InPath(Taken(segments, Q, l), path)
             /\ V(Taken(segments, Q, l)) = ValueOf(segments, Q, path, l)
  BY TakenFacts
<1>2. EntryValues(e, path) = {V(e[x]) : x \in 1..Len(e)}
  BY DEF EntryValues
<1> HIDE DEF V
<1>3. \A x \in 1..Len(e) : \E l \in Holes(segments, j) : e[x] = Taken(segments, Q, l)
  BY DEF Tells
<1>4. \A l \in Holes(segments, j) : \E x \in 1..Len(e) : e[x] = Taken(segments, Q, l)
  BY DEF Tells
<1>5. \A x \in 1..Len(e) : InPath(e[x], path)
  BY <1>1, <1>3
<1>6. ASSUME NEW x \in 1..Len(e) PROVE V(e[x]) \in ValuesOf(segments, Q, path, j)
  BY <1>1, <1>3 DEF ValuesOf
<1>7. ASSUME NEW l \in Holes(segments, j)
      PROVE  ValueOf(segments, Q, path, l) \in EntryValues(e, path)
  BY <1>1, <1>2, <1>4
<1>8. EntryValues(e, path) \subseteq ValuesOf(segments, Q, path, j)
  BY <1>2, <1>6
<1>9. ValuesOf(segments, Q, path, j) \subseteq EntryValues(e, path)
  BY <1>7 DEF ValuesOf
<1> QED
  BY <1>5, <1>8, <1>9

(***************************************************************************)
(* The methods of a route in one text.                                     *)
(***************************************************************************)
OccursAt(t, s, a) ==
  a \in Nat /\ a + Len(t) <= Len(s) /\ \A y \in 1..Len(t) : s[a + y] = t[y]

LEMMA Occurring ==
  ASSUME NEW t, IsSequence(t), NEW s, IsSequence(s), NEW a \in Nat
  PROVE  a + 1 \in Occurrences(t, s) <=> OccursAt(t, s, a)
<1> DEFINE l == Len(t)
           c == a + 1
           u == SubSeq(s, a + 1, a + l)
<1>1. l \in Nat /\ Len(s) \in Nat
  BY SequenceFacts
<1>2. c \in Occurrences(t, s) <=> c \in 1..(Len(s) - l + 1) /\ SubSeq(s, c, c + l - 1) = t
  BY DEF Occurrences
<1>3. c \in 1..(Len(s) - l + 1) <=> a + l <= Len(s)
  BY <1>1
<1>4. c + l - 1 = a + l
  BY <1>1
<1>5. c \in Occurrences(t, s) <=> a + l <= Len(s) /\ u = t
  BY <1>2, <1>3, <1>4
<1>6. ASSUME a + l <= Len(s) PROVE u = t <=> \A y \in 1..l : s[a + y] = t[y]
  <2>1. IsSequence(u) /\ Len(u) = l /\ \A y \in 1..l : u[y] = s[a + y]
    <3> HIDE DEF l
    <3> QED
      BY <1>1, <1>6, Cut
  <2> HIDE DEF u
  <2>2. ASSUME \A y \in 1..l : s[a + y] = t[y] PROVE u = t
    <3>1. Len(u) = Len(t) /\ \A y \in 1..Len(u) : u[y] = t[y]
      BY <2>1, <2>2
    <3> QED
      BY <2>1, <3>1, EqualSequences
  <2>3. u = t => \A y \in 1..l : s[a + y] = t[y]
    BY <2>1
  <2> QED
    BY <2>2, <2>3
<1> HIDE DEF u
<1> QED
  BY <1>5, <1>6 DEF OccursAt

LEMMA Occurs ==
  ASSUME NEW t, IsSequence(t), NEW s, IsSequence(s), NEW a, OccursAt(t, s, a)
  PROVE  Occurrences(t, s) # {}
<1>1. a \in Nat
  BY DEF OccursAt
<1> QED
  BY <1>1, Occurring

\* The words of list M in a text, each with a space behind it; P: where they end.
Words(P, M, text) ==
  /\ P[0] = 0 /\ P[Len(M)] = Len(text)
  /\ \A l \in 1..Len(M) :
       /\ P[l - 1] \in Nat /\ P[l] \in Nat /\ P[l] = P[l - 1] + Len(M[l]) + 1
       /\ P[l] <= Len(text) /\ text[P[l]] = Space
       /\ \A x \in 1..Len(M[l]) : text[P[l - 1] + x] = M[l][x]

\* A list of sequences without a space.
WordList(M) ==
  /\ IsSequence(M)
  /\ \A l \in 1..Len(M) : IsSequence(M[l]) /\ \A x \in 1..Len(M[l]) : M[l][x] # Space

Joint(M) == FlattenSeq([i \in DOMAIN M |-> Append(M[i], Space)])

LEMMA WordsJoined ==
  ASSUME NEW M, WordList(M)
  PROVE  /\ IsSequence(Joint(M)) /\ \E P : Words(P, M, Joint(M))
         /\ M = <<>> => Joint(M) = <<>>
<1> DEFINE n == Len(M)
           parts == [i \in DOMAIN M |-> Append(M[i], Space)]
           text == FlattenSeq(parts)
<1>1. n \in Nat /\ DOMAIN M = 1..n
  BY SequenceFacts DEF WordList
<1>2. parts = [i \in 1..n |-> parts[i]] /\ \A i \in 1..n : parts[i] = Append(M[i], Space)
  BY <1>1
<1>3. text = Joint(M)
  BY DEF Joint
<1> HIDE DEF parts
<1>4. IsSequence(parts) /\ Len(parts) = n
  BY <1>1, <1>2, FunctionSequence
<1>5. ASSUME NEW i \in 1..n
      PROVE  /\ IsSequence(parts[i]) /\ Len(parts[i]) = Len(M[i]) + 1 /\ Len(M[i]) \in Nat
             /\ \A x \in 1..Len(M[i]) : parts[i][x] = M[i][x]
             /\ parts[i][Len(M[i]) + 1] = Space
  <2> DEFINE s == M[i]
             t == Append(s, Space)
  <2>1. IsSequence(s) /\ parts[i] = t
    BY <1>2 DEF WordList
  <2> HIDE DEF s
  <2>2. /\ IsSequence(t) /\ Len(t) = Len(s) + 1
        /\ \A x \in 1..Len(s) : t[x] = s[x]
        /\ t[Len(s) + 1] = Space
    BY <2>1, Added
  <2> HIDE DEF t
  <2> QED
    BY <2>1, <2>2, SequenceFacts DEF s
<1>6. IsSequence(text)
  BY <1>4, <1>5, FlattenSequence
<1> HIDE DEF text
<1>7. PICK P : /\ Cuts(P, parts, n, text) /\ P[n] = Len(text)
               /\ \A i \in 0..n : P[i] \in Nat /\ P[i] <= Len(text)
  <2>1. \E P : /\ Cuts(P, parts, Len(parts), text) /\ P[Len(parts)] = Len(text)
               /\ \A i \in 0..Len(parts) : P[i] \in Nat /\ P[i] <= Len(text)
    BY <1>4, <1>5, JoinCuts DEF text
  <2> QED
    BY <1>4, <2>1
<1>8. ASSUME NEW l \in 1..n
      PROVE  /\ P[l - 1] \in Nat /\ P[l] \in Nat /\ P[l] = P[l - 1] + Len(M[l]) + 1
             /\ P[l] <= Len(text) /\ text[P[l]] = Space
             /\ \A x \in 1..Len(M[l]) : text[P[l - 1] + x] = M[l][x]
  <2>1. /\ P[l - 1] \in Nat /\ P[l] \in Nat /\ P[l] = P[l - 1] + Len(parts[l])
        /\ \A x \in 1..Len(parts[l]) : text[P[l - 1] + x] = parts[l][x]
    BY <1>7 DEF Cuts
  <2>2. P[l] <= Len(text)
    BY <1>1, <1>7
  <2> DEFINE k == Len(M[l])
  <2>3. /\ Len(parts[l]) = k + 1 /\ k \in Nat
        /\ \A x \in 1..k : parts[l][x] = M[l][x]
        /\ parts[l][k + 1] = Space
    BY <1>5
  <2> HIDE DEF k
  <2> DEFINE w == Len(parts[l])
             a == P[l - 1]
             b == P[l]
  <2>5. w = k + 1 /\ k \in Nat /\ a \in Nat /\ b = a + w
    BY <2>1, <2>3
  <2> HIDE DEF w, a, b
  <2>6. b = a + k + 1 /\ b = a + (k + 1) /\ k + 1 \in 1..w /\ \A x \in 1..k : x \in 1..w
    BY <2>5
  <2>4. P[l] = P[l - 1] + k + 1 /\ P[l] = P[l - 1] + (k + 1) /\ k + 1 \in 1..Len(parts[l])
        /\ \A x \in 1..k : x \in 1..Len(parts[l])
    BY <2>6 DEF w, a, b
  <2> QED
    BY <2>1, <2>2, <2>3, <2>4 DEF k
<1>9. Words(P, M, text)
  BY <1>7, <1>8 DEF Words, Cuts
<1>10. ASSUME M = <<>> PROVE text = <<>>
  <2>1. n = 0
    BY <1>10
  <2>2. Len(text) = 0
    BY <1>7, <2>1 DEF Cuts
  <2> QED
    BY <1>6, <2>2, EmptyOnly
<1> QED
  BY <1>3, <1>6, <1>9, <1>10

LEMMA WordAt ==
  ASSUME NEW M, Len(M) \in Nat, NEW text, NEW P, Words(P, M, text), NEW c \in Nat, c > 0,
         c <= Len(text)
  PROVE  \E l \in 1..Len(M) : P[l - 1] < c /\ c <= P[l]
<1> DEFINE n == Len(M)
           T == {l \in Nat : l <= n /\ c <= P[l]}
<1>1. n \in T
  BY DEF Words
<1>2. T \in SUBSET Nat /\ T # {}
  BY <1>1
<1> HIDE DEF T
<1>3. PICK l \in T : \A i \in T : l <= i
  BY <1>2, LeastOf
<1>4. l \in Nat /\ l <= n /\ c <= P[l]
  BY <1>3 DEF T
<1>5. P[0] = 0
  BY DEF Words
<1>6. l # 0
  BY <1>4, <1>5
<1> DEFINE k == l - 1
<1>7. k \in Nat /\ k <= n /\ k < l /\ l \in 1..n
  BY <1>4, <1>6
<1>8. P[k] \in Nat
  BY <1>7 DEF Words
<1> HIDE DEF k
<1>9. ~(c <= P[k])
  <2>1. k \notin T
    BY <1>3, <1>7
  <2> QED
    BY <1>7, <2>1 DEF T
<1> QED
  BY <1>4, <1>7, <1>8, <1>9 DEF k

\* A sequence without a space.
Word(t) == IsSequence(t) /\ \A x \in 1..Len(t) : t[x] # Space

\* Where a word occurs in the text, and is not the end of it, it occurs in one of the list.
LEMMA WithinWord ==
  ASSUME NEW M, WordList(M), NEW text, NEW P, Words(P, M, text),
         NEW t, Word(t), NEW a, OccursAt(t, text, a), a + Len(t) < Len(text), Len(text) \in Nat
  PROVE  \E l \in 1..Len(M) :
           /\ P[l - 1] <= a /\ a + Len(t) < P[l] /\ OccursAt(t, M[l], a - P[l - 1])
<1> DEFINE L == Len(t)
           N == Len(text)
<1>1. a \in Nat /\ L \in Nat /\ a + L < N /\ N \in Nat /\ \A y \in 1..L : text[a + y] = t[y]
  BY SequenceFacts DEF OccursAt, Word
<1>2. Len(M) \in Nat
  BY SequenceFacts DEF WordList
<1>3. PICK l \in 1..Len(M) : P[l - 1] < a + 1 /\ a + 1 <= P[l]
  <2> DEFINE c == a + 1
  <2>1. c \in Nat /\ c > 0 /\ c <= Len(text)
    BY <1>1
  <2> HIDE DEF c, N
  <2>2. \E l \in 1..Len(M) : P[l - 1] < c /\ c <= P[l]
    BY <1>2, <2>1, WordAt
  <2> QED
    BY <2>2 DEF c
<1> DEFINE p == P[l - 1]
           q == P[l]
           m == M[l]
           k == Len(m)
<1>4. /\ p \in Nat /\ q \in Nat /\ q = p + k + 1 /\ text[q] = Space
      /\ \A x \in 1..k : text[p + x] = m[x]
  BY DEF Words
<1>5. p < a + 1 /\ a + 1 <= q
  BY <1>3
<1>6. k \in Nat
  BY SequenceFacts DEF WordList
<1>7. \A x \in 1..L : t[x] # Space
  BY DEF Word
<1> HIDE DEF p, q, k, m, L, N
<1>8. a + L < q
  <2> SUFFICES ASSUME ~(a + L < q) PROVE FALSE
    OBVIOUS
  <2> DEFINE y == q - a
  <2>1. y \in 1..L /\ a + y = q
    BY <1>1, <1>4, <1>5
  <2> HIDE DEF y
  <2> QED
    BY <1>1, <1>4, <1>7, <2>1
<1> DEFINE d == a - p
<1>9. d \in Nat /\ d + L <= k /\ p + d = a
  BY <1>1, <1>4, <1>5, <1>6, <1>8
<1>10. \A y \in 1..L : m[d + y] = t[y]
  <2> SUFFICES ASSUME NEW y \in 1..L PROVE m[d + y] = t[y]
    OBVIOUS
  <2> HIDE DEF d
  <2>1. d + y \in 1..k /\ p + (d + y) = a + y
    BY <1>1, <1>4, <1>6, <1>9
  <2>2. text[p + (d + y)] = m[d + y]
    BY <1>4, <2>1
  <2>3. text[a + y] = t[y]
    BY <1>1
  <2> QED
    BY <2>1, <2>2, <2>3
<1>11. OccursAt(t, m, d)
  BY <1>9, <1>10 DEF OccursAt, L, k
<1>12. p <= a
  BY <1>1, <1>4, <1>5
<1> QED
  BY <1>8, <1>11, <1>12 DEF p, q, m, L

\* What a word of the list contains, the text contains at that word's place.
LEMMA OccursInText ==
  ASSUME NEW M, WordList(M), NEW text, NEW P, Words(P, M, text), Len(text) \in Nat,
         NEW t, IsSequence(t), NEW l \in 1..Len(M), NEW d, OccursAt(t, M[l], d)
  PROVE  /\ OccursAt(t, text, P[l - 1] + d)
         /\ d \in Nat /\ P[l - 1] \in Nat /\ P[l - 1] + d + Len(t) < P[l]
<1> DEFINE L == Len(t)
           N == Len(text)
           p == P[l - 1]
           q == P[l]
           m == M[l]
           k == Len(m)
<1>1. /\ p \in Nat /\ q \in Nat /\ q = p + k + 1 /\ q <= N
      /\ \A x \in 1..k : text[p + x] = m[x]
  BY DEF Words
<1>2. L \in Nat /\ k \in Nat /\ N \in Nat
  BY SequenceFacts DEF WordList
<1>3. d \in Nat /\ d + L <= k /\ \A y \in 1..L : m[d + y] = t[y]
  BY DEF OccursAt
<1> HIDE DEF p, q, m, k, L, N
<1>4. p + d \in Nat /\ p + d + L <= N /\ p + d + L < q
  BY <1>1, <1>2, <1>3
<1>5. \A y \in 1..L : text[p + d + y] = t[y]
  <2> SUFFICES ASSUME NEW y \in 1..L PROVE text[p + d + y] = t[y]
    OBVIOUS
  <2>1. d + y \in 1..k /\ p + (d + y) = p + d + y
    BY <1>1, <1>2, <1>3
  <2>2. text[p + (d + y)] = m[d + y]
    BY <1>1, <2>1
  <2> QED
    BY <1>3, <2>1, <2>2
<1>6. OccursAt(t, text, p + d)
  BY <1>4, <1>5 DEF OccursAt, L, N
<1> QED
  BY <1>1, <1>3, <1>4, <1>6 DEF p, q, L

\* Where the words end grows with them.
LEMMA WordsGrow ==
  ASSUME NEW M, WordList(M), NEW text, NEW P, Words(P, M, text), NEW i \in 1..Len(M)
  PROVE  \A n \in Nat : n >= i /\ n <= Len(M) => P[i] <= P[n]
<1> DEFINE A(n) == n >= i /\ n <= Len(M) => P[i] <= P[n]
           N == Len(M)
<1>1. N \in Nat
  BY SequenceFacts DEF WordList
<1>2. \A l \in 1..N : P[l - 1] \in Nat /\ P[l] \in Nat /\ P[l] = P[l - 1] + Len(M[l]) + 1
                      /\ Len(M[l]) \in Nat
  BY SequenceFacts DEF Words, WordList
<1>3. \A l \in 1..N : P[l - 1] \in Nat /\ P[l] \in Nat /\ P[l - 1] <= P[l]
  <2> TAKE l \in 1..N
  <2> DEFINE a == P[l - 1]
             b == P[l]
             k == Len(M[l])
  <2>1. a \in Nat /\ b \in Nat /\ k \in Nat /\ b = a + k + 1
    BY <1>2
  <2> HIDE DEF a, b, k
  <2>2. a <= b
    BY <2>1
  <2> QED
    BY <2>1, <2>2 DEF a, b
<1> HIDE DEF N
<1>4. i \in 1..N
  BY DEF N
<1> DEFINE T == {n \in Nat : n >= i /\ n <= N /\ ~(P[i] <= P[n])}
<1>5. T = {}
  <2> SUFFICES ASSUME T # {} PROVE FALSE
    OBVIOUS
  <2>1. T \in SUBSET Nat
    OBVIOUS
  <2> HIDE DEF T
  <2>2. PICK n \in T : \A j \in T : n <= j
    BY <2>1, LeastOf
  <2>3. n \in Nat /\ n >= i /\ n <= N /\ ~(P[i] <= P[n])
    BY <2>2 DEF T
  <2>4. P[i] \in Nat
    BY <1>3, <1>4
  <2>5. n # i
    BY <2>3, <2>4
  <2> DEFINE j == n - 1
  <2>6. j \in Nat /\ j >= i /\ j <= N /\ j < n /\ n \in 1..N
    BY <1>1, <1>4, <2>3, <2>5
  <2>7. P[j] \in Nat /\ P[n] \in Nat /\ P[j] <= P[n]
    BY <1>3, <2>6
  <2> HIDE DEF j
  <2>8. P[i] <= P[j]
    <3>1. j \notin T
      BY <2>2, <2>6
    <3> QED
      BY <2>6, <3>1 DEF T
  <2> QED
    BY <2>3, <2>4, <2>7, <2>8
<1> QED
  BY <1>5 DEF N

\* Where a text occurs, as numbers from 0.
LEMMA OnlyOccurrence ==
  ASSUME NEW t, IsSequence(t), NEW s, IsSequence(s)
  PROVE  Occurrences(t, s) = {Len(s) - Len(t) + 1}
           <=> /\ OccursAt(t, s, Len(s) - Len(t))
               /\ \A d \in Nat : OccursAt(t, s, d) => d = Len(s) - Len(t)
<1> DEFINE L == Len(t)
           k == Len(s)
           found == Occurrences(t, s)
<1>1. L \in Nat /\ k \in Nat
  BY SequenceFacts
<1>2. \A d \in Nat : d + 1 \in found <=> OccursAt(t, s, d)
  BY Occurring
<1>3. \A c \in found : c \in Nat /\ c > 0 /\ c - 1 \in Nat /\ (c - 1) + 1 = c
  BY <1>1 DEF Occurrences
<1> HIDE DEF found, L, k
<1>4. ASSUME found = {k - L + 1}
      PROVE  OccursAt(t, s, k - L) /\ \A d \in Nat : OccursAt(t, s, d) => d = k - L
  <2>1. k - L + 1 \in Nat /\ k - L + 1 > 0
    BY <1>3, <1>4
  <2>2. k - L \in Nat
    BY <1>1, <2>1
  <2>3. OccursAt(t, s, k - L)
    BY <1>2, <1>4, <2>2
  <2>4. ASSUME NEW d \in Nat, OccursAt(t, s, d) PROVE d = k - L
    <3>1. d + 1 = k - L + 1
      BY <1>2, <1>4, <2>4
    <3> QED
      BY <1>1, <3>1
  <2> QED
    BY <2>3, <2>4
<1>5. ASSUME OccursAt(t, s, k - L), \A d \in Nat : OccursAt(t, s, d) => d = k - L
      PROVE  found = {k - L + 1}
  <2>1. k - L \in Nat
    BY <1>5 DEF OccursAt
  <2>2. k - L + 1 \in found
    BY <1>2, <1>5, <2>1
  <2>3. ASSUME NEW c \in found PROVE c = k - L + 1
    <3> DEFINE d == c - 1
    <3>1. d \in Nat /\ d + 1 = c
      BY <1>3
    <3> HIDE DEF d
    <3>2. d = k - L
      BY <1>2, <1>5, <3>1
    <3> QED
      BY <3>1, <3>2
  <2> QED
    BY <2>2, <2>3
<1> QED
  BY <1>4, <1>5 DEF found, L, k

\* The first occurrence in the text ends at a space: it is the only one in the first
\* word that contains t, at its end.
LEMMA FoundWord ==
  ASSUME NEW M, WordList(M), M # <<>>, NEW text, IsSequence(text), NEW P, Words(P, M, text),
         NEW t, Word(t)
  PROVE  LET found == Occurrences(t, text)
         IN  found # {} /\ text[Min(found) + Len(t)] = Space <=> Takes(M, t)
<1> DEFINE found == Occurrences(t, text)
           c == Min(found)
           L == Len(t)
           N == Len(text)
           n == Len(M)
<1>1. /\ L \in Nat /\ N \in Nat /\ n \in Nat /\ IsSequence(t) /\ IsSequence(M)
      /\ \A x \in 1..L : t[x] # Space
  BY SequenceFacts DEF Word, WordList
<1>2. n > 0
  BY <1>1, EmptyOnly
<1>3. ASSUME NEW l \in 1..n
      PROVE  /\ P[l - 1] \in Nat /\ P[l] \in Nat /\ P[l] = P[l - 1] + Len(M[l]) + 1
             /\ P[l] <= N /\ text[P[l]] = Space
             /\ \A x \in 1..Len(M[l]) : text[P[l - 1] + x] = M[l][x]
             /\ Len(M[l]) \in Nat /\ IsSequence(M[l]) /\ \A x \in 1..Len(M[l]) : M[l][x] # Space
  BY SequenceFacts DEF Words, WordList
<1>4. text[N] = Space /\ N > 0
  <2>1. n \in 1..n /\ P[n] = N
    BY <1>1, <1>2 DEF Words
  <2>2. /\ P[n - 1] \in Nat /\ P[n] \in Nat /\ P[n] = P[n - 1] + Len(M[n]) + 1
        /\ text[P[n]] = Space /\ Len(M[n]) \in Nat
    BY <1>3, <2>1
  <2> DEFINE k == Len(M[n])
             p == P[n - 1]
  <2>3. p \in Nat /\ k \in Nat /\ N = p + k + 1
    BY <2>1, <2>2
  <2> HIDE DEF k, p, N, n
  <2> QED
    BY <2>1, <2>2, <2>3
<1>5. ASSUME found # {} PROVE c \in found /\ c \in Nat /\ c > 0 /\ \A i \in found : c <= i
  <2>1. found \in SUBSET Nat /\ \A i \in found : i > 0
    BY <1>1 DEF Occurrences
  <2> HIDE DEF found
  <2>2. \E l \in found : \A j \in found : l <= j
    BY <1>5, <2>1, LeastOf
  <2>3. c \in found /\ \A i \in found : c <= i
    BY <2>2 DEF Min
  <2> QED
    BY <2>1, <2>3
<1>6. \A a \in Nat : a + 1 \in found <=> OccursAt(t, text, a)
  BY <1>1, Occurring
<1> DEFINE a == c - 1
<1>7. ASSUME found # {} PROVE a \in Nat /\ a + 1 = c /\ OccursAt(t, text, a)
  <2>1. a \in Nat /\ a + 1 = c /\ c \in found
    BY <1>5, <1>7
  <2> HIDE DEF a, c, found
  <2> QED
    BY <1>6, <2>1
<1> HIDE DEF c, found, a
<1>8. ASSUME found # {}, a + L < N
      PROVE  \E l \in 1..n : P[l - 1] <= a /\ a + L < P[l] /\ OccursAt(t, M[l], a - P[l - 1])
  BY <1>1, <1>7, <1>8, WithinWord
<1>9. ASSUME NEW l \in 1..n, NEW d, OccursAt(t, M[l], d)
      PROVE  /\ P[l - 1] + d + 1 \in found /\ d \in Nat /\ P[l - 1] \in Nat
             /\ P[l - 1] + d + L < P[l] /\ P[l] \in Nat
  <2> DEFINE b == P[l - 1] + d
  <2>1. OccursAt(t, text, b) /\ d \in Nat /\ P[l - 1] \in Nat /\ b + L < P[l]
    <3> HIDE DEF b, found
    <3> QED
      BY <1>1, <1>9, OccursInText DEF b
  <2>2. b \in Nat
    BY <2>1
  <2> HIDE DEF b, found
  <2>3. b + 1 \in found
    BY <1>6, <2>1, <2>2
  <2> QED
    BY <1>3, <2>1, <2>3 DEF b
<1>10. \A l \in 1..n, i \in 1..n : i < l => P[i] <= P[l - 1] /\ P[i] \in Nat /\ P[l - 1] \in Nat
  <2> TAKE l \in 1..n, i \in 1..n
  <2> SUFFICES ASSUME i < l PROVE P[i] <= P[l - 1] /\ P[i] \in Nat /\ P[l - 1] \in Nat
    OBVIOUS
  <2> DEFINE j == l - 1
  <2>1. j \in Nat /\ j >= i /\ j <= n
    BY <1>1
  <2> HIDE DEF j, n
  <2>2. P[i] <= P[j]
    BY <2>1, WordsGrow DEF n
  <2> QED
    BY <1>3, <2>2 DEF j
<1>11. Takes(M, t) <=> \E j \in 1..n :
         /\ OccursAt(t, M[j], Len(M[j]) - L)
         /\ \A d \in Nat : OccursAt(t, M[j], d) => d = Len(M[j]) - L
         /\ \A i \in 1..(j - 1) : Occurrences(t, M[i]) = {}
  <2>1. DOMAIN M = 1..n
    BY <1>1, SequenceFacts
  <2>2. \A j \in 1..n : Occurrences(t, M[j]) = {Len(M[j]) - L + 1}
           <=> /\ OccursAt(t, M[j], Len(M[j]) - L)
               /\ \A d \in Nat : OccursAt(t, M[j], d) => d = Len(M[j]) - L
    <3> TAKE j \in 1..n
    <3> DEFINE m == M[j]
    <3>1. IsSequence(m)
      BY <1>3
    <3> HIDE DEF m
    <3>2. Occurrences(t, m) = {Len(m) - Len(t) + 1}
           <=> /\ OccursAt(t, m, Len(m) - Len(t))
               /\ \A d \in Nat : OccursAt(t, m, d) => d = Len(m) - Len(t)
      BY <1>1, <3>1, OnlyOccurrence
    <3> QED
      BY <3>2 DEF m
  <2>3. Takes(M, t) <=> \E j \in 1..n :
          /\ Occurrences(t, M[j]) = {Len(M[j]) - L + 1}
          /\ \A i \in 1..(j - 1) : Occurrences(t, M[i]) = {}
    BY <2>1 DEF Takes
  <2> HIDE DEF L, n
  <2> QED
    BY <2>2, <2>3
<1>12. ASSUME found # {}, text[c + L] = Space PROVE Takes(M, t)
  <2>1. a \in Nat /\ a + 1 = c /\ a + L <= N /\ \A y \in 1..L : text[a + y] = t[y]
    BY <1>7, <1>12 DEF OccursAt
  <2>2. a + L # N
    <3> SUFFICES ASSUME a + L = N PROVE FALSE
      OBVIOUS
    <3>1. CASE L = 0
      <4>1. OccursAt(t, text, 0)
        BY <1>1, <3>1 DEF OccursAt
      <4>2. 1 \in found
        <5>1. 0 \in Nat /\ 0 + 1 = 1
          OBVIOUS
        <5> QED
          BY <1>6, <4>1, <5>1
      <4>3. c <= 1
        BY <1>5, <1>12, <4>2
      <4> HIDE DEF L, N
      <4> QED
        BY <1>1, <1>4, <2>1, <3>1, <4>3
    <3>2. CASE L # 0
      <4>1. L \in 1..L
        BY <1>1, <3>2
      <4>2. text[N] = t[L]
        BY <2>1, <4>1
      <4> QED
        BY <1>1, <1>4, <4>1, <4>2
    <3> QED
      BY <3>1, <3>2
  <2>3. a + L < N
    BY <1>1, <2>1, <2>2
  <2>4. PICK l \in 1..n : P[l - 1] <= a /\ a + L < P[l] /\ OccursAt(t, M[l], a - P[l - 1])
    BY <1>8, <1>12, <2>3
  <2> DEFINE p == P[l - 1]
             q == P[l]
             m == M[l]
             k == Len(m)
             x == a + L + 1 - p
  <2>5. /\ p \in Nat /\ q \in Nat /\ q = p + k + 1 /\ text[q] = Space
        /\ \A y \in 1..k : text[p + y] = m[y]
        /\ k \in Nat /\ IsSequence(m) /\ \A y \in 1..k : m[y] # Space
    BY <1>3
  <2>6. p <= a /\ a + L < q /\ OccursAt(t, m, a - p)
    BY <2>4
  <2>7. text[a + L + 1] = Space
    <3>1. c + L = a + L + 1
      BY <1>1, <2>1
    <3> QED
      BY <1>12, <3>1
  <2> HIDE DEF p, q, k, m, L, N, n
  <2>8. a + L + 1 = q
    <3> SUFFICES ASSUME a + L + 1 # q PROVE FALSE
      OBVIOUS
    <3>1. x \in 1..k /\ p + x = a + L + 1
      BY <1>1, <2>1, <2>5, <2>6
    <3> HIDE DEF x
    <3> QED
      BY <2>5, <2>7, <3>1
  <2>9. a - p = k - L
    BY <1>1, <2>1, <2>5, <2>8
  <2> DEFINE f == k - L
  <2>10. OccursAt(t, m, f) /\ f \in Nat
    BY <2>6, <2>9 DEF OccursAt
  <2>11. ASSUME NEW d \in Nat, OccursAt(t, m, d) PROVE d = f
    <3>1. p + d + 1 \in found /\ p + d + L < q
      BY <1>9, <2>11 DEF m, p, q, n, L
    <3>2. c <= p + d + 1
      BY <1>5, <1>12, <3>1
    <3> QED
      BY <1>1, <2>1, <2>5, <2>8, <2>11, <3>1, <3>2
  <2>12. ASSUME NEW i \in 1..(l - 1) PROVE Occurrences(t, M[i]) = {}
    <3> SUFFICES ASSUME Occurrences(t, M[i]) # {} PROVE FALSE
      OBVIOUS
    <3>1. i \in 1..n /\ i < l
      BY <1>1 DEF n
    <3>2. IsSequence(M[i])
      BY <1>3, <3>1 DEF n
    <3>3. PICK d \in Nat : OccursAt(t, M[i], d)
      <4> DEFINE w == M[i]
      <4>1. IsSequence(w) /\ Occurrences(t, w) # {}
        BY <3>2
      <4> HIDE DEF w
      <4>2. PICK e \in Occurrences(t, w) : TRUE
        BY <4>1
      <4>3. e \in Nat /\ e > 0
        BY <4>1, SequenceFacts DEF Occurrences
      <4> DEFINE d == e - 1
      <4>4. d \in Nat /\ d + 1 = e
        BY <4>3
      <4> HIDE DEF d
      <4>5. OccursAt(t, w, d)
        BY <1>1, <4>1, <4>2, <4>4, Occurring
      <4> QED
        BY <4>4, <4>5 DEF w
    <3> DEFINE z == P[i - 1]
    <3>4. z + d + 1 \in found /\ z \in Nat /\ z + d + L < P[i]
      BY <1>9, <3>1, <3>3 DEF n, L
    <3>5. P[i] <= p /\ P[i] \in Nat
      BY <1>10, <3>1 DEF n, p
    <3>6. c <= z + d + 1
      BY <1>5, <1>12, <3>4
    <3> DEFINE v == P[i]
    <3>7. v \in Nat /\ v <= p /\ z + d + L < v
      BY <3>4, <3>5
    <3> HIDE DEF z, v
    <3> QED
      BY <1>1, <2>1, <2>5, <2>6, <3>3, <3>4, <3>6, <3>7
  <2>13. l \in 1..n /\ OccursAt(t, M[l], Len(M[l]) - L)
          /\ \A d \in Nat : OccursAt(t, M[l], d) => d = Len(M[l]) - L
    BY <2>10, <2>11 DEF m, n, f, k
  <2> HIDE DEF f
  <2> QED
    BY <1>11, <2>12, <2>13
<1>13. ASSUME Takes(M, t) PROVE found # {} /\ text[c + L] = Space
  <2>1. PICK j \in 1..n :
         /\ OccursAt(t, M[j], Len(M[j]) - L)
         /\ \A d \in Nat : OccursAt(t, M[j], d) => d = Len(M[j]) - L
         /\ \A i \in 1..(j - 1) : Occurrences(t, M[i]) = {}
    BY <1>11, <1>13
  <2> DEFINE p == P[j - 1]
             q == P[j]
             k == Len(M[j])
             f == k - L
  <2>2. /\ p + f + 1 \in found /\ f \in Nat /\ p \in Nat /\ p + f + L < q /\ q \in Nat
        /\ q <= N /\ q = p + k + 1 /\ text[q] = Space /\ k \in Nat
    <3>1. OccursAt(t, M[j], f)
      BY <2>1
    <3> HIDE DEF f
    <3>2. p + f + 1 \in found /\ f \in Nat /\ p \in Nat /\ p + f + L < q /\ q \in Nat
      BY <1>9, <3>1
    <3> QED
      BY <1>3, <3>2
  <2>3. found # {} /\ c <= p + f + 1
    BY <1>5, <2>2
  <2>4. a \in Nat /\ a + 1 = c
    BY <1>7, <2>3
  <2>5. a + L < N
    <3> HIDE DEF p, q, f, L, N, k
    <3> QED
      BY <1>1, <2>2, <2>3, <2>4
  <2>6. PICK l \in 1..n : P[l - 1] <= a /\ a + L < P[l] /\ OccursAt(t, M[l], a - P[l - 1])
    BY <1>8, <2>3, <2>5
  <2> DEFINE g == a - P[l - 1]
  <2>7. /\ P[l - 1] + g + 1 \in found /\ g \in Nat /\ P[l - 1] \in Nat
        /\ P[l - 1] + g + L < P[l] /\ P[l] \in Nat
    <3>1. OccursAt(t, M[l], g)
      BY <2>6
    <3> HIDE DEF g
    <3> QED
      BY <1>9, <3>1
  <2>8. ~(l < j)
    <3> SUFFICES ASSUME l < j PROVE FALSE
      OBVIOUS
    <3>1. l \in 1..(j - 1)
      BY <1>1
    <3>2. Occurrences(t, M[l]) = {}
      BY <2>1, <3>1
    <3>3. IsSequence(M[l])
      BY <1>3
    <3>4. OccursAt(t, M[l], g)
      BY <2>6
    <3> HIDE DEF g
    <3> QED
      BY <1>1, <3>2, <3>3, <3>4, Occurs
  <2>9. ~(j < l)
    <3> SUFFICES ASSUME j < l PROVE FALSE
      OBVIOUS
    <3>1. q <= P[l - 1]
      BY <1>10
    <3> DEFINE z == P[l - 1]
    <3>2. q <= z /\ z \in Nat /\ z <= a
      BY <2>6, <2>7, <3>1
    <3> HIDE DEF z, p, q, f, k, L
    <3> QED
      BY <1>1, <2>2, <2>3, <2>4, <3>2
  <2>10. l = j
    BY <1>1, <2>8, <2>9
  <2>11. g = f
    <3>1. OccursAt(t, M[j], g) /\ g \in Nat
      BY <2>6, <2>7, <2>10
    <3> HIDE DEF g
    <3> QED
      BY <2>1, <3>1
  <2>12. a = p + f
    <3>1. a - p = f
      BY <2>10, <2>11
    <3> HIDE DEF f, p
    <3> QED
      BY <2>2, <2>4, <3>1
  <2>13. c + L = q
    <3>1. f = k - L
      OBVIOUS
    <3> HIDE DEF f, p, q, k, L
    <3> QED
      BY <1>1, <2>2, <2>4, <2>12, <3>1
  <2> QED
    BY <2>2, <2>3, <2>13
<1> QED
  BY <1>12, <1>13 DEF found, c

(***************************************************************************)
(* The two matchers, for the requests clients send.                        *)
(***************************************************************************)
Segs(i) == parse(Routes[i].pattern)

LEMMA MethodsListed ==
  ASSUME NEW k \in Requests, NEW i \in DOMAIN Routes
  PROVE  WordList(Routes[i].methods) /\ Word(k.method)
<1> DEFINE M == Routes[i].methods
           t == k.method
<1>1. IsSequence(M) /\ \A m \in ToSet(M) : IsSequence(m) /\ Space \notin ToSet(m)
  BY RouteAssumption
<1>2. IsSequence(t) /\ Space \notin ToSet(t)
  BY SequenceAssumption, MethodAssumption
<1> HIDE DEF M, t
<1>4. DOMAIN M = 1..Len(M) /\ DOMAIN t = 1..Len(t)
  BY <1>1, <1>2, SequenceFacts
<1>5. \A l \in 1..Len(M) : M[l] \in ToSet(M)
  BY <1>4 DEF ToSet
<1>6. \A x \in 1..Len(t) : t[x] # Space
  BY <1>2, <1>4 DEF ToSet
<1>7. ASSUME NEW l \in 1..Len(M)
      PROVE  IsSequence(M[l]) /\ \A x \in 1..Len(M[l]) : M[l][x] # Space
  <2> DEFINE m == M[l]
  <2>1. IsSequence(m) /\ Space \notin ToSet(m)
    BY <1>1, <1>5
  <2> HIDE DEF m
  <2>2. DOMAIN m = 1..Len(m)
    BY <2>1, SequenceFacts
  <2>3. \A x \in 1..Len(m) : m[x] # Space
    BY <2>1, <2>2 DEF ToSet
  <2> QED
    BY <2>1, <2>3 DEF m
<1>8. WordList(M)
  BY <1>1, <1>7 DEF WordList
<1>9. Word(t)
  BY <1>2, <1>6 DEF Word
<1> QED
  BY <1>8, <1>9 DEF M, t

LEMMA MethodIsFound ==
  ASSUME NEW k \in Requests, NEW i \in DOMAIN Routes
  PROVE  MethodFound(compile(Routes[i]), k.method) <=> Takes(Routes[i].methods, k.method)
<1> DEFINE M == Routes[i].methods
           t == k.method
           text == Joint(M)
           entry == compile(Routes[i])
<1>1. WordList(M) /\ Word(t)
  BY MethodsListed
<1>2. entry.methods = text
  BY DEF compile, Joint
<1> HIDE DEF entry, M, t
<1>3. IsSequence(text) /\ (\E P : Words(P, M, text)) /\ (M = <<>> => text = <<>>)
  BY <1>1, WordsJoined
<1> HIDE DEF text
<1>4. PICK P : Words(P, M, text)
  BY <1>3
<1>5. Len(M) \in Nat /\ DOMAIN M = 1..Len(M) /\ IsSequence(M)
  BY <1>1, SequenceFacts DEF WordList
<1>6. ASSUME M # <<>> PROVE text # <<>>
  <2>1. Len(M) # 0
    BY <1>5, <1>6, EmptyOnly
  <2> DEFINE h == 1
             z == h - 1
             w == Len(text)
  <2>2. h \in 1..Len(M) /\ z = 0
    BY <1>5, <2>1
  <2>a. /\ P[0] = 0
        /\ P[h] = P[z] + Len(M[h]) + 1
        /\ P[h] <= w
    <3> HIDE DEF h, w
    <3> QED
      BY <1>4, <2>2 DEF Words, w
  <2>3. /\ P[0] = 0 /\ P[1] = P[0] + Len(M[1]) + 1 /\ P[1] <= Len(text)
    BY <2>2, <2>a DEF h, w
  <2>4. Len(M[1]) \in Nat
    BY <1>1, <2>2, SequenceFacts DEF WordList
  <2>5. Len(text) # 0
    <3> DEFINE n == Len(text)
               l == Len(M[1])
               p == P[1]
    <3>1. p = 0 + l + 1 /\ p <= n /\ l \in Nat
      BY <2>3, <2>4
    <3> HIDE DEF n, l, p
    <3>2. n # 0
      BY <3>1
    <3> QED
      BY <3>2 DEF n
  <2> QED
    BY <2>5, EmptyIsSequence
<1> DEFINE found == Occurrences(t, text)
<1>7. ASSUME M # <<>>
      PROVE  found # {} /\ text[Min(found) + Len(t)] = Space <=> Takes(M, t)
  BY <1>1, <1>3, <1>4, <1>7, FoundWord
<1>8. MethodFound(entry, t) <=> text = <<>> \/ (found # {} /\ text[Min(found) + Len(t)] = Space)
  BY <1>2 DEF MethodFound
<1>9. M = <<>> => Takes(M, t)
  BY DEF Takes
<1> HIDE DEF found
<1>10. MethodFound(entry, t) <=> Takes(M, t)
  BY <1>3, <1>6, <1>7, <1>8, <1>9
<1> QED
  BY <1>10 DEF entry, t, M

LEMMA RouteShaped ==
  ASSUME NEW i \in DOMAIN Routes
  PROVE  Shaped(Segs(i)) /\ Distinct(Segs(i))
<1> DEFINE p == Routes[i].pattern
           segments == Segs(i)
<1>1. IsSequence(p) /\ WellFormed(p) /\ segments = parse(p)
  BY RouteAssumption DEF Segs
<1> HIDE DEF p, segments
<1>2. Shaped(segments)
  BY <1>1, ParsedShaped
<1>3. Names(segments) = Holes(segments, Len(segments))
  BY <1>2, NamesAreHoles
<1>4. \A l, j \in Names(segments) : segments[l] = segments[j] => l = j
  BY <1>1 DEF WellFormed
<1>5. Distinct(segments)
  BY <1>3, <1>4 DEF Distinct
<1> QED
  BY <1>2, <1>5 DEF segments

\* The C matcher, the Python one and the meaning of one route.
LEMMA RouteRight ==
  ASSUME NEW k \in Requests, NEW i \in DOMAIN Routes, NEW path, IsSequence(path)
  PROVE  LET scan == Scan(compile(Routes[i]), path)
             described == Describes(Segs(i), path)
         IN  /\ EntryMatches(compile(Routes[i]), path, k.method)
                  <=> described /\ Takes(Routes[i].methods, k.method)
             /\ PyMatches(Routes[i], path, k.method)
                  <=> described /\ Includes(Routes[i].methods, k.method)
             /\ described => /\ EntryValues(scan.entries, path) = DescribedValues(Segs(i), path)
                             /\ PyScan(Segs(i), path).match_dict = DescribedValues(Segs(i), path)
                             /\ \A x \in 1..Len(scan.entries) : InPath(scan.entries[x], path)
<1> DEFINE entry == compile(Routes[i])
           segments == Segs(i)
           method == k.method
           methods == Routes[i].methods
           scan == Scan(entry, path)
           py == PyScan(segments, path)
<1>1. /\ entry.segments = segments /\ entry.placeholder_cnt = Cardinality(Names(segments))
      /\ parse(Routes[i].pattern) = segments
  BY DEF compile, Segs
<1>2. Shaped(segments) /\ Distinct(segments)
  BY RouteShaped
<1>3. MethodFound(entry, method) <=> Takes(methods, method)
  BY MethodIsFound
<1>5. PyMatches(Routes[i], path, method)
        <=> (/\ py.rest = <<>> /\ py.value
             /\ Cardinality(py.match_dict) = Cardinality(Names(segments)))
            /\ Includes(methods, method)
  BY <1>1 DEF PyMatches, Includes
<1> HIDE DEF entry, segments, method, methods
<1>6. EntryMatches(entry, path, method)
        <=> (/\ scan.rest = <<>> /\ scan.value_length # 0
             /\ Len(scan.entries) = Cardinality(Names(segments)))
            /\ MethodFound(entry, method)
  BY <1>1 DEF EntryMatches
<1>7. PICK j, Q : Ended(Q, segments, path, j)
  <2>1. Len(segments) \in Nat
    BY <1>2, SequenceFacts DEF Shaped
  <2> QED
    BY <2>1, WayEnds
<1>8. (/\ scan.rest = <<>> /\ scan.value_length # 0
       /\ Len(scan.entries) = Cardinality(Names(segments)))
        <=> Covers(Q, segments, path, j)
  BY <1>1, <1>2, <1>7, ScanAccepts
<1>9. (/\ py.rest = <<>> /\ py.value
       /\ Cardinality(py.match_dict) = Cardinality(Names(segments)))
        <=> Covers(Q, segments, path, j)
  BY <1>2, <1>7, PyScanAccepts
<1>10. Describes(segments, path) <=> Covers(Q, segments, path, j)
  BY <1>2, <1>7, DescribesCovers
<1>11. Tells(scan.entries, Q, segments, j)
  BY <1>1, <1>2, <1>7, ScanFollows
<1>12. py.match_dict = ValuesOf(segments, Q, path, j)
  BY <1>2, <1>7, PyScanFollows
<1> DEFINE e == scan.entries
<1>13. Tells(e, Q, segments, j)
  BY <1>11
<1> HIDE DEF e
<1>14. /\ EntryValues(e, path) = ValuesOf(segments, Q, path, j)
       /\ \A x \in 1..Len(e) : InPath(e[x], path)
  BY <1>2, <1>7, <1>13, ToldValues
<1>15. ASSUME Describes(segments, path)
       PROVE  DescribedValues(segments, path) = ValuesOf(segments, Q, path, j)
  BY <1>2, <1>7, <1>10, <1>15, DescribedValuesAre
<1> HIDE DEF scan, py
<1>16. /\ EntryMatches(entry, path, method)
            <=> Describes(segments, path) /\ Takes(methods, method)
       /\ PyMatches(Routes[i], path, method)
            <=> Describes(segments, path) /\ Includes(methods, method)
  BY <1>3, <1>5, <1>6, <1>8, <1>9, <1>10
<1>17. Describes(segments, path)
         => /\ EntryValues(e, path) = DescribedValues(segments, path)
            /\ py.match_dict = DescribedValues(segments, path)
            /\ \A x \in 1..Len(e) : InPath(e[x], path)
  BY <1>12, <1>14, <1>15
<1> QED
  BY <1>16, <1>17 DEF e, scan, py, entry, segments, method, methods

\* The first of some routes, or 0, and the values of a path in it.
FirstOf(routes) == IF routes = {} THEN 0 ELSE Min(routes)
ValuesIn(r, path) == IF r = 0 THEN {} ELSE DescribedValues(Segs(r), path)

\* The route a request is for, as the C matcher takes methods and as the Python one
\* does, and the values of its path.
Meant(path, method) == FirstOf(Described(path, method))
PyMeant(path, method) == FirstOf(PyDescribed(path, method))
MeantValues(path, method) == ValuesIn(Meant(path, method), path)
PyMeantValues(path, method) == ValuesIn(PyMeant(path, method), path)

LEMMA DescribedAre ==
  ASSUME NEW path, NEW method
  PROVE  /\ Described(path, method) \subseteq DOMAIN Routes
         /\ PyDescribed(path, method) \subseteq DOMAIN Routes
         /\ \A i \in DOMAIN Routes :
              /\ i \in Described(path, method)
                   <=> Describes(Segs(i), path) /\ Takes(Routes[i].methods, method)
              /\ i \in PyDescribed(path, method)
                   <=> Describes(Segs(i), path) /\ Includes(Routes[i].methods, method)
BY DEF Described, PyDescribed, Describing, Segs

LEMMA FirstIsRoute ==
  ASSUME NEW D, D \subseteq DOMAIN Routes, D # {}
  PROVE  /\ FirstOf(D) = Min(D) /\ Min(D) \in D /\ Min(D) \in Nat /\ Min(D) # 0
         /\ \A i \in D : Min(D) <= i /\ i \in Nat
<1>1. DOMAIN Routes = 1..Len(Routes) /\ Len(Routes) \in Nat
  BY RouteAssumption, SequenceFacts
<1>2. D \in SUBSET Nat /\ \A i \in D : i # 0
  BY <1>1
<1>3. \E l \in D : \A j \in D : l <= j
  BY <1>2, LeastOf
<1>4. Min(D) \in D /\ \A i \in D : Min(D) <= i
  BY <1>3 DEF Min
<1> QED
  BY <1>2, <1>4 DEF FirstOf

(***************************************************************************)
(* Theorem: for every path and every method, the C matcher finds the first *)
(* route whose pattern means that path and whose methods, as it reads them,*)
(* take the method; the Python matcher finds the first whose methods       *)
(* include it.  Each finds the values that give the path back; those the C *)
(* matcher points to lie within the path.                                  *)
(***************************************************************************)
THEOREM MatchersFindTheMeaning ==
  \A k \in Requests : \A path : IsSequence(path) =>
    LET found == Matcher_match_request(path, k.method)
        py == PyMatch(path, k.method)
    IN  /\ found.entry = Meant(path, k.method) /\ py.entry = PyMeant(path, k.method)
        /\ EntryValues(found.entries, path) = MeantValues(path, k.method)
        /\ py.values = PyMeantValues(path, k.method)
        /\ \A x \in 1..Len(found.entries) : InPath(found.entries[x], path)
<1> SUFFICES ASSUME NEW k \in Requests, NEW path, IsSequence(path)
    PROVE  LET found == Matcher_match_request(path, k.method)
               py == PyMatch(path, k.method)
           IN  /\ found.entry = Meant(path, k.method) /\ py.entry = PyMeant(path, k.method)
               /\ EntryValues(found.entries, path) = MeantValues(path, k.method)
               /\ py.values = PyMeantValues(path, k.method)
               /\ \A x \in 1..Len(found.entries) : InPath(found.entries[x], path)
  OBVIOUS
<1> DEFINE method == k.method
           found == Matcher_match_request(path, method)
           py == PyMatch(path, method)
           D == Described(path, method)
           E == PyDescribed(path, method)
           r == Min(D)
           q == Min(E)
           scan == Scan(compile(Routes[r]), path)
           values == PyScan(Segs(q), path).match_dict
<1>1. ASSUME NEW i \in DOMAIN Routes
      PROVE  /\ EntryMatches(compile_all[i], path, method) <=> i \in D
             /\ PyMatches(Routes[i], path, method) <=> i \in E
  <2>1. /\ i \in D <=> Describes(Segs(i), path) /\ Takes(Routes[i].methods, method)
        /\ i \in E <=> Describes(Segs(i), path) /\ Includes(Routes[i].methods, method)
    BY DescribedAre
  <2>2. compile_all[i] = compile(Routes[i])
    BY DEF compile_all
  <2> HIDE DEF D, E
  <2>3. /\ EntryMatches(compile(Routes[i]), path, method)
             <=> Describes(Segs(i), path) /\ Takes(Routes[i].methods, method)
        /\ PyMatches(Routes[i], path, method)
             <=> Describes(Segs(i), path) /\ Includes(Routes[i].methods, method)
    BY RouteRight
  <2> QED
    BY <2>1, <2>2, <2>3
<1>2. DOMAIN compile_all = DOMAIN Routes
  BY DEF compile_all
<1>3. D \subseteq DOMAIN Routes /\ E \subseteq DOMAIN Routes
  BY DescribedAre
<1>4. /\ {i \in DOMAIN compile_all : EntryMatches(compile_all[i], path, method)} = D
      /\ {i \in DOMAIN Routes : PyMatches(Routes[i], path, method)} = E
  <2> HIDE DEF D, E, method
  <2> QED
    BY <1>1, <1>2, <1>3
<1>5. found = IF D = {} THEN [entry |-> 0, entries |-> <<>>]
              ELSE [entry |-> r, entries |-> Scan(compile_all[r], path).entries]
  <2> HIDE DEF D, E, method
  <2> QED
    BY <1>4 DEF Matcher_match_request
<1>6. py = IF E = {} THEN [entry |-> 0, values |-> {}] ELSE [entry |-> q, values |-> values]
  <2> HIDE DEF D, E, method
  <2> QED
    BY <1>4 DEF PyMatch, Segs
<1>7. Meant(path, method) = FirstOf(D) /\ PyMeant(path, method) = FirstOf(E)
  BY DEF Meant, PyMeant
<1>8. /\ MeantValues(path, method) = ValuesIn(FirstOf(D), path)
      /\ PyMeantValues(path, method) = ValuesIn(FirstOf(E), path)
  BY <1>7 DEF MeantValues, PyMeantValues
<1>9. \A i \in D \cup E : i \in DOMAIN Routes /\ Describes(Segs(i), path)
  BY DescribedAre
<1>10. \A i \in DOMAIN Routes : compile_all[i] = compile(Routes[i])
  BY DEF compile_all
<1>11. ASSUME NEW i \in D \cup E
       PROVE  LET c == Scan(compile(Routes[i]), path)
                  d == DescribedValues(Segs(i), path)
              IN  /\ EntryValues(c.entries, path) = d
                  /\ PyScan(Segs(i), path).match_dict = d
                  /\ \A x \in 1..Len(c.entries) : InPath(c.entries[x], path)
  <2> HIDE DEF D, E
  <2> QED
    BY <1>9, RouteRight
<1> HIDE DEF D, E, r, q, scan, values, found, py
<1>12. /\ found.entry = FirstOf(D) /\ EntryValues(found.entries, path) = ValuesIn(FirstOf(D), path)
       /\ \A x \in 1..Len(found.entries) : InPath(found.entries[x], path)
  <2>1. CASE D = {}
    <3>1. FirstOf(D) = 0 /\ ValuesIn(0, path) = {}
      BY <2>1 DEF FirstOf, ValuesIn
    <3>2. found.entry = 0 /\ found.entries = <<>>
      BY <1>5, <2>1
    <3>3. EntryValues(<<>>, path) = {}
      BY DEF EntryValues
    <3>4. \A x \in 1..Len(found.entries) : InPath(found.entries[x], path)
      BY <3>2
    <3> QED
      BY <3>1, <3>2, <3>3, <3>4
  <2>2. CASE D # {}
    <3>1. FirstOf(D) = r /\ r \in D /\ r # 0 /\ compile_all[r] = compile(Routes[r])
      BY <1>3, <1>10, <2>2, FirstIsRoute DEF r
    <3>2. ValuesIn(r, path) = DescribedValues(Segs(r), path)
      BY <3>1 DEF ValuesIn
    <3>3. /\ EntryValues(scan.entries, path) = DescribedValues(Segs(r), path)
          /\ \A x \in 1..Len(scan.entries) : InPath(scan.entries[x], path)
      BY <1>11, <3>1 DEF scan
    <3>4. found.entry = r /\ found.entries = scan.entries
      BY <1>5, <2>2, <3>1 DEF scan
    <3> QED
      BY <3>1, <3>2, <3>3, <3>4
  <2> QED
    BY <2>1, <2>2
<1>13. py.entry = FirstOf(E) /\ py.values = ValuesIn(FirstOf(E), path)
  <2>1. CASE E = {}
    BY <1>6, <2>1 DEF FirstOf, ValuesIn
  <2>2. CASE E # {}
    <3>1. FirstOf(E) = q /\ q \in E /\ q # 0
      BY <1>3, <2>2, FirstIsRoute DEF q
    <3>2. ValuesIn(q, path) = DescribedValues(Segs(q), path)
      BY <3>1 DEF ValuesIn
    <3>3. values = DescribedValues(Segs(q), path)
      BY <1>11, <3>1 DEF values
    <3>4. py.entry = q /\ py.values = values
      BY <1>6, <2>2
    <3> QED
      BY <3>1, <3>2, <3>3, <3>4
  <2> QED
    BY <2>1, <2>2
<1> HIDE DEF method
<1> QED
  BY <1>7, <1>8, <1>12, <1>13 DEF found, py, method
=============================================================================
