-------------------------- MODULE SequenceProofs --------------------------
(***************************************************************************)
(* Facts about FlattenSeq, which the library defines by recursion.  They   *)
(* are proved by induction over a set of numbers: the induction theorems   *)
(* of the library take a predicate, and no prover at hand instantiates it. *)
(***************************************************************************)
EXTENDS Integers, SequencesExt, SequenceTheorems, WellFoundedInduction, TLAPS

LEMMA NatIsWellFounded == IsWellFoundedOn({p \in Nat \X Nat : p[1] < p[2]}, Nat)
  BY NatLessThanWellFounded DEF OpToRel

\* A set that holds 0 and the successor of each of its numbers holds all of Nat.
LEMMA SetInduction ==
    ASSUME NEW P, 0 \in P, \A n \in Nat : n \in P => n + 1 \in P
    PROVE  \A n \in Nat : n \in P
  <1> SUFFICES ASSUME NEW n \in Nat, n \notin P PROVE FALSE
    OBVIOUS
  <1> DEFINE S == Nat \ P
             R == {p \in Nat \X Nat : p[1] < p[2]}
  <1>1. \E m \in S : \A k \in S : ~(<<k, m>> \in R)
    <2> S \subseteq Nat /\ S # {}
      OBVIOUS
    <2> HIDE DEF S, R
    <2> QED BY NatIsWellFounded, WFMin DEF R
  <1>2. PICK m \in S : \A k \in S : ~(k < m)
    BY <1>1
  <1>3. m # 0 /\ m - 1 \in Nat /\ m - 1 \notin S
    BY <1>2
  <1> QED BY <1>2, <1>3

\* The partial results of FlattenSeq.
Flattens(f, ss, n) == f = [i \in 1..n |-> IF i = 1 THEN ss[i] ELSE f[i-1] \o ss[i]]

LEMMA FlattensExists ==
    ASSUME NEW ss
    PROVE  \A n \in Nat : \E f : Flattens(f, ss, n)
  <1> DEFINE P == {n \in Nat : \E f : Flattens(f, ss, n)}
  <1>1. 0 \in P
    <2> DEFINE f == [i \in 1..0 |-> IF i = 1 THEN ss[i] ELSE {}]
    <2>1. Flattens(f, ss, 0)
      BY DEF Flattens
    <2> QED BY <2>1
  <1>2. ASSUME NEW n \in Nat, n \in P PROVE n + 1 \in P
    <2>1. PICK f : Flattens(f, ss, n)
      BY <1>2
    <2> DEFINE last == IF n + 1 = 1 THEN ss[n + 1] ELSE f[n] \o ss[n + 1]
               g == [i \in 1..(n + 1) |-> IF i = n + 1 THEN last ELSE f[i]]
    <2>2. ASSUME NEW i \in 1..(n + 1)
          PROVE  g[i] = IF i = 1 THEN ss[i] ELSE g[i-1] \o ss[i]
      <3>1. CASE i = n + 1
        <4>1. i # 1 => i - 1 \in 1..(n + 1) /\ i - 1 = n /\ i - 1 # n + 1
          BY <3>1
        <4> QED BY <3>1, <4>1
      <3>2. CASE i # n + 1
        <4>1. i \in 1..n /\ (i # 1 => i - 1 \in 1..n)
          BY <3>2
        <4>2. g[i] = f[i] /\ (i # 1 => g[i-1] = f[i-1])
          BY <4>1
        <4>3. f[i] = IF i = 1 THEN ss[i] ELSE f[i-1] \o ss[i]
          BY <2>1, <4>1 DEF Flattens
        <4> QED BY <4>2, <4>3
      <3> QED BY <3>1, <3>2
    <2>3. Flattens(g, ss, n + 1)
      <3>1. g = [i \in 1..(n + 1) |-> g[i]]
        OBVIOUS
      <3> HIDE DEF g
      <3> QED BY <2>2, <3>1 DEF Flattens
    <2> QED BY <2>3
  <1> HIDE DEF P
  <1>3. \A n \in Nat : n \in P
    BY <1>1, <1>2, SetInduction
  <1> QED BY <1>3 DEF P

LEMMA FlattenIs ==
    ASSUME NEW S, NEW ss \in Seq(S), Len(ss) # 0
    PROVE  \E f : Flattens(f, ss, Len(ss)) /\ FlattenSeq(ss) = f[Len(ss)]
  <1> DEFINE c == CHOOSE f : Flattens(f, ss, Len(ss))
  <1>1. FlattenSeq(ss) = c[Len(ss)]
    BY DEF FlattenSeq, Flattens
  <1>2. \E f : Flattens(f, ss, Len(ss))
    <2>1. Len(ss) \in Nat
      OBVIOUS
    <2> QED BY <2>1, FlattensExists
  <1>3. Flattens(c, ss, Len(ss))
    BY <1>2
  <1> QED BY <1>1, <1>3

\* A flattened sequence has the elements of its parts.
LEMMA FlattenElements ==
    ASSUME NEW S, NEW ss \in Seq(Seq(S))
    PROVE  /\ FlattenSeq(ss) \in Seq(S)
           /\ Range(FlattenSeq(ss)) = UNION {Range(ss[i]) : i \in 1..Len(ss)}
  <1>1. CASE Len(ss) = 0
    <2>1. FlattenSeq(ss) = ss
      BY <1>1 DEF FlattenSeq
    <2>2. ss = <<>>
      BY <1>1
    <2>3. <<>> \in Seq(S) /\ Range(<<>>) = {}
      BY DEF Range
    <2> QED BY <1>1, <2>1, <2>2, <2>3
  <1>2. CASE Len(ss) # 0
    <2>1. PICK f : Flattens(f, ss, Len(ss)) /\ FlattenSeq(ss) = f[Len(ss)]
      BY <1>2, FlattenIs
    <2> DEFINE Good(n) == /\ f[n] \in Seq(S)
                          /\ Range(f[n]) = UNION {Range(ss[i]) : i \in 1..n}
               P == {n \in Nat : n \in 1..Len(ss) => Good(n)}
    <2>2. \A n \in 1..Len(ss) : f[n] = IF n = 1 THEN ss[n] ELSE f[n-1] \o ss[n]
      BY <2>1 DEF Flattens
    <2>3. \A n \in 1..Len(ss) : ss[n] \in Seq(S)
      OBVIOUS
    <2>4. 0 \in P
      OBVIOUS
    <2>5. ASSUME NEW n \in Nat, n \in P, n + 1 \in 1..Len(ss) PROVE Good(n + 1)
      <3>1. CASE n = 0
        <4>1. f[1] = ss[1] /\ ss[1] \in Seq(S)
          BY <2>2, <2>3, <2>5, <3>1
        <4>2. 1..1 = {1} /\ n + 1 = 1
          BY <3>1
        <4> QED BY <4>1, <4>2
      <3>2. CASE n # 0
        <4>1. n \in 1..Len(ss)
          BY <2>5, <3>2
        <4>2. Good(n)
          BY <2>5, <4>1
        <4>3. f[n + 1] = f[n] \o ss[n + 1] /\ ss[n + 1] \in Seq(S)
          <5>1. n + 1 # 1 /\ (n + 1) - 1 = n
            BY <3>2
          <5>2. f[n + 1] = f[(n + 1) - 1] \o ss[n + 1]
            BY <2>2, <2>5, <5>1
          <5> QED BY <2>3, <2>5, <5>1, <5>2
        <4>4. Range(f[n + 1]) = Range(f[n]) \cup Range(ss[n + 1])
          BY <4>2, <4>3, RangeConcatenation
        <4>5. f[n + 1] \in Seq(S)
          BY <4>2, <4>3
        <4>6. 1..(n + 1) = 1..n \cup {n + 1}
          OBVIOUS
        <4> QED BY <4>2, <4>4, <4>5, <4>6
      <3> QED BY <3>1, <3>2
    <2> HIDE DEF Good
    <2>6. ASSUME NEW n \in Nat, n \in P PROVE n + 1 \in P
      <3>1. n + 1 \in 1..Len(ss) => Good(n + 1)
        BY <2>5, <2>6
      <3> QED BY <3>1
    <2> HIDE DEF P
    <2>7. \A n \in Nat : n \in P
      BY <2>4, <2>6, SetInduction
    <2>8. Len(ss) \in Nat /\ Len(ss) \in 1..Len(ss)
      BY <1>2
    <2> QED BY <2>1, <2>7, <2>8 DEF P, Good
  <1> QED BY <1>1, <1>2
=============================================================================
