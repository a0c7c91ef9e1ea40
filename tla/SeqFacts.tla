------------------------------ MODULE SeqFacts ------------------------------
(***************************************************************************)
(* What the proofs keep needing of the sequences the models are built      *)
(* from: runs of consecutive byte numbers, parts of a buffer, and one      *)
(* sequence behind another.                                                *)
(***************************************************************************)
EXTENDS Integers, Sequences, SequenceTheorems, TLAPS

\* A function on 1..n is a sequence of length n.
LEMMA FcnIsSeq ==
    ASSUME NEW S, NEW n \in Nat, NEW f \in [1..n -> S]
    PROVE  f \in Seq(S) /\ Len(f) = n
  <1>1. f \in Seq(S)
    BY SeqDef
  <1>2. Len(f) = n
    BY <1>1, LenProperties
  <1> QED
    BY <1>1, <1>2

\* The n bytes that follow byte p, as one memcpy or one recv() moves them.
LEMMA RunFacts ==
    ASSUME NEW p \in Nat, NEW n \in Nat
    PROVE  /\ [i \in 1..n |-> p + i] \in Seq(Nat)
           /\ Len([i \in 1..n |-> p + i]) = n
           /\ \A j \in 1..n : [i \in 1..n |-> p + i][j] = p + j
  <1>1. [i \in 1..n |-> p + i] \in [1..n -> Nat]
    OBVIOUS
  <1> QED
    BY <1>1, FcnIsSeq

\* The n elements of s behind the first o, as one send() takes them.
LEMMA PartFacts ==
    ASSUME NEW s \in Seq(Nat), NEW o \in Nat, NEW n \in Nat, o + n <= Len(s)
    PROVE  /\ [i \in 1..n |-> s[o + i]] \in Seq(Nat)
           /\ Len([i \in 1..n |-> s[o + i]]) = n
           /\ \A j \in 1..n : [i \in 1..n |-> s[o + i]][j] = s[o + j]
  <1>1. Len(s) \in Nat
    BY LenProperties
  <1>2. \A i \in 1..n : s[o + i] \in Nat
    BY <1>1, ElementOfSeq
  <1>3. [i \in 1..n |-> s[o + i]] \in [1..n -> Nat]
    BY <1>2
  <1> QED
    BY <1>3, FcnIsSeq

\* Appending t to s, where both consist of numbers.
LEMMA ConcatFacts ==
    ASSUME NEW s \in Seq(Nat), NEW t \in Seq(Nat)
    PROVE  /\ s \o t \in Seq(Nat)
           /\ Len(s \o t) = Len(s) + Len(t)
           /\ Len(s) \in Nat /\ Len(t) \in Nat
           /\ \A i \in 1..Len(s) + Len(t) :
                  (s \o t)[i] = IF i <= Len(s) THEN s[i] ELSE t[i - Len(s)]
  <1>1. Len(s) \in Nat /\ Len(t) \in Nat
    BY LenProperties
  <1> QED
    BY <1>1, ConcatProperties

\* The same, part by part: t follows s.
LEMMA ConcatParts ==
    ASSUME NEW s \in Seq(Nat), NEW t \in Seq(Nat)
    PROVE  /\ s \o t \in Seq(Nat)
           /\ Len(s \o t) = Len(s) + Len(t)
           /\ \A i \in 1..Len(s) : (s \o t)[i] = s[i]
           /\ \A i \in 1..Len(t) : (s \o t)[Len(s) + i] = t[i]
  <1>1. /\ s \o t \in Seq(Nat) /\ Len(s \o t) = Len(s) + Len(t)
        /\ Len(s) \in Nat /\ Len(t) \in Nat
        /\ \A i \in 1..Len(s) + Len(t) :
               (s \o t)[i] = IF i <= Len(s) THEN s[i] ELSE t[i - Len(s)]
    BY ConcatFacts, Zenon
  <1> DEFINE st == s \o t
  <1> HIDE DEF st
  <1>2. /\ \A i \in 1..Len(s) + Len(t) :
               st[i] = IF i <= Len(s) THEN s[i] ELSE t[i - Len(s)]
        /\ Len(s) \in Nat /\ Len(t) \in Nat
    BY <1>1 DEF st
  <1>3. \A i \in 1..Len(s) : st[i] = s[i]
    <2> TAKE i \in 1..Len(s)
    <2>1. i \in 1..Len(s) + Len(t) /\ i <= Len(s)
      BY <1>2
    <2> QED
      BY <2>1, <1>2, Zenon
  <1>4. \A i \in 1..Len(t) : st[Len(s) + i] = t[i]
    <2> TAKE i \in 1..Len(t)
    <2>1. /\ Len(s) + i \in 1..Len(s) + Len(t)
          /\ ~(Len(s) + i <= Len(s)) /\ Len(s) + i - Len(s) = i
      BY <1>2
    <2> QED
      BY <2>1, <1>2
  <1> QED
    BY <1>1, <1>3, <1>4, Zenon DEF st

\* An empty buffer.
LEMMA EmptyFacts == <<>> \in Seq(Nat) /\ Len(<<>>) = 0
  BY EmptySeq
=============================================================================
