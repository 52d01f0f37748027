------------------------------- MODULE Basics --------------------------------
(***************************************************************************)
(* Facts about numbers and sequences that the proofs about several modules *)
(* use.                                                                    *)
(***************************************************************************)
EXTENDS Integers, Sequences, SequenceTheorems, WellFoundedInduction, TLAPS

(* The least counterexample takes the place of induction, whose theorems   *)
(* have an operator for a parameter.                                       *)
LEMMA LeastExists ==
  ASSUME NEW S, S \subseteq Nat, S # {}
  PROVE  \E d \in S : \A e \in S : d <= e
<1>1. \E d \in S : \A e \in S : ~ (<<e, d>> \in OpToRel(<, Nat))
  BY WFMin, NatLessThanWellFounded, Zenon
<1>2. PICK d \in S : \A e \in S : ~ (<<e, d>> \in OpToRel(<, Nat))
  BY <1>1
<1>3. ASSUME NEW e \in S, e < d
      PROVE  <<e, d>> \in OpToRel(<, Nat)
  <2>1. <<e, d>> \in Nat \X Nat /\ <<e, d>>[1] = e /\ <<e, d>>[2] = d
    OBVIOUS
  <2> QED
    BY <1>3, <2>1, Zenon DEF OpToRel
<1>4. \A e \in S : ~ (e < d)
  BY <1>2, <1>3, Zenon
<1> QED
  BY <1>4

LEMMA GreatestExists ==
  ASSUME NEW n \in Nat, NEW S, S \subseteq 0 .. n, S # {}
  PROVE  \E d \in S : \A e \in S : e <= d
<1> DEFINE mirror == {m \in 0 .. n : n - m \in S}
<1>1. mirror # {} /\ mirror \subseteq Nat
  <2>1. PICK d \in S : TRUE
    OBVIOUS
  <2>2. d \in Nat /\ n - d \in 0 .. n /\ n - (n - d) = d
    BY <2>1
  <2>3. n - d \in mirror
    BY <2>1, <2>2
  <2>4. mirror \subseteq Nat
    OBVIOUS
  <2> QED
    BY <2>3, <2>4
<1>2. PICK m \in mirror : \A e \in mirror : m <= e
  BY <1>1, LeastExists
<1>3. ASSUME NEW e \in S
      PROVE  e <= n - m
  <2>1. e \in Nat /\ n - e \in mirror /\ m \in Nat
    <3>1. e \in Nat /\ n - e \in 0 .. n /\ n - (n - e) = e
      OBVIOUS
    <3> QED
      BY <3>1
  <2> QED
    BY <1>2, <2>1
<1> QED
  BY <1>2, <1>3

(* Induction up to m, for the members of a set.                            *)
LEMMA Upward ==
  ASSUME NEW m \in Nat, NEW S, 0 \in S, \A n \in 1 .. m : n - 1 \in S => n \in S
  PROVE  \A n \in 0 .. m : n \in S
<1> DEFINE bad == {n \in 0 .. m : n \notin S}
<1>1. bad = {}
  <2> SUFFICES ASSUME bad # {} PROVE FALSE
    OBVIOUS
  <2>1. bad \subseteq Nat
    OBVIOUS
  <2>2. PICK n \in bad : \A e \in bad : n <= e
    BY <2>1, LeastExists
  <2>3. n \in 1 .. m /\ n - 1 \in 0 .. m /\ ~(n <= n - 1)
    BY <2>2
  <2>4. n - 1 \in S
    BY <2>2, <2>3
  <2> QED
    BY <2>2, <2>3, <2>4
<1> QED
  BY <1>1

(* A sequence of values, each made from the one before, exists.            *)
IsIteration(f, a, m, step) == f[0] = a /\ \A n \in 1 .. m : f[n] = step[n][f[n - 1]]

LEMMA Iterates ==
  ASSUME NEW X, NEW a \in X, NEW m \in Nat, NEW step \in [1 .. m -> [X -> X]]
  PROVE  \E f \in [0 .. m -> X] : IsIteration(f, a, m, step)
<1> DEFINE Good(k, f) == f[0] = a /\ \A n \in 1 .. k : f[n] = step[n][f[n - 1]]
           done == {k \in 0 .. m : \E f \in [0 .. m -> X] : Good(k, f)}
<1>1. 0 \in done
  <2>1. PICK f \in [0 .. m -> X] : f = [n \in 0 .. m |-> a]
    OBVIOUS
  <2>2. 0 \in 0 .. m /\ 1 .. 0 = {}
    OBVIOUS
  <2>3. Good(0, f)
    BY <2>1, <2>2
  <2> QED
    BY <2>2, <2>3
<1>2. ASSUME NEW k \in 1 .. m, k - 1 \in done
      PROVE  k \in done
  <2>1. PICK f \in [0 .. m -> X] : Good(k - 1, f)
    BY <1>2
  <2>2. k \in 0 .. m /\ k - 1 \in 0 .. m /\ k # 0
    OBVIOUS
  <2>3. f[k - 1] \in X
    BY <2>2
  <2>4. step[k] \in [X -> X]
    OBVIOUS
  <2>5. step[k][f[k - 1]] \in X
    BY <2>3, <2>4
  <2>6. PICK v \in X : v = step[k][f[k - 1]]
    BY <2>5
  <2>7. PICK g \in [0 .. m -> X] : g = [f EXCEPT ![k] = v]
    OBVIOUS
  <2>8. g[0] = a /\ g[k] = v
    BY <2>1, <2>2, <2>7
  <2>9. ASSUME NEW n \in 1 .. k
        PROVE  g[n] = step[n][g[n - 1]]
    <3>1. n \in 0 .. m /\ n - 1 \in 0 .. m /\ n - 1 # k
      OBVIOUS
    <3>2. g[n - 1] = f[n - 1]
      BY <2>7, <3>1
    <3>3. CASE n = k
      BY <2>6, <2>8, <3>2, <3>3
    <3>4. CASE n # k
      <4>1. n \in 1 .. k - 1
        BY <3>4
      <4>2. g[n] = f[n]
        BY <2>7, <3>1, <3>4
      <4> QED
        BY <2>1, <3>2, <4>1, <4>2
    <3> QED
      BY <3>3, <3>4
  <2>10. Good(k, g)
    BY <2>8, <2>9
  <2> QED
    BY <2>2, <2>10
<1>3. m \in done
  <2>1. \A k \in 0 .. m : k \in done
    <3> HIDE DEF done
    <3> QED
      BY <1>1, <1>2, Upward
  <2> QED
    BY <2>1
<1> QED
  BY <1>3 DEF IsIteration

LEMMA Shorter ==
  ASSUME NEW S, NEW s \in Seq(S), NEW m \in 0 .. Len(s)
  PROVE  /\ SubSeq(s, 1, m) \in Seq(S) /\ Len(SubSeq(s, 1, m)) = m
         /\ \A i \in 1 .. m : SubSeq(s, 1, m)[i] = s[i]
<1>1. m \in Int /\ \A i \in 1 .. m : s[i] \in S
  OBVIOUS
<1>2. /\ SubSeq(s, 1, m) \in Seq(S)
      /\ Len(SubSeq(s, 1, m)) = IF 1 <= m THEN m - 1 + 1 ELSE 0
      /\ \A i \in 1 .. m - 1 + 1 : SubSeq(s, 1, m)[i] = s[1 + i - 1]
  BY <1>1, SubSeqProperties
<1> QED
  BY <1>2

LEMMA Topped ==
  ASSUME NEW S, NEW s \in Seq(S), NEW m \in 0 .. Len(s), NEW v \in S
  PROVE  /\ Append(SubSeq(s, 1, m), v) \in Seq(S)
         /\ Len(Append(SubSeq(s, 1, m), v)) = m + 1
         /\ \A i \in 1 .. m : Append(SubSeq(s, 1, m), v)[i] = s[i]
         /\ Append(SubSeq(s, 1, m), v)[m + 1] = v
<1> DEFINE low == SubSeq(s, 1, m)
<1>1. low \in Seq(S) /\ Len(low) = m /\ \A i \in 1 .. m : low[i] = s[i]
  BY Shorter
<1> HIDE DEF low
<1>2. /\ Append(low, v) \in Seq(S) /\ Len(Append(low, v)) = m + 1
      /\ \A i \in 1 .. m : Append(low, v)[i] = s[i]
      /\ Append(low, v)[m + 1] = v
  BY <1>1, AppendProperties
<1> QED
  BY <1>2 DEF low
=============================================================================
