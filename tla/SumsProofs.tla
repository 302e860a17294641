----------------------------- MODULE SumsProofs -----------------------------
(***************************************************************************)
(* Induction over the natural numbers, as a fact about sets: a set with a  *)
(* number has a least one.  Each recursive function of the models is shown *)
(* to exist, and to be what its definition says, by such an induction over *)
(* its domain.                                                             *)
(***************************************************************************)
EXTENDS Sums, WellFoundedInduction, TLAPS

Below == {ss \in Nat \X Nat : ss[1] < ss[2]}

LEMMA BelowWF == IsWellFoundedOn(Below, Nat)
BY NatLessThanWellFounded DEF OpToRel, Below

LEMMA Least ==
  ASSUME NEW T, T \subseteq Nat, T # {}
  PROVE  \E x \in T : \A y \in T : x <= y
<1>1. PICK x \in T : \A y \in T : ~(<<y, x>> \in Below)
  BY BelowWF, WFMin, Zenon
<1>2. ASSUME NEW y \in T PROVE x <= y
  <2>1. x \in Nat /\ y \in Nat
    OBVIOUS
  <2>2. y < x => <<y, x>> \in Below
    BY <2>1 DEF Below
  <2> QED
    BY <1>1, <2>1, <2>2
<1> QED
  BY <1>2

LEMMA Induct ==
  ASSUME NEW S, 0 \in S, \A n \in Nat : n \in S => n + 1 \in S
  PROVE  \A n \in Nat : n \in S
<1> SUFFICES ASSUME NEW n \in Nat, n \notin S PROVE FALSE
  OBVIOUS
<1> DEFINE T == {k \in Nat : k \notin S}
<1>1. PICK x \in T : \A y \in T : x <= y
  BY Least
<1>2. x \in Nat /\ x # 0 /\ x - 1 \in Nat
  BY <1>1
<1>3. x - 1 \in S
  BY <1>1, <1>2
<1> QED
  BY <1>2, <1>3, <1>1

\* What f computes over s.
Sums(f, s) ==
  /\ f \in [0..Len(s) -> Nat] /\ f[0] = 0
  /\ \A k \in 1..Len(s) : f[k] = f[k - 1] + s[k]

LEMMA SumsExist ==
  ASSUME NEW s \in Seq(Nat)
  PROVE  \E f : Sums(f, s)
<1> DEFINE Upto(n, f) == f \in [0..n -> Nat] /\ f[0] = 0 /\ \A k \in 1..n : f[k] = f[k - 1] + s[k]
           Can(n) == n <= Len(s) => \E f : Upto(n, f)
           S == {n \in Nat : Can(n)}
<1>1. Can(0)
  <2> DEFINE f == [k \in 0..0 |-> 0]
  <2>1. f \in [0..0 -> Nat] /\ f[0] = 0 /\ 1..0 = {}
    OBVIOUS
  <2>2. Upto(0, f)
    BY <2>1
  <2> QED
    BY <2>2
<1>2. ASSUME NEW n \in Nat, Can(n) PROVE Can(n + 1)
  <2> SUFFICES ASSUME n + 1 <= Len(s) PROVE \E f : Upto(n + 1, f)
    OBVIOUS
  <2>0. n <= Len(s)
    OBVIOUS
  <2>1. PICK f : Upto(n, f)
    BY <1>2, <2>0, Zenon
  <2> DEFINE g == [k \in 0..(n + 1) |-> IF k = n + 1 THEN f[n] + s[n + 1] ELSE f[k]]
  <2>2. s[n + 1] \in Nat /\ f[n] \in Nat
    BY <2>1
  <2>3. g \in [0..(n + 1) -> Nat] /\ g[0] = 0
    BY <2>1, <2>2
  <2>4. \A k \in 1..(n + 1) : g[k] = g[k - 1] + s[k]
    BY <2>1, <2>2, SMTT(30)
  <2>5. Upto(n + 1, g)
    BY <2>3, <2>4
  <2> QED
    BY <2>5
<1>3. \A n \in Nat : n \in S
  <2> HIDE DEF Can
  <2>1. 0 \in S /\ \A n \in Nat : n \in S => n + 1 \in S
    BY <1>1, <1>2
  <2> QED
    BY <2>1, Induct, Zenon
<1>4. Can(Len(s)) /\ Len(s) <= Len(s)
  BY <1>3
<1>5. PICK f : Upto(Len(s), f)
  BY <1>4, Zenon
<1> QED
  BY <1>5 DEF Sums

\* Running is what its definition says.
LEMMA RunningIs ==
  ASSUME NEW s \in Seq(Nat)
  PROVE  Sums(Running(s), s)
<1>1. PICK f : Sums(f, s)
  BY SumsExist
<1>2. f = [k \in 0..Len(s) |-> IF k = 0 THEN 0 ELSE f[k - 1] + s[k]]
  BY <1>1 DEF Sums
<1> DEFINE R == CHOOSE g : g = [k \in 0..Len(s) |-> IF k = 0 THEN 0 ELSE g[k - 1] + s[k]]
<1>3. R = [k \in 0..Len(s) |-> IF k = 0 THEN 0 ELSE R[k - 1] + s[k]]
  BY <1>2
<1>4. Running(s) = R
  BY DEF Running
<1> HIDE DEF R
<1> DEFINE S == {n \in Nat : n <= Len(s) => R[n] = f[n]}
<1>5. 0 \in S
  BY <1>1, <1>3 DEF Sums
<1>6. ASSUME NEW n \in Nat, n \in S PROVE n + 1 \in S
  BY <1>1, <1>3, <1>6 DEF Sums
<1>7. \A n \in Nat : n \in S
  <2> HIDE DEF S
  <2> QED
    BY <1>5, <1>6, Induct
<1>8. \A n \in 0..Len(s) : R[n] = f[n]
  BY <1>7
<1>9. R = f
  BY <1>1, <1>3, <1>8 DEF Sums
<1> QED
  BY <1>1, <1>4, <1>9

\* A running sum depends on what it has passed only.
LEMMA RunningSame ==
  ASSUME NEW s \in Seq(Nat), NEW t \in Seq(Nat), NEW m \in Nat, m <= Len(s), m <= Len(t),
         \A k \in 1..m : s[k] = t[k]
  PROVE  Running(s)[m] = Running(t)[m]
<1>1. Sums(Running(s), s) /\ Sums(Running(t), t)
  BY RunningIs
<1> DEFINE f == Running(s)
           g == Running(t)
<1> HIDE DEF f, g
<1> DEFINE S == {n \in Nat : n <= m => f[n] = g[n]}
<1>2. 0 \in S
  BY <1>1 DEF Sums, f, g
<1>3. ASSUME NEW n \in Nat, n \in S PROVE n + 1 \in S
  BY <1>1, <1>3 DEF Sums, f, g
<1>4. \A n \in Nat : n \in S
  <2> HIDE DEF S
  <2> QED
    BY <1>2, <1>3, Induct
<1> QED
  BY <1>4 DEF f, g

\* Running sums only grow.
LEMMA RunningUp ==
  ASSUME NEW s \in Seq(Nat), NEW i \in 0..Len(s), NEW j \in i..Len(s)
  PROVE  Running(s)[i] \in Nat /\ Running(s)[j] \in Nat /\ Running(s)[i] <= Running(s)[j]
<1>1. Sums(Running(s), s)
  BY RunningIs
<1> DEFINE f == Running(s)
           S == {n \in Nat : i + n <= Len(s) => f[i] <= f[i + n]}
<1> HIDE DEF f
<1>2. \A k \in 0..Len(s) : f[k] \in Nat
  BY <1>1 DEF Sums, f
<1>3. 0 \in S
  BY <1>2
<1>4. ASSUME NEW n \in Nat, n \in S PROVE n + 1 \in S
  <2> SUFFICES ASSUME i + (n + 1) <= Len(s) PROVE f[i] <= f[i + (n + 1)]
    OBVIOUS
  <2>1. i + n \in 0..Len(s) /\ i + (n + 1) \in 1..Len(s) /\ (i + (n + 1)) - 1 = i + n
    OBVIOUS
  <2>2. f[i + (n + 1)] = f[i + n] + s[i + (n + 1)]
    BY <1>1, <2>1, Zenon DEF Sums, f
  <2>3. s[i + (n + 1)] \in Nat /\ f[i + n] \in Nat /\ f[i] \in Nat /\ f[i] <= f[i + n]
    BY <1>2, <1>4, <2>1
  <2> QED
    BY <2>2, <2>3
<1>5. \A n \in Nat : n \in S
  <2> HIDE DEF S
  <2> QED
    BY <1>3, <1>4, Induct, Zenon
<1>6. j - i \in Nat /\ i + (j - i) = j /\ j \in 0..Len(s)
  OBVIOUS
<1>7. f[i] <= f[j]
  BY <1>5, <1>6
<1> QED
  BY <1>2, <1>6, <1>7 DEF f

LEMMA TotalEmpty == Total(<<>>) = 0
<1>1. <<>> \in Seq(Nat) /\ Len(<<>>) = 0
  OBVIOUS
<1> QED
  BY <1>1, RunningIs DEF Sums, Total

LEMMA TotalAppend ==
  ASSUME NEW s \in Seq(Nat), NEW x \in Nat
  PROVE  Total(Append(s, x)) = Total(s) + x
<1> DEFINE t == Append(s, x)
<1>1. t \in Seq(Nat) /\ Len(t) = Len(s) + 1 /\ t[Len(s) + 1] = x
      /\ \A k \in 1..Len(s) : s[k] = t[k]
  OBVIOUS
<1>2. Len(s) \in Nat /\ Len(s) <= Len(s) /\ Len(s) <= Len(t)
  BY <1>1
<1> HIDE DEF t
<1>3. Running(s)[Len(s)] = Running(t)[Len(s)]
  BY <1>1, <1>2, RunningSame, Zenon
<1>4. Running(t)[Len(s) + 1] = Running(t)[Len(s)] + x
  <2>1. Sums(Running(t), t)
    BY <1>1, RunningIs, Zenon
  <2>2. Len(s) + 1 \in 1..Len(t) /\ (Len(s) + 1) - 1 = Len(s)
    BY <1>1, <1>2
  <2> QED
    BY <1>1, <2>1, <2>2, Zenon DEF Sums
<1> QED
  BY <1>1, <1>3, <1>4 DEF Total, t
=============================================================================
