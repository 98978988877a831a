-------------------------- MODULE Selections_proofs --------------------------
(***************************************************************************)
(* What Kept returns, for every sequence and every set.                    *)
(***************************************************************************)
EXTENDS Selections, FiniteSetTheorems, SequenceTheorems, TLAPS

(***************************************************************************)
(* Induction over the naturals, for a set instead of a predicate: a        *)
(* descending chain of naturals outside the set would be a finite set that *)
(* is mapped into itself one to one but not onto itself.                   *)
(***************************************************************************)
LEMMA SetInduction ==
  ASSUME NEW T \in SUBSET Nat, 0 \in T, \A n \in T : n + 1 \in T
  PROVE  T = Nat
<1> SUFFICES ASSUME NEW k \in Nat, k \notin T PROVE FALSE
  OBVIOUS
<1> DEFINE U == {n \in 0..k : n \notin T}
           down == [n \in U |-> n - 1]
<1>1. IsFiniteSet(U)
  <2>1. IsFiniteSet(0..k)
    BY FS_Interval
  <2>2. QED
    BY <2>1, FS_Subset
<1>2. ASSUME NEW n \in U PROVE n - 1 \in U
  <2>1. n \in Nat /\ n # 0 /\ (n - 1) + 1 = n
    OBVIOUS
  <2>2. n - 1 \in 0..k /\ n - 1 \notin T
    BY <2>1
  <2>3. QED
    BY <2>2
<1>3. down \in Injection(U, U)
  BY <1>2 DEF Injection, IsInjective
<1>4. down \in Surjection(U, U)
  BY <1>1, <1>3, FS_Injection
<1>5. PICK m \in U : down[m] = k
  <2>1. k \in U
    OBVIOUS
  <2>2. QED
    BY <1>4, <2>1 DEF Surjection
<1>6. QED
  BY <1>5

(***************************************************************************)
(* The recursion of Kept is defined: there is a function that satisfies it *)
(* up to any length.                                                       *)
(***************************************************************************)
Step(s, T, f, n) ==
  IF n = 0 THEN <<>> ELSE IF s[n] \in T THEN Append(f[n - 1], s[n]) ELSE f[n - 1]

LEMMA KeptDefined ==
  ASSUME NEW s, NEW T, NEW k \in Nat
  PROVE  \E f : f = [n \in 0..k |-> Step(s, T, f, n)]
<1> DEFINE D == {j \in Nat : \E f : f = [n \in 0..j |-> Step(s, T, f, n)]}
<1>1. 0 \in D
  <2> DEFINE f == [n \in 0..0 |-> <<>>]
  <2>1. f = [n \in 0..0 |-> Step(s, T, f, n)]
    BY DEF Step
  <2>2. QED
    BY <2>1
<1>2. ASSUME NEW j \in D PROVE j + 1 \in D
  <2>1. PICK f : f = [n \in 0..j |-> Step(s, T, f, n)]
    OBVIOUS
  <2> DEFINE g == [n \in 0..j + 1 |-> IF n = j + 1 THEN Step(s, T, f, j + 1) ELSE f[n]]
  <2>2. \A n \in 0..j : g[n] = f[n]
    OBVIOUS
  <2>3. ASSUME NEW n \in 0..j + 1 PROVE g[n] = Step(s, T, g, n)
    <3>1. n # 0 => n - 1 \in 0..j
      OBVIOUS
    <3>2. Step(s, T, g, n) = Step(s, T, f, n)
      BY <2>2, <3>1 DEF Step
    <3>3. n # j + 1 => n \in 0..j /\ f[n] = Step(s, T, f, n)
      BY <2>1
    <3>4. QED
      BY <3>2, <3>3
  <2>4. g = [n \in 0..j + 1 |-> Step(s, T, g, n)]
    BY <2>3
  <2>5. j + 1 \in Nat
    OBVIOUS
  <2> HIDE DEF g
  <2>6. QED
    BY <2>4, <2>5
<1>3. D = Nat
  BY <1>1, <1>2, SetInduction
<1>4. QED
  BY <1>3

\* Hence Kept is what the recursion computes.
LEMMA KeptRecursion ==
  ASSUME NEW s, Len(s) \in Nat, NEW T
  PROVE  \E f : /\ f = [n \in 0..Len(s) |-> Step(s, T, f, n)]
                /\ Kept(s, T) = f[Len(s)]
<1> DEFINE f == CHOOSE g : g = [n \in 0..Len(s) |-> Step(s, T, g, n)]
<1>1. f = [n \in 0..Len(s) |-> Step(s, T, f, n)]
  BY KeptDefined
<1>2. Kept(s, T) = f[Len(s)]
  BY DEF Kept, Step
<1> HIDE DEF f
<1>3. QED
  BY <1>1, <1>2

Elements(s) == {s[i] : i \in 1..Len(s)}

(***************************************************************************)
(* Kept returns a sequence of the elements that are in both, no longer     *)
(* than the one it is taken from, and empty only if there are none.        *)
(***************************************************************************)
LEMMA KeptElements ==
  ASSUME NEW S, NEW s \in Seq(S), NEW T
  PROVE  /\ Kept(s, T) \in Seq(S \cap T)
         /\ Len(Kept(s, T)) <= Len(s)
         /\ Elements(Kept(s, T)) = Elements(s) \cap T
<1>1. Len(s) \in Nat /\ DOMAIN s = 1..Len(s) /\ \A i \in 1..Len(s) : s[i] \in S
  OBVIOUS
<1>2. PICK f : /\ f = [n \in 0..Len(s) |-> Step(s, T, f, n)]
               /\ Kept(s, T) = f[Len(s)]
  BY <1>1, KeptRecursion
<1> DEFINE Good(n) == /\ f[n] \in Seq(S \cap T)
                      /\ Len(f[n]) <= n
                      /\ Elements(f[n]) = {s[i] : i \in 1..n} \cap T
           G == {n \in Nat : n <= Len(s) => Good(n)}
<1>3. 0 \in G
  <2>1. f[0] = <<>>
    BY <1>1, <1>2 DEF Step
  <2>2. <<>> \in Seq(S \cap T) /\ Len(<<>>) = 0
    OBVIOUS
  <2>3. Elements(<<>>) = {} /\ {s[i] : i \in 1..0} = {}
    BY DEF Elements
  <2>4. Good(0)
    BY <2>1, <2>2, <2>3
  <2>5. QED
    BY <2>4
<1>4. ASSUME NEW n \in G PROVE n + 1 \in G
  <2> SUFFICES ASSUME n + 1 <= Len(s) PROVE Good(n + 1)
    OBVIOUS
  <2>1. Good(n) /\ n + 1 \in 1..Len(s) /\ s[n + 1] \in S
    BY <1>1
  <2>2. f[n + 1] = IF s[n + 1] \in T THEN Append(f[n], s[n + 1]) ELSE f[n]
    <3>1. n + 1 \in 0..Len(s) /\ n + 1 # 0 /\ (n + 1) - 1 = n
      BY <1>1
    <3>2. f[n + 1] = Step(s, T, f, n + 1)
      BY <1>2, <3>1
    <3>3. QED
      BY <3>1, <3>2 DEF Step
  <2>3. {s[i] : i \in 1..n + 1} = {s[i] : i \in 1..n} \cup {s[n + 1]}
    OBVIOUS
  <2>4. CASE s[n + 1] \in T
    <3>1. PICK q, e : /\ q = f[n] /\ e = s[n + 1] /\ f[n + 1] = Append(q, e)
                      /\ q \in Seq(S \cap T) /\ e \in S \cap T
      BY <2>1, <2>2, <2>4
    <3>2. /\ Append(q, e) \in Seq(S \cap T)
          /\ Len(Append(q, e)) = Len(q) + 1 /\ Len(q) \in Nat
          /\ \A i \in 1..Len(q) : Append(q, e)[i] = q[i]
          /\ Append(q, e)[Len(q) + 1] = e
      BY <3>1, AppendProperties
    <3>3. Elements(Append(q, e)) = Elements(q) \cup {e}
      BY <3>2 DEF Elements
    <3>4. Elements(f[n + 1]) = {s[i] : i \in 1..n + 1} \cap T
      <4>1. Elements(f[n + 1]) = Elements(f[n]) \cup {s[n + 1]}
        BY <3>1, <3>3
      <4>2. Elements(f[n]) = {s[i] : i \in 1..n} \cap T
        BY <2>1
      <4>3. QED
        BY <2>3, <2>4, <4>1, <4>2
    <3>5. Len(f[n + 1]) <= n + 1
      BY <2>1, <3>1, <3>2
    <3>6. QED
      BY <3>1, <3>2, <3>4, <3>5
  <2>5. CASE s[n + 1] \notin T
    BY <2>1, <2>2, <2>3, <2>5
  <2>6. QED
    BY <2>4, <2>5
<1>5. Len(s) \in G
  BY <1>1, <1>3, <1>4, SetInduction
<1>6. Good(Len(s))
  BY <1>1, <1>5
<1>7. /\ Kept(s, T) \in Seq(S \cap T)
      /\ Len(Kept(s, T)) <= Len(s)
      /\ Elements(Kept(s, T)) = Elements(s) \cap T
  BY <1>2, <1>6 DEF Elements
<1>8. QED
  BY <1>7

=============================================================================
