---------------------------- MODULE ClientProofs ----------------------------
(***************************************************************************)
(* What the clients of the providers make of a conversation and of a body, *)
(* for any messages, any events and any reads.  Before it what is proved   *)
(* once: for the loops of the code, which are recursive functions here,    *)
(* and for its filters, where each chosen place has its rank.  After it    *)
(* the decoder: how a body is laid out, what of it the buffer holds, and   *)
(* what the data of a frame are decoded to.                                *)
(***************************************************************************)
EXTENDS ProviderClients, Integers, FiniteSetTheorems, TLAPS

\* A set of numbers that is not empty has a least one.
LEMMA LeastPlace ==
    ASSUME NEW S \in SUBSET Nat, S # {}
    PROVE  \E i \in S : \A j \in S : i <= j
<1>1. PICK i \in S : \A j \in S : ~(<<j, i>> \in OpToRel(<, Nat))
    BY NatLessThanWellFounded, WFMin
<1>2. \A j \in S : ~(j < i)
    BY <1>1 DEF OpToRel
<1> QED
    BY <1>2

\* What holds at 0 and, with n, at n + 1, holds up to N.
LEMMA Induction ==
    ASSUME NEW N \in Nat, NEW S \in SUBSET (0 .. N),
           0 \in S, \A n \in S : n < N => n + 1 \in S
    PROVE  S = 0 .. N
<1> SUFFICES ASSUME S # 0 .. N
             PROVE  FALSE
    OBVIOUS
<1> DEFINE missed == (0 .. N) \ S
<1>1. missed \in SUBSET Nat /\ missed # {}
    <2>1. \A n \in 0 .. N : n \in Nat
        OBVIOUS
    <2> QED
        BY <2>1
<1>2. PICK i \in missed : \A j \in missed : i <= j
    BY <1>1, LeastPlace
<1>3. i # 0 /\ i \in 0 .. N /\ i - 1 \in 0 .. N /\ i - 1 \notin missed
    BY <1>2
<1>4. i - 1 \in S /\ i - 1 < N
    BY <1>3
<1>5. (i - 1) + 1 \in S
    BY <1>4
<1> QED
    BY <1>2, <1>3, <1>5

\* f tells how far a loop is after each of N rounds.
Loops(f, N, a, g) == f[0] = a /\ \A n \in 1 .. N : f[n] = g[<<n, f[n - 1]>>]

\* Every loop has its states: a round g takes the state it finds to the next.
LEMMA Iteration ==
    ASSUME NEW N \in Nat, NEW T, NEW a \in T, NEW g \in [(1 .. N) \X T -> T]
    PROVE  \E f \in [0 .. N -> T] : Loops(f, N, a, g)
<1> DEFINE Runs(f, k) == /\ f \in [0 .. k -> T] /\ f[0] = a
                         /\ \A n \in 1 .. k : f[n] = g[<<n, f[n - 1]>>]
           S == {k \in 0 .. N : \E f : Runs(f, k)}
<1>1. 0 \in S
    <2>1. Runs([n \in 0 .. 0 |-> a], 0)
        OBVIOUS
    <2> HIDE DEF Runs
    <2> QED
        BY <2>1
<1>2. ASSUME NEW k \in S, k < N
      PROVE  k + 1 \in S
    <2>1. PICK f : Runs(f, k)
        OBVIOUS
    <2> DEFINE h == [n \in 0 .. k + 1 |-> IF n = k + 1 THEN g[<<k + 1, f[k]>>] ELSE f[n]]
    <2>0. k \in Nat /\ k + 1 \in 1 .. N /\ k + 1 \in 0 .. N
        <3>1. k \in 0 .. N
            OBVIOUS
        <3> HIDE DEF S
        <3> QED
            BY <1>2, <3>1
    <2>2. g[<<k + 1, f[k]>>] \in T
        BY <2>0, <2>1
    <2>3. h \in [0 .. k + 1 -> T]
        BY <2>0, <2>1, <2>2
    <2>4. h[0] = a
        BY <2>0, <2>1
    <2>5. \A n \in 1 .. k + 1 : h[n] = g[<<n, h[n - 1]>>]
        <3> SUFFICES ASSUME NEW n \in 1 .. k + 1
                     PROVE  h[n] = g[<<n, h[n - 1]>>]
            OBVIOUS
        <3>1. CASE n = k + 1
            <4>1. h[n] = g[<<k + 1, f[k]>>] /\ h[n - 1] = f[k]
                BY <2>0, <3>1
            <4> QED
                BY <3>1, <4>1
        <3>2. CASE n # k + 1
            <4>1. n \in 1 .. k /\ n - 1 \in 0 .. k
                BY <2>0, <3>2
            <4>2. h[n] = f[n] /\ h[n - 1] = f[n - 1]
                BY <2>0, <4>1
            <4> QED
                BY <2>1, <4>1, <4>2
        <3> QED
            BY <3>1, <3>2
    <2>6. Runs(h, k + 1)
        BY <2>3, <2>4, <2>5
    <2> HIDE DEF h, Runs
    <2> QED
        BY <2>0, <2>6
<1>3. S = 0 .. N
    <2> HIDE DEF S
    <2>1. S \in SUBSET (0 .. N)
        BY DEF S
    <2> QED
        BY <1>1, <1>2, <2>1, Induction
<1>4. N \in S
    BY <1>3
<1> QED
    BY <1>4 DEF Loops

\* The places in a list of length m are finite, and fewer in a proper part.
LEMMA PlacesFinite ==
    ASSUME NEW m \in Nat, NEW P \in SUBSET (1 .. m)
    PROVE  /\ IsFiniteSet(P) /\ Cardinality(P) \in Nat /\ Cardinality(P) <= m
           /\ \A Q \in SUBSET P :
                /\ IsFiniteSet(Q) /\ Cardinality(Q) \in Nat
                /\ Cardinality(Q) <= Cardinality(P)
                /\ Q # P => Cardinality(Q) < Cardinality(P)
<1>1. IsFiniteSet(1 .. m) /\ Cardinality(1 .. m) = m
    BY FS_Interval
<1>2. IsFiniteSet(P) /\ Cardinality(P) \in Nat /\ Cardinality(P) <= m
    BY <1>1, FS_Subset, FS_CardinalityType
<1>3. ASSUME NEW Q \in SUBSET P
      PROVE  /\ IsFiniteSet(Q) /\ Cardinality(Q) \in Nat
             /\ Cardinality(Q) <= Cardinality(P)
             /\ Q # P => Cardinality(Q) < Cardinality(P)
    <2>1. /\ IsFiniteSet(Q) /\ Cardinality(Q) <= Cardinality(P)
          /\ (Cardinality(Q) = Cardinality(P) => Q = P)
        BY <1>2, FS_Subset
    <2>2. Cardinality(Q) \in Nat
        BY <2>1, FS_CardinalityType
    <2> QED
        BY <1>2, <2>1, <2>2
<1> QED
    BY <1>2, <1>3

\* The places up to one of them: one more than those before it.
LEMMA UpToIs ==
    ASSUME NEW m \in Nat, NEW P \in SUBSET (1 .. m)
    PROVE  /\ \A i : UpTo(P, i) \in SUBSET P
           /\ UpTo(P, m) = P /\ UpTo(P, 0) = {}
           /\ \A i \in 1 .. m : i \notin P => UpTo(P, i) = UpTo(P, i - 1)
           /\ \A i \in 1 .. m : i \in P =>
                UpTo(P, i) = UpTo(P, i - 1) \union {i} /\ i \notin UpTo(P, i - 1)
<1>1. \A j \in P : j \in Nat /\ 1 <= j /\ j <= m
    OBVIOUS
<1>2. \A i, j : j \in UpTo(P, i) <=> j \in P /\ j <= i
    BY DEF UpTo
<1>3. \A i : UpTo(P, i) \in SUBSET P
    BY <1>2
<1>4. UpTo(P, m) = P
    <2>1. \A j : j \in UpTo(P, m) <=> j \in P
        BY <1>1, <1>2
    <2> QED
        BY <2>1, <1>3
<1>5. UpTo(P, 0) = {}
    <2>1. \A j \in P : ~(j <= 0)
        BY <1>1
    <2> QED
        BY <1>2, <2>1
<1>6. ASSUME NEW i \in 1 .. m, i \notin P
      PROVE  UpTo(P, i) = UpTo(P, i - 1)
    <2>1. \A j \in P : j <= i <=> j <= i - 1
        BY <1>1, <1>6
    <2>2. \A j : j \in UpTo(P, i) <=> j \in UpTo(P, i - 1)
        BY <1>2, <2>1
    <2>3. UpTo(P, i) \in SUBSET P /\ UpTo(P, i - 1) \in SUBSET P
        BY <1>3
    <2> QED
        BY ONLY <2>2, <2>3
<1>7. ASSUME NEW i \in 1 .. m, i \in P
      PROVE  UpTo(P, i) = UpTo(P, i - 1) \union {i} /\ i \notin UpTo(P, i - 1)
    <2>1. \A j \in P : j <= i <=> j <= i - 1 \/ j = i
        BY <1>1
    <2>2. \A j : j \in UpTo(P, i) <=> j \in UpTo(P, i - 1) \union {i}
        BY <1>2, <1>7, <2>1
    <2>3. i \notin UpTo(P, i - 1)
        <3>1. ~(i <= i - 1)
            OBVIOUS
        <3> QED
            BY <1>2, <3>1
    <2>4. UpTo(P, i) = UpTo(P, i - 1) \union {i}
        BY ONLY <2>2
    <2> QED
        BY <2>3, <2>4
<1> QED
    BY <1>3, <1>4, <1>5, <1>6, <1>7

\* The place of a rank has that rank.
LEMMA NthIs ==
    ASSUME NEW m \in Nat, NEW P \in SUBSET (1 .. m), NEW n \in 1 .. Cardinality(P)
    PROVE  Nth(P, n) \in P /\ Cardinality(UpTo(P, Nth(P, n))) = n
<1> DEFINE Rank(i) == Cardinality(UpTo(P, i))
<1>1. Cardinality(P) \in Nat /\ IsFiniteSet(P)
    BY PlacesFinite
<1>2. \A i \in 0 .. m : UpTo(P, i) \in SUBSET P
    BY UpToIs
<1>3. \A i \in 0 .. m : Rank(i) \in Nat /\ IsFiniteSet(UpTo(P, i))
    <2> TAKE i \in 0 .. m
    <2>1. UpTo(P, i) \in SUBSET P
        BY <1>2
    <2> QED
        BY <2>1, PlacesFinite
<1>4. UpTo(P, m) = P /\ UpTo(P, 0) = {}
    BY UpToIs
<1>5. \A i \in 1 .. m : i \notin P => UpTo(P, i) = UpTo(P, i - 1)
    BY UpToIs
<1>6. \A i \in 1 .. m : i \in P =>
        UpTo(P, i) = UpTo(P, i - 1) \union {i} /\ i \notin UpTo(P, i - 1)
    BY UpToIs
<1>7. \A i \in 1 .. m : i \in P => Rank(i) = Rank(i - 1) + 1
    <2> TAKE i \in 1 .. m
    <2> HAVE i \in P
    <2>1. IsFiniteSet(UpTo(P, i - 1))
        BY <1>3
    <2> QED
        BY <1>6, <2>1, FS_AddElement
<1>8. Rank(0) = 0
    BY <1>4, FS_EmptySet
<1> DEFINE High == {i \in 0 .. m : Rank(i) >= n}
<1>9. High \in SUBSET Nat /\ m \in High
    BY <1>1, <1>4
<1> HIDE DEF High
<1>10. PICK i \in High : \A j \in High : i <= j
    BY <1>9, LeastPlace
<1> HIDE DEF Rank
<1>11. i \in 1 .. m /\ Rank(i) >= n
    BY <1>8, <1>10 DEF High
<1>12. i - 1 \in 0 .. m /\ Rank(i - 1) < n
    BY <1>1, <1>3, <1>10, <1>11 DEF High
<1>13. i \in P
    BY <1>5, <1>11, <1>12, <1>3 DEF Rank
<1>14. Rank(i) = n
    BY <1>3, <1>7, <1>11, <1>12, <1>13
<1> QED
    BY <1>13, <1>14 DEF Nth, Rank

\* Later places have higher ranks.
LEMMA RankGrows ==
    ASSUME NEW m \in Nat, NEW P \in SUBSET (1 .. m), NEW i \in P, NEW j \in P, i < j
    PROVE  Cardinality(UpTo(P, i)) < Cardinality(UpTo(P, j))
<1>1. \A k \in P : k \in Nat
    OBVIOUS
<1>2. \A k \in P : (k <= i => k <= j) /\ j <= j /\ ~(j <= i)
    BY <1>1
<1>3. \A k, l : k \in UpTo(P, l) <=> k \in P /\ k <= l
    BY DEF UpTo
<1>4. UpTo(P, i) \in SUBSET UpTo(P, j) /\ UpTo(P, i) # UpTo(P, j)
    BY <1>2, <1>3
<1>5. UpTo(P, j) \in SUBSET (1 .. m)
    BY <1>3
<1> QED
    BY <1>4, <1>5, PlacesFinite

\* Each place has a rank, whose place it is.
LEMMA RankIs ==
    ASSUME NEW m \in Nat, NEW P \in SUBSET (1 .. m), NEW i \in P
    PROVE  /\ Cardinality(UpTo(P, i)) \in 1 .. Cardinality(P)
           /\ Nth(P, Cardinality(UpTo(P, i))) = i
<1> DEFINE n == Cardinality(UpTo(P, i))
<1>1. UpTo(P, i) \in SUBSET P /\ i \in UpTo(P, i)
    BY DEF UpTo
<1>2. n \in Nat /\ n <= Cardinality(P) /\ Cardinality(P) \in Nat /\ IsFiniteSet(UpTo(P, i))
    BY <1>1, PlacesFinite
<1>3. n # 0
    BY <1>1, <1>2, FS_EmptySet
<1>4. n \in 1 .. Cardinality(P)
    BY <1>2, <1>3
<1>5. Nth(P, n) \in P /\ Cardinality(UpTo(P, Nth(P, n))) = n
    BY <1>4, NthIs
<1> DEFINE k == Nth(P, n)
<1>6. k \in P /\ Cardinality(UpTo(P, k)) = n
    BY <1>5
<1> HIDE DEF k
<1>7. ~(k < i) /\ ~(i < k)
    <2>1. k < i => Cardinality(UpTo(P, k)) < n
        BY <1>6, RankGrows
    <2>2. i < k => n < Cardinality(UpTo(P, k))
        BY <1>6, RankGrows
    <2> QED
        BY <1>2, <1>6, <2>1, <2>2
<1>8. k \in Nat /\ i \in Nat
    BY <1>6
<1>9. k = i
    BY <1>7, <1>8
<1> QED
    BY <1>4, <1>9 DEF k

\* Places chosen keep their order.
LEMMA NthRises ==
    ASSUME NEW m \in Nat, NEW P \in SUBSET (1 .. m)
    PROVE  \A i, j \in 1 .. Cardinality(P) : i < j => Nth(P, i) < Nth(P, j)
<1> SUFFICES ASSUME NEW i \in 1 .. Cardinality(P), NEW j \in 1 .. Cardinality(P), i < j
             PROVE  Nth(P, i) < Nth(P, j)
    OBVIOUS
<1>1. Cardinality(P) \in Nat
    BY PlacesFinite
<1>2. /\ Nth(P, i) \in P /\ Cardinality(UpTo(P, Nth(P, i))) = i
      /\ Nth(P, j) \in P /\ Cardinality(UpTo(P, Nth(P, j))) = j
    BY NthIs
<1>3. Nth(P, i) \in Nat /\ Nth(P, j) \in Nat /\ Nth(P, i) # Nth(P, j)
    <2>1. \A p \in P : p \in Nat
        OBVIOUS
    <2>2. i # j
        BY <1>1
    <2> QED
        BY <1>2, <2>1, <2>2
<1>4. ~(Nth(P, j) < Nth(P, i))
    <2>1. Nth(P, j) < Nth(P, i) => j < i
        BY <1>2, RankGrows
    <2> QED
        BY <1>1, <2>1
<1> QED
    BY <1>3, <1>4

\* What Chosen returns: elements of the chosen places, each once, in order.
LEMMA ChosenIs ==
    ASSUME NEW T, NEW s \in Seq(T), NEW P \in SUBSET DOMAIN s
    PROVE  /\ Chosen(s, P) \in Seq(T)
           /\ Len(Chosen(s, P)) = Cardinality(P) /\ Cardinality(P) \in Nat
           /\ DOMAIN Chosen(s, P) = 1 .. Cardinality(P)
           /\ \A n \in 1 .. Cardinality(P) :
                Nth(P, n) \in P /\ Chosen(s, P)[n] = s[Nth(P, n)]
           /\ \A n, k \in 1 .. Cardinality(P) : n < k => Nth(P, n) < Nth(P, k)
<1>1. Len(s) \in Nat /\ P \in SUBSET (1 .. Len(s))
    OBVIOUS
<1>2. Cardinality(P) \in Nat
    BY <1>1, PlacesFinite
<1>3. \A n \in 1 .. Cardinality(P) : Nth(P, n) \in P /\ Cardinality(UpTo(P, Nth(P, n))) = n
    BY <1>1, NthIs
<1>4. \A n \in 1 .. Cardinality(P) : s[Nth(P, n)] \in T
    BY <1>3
<1>5. Chosen(s, P) \in [1 .. Cardinality(P) -> T]
    BY <1>4 DEF Chosen
<1>6. /\ Chosen(s, P) \in Seq(T) /\ Len(Chosen(s, P)) = Cardinality(P)
      /\ DOMAIN Chosen(s, P) = 1 .. Cardinality(P)
    BY <1>2, <1>5
<1>7. \A n \in 1 .. Cardinality(P) : Chosen(s, P)[n] = s[Nth(P, n)]
    BY DEF Chosen
<1>8. \A n, k \in 1 .. Cardinality(P) : n < k => Nth(P, n) < Nth(P, k)
    BY <1>1, NthRises
<1> QED
    BY <1>2, <1>3, <1>6, <1>7, <1>8

\* The places are listed by their ranks, and by nothing else that rises.
LEMMA OnlyByRank ==
    ASSUME NEW m \in Nat, NEW P \in SUBSET (1 .. m), NEW k \in Nat, NEW g \in [1 .. k -> P],
           \A i, j \in 1 .. k : i < j => g[i] < g[j],
           \A p \in P : \E i \in 1 .. k : g[i] = p
    PROVE  k = Cardinality(P) /\ \A i \in 1 .. k : Nth(P, i) = g[i]
<1>1. \A p \in P : p \in Nat /\ 1 <= p /\ p <= m
    OBVIOUS
<1>2. \A i \in 1 .. k : g[i] \in P
    OBVIOUS
<1>3. \A i, j \in 1 .. k : g[i] <= g[j] <=> i <= j
    <2> SUFFICES ASSUME NEW i \in 1 .. k, NEW j \in 1 .. k
                 PROVE  g[i] <= g[j] <=> i <= j
        OBVIOUS
    <2>1. g[i] \in Nat /\ g[j] \in Nat
        BY <1>1, <1>2
    <2>2. CASE i < j
        BY <2>1, <2>2
    <2>3. CASE j < i
        BY <2>1, <2>3
    <2>4. CASE i = j
        BY <2>1, <2>4
    <2> QED
        BY <2>2, <2>3, <2>4
<1>4. ASSUME NEW n \in 0 .. k
      PROVE  Cardinality({g[i] : i \in 1 .. n}) = n
    <2> DEFINE S == {g[i] : i \in 1 .. n}
               h == [i \in 1 .. n |-> g[i]]
    <2>1. h \in Bijection(1 .. n, S)
        <3>1. h \in [1 .. n -> S]
            OBVIOUS
        <3>2. \A i, j \in 1 .. n : h[i] = h[j] => i = j
            <4> SUFFICES ASSUME NEW i \in 1 .. n, NEW j \in 1 .. n, g[i] = g[j]
                         PROVE  i = j
                OBVIOUS
            <4>1. i \in 1 .. k /\ j \in 1 .. k /\ g[i] \in Nat
                <5>1. i \in 1 .. k /\ j \in 1 .. k
                    OBVIOUS
                <5> QED
                    BY <1>1, <1>2, <5>1
            <4>2. g[i] <= g[j] /\ g[j] <= g[i]
                BY <4>1
            <4>3. i <= j /\ j <= i
                BY <1>3, <4>1, <4>2
            <4> QED
                BY <4>3
        <3>3. \A s \in S : \E i \in 1 .. n : h[i] = s
            OBVIOUS
        <3> QED
            BY <3>1, <3>2, <3>3 DEF Bijection, Injection, Surjection, IsInjective
    <2>2. ExistsBijection(1 .. n, S)
        BY <2>1 DEF ExistsBijection
    <2> QED
        BY <2>2, FS_CountingElements
<1>5. P = {g[i] : i \in 1 .. k}
    BY <1>2
<1>6. k = Cardinality(P)
    BY <1>4, <1>5
<1>7. ASSUME NEW n \in 1 .. k
      PROVE  Nth(P, n) = g[n]
    <2>1. UpTo(P, g[n]) = {g[i] : i \in 1 .. n}
        <3>1. \A p \in P : p <= g[n] <=> p \in {g[i] : i \in 1 .. n}
            <4> TAKE p \in P
            <4>1. PICK i \in 1 .. k : g[i] = p
                OBVIOUS
            <4>2. p <= g[n] <=> i <= n
                BY <1>3, <4>1
            <4>3. i <= n => p \in {g[j] : j \in 1 .. n}
                BY <4>1
            <4>4. ASSUME NEW j \in 1 .. n, g[j] = p
                  PROVE  i <= n
                <5>1. j \in 1 .. k /\ g[j] <= g[n]
                    BY <1>3
                <5> QED
                    BY <4>2, <4>4, <5>1
            <4> QED
                BY <4>2, <4>3, <4>4
        <3>2. {g[i] : i \in 1 .. n} \subseteq P
            BY <1>2
        <3> QED
            BY <3>1, <3>2 DEF UpTo
    <2>2. Cardinality(UpTo(P, g[n])) = n
        BY <1>4, <2>1
    <2>3. g[n] \in P
        BY <1>2
    <2> QED
        BY <2>2, <2>3, RankIs
<1> QED
    BY <1>6, <1>7

\* What was chosen of what was chosen.
LEMMA NthOfChosen ==
    ASSUME NEW m \in Nat, NEW A \in SUBSET (1 .. m),
           NEW B \in SUBSET (1 .. Cardinality(A)), NEW C \in SUBSET A,
           \A n \in 1 .. Cardinality(A) : n \in B <=> Nth(A, n) \in C
    PROVE  /\ Cardinality(B) = Cardinality(C)
           /\ \A k \in 1 .. Cardinality(B) :
                Nth(B, k) \in B /\ Nth(C, k) = Nth(A, Nth(B, k))
<1> DEFINE a == Cardinality(A)
           b == Cardinality(B)
           g == [k \in 1 .. b |-> Nth(A, Nth(B, k))]
<1>1. a \in Nat
    BY PlacesFinite
<1>2. B \in SUBSET (1 .. a)
    OBVIOUS
<1> HIDE DEF a
<1>3. b \in Nat
    BY <1>1, <1>2, PlacesFinite
<1> HIDE DEF b
<1>4. \A k \in 1 .. b : Nth(B, k) \in B /\ Nth(B, k) \in 1 .. a
    BY <1>1, <1>2, NthIs DEF b
<1>5. \A n \in 1 .. a : Nth(A, n) \in A
    BY NthIs DEF a
<1>6. \A k \in 1 .. b : g[k] \in C
    BY <1>4 DEF a
<1>7. \A i, j \in 1 .. b : i < j => Nth(B, i) < Nth(B, j)
    BY <1>1, <1>2, NthRises DEF b
<1>8. \A i, j \in 1 .. a : i < j => Nth(A, i) < Nth(A, j)
    BY NthRises DEF a
<1>9. \A i, j \in 1 .. b : i < j => g[i] < g[j]
    BY <1>4, <1>7, <1>8
<1>10. \A p \in C : \E k \in 1 .. b : g[k] = p
    <2> TAKE p \in C
    <2>1. PICK n \in 1 .. a : Nth(A, n) = p
        BY RankIs DEF a
    <2>2. n \in B
        BY <2>1 DEF a
    <2>3. PICK k \in 1 .. b : Nth(B, k) = n
        BY <1>1, <1>2, <2>2, RankIs DEF b
    <2> QED
        BY <2>1, <2>3
<1>11. g \in [1 .. b -> C] /\ C \in SUBSET (1 .. m)
    BY <1>6
<1>12. \A k \in 1 .. b : g[k] = Nth(A, Nth(B, k))
    OBVIOUS
<1> HIDE DEF g
<1>13. b = Cardinality(C) /\ \A k \in 1 .. b : Nth(C, k) = g[k]
    BY <1>3, <1>9, <1>10, <1>11, OnlyByRank
<1> QED
    BY <1>4, <1>12, <1>13 DEF b

\* Where every place is chosen, the n-th is n.
LEMMA NthOfAll ==
    ASSUME NEW m \in Nat
    PROVE  /\ Cardinality(1 .. m) = m
           /\ \A n \in 1 .. m : Nth(1 .. m, n) = n
<1> DEFINE g == [n \in 1 .. m |-> n]
<1>1. g \in [1 .. m -> 1 .. m] /\ \A n \in 1 .. m : g[n] = n
    OBVIOUS
<1> HIDE DEF g
<1>2. m = Cardinality(1 .. m) /\ \A n \in 1 .. m : Nth(1 .. m, n) = g[n]
    BY <1>1, OnlyByRank
<1> QED
    BY <1>1, <1>2

\* A filter that chooses the same of two lists keeps the same.
LEMMA SameChosen ==
    ASSUME NEW m \in Nat, NEW P \in SUBSET (1 .. m), NEW s, NEW t,
           \A i \in P : s[i] = t[i]
    PROVE  Chosen(s, P) = Chosen(t, P)
<1>1. \A n \in 1 .. Cardinality(P) : s[Nth(P, n)] = t[Nth(P, n)]
    BY NthIs
<1> QED
    BY <1>1 DEF Chosen

\* A list that grows: what is chosen of it grows by the last place, or not.
LEMMA ChosenOfAppended ==
    ASSUME NEW T, NEW s \in Seq(T), NEW x, NEW P \in SUBSET DOMAIN s
    PROVE  /\ Chosen(Append(s, x), P) = Chosen(s, P)
           /\ Chosen(Append(s, x), P \union {Len(s) + 1}) = Append(Chosen(s, P), x)
<1> DEFINE m == Len(s)
           c == Cardinality(P)
           Q == P \union {m + 1}
           g == [n \in 1 .. c + 1 |-> IF n = c + 1 THEN m + 1 ELSE Nth(P, n)]
           more == Append(s, x)
<1>1. m \in Nat /\ P \in SUBSET (1 .. m) /\ DOMAIN s = 1 .. m
    OBVIOUS
<1>2. \A i \in 1 .. m : more[i] = s[i]
    OBVIOUS
<1>3. more[m + 1] = x
    OBVIOUS
<1> HIDE DEF more, m
<1>4. Chosen(more, P) = Chosen(s, P)
    <2>1. \A i \in P : more[i] = s[i]
        BY <1>1, <1>2
    <2> QED
        BY <1>1, <2>1, SameChosen
<1>5. c \in Nat
    BY <1>1, PlacesFinite
<1> HIDE DEF c
<1>6. \A n \in 1 .. c : Nth(P, n) \in P /\ Nth(P, n) \in 1 .. m
    BY <1>1, NthIs DEF c
<1>7. \A i, j \in 1 .. c : i < j => Nth(P, i) < Nth(P, j)
    BY <1>1, NthRises DEF c
<1>8. /\ g \in [1 .. c + 1 -> Q] /\ g[c + 1] = m + 1
      /\ \A n \in 1 .. c : g[n] = Nth(P, n)
    BY <1>5, <1>6
<1> HIDE DEF g
<1>9. \A i, j \in 1 .. c + 1 : i < j => g[i] < g[j]
    <2> SUFFICES ASSUME NEW i \in 1 .. c + 1, NEW j \in 1 .. c + 1, i < j
                 PROVE  g[i] < g[j]
        OBVIOUS
    <2>1. i \in 1 .. c
        BY <1>5
    <2>2. CASE j = c + 1
        BY <1>1, <1>6, <1>8, <2>1, <2>2
    <2>3. CASE j \in 1 .. c
        BY <1>7, <1>8, <2>1, <2>3
    <2> QED
        BY <1>5, <2>2, <2>3
<1>10. \A p \in Q : \E n \in 1 .. c + 1 : g[n] = p
    <2> TAKE p \in Q
    <2>1. CASE p = m + 1
        BY <1>5, <1>8, <2>1
    <2>2. CASE p \in P
        <3>1. PICK n \in 1 .. c : Nth(P, n) = p
            BY <1>1, <2>2, RankIs DEF c
        <3> QED
            BY <1>5, <1>8, <3>1
    <2> QED
        BY <2>1, <2>2
<1>11. Q \in SUBSET (1 .. m + 1) /\ m + 1 \in Nat /\ c + 1 \in Nat
    BY <1>1, <1>5
<1> HIDE DEF Q
<1>12. Cardinality(Q) = c + 1 /\ \A n \in 1 .. c + 1 : Nth(Q, n) = g[n]
    BY <1>8, <1>9, <1>10, <1>11, OnlyByRank
<1>13. Chosen(more, Q) = [n \in 1 .. c + 1 |-> IF n = c + 1 THEN x ELSE s[Nth(P, n)]]
    <2>1. \A n \in 1 .. c + 1 :
            more[Nth(Q, n)] = IF n = c + 1 THEN x ELSE s[Nth(P, n)]
        <3> TAKE n \in 1 .. c + 1
        <3>1. CASE n = c + 1
            BY <1>3, <1>8, <1>12, <3>1
        <3>2. CASE n # c + 1
            <4>1. n \in 1 .. c
                BY <1>5, <3>2
            <4> QED
                BY <1>2, <1>6, <1>8, <1>12, <3>2, <4>1
        <3> QED
            BY <3>1, <3>2
    <2> QED
        BY <1>12, <2>1 DEF Chosen
<1>14. Chosen(s, P) = [n \in 1 .. c |-> s[Nth(P, n)]]
    BY DEF Chosen, c
<1> DEFINE kept == [n \in 1 .. c |-> s[Nth(P, n)]]
<1>15. kept \in Seq(T) /\ Len(kept) = c
    BY <1>1, <1>5, <1>6
<1>16. Append(kept, x) = [n \in 1 .. c + 1 |-> IF n = c + 1 THEN x ELSE kept[n]]
    <2> HIDE DEF kept
    <2>1. kept \in Seq(T \union {x}) /\ x \in T \union {x}
        BY <1>15
    <2> DEFINE longer == Append(kept, x)
    <2>2. longer \in Seq(T \union {x}) /\ Len(longer) = c + 1
        BY <1>15, <2>1
    <2>3. \A n \in 1 .. c + 1 : longer[n] = IF n = c + 1 THEN x ELSE kept[n]
        BY <1>15, <2>1
    <2> HIDE DEF longer
    <2>4. longer = [n \in 1 .. c + 1 |-> longer[n]]
        BY <2>2
    <2> QED
        BY <2>3, <2>4 DEF longer
<1>17. Append(kept, x) = [n \in 1 .. c + 1 |-> IF n = c + 1 THEN x ELSE s[Nth(P, n)]]
    <2>1. \A n \in 1 .. c + 1 : n # c + 1 => kept[n] = s[Nth(P, n)]
        BY <1>5
    <2> QED
        BY <1>16, <2>1
<1> QED
    BY <1>4, <1>13, <1>14, <1>17 DEF more, m, Q

-----------------------------------------------------------------------------
(* Who said what: the words of some roles in a request, and in the turns   *)
(* that went over the wire.                                                *)

Words(ms, roles) ==
    LET kept == OfRole(ms, roles) IN [i \in DOMAIN kept |-> TextOf(kept[i].content)]

Heard(turns, roles) ==
    LET kept == OfRole(turns, roles) IN [i \in DOMAIN kept |-> kept[i].text]

\* A conversation, and one without the results of functions.
IsChat(ms) ==
    /\ ms \in Seq({ms[i] : i \in DOMAIN ms})
    /\ \A i \in DOMAIN ms : ms[i].role \in Roles

IsTalk(ms) ==
    /\ ms \in Seq({ms[i] : i \in DOMAIN ms})
    /\ \A i \in DOMAIN ms : ms[i].role \in {"system", "user", "assistant"}

SaysTheSame(turns, ms) ==
    /\ Heard(turns, {"assistant", "model"}) = Words(ms, {"assistant"})
    /\ IsTalk(ms) =>
        /\ Heard(turns, {"user"}) = Words(ms, {"user"})
        /\ Heard(turns, {"user", "assistant", "model"}) = Words(ms, {"user", "assistant"})

\* The turns are the messages at some places, and R and Q name the same of them.
Tells(turns, ms, A, R, Q) ==
    /\ DOMAIN turns = 1 .. Cardinality(A)
    /\ \A n \in DOMAIN turns :
        /\ turns[n].text = TextOf(ms[Nth(A, n)].content)
        /\ turns[n].role \in R <=> ms[Nth(A, n)].role \in Q
    /\ \A i \in DOMAIN ms : ms[i].role \in Q => i \in A

\* Turns that tell some of the messages say what these say.
LEMMA HeardIs ==
    ASSUME NEW T, NEW ms \in Seq(T), NEW A \in SUBSET DOMAIN ms, NEW turns, NEW R, NEW Q,
           Tells(turns, ms, A, R, Q)
    PROVE  Heard(turns, R) = Words(ms, Q)
<1> DEFINE m == Len(ms)
           B == {n \in DOMAIN turns : turns[n].role \in R}
           C == {i \in DOMAIN ms : ms[i].role \in Q}
<1>1. m \in Nat /\ A \in SUBSET (1 .. m) /\ DOMAIN ms = 1 .. m
    OBVIOUS
<1> USE DEF Tells
<1>2. B \in SUBSET (1 .. Cardinality(A)) /\ C \in SUBSET A
    OBVIOUS
<1>3. \A n \in 1 .. Cardinality(A) : Nth(A, n) \in A
    BY <1>1, NthIs
<1>4. \A n \in 1 .. Cardinality(A) : n \in B <=> Nth(A, n) \in C
    BY <1>3
<1>5. Heard(turns, R) = [k \in 1 .. Cardinality(B) |-> turns[Nth(B, k)].text]
    BY DEF Heard, OfRole, Chosen
<1>6. Words(ms, Q) = [k \in 1 .. Cardinality(C) |-> TextOf(ms[Nth(C, k)].content)]
    BY DEF Words, OfRole, Chosen
<1> HIDE DEF m, B, C
<1>7. /\ Cardinality(B) = Cardinality(C)
      /\ \A k \in 1 .. Cardinality(B) :
            Nth(B, k) \in B /\ Nth(C, k) = Nth(A, Nth(B, k))
    BY <1>1, <1>2, <1>4, NthOfChosen
<1>8. \A k \in 1 .. Cardinality(B) :
        turns[Nth(B, k)].text = TextOf(ms[Nth(C, k)].content)
    BY <1>2, <1>7
<1> QED
    BY <1>5, <1>6, <1>7, <1>8

\* The messages as they are, which is what most clients write.
LEMMA AsTheyAre ==
    ASSUME NEW ms, IsChat(ms)
    PROVE  SaysTheSame([i \in DOMAIN ms |-> Turn(ms[i].role, ms[i])], ms)
<1> DEFINE T == {ms[i] : i \in DOMAIN ms}
           A == 1 .. Len(ms)
           turns == [i \in DOMAIN ms |-> Turn(ms[i].role, ms[i])]
<1>1. /\ ms \in Seq(T) /\ Len(ms) \in Nat /\ DOMAIN ms = 1 .. Len(ms)
      /\ \A i \in DOMAIN ms : ms[i].role \in Roles
    BY DEF IsChat
<1>2. Cardinality(A) = Len(ms) /\ \A n \in A : Nth(A, n) = n
    BY <1>1, NthOfAll
<1>3. /\ DOMAIN turns = 1 .. Cardinality(A)
      /\ \A n \in DOMAIN turns :
            /\ turns[n].text = TextOf(ms[Nth(A, n)].content)
            /\ turns[n].role = ms[Nth(A, n)].role
            /\ ms[Nth(A, n)].role \in Roles
    BY <1>1, <1>2 DEF Turn
<1>4. A \in SUBSET DOMAIN ms /\ \A i \in DOMAIN ms : i \in A
    BY <1>1
<1> HIDE DEF A, T, turns
<1>5. Heard(turns, {"user"}) = Words(ms, {"user"})
    <2>1. Tells(turns, ms, A, {"user"}, {"user"})
        BY <1>3, <1>4 DEF Tells, Roles
    <2> QED
        BY <1>1, <1>4, <2>1, HeardIs
<1>6. Heard(turns, {"assistant", "model"}) = Words(ms, {"assistant"})
    <2>1. Tells(turns, ms, A, {"assistant", "model"}, {"assistant"})
        BY <1>3, <1>4 DEF Tells, Roles
    <2> QED
        BY <1>1, <1>4, <2>1, HeardIs
<1>7. Heard(turns, {"user", "assistant", "model"}) = Words(ms, {"user", "assistant"})
    <2>1. Tells(turns, ms, A, {"user", "assistant", "model"}, {"user", "assistant"})
        BY <1>3, <1>4 DEF Tells, Roles
    <2> QED
        BY <1>1, <1>4, <2>1, HeardIs
<1> QED
    BY <1>5, <1>6, <1>7 DEF SaysTheSame, turns

\* Without the system messages, and under the provider's names for the roles.
LEMMA WithoutSystem ==
    ASSUME NEW ms, IsChat(ms), NEW turns,
           DOMAIN turns = DOMAIN OfRole(ms, Roles \ {"system"}),
           \A n \in DOMAIN turns :
            LET m == OfRole(ms, Roles \ {"system"})[n] IN
            /\ turns[n].text = TextOf(m.content)
            /\ m.role = "user" => turns[n].role = "user"
            /\ m.role = "assistant" <=> turns[n].role \in {"assistant", "model"}
    PROVE  SaysTheSame(turns, ms)
<1> DEFINE T == {ms[i] : i \in DOMAIN ms}
           A == {i \in DOMAIN ms : ms[i].role \in Roles \ {"system"}}
<1>1. /\ ms \in Seq(T) /\ Len(ms) \in Nat /\ DOMAIN ms = 1 .. Len(ms)
      /\ \A i \in DOMAIN ms : ms[i].role \in Roles
    BY DEF IsChat
<1>2. A \in SUBSET DOMAIN ms
    OBVIOUS
<1>3. OfRole(ms, Roles \ {"system"}) = Chosen(ms, A)
    BY DEF OfRole
<1>4. IsTalk(ms) => \A i \in A : ms[i].role \in {"user", "assistant"}
    BY DEF IsTalk, Roles
<1>5. \A i \in DOMAIN ms : ms[i].role \in {"user", "assistant"} => i \in A
    BY DEF Roles
<1> HIDE DEF A, T
<1>6. \A n \in 1 .. Cardinality(A) : Nth(A, n) \in A
    BY <1>1, <1>2, NthIs
<1>7. /\ DOMAIN turns = 1 .. Cardinality(A)
      /\ \A n \in DOMAIN turns :
            /\ turns[n].text = TextOf(ms[Nth(A, n)].content)
            /\ IsTalk(ms) => ms[Nth(A, n)].role \in {"user", "assistant"}
            /\ ms[Nth(A, n)].role = "user" => turns[n].role = "user"
            /\ ms[Nth(A, n)].role = "assistant" <=> turns[n].role \in {"assistant", "model"}
    BY <1>3, <1>4, <1>6 DEF Chosen
<1>8. ASSUME IsTalk(ms)
      PROVE  Heard(turns, {"user"}) = Words(ms, {"user"})
    <2>1. Tells(turns, ms, A, {"user"}, {"user"})
        BY <1>5, <1>7, <1>8 DEF Tells
    <2> QED
        BY <1>1, <1>2, <2>1, HeardIs
<1>9. Heard(turns, {"assistant", "model"}) = Words(ms, {"assistant"})
    <2>1. Tells(turns, ms, A, {"assistant", "model"}, {"assistant"})
        BY <1>5, <1>7 DEF Tells
    <2> QED
        BY <1>1, <1>2, <2>1, HeardIs
<1>10. ASSUME IsTalk(ms)
       PROVE  Heard(turns, {"user", "assistant", "model"}) = Words(ms, {"user", "assistant"})
    <2>1. Tells(turns, ms, A, {"user", "assistant", "model"}, {"user", "assistant"})
        BY <1>5, <1>7, <1>10 DEF Tells
    <2> QED
        BY <1>1, <1>2, <2>1, HeardIs
<1> QED
    BY <1>8, <1>9, <1>10 DEF SaysTheSame

\* Whichever provider a conversation goes to: it is told who said what, in the
\* order it was said, if it is told anything.
THEOREM ConversationIsHeard ==
    ASSUME NEW p \in ProviderNames, NEW request, IsChat(request.messages),
           request.system = <<>>, NEW reply,
           p \in {"openai", "deepseek", "anthropic"} => Valid(request)
    PROVE  SaysTheSame(SendRequest(p, request, reply).wire.turns, request.messages)
<1> DEFINE ms == request.messages
           same == [i \in DOMAIN ms |-> Turn(ms[i].role, ms[i])]
           kept == OfRole(ms, Roles \ {"system"})
           wire == SendRequest(p, request, reply).wire
<1>1. SaysTheSame(same, ms)
    BY AsTheyAre
<1>2. CASE p \in {"openai", "deepseek", "groq", "nvidia", "llamacpp"}
    <2>1. wire.turns = same
        BY <1>2 DEF SendRequest, OpenAiSend, DeepSeekSend, GroqSend, NvidiaSend, LlamaCppSend,
            OpenAiRequest, DeepSeekRequest, GroqRequest, NvidiaRequest, LlamaCppPrompt,
            Exchange, Wire
    <2> QED
        BY <1>1, <2>1
<1>3. CASE p = "ml-ops"
    <2>1. wire.turns = [i \in DOMAIN <<>> |-> [role |-> "system", text |-> <<(<<>>)[i]>>]] \o same
        BY <1>3 DEF SendRequest, MlOpsSend, MlOpsRequest, Exchange, Wire
    <2>2. same \in Seq({same[i] : i \in DOMAIN same})
        BY DEF IsChat
    <2>3. [i \in DOMAIN <<>> |-> [role |-> "system", text |-> <<(<<>>)[i]>>]] = <<>>
        OBVIOUS
    <2> HIDE DEF same
    <2>4. wire.turns = same
        BY <2>1, <2>2, <2>3
    <2> QED
        BY <1>1, <2>4
<1>4. CASE p = "anthropic"
    <2> DEFINE role(m) == IF m.role = "assistant" THEN "assistant" ELSE "user"
               turns == [i \in DOMAIN kept |-> Turn(role(kept[i]), kept[i])]
    <2>1. wire.turns = turns
        BY <1>4 DEF SendRequest, AnthropicSend, AnthropicRequest, Exchange, Wire
    <2>2. DOMAIN turns = DOMAIN kept
        OBVIOUS
    <2>3. \A n \in DOMAIN turns :
            /\ turns[n].text = TextOf(kept[n].content)
            /\ kept[n].role = "user" => turns[n].role = "user"
            /\ kept[n].role = "assistant" <=> turns[n].role \in {"assistant", "model"}
        BY DEF Turn
    <2> HIDE DEF turns
    <2> QED
        BY <2>1, <2>2, <2>3, WithoutSystem
<1>5. CASE p = "gemini"
    <2> DEFINE turns == [i \in DOMAIN kept |-> Turn(GeminiRole(kept[i].role), kept[i])]
    <2>1. wire.turns = turns
        BY <1>5 DEF SendRequest, GeminiSend, GeminiRequest, Exchange, Wire
    <2>2. DOMAIN turns = DOMAIN kept
        OBVIOUS
    <2>3. \A n \in DOMAIN turns :
            /\ turns[n].text = TextOf(kept[n].content)
            /\ kept[n].role = "user" => turns[n].role = "user"
            /\ kept[n].role = "assistant" <=> turns[n].role \in {"assistant", "model"}
        BY DEF Turn, GeminiRole
    <2> HIDE DEF turns
    <2> QED
        BY <2>1, <2>2, <2>3, WithoutSystem
<1> QED
    BY <1>2, <1>3, <1>4, <1>5 DEF ProviderNames

\* A plain text is its own words.
LEMMA PlainTextIs ==
    ASSUME NEW text
    PROVE  TextOf(PlainText(text)) = <<text>>
<1> DEFINE part == [kind |-> "text", text |-> text]
           parts == <<part>>
           places == {i \in DOMAIN parts : parts[i].kind = "text"}
<1>1. part.kind = "text" /\ part.text = text
    OBVIOUS
<1>2. PlainText(text).parts = parts
    BY DEF PlainText
<1> HIDE DEF part
<1>3. parts[1] = part /\ DOMAIN parts = 1 .. 1
    OBVIOUS
<1> HIDE DEF parts
<1>4. places = 1 .. 1
    BY <1>1, <1>3
<1>5. Cardinality(1 .. 1) = 1 /\ Nth(1 .. 1, 1) = 1
    BY NthOfAll
<1>6. Chosen(parts, places) = [n \in 1 .. 1 |-> part]
    <2>1. \A n \in 1 .. 1 : Nth(places, n) = 1
        BY <1>4, <1>5
    <2> QED
        BY <1>3, <1>4, <1>5, <2>1 DEF Chosen
<1>7. TextOf(PlainText(text)) = [n \in 1 .. 1 |-> text]
    <2> DEFINE kept == Chosen(parts, places)
    <2>1. TextOf(PlainText(text)) = [n \in DOMAIN kept |-> kept[n].text]
        BY <1>2 DEF TextOf
    <2>2. DOMAIN kept = 1 .. 1 /\ \A n \in 1 .. 1 : kept[n].text = text
        BY <1>1, <1>6
    <2> HIDE DEF kept
    <2> QED
        BY <2>1, <2>2
<1> QED
    BY <1>7

\* A function on 1 .. n is a list; so it is with one more element.
LEMMA AppendIs ==
    ASSUME NEW n \in Nat, NEW f, f = [i \in 1 .. n |-> f[i]], NEW x
    PROVE  /\ Append(f, x) = [i \in 1 .. n + 1 |-> IF i = n + 1 THEN x ELSE f[i]]
           /\ f \in Seq({f[i] : i \in 1 .. n}) /\ Len(f) = n
<1> DEFINE T == {f[i] : i \in 1 .. n} \union {x}
           longer == Append(f, x)
<1>1. f \in [1 .. n -> T] /\ x \in T /\ f \in [1 .. n -> {f[i] : i \in 1 .. n}]
    OBVIOUS
<1>2. f \in Seq({f[i] : i \in 1 .. n})
    BY <1>1
<1> HIDE DEF T
<1>3. f \in Seq(T) /\ Len(f) = n /\ DOMAIN f = 1 .. n
    BY <1>1
<1>4. longer \in Seq(T) /\ Len(longer) = n + 1 /\ DOMAIN longer = 1 .. n + 1
    BY <1>1, <1>3
<1>5. \A i \in 1 .. n + 1 : longer[i] = IF i = n + 1 THEN x ELSE f[i]
    BY <1>1, <1>3
<1> HIDE DEF longer
<1>6. longer = [i \in 1 .. n + 1 |-> longer[i]]
    BY <1>4
<1> QED
    BY <1>2, <1>3, <1>5, <1>6 DEF longer

\* A message more: its words come last of those of its role.
LEMMA WordsOfSaid ==
    ASSUME NEW ms, IsTalk(ms), NEW role \in {"system", "user", "assistant"}, NEW text
    PROVE  /\ IsTalk(Append(ms, Said(role, text)))
           /\ \A roles : Words(Append(ms, Said(role, text)), roles) =
                IF role \in roles THEN Append(Words(ms, roles), <<text>>)
                ELSE Words(ms, roles)
<1> DEFINE m == Said(role, text)
           T == {ms[i] : i \in DOMAIN ms}
           more == Append(ms, m)
           n == Len(ms)
<1>1. m.role = role /\ m.content = PlainText(text)
    BY DEF Said
<1>2. TextOf(m.content) = <<text>>
    BY <1>1, PlainTextIs
<1> HIDE DEF m
<1>3. /\ ms \in Seq(T) /\ n \in Nat /\ DOMAIN ms = 1 .. n
      /\ \A i \in DOMAIN ms : ms[i].role \in {"system", "user", "assistant"}
    BY DEF IsTalk
<1>4. ms = [i \in 1 .. n |-> ms[i]]
    BY <1>3
<1>5. /\ more = [i \in 1 .. n + 1 |-> IF i = n + 1 THEN m ELSE ms[i]]
    BY <1>3, <1>4, AppendIs
<1>6. /\ DOMAIN more = 1 .. n + 1 /\ more[n + 1] = m
      /\ \A i \in 1 .. n : more[i] = ms[i]
    BY <1>3, <1>5
<1>7. IsTalk(more)
    <2>1. more = [i \in 1 .. n + 1 |-> more[i]] /\ n + 1 \in Nat
        BY <1>3, <1>5, <1>6
    <2> HIDE DEF more
    <2>2. more \in Seq({more[i] : i \in 1 .. n + 1})
        BY <2>1, AppendIs
    <2>3. \A i \in DOMAIN more : i \in 1 .. n \/ i = n + 1
        BY <1>3, <1>6
    <2>4. \A i \in DOMAIN more : more[i].role \in {"system", "user", "assistant"}
        BY <1>1, <1>3, <1>6, <2>3
    <2> QED
        BY <1>6, <2>2, <2>4 DEF IsTalk
<1>8. ASSUME NEW roles
      PROVE  Words(more, roles) = IF role \in roles THEN Append(Words(ms, roles), <<text>>)
                                  ELSE Words(ms, roles)
    <2> DEFINE P == {i \in DOMAIN ms : ms[i].role \in roles}
               kept == Chosen(ms, P)
               c == Cardinality(P)
    <2>1. P \in SUBSET DOMAIN ms
        OBVIOUS
    <2>2. OfRole(ms, roles) = kept
        BY DEF OfRole
    <2>3. {i \in DOMAIN more : more[i].role \in roles} =
            IF role \in roles THEN P \union {n + 1} ELSE P
        <3>1. \A i : i \in DOMAIN more <=> i \in DOMAIN ms \/ i = n + 1
            BY <1>3, <1>6
        <3>2. \A i \in DOMAIN ms : i # n + 1 /\ more[i] = ms[i]
            BY <1>3, <1>6
        <3> QED
            BY <1>1, <1>6, <3>1, <3>2
    <2>4. kept \in Seq(T) /\ c \in Nat /\ Len(kept) = c /\ DOMAIN kept = 1 .. c
        BY <1>3, <2>1, ChosenIs
    <2>5. Chosen(more, P) = kept /\ Chosen(more, P \union {n + 1}) = Append(kept, m)
        BY <1>3, <2>1, ChosenOfAppended
    <2> HIDE DEF P, kept, c, T
    <2>6. OfRole(more, roles) = IF role \in roles THEN Append(kept, m) ELSE kept
        <3>1. CASE role \in roles
            BY <2>3, <2>5, <3>1 DEF OfRole
        <3>2. CASE role \notin roles
            BY <2>3, <2>5, <3>2 DEF OfRole
        <3> QED
            BY <3>1, <3>2
    <2> DEFINE words == [i \in DOMAIN kept |-> TextOf(kept[i].content)]
    <2>7. Words(ms, roles) = words
        BY <2>2 DEF Words
    <2>8. CASE role \notin roles
        BY <2>2, <2>6, <2>8 DEF Words
    <2>9. CASE role \in roles
        <3> DEFINE longer == Append(kept, m)
        <3>1. kept = [i \in 1 .. c |-> kept[i]]
            BY <2>4
        <3>2. longer = [i \in 1 .. c + 1 |-> IF i = c + 1 THEN m ELSE kept[i]]
            BY <2>4, <3>1, AppendIs
        <3>3. Words(more, roles) = [i \in DOMAIN longer |-> TextOf(longer[i].content)]
            BY <2>6, <2>9 DEF Words
        <3>4. /\ DOMAIN longer = 1 .. c + 1
              /\ \A i \in 1 .. c + 1 : longer[i] = IF i = c + 1 THEN m ELSE kept[i]
            BY <3>2
        <3> HIDE DEF longer
        <3>5. /\ words = [i \in 1 .. c |-> words[i]]
              /\ \A i \in 1 .. c : words[i] = TextOf(kept[i].content)
            BY <2>4
        <3> HIDE DEF words
        <3>6. Append(words, <<text>>) =
                [i \in 1 .. c + 1 |-> IF i = c + 1 THEN <<text>> ELSE words[i]]
            BY <2>4, <3>5, AppendIs
        <3>7. \A i \in 1 .. c + 1 : TextOf(longer[i].content) =
                IF i = c + 1 THEN <<text>> ELSE words[i]
            <4> TAKE i \in 1 .. c + 1
            <4>1. CASE i = c + 1
                BY <1>2, <3>4, <4>1
            <4>2. CASE i # c + 1
                <5>1. i \in 1 .. c
                    BY <2>4, <4>2
                <5> QED
                    BY <3>4, <3>5, <4>2, <5>1
            <4> QED
                BY <4>1, <4>2
        <3>8. Words(more, roles) =
                [i \in 1 .. c + 1 |-> IF i = c + 1 THEN <<text>> ELSE words[i]]
            BY <3>3, <3>4, <3>7
        <3> QED
            BY <2>7, <2>9, <3>6, <3>8
    <2> QED
        BY <2>7, <2>8, <2>9
<1> QED
    BY <1>7, <1>8 DEF more, m

-----------------------------------------------------------------------------
(* A body as it is sent: the lines of its events, and where they are.      *)

Kinds == {"chunk", "usage", "comment", "error", "done"}

\* The symbols of a body differ from one another...
LEMMA MarksDiffer ==
    /\ CR # LF /\ CR # DataPrefix /\ CR # DoneMarker /\ CR # OpenBrace /\ CR # CloseBrace
    /\ CR # NotJson /\ CR # Comment /\ CR # Lead /\ CR # Cont /\ CR # Replacement
    /\ LF # DataPrefix /\ LF # DoneMarker /\ LF # OpenBrace /\ LF # CloseBrace
    /\ LF # NotJson /\ LF # Comment /\ LF # Lead /\ LF # Cont /\ LF # Replacement
    /\ DataPrefix # DoneMarker /\ DataPrefix # OpenBrace /\ DataPrefix # CloseBrace
    /\ DataPrefix # NotJson /\ DataPrefix # Comment /\ DataPrefix # Lead
    /\ DataPrefix # Cont /\ DataPrefix # Replacement
    /\ DoneMarker # OpenBrace /\ DoneMarker # CloseBrace /\ DoneMarker # NotJson
    /\ DoneMarker # Comment /\ DoneMarker # Lead /\ DoneMarker # Cont
    /\ OpenBrace # CloseBrace /\ OpenBrace # NotJson /\ OpenBrace # Comment
    /\ OpenBrace # Lead /\ OpenBrace # Cont
    /\ CloseBrace # NotJson /\ CloseBrace # Comment /\ CloseBrace # Lead /\ CloseBrace # Cont
    /\ NotJson # Comment /\ NotJson # Lead /\ NotJson # Cont
    /\ Comment # Lead /\ Comment # Cont /\ Lead # Cont
    BY DEF CR, LF, DataPrefix, DoneMarker, OpenBrace, CloseBrace, NotJson, Comment, Lead, Cont,
        Replacement

\* ... and from the reasons to stop.
LEMMA ReasonsDiffer ==
    /\ CR \notin StopReasons /\ LF \notin StopReasons /\ DataPrefix \notin StopReasons
    /\ DoneMarker \notin StopReasons /\ OpenBrace \notin StopReasons
    /\ CloseBrace \notin StopReasons /\ NotJson \notin StopReasons
    /\ Lead \notin StopReasons /\ Cont \notin StopReasons /\ NoFinish \notin StopReasons
    /\ Replacement \notin StopReasons /\ Comment \notin StopReasons
    BY DEF CR, LF, DataPrefix, DoneMarker, OpenBrace, CloseBrace, NotJson, Comment, Lead, Cont,
        Replacement, NoFinish, StopReasons

\* What an upstream says in one event.
LEMMA EventIs ==
    ASSUME NEW e, IsEvent(e)
    PROVE  /\ e.kind \in Kinds
           /\ e.kind = "chunk" =>
                /\ IsText(e.text) /\ e.finish \in StopReasons \union {NoFinish}
                /\ e.text = <<>> => e.finish # NoFinish
<1>1. CASE e \in {Usage, KeepAlive, Failure, Done}
    BY <1>1 DEF Usage, KeepAlive, Failure, Done, Kinds
<1>2. CASE e \notin {Usage, KeepAlive, Failure, Done}
    <2>1. e = Chunk(e.text, e.finish) /\ IsText(e.text)
          /\ e.finish \in StopReasons \union {NoFinish} /\ (e.text = <<>> => e.finish # NoFinish)
        BY <1>2 DEF IsEvent
    <2>2. e.kind = "chunk"
        BY <2>1 DEF Chunk
    <2> QED
        BY <2>1, <2>2 DEF Kinds
<1> QED
    BY <1>1, <1>2

\* u is n elements of s, from behind the o-th on.
IsPart(T, s, o, n, u) ==
    u \in Seq(T) /\ Len(u) = n /\ \A i \in 1 .. n : u[i] = s[o + i]

\* SubSeq takes a part.
LEMMA PartIs ==
    ASSUME NEW T, NEW s \in Seq(T), NEW o \in Nat, NEW n \in Nat, o + n <= Len(s)
    PROVE  IsPart(T, s, o, n, SubSeq(s, o + 1, o + n))
<1> DEFINE u == [i \in 1 .. n |-> s[o + i]]
<1>1. \A i \in 1 .. n : o + i \in 1 .. Len(s)
    OBVIOUS
<1>2. u \in [1 .. n -> T]
    BY <1>1
<1>3. u \in Seq(T) /\ Len(u) = n /\ \A i \in 1 .. n : u[i] = s[o + i]
    BY <1>2
<1>4. SubSeq(s, o + 1, o + n) = u
    <2>1. 1 + (o + n) - (o + 1) = n
        OBVIOUS
    <2>2. \A i \in 1 .. n : i + (o + 1) - 1 = o + i
        OBVIOUS
    <2> QED
        BY <2>1, <2>2
<1> QED
    BY <1>3, <1>4 DEF IsPart

\* u is what s and t make together.
Joins(T, s, t, u) ==
    /\ u \in Seq(T) /\ Len(u) = Len(s) + Len(t)
    /\ Len(s) \in Nat /\ Len(t) \in Nat
    /\ \A i \in 1 .. Len(s) : u[i] = s[i]
    /\ \A i \in 1 .. Len(t) : u[Len(s) + i] = t[i]

\* Two sequences joined.
LEMMA Joined ==
    ASSUME NEW T, NEW s \in Seq(T), NEW t \in Seq(T)
    PROVE  Joins(T, s, t, s \o t)
    BY DEF Joins

\* The letters of some events' lines, and what a decoder may put for one.
Letters(events) ==
    Marks \union {Comment, Replacement}
        \union UNION {{events[n].text[i] : i \in DOMAIN events[n].text} : n \in DOMAIN events}

Trailer(e) == IF e.finish = NoFinish THEN 0 ELSE 1

\* A line of a chunk, symbol by symbol.
IsChunkLine(l, e) ==
    /\ Len(l) = Len(e.text) + Trailer(e) + 3
    /\ l[1] = DataPrefix /\ l[2] = OpenBrace /\ l[Len(l)] = CloseBrace
    /\ \A i \in 1 .. Len(e.text) : l[i + 2] = e.text[i]
    /\ e.finish # NoFinish => l[Len(e.text) + 3] = e.finish

\* The line of a chunk: its texts and its reason between braces.
LEMMA ChunkLineIs ==
    ASSUME NEW T, Marks \subseteq T, NEW e, e.kind = "chunk", e.text \in Seq(T),
           e.finish \in StopReasons \union {NoFinish}
    PROVE  Line(e) \in Seq(T) /\ IsChunkLine(Line(e), e)
<1> DEFINE a == <<DataPrefix, OpenBrace>>
           z == <<CloseBrace>>
           f == IF e.finish = NoFinish THEN <<>> ELSE <<e.finish>>
           n == Len(e.text)
<1>1. DataPrefix \in T /\ OpenBrace \in T /\ CloseBrace \in T /\ \A s \in StopReasons : s \in T
    BY DEF Marks
<1>2. Line(e) = ((a \o e.text) \o f) \o z
    BY DEF Line
<1>3. a \in Seq(T) /\ Len(a) = 2 /\ a[1] = DataPrefix /\ a[2] = OpenBrace
    BY <1>1
<1>4. z \in Seq(T) /\ Len(z) = 1 /\ z[1] = CloseBrace
    BY <1>1
<1>5. f \in Seq(T) /\ Len(f) = Trailer(e) /\ Trailer(e) \in {0, 1}
      /\ (e.finish # NoFinish => f[1] = e.finish /\ Trailer(e) = 1)
    BY <1>1 DEF Trailer
<1>6. n \in Nat
    OBVIOUS
<1> HIDE DEF a, z, f, n
<1> DEFINE at == a \o e.text
<1>7. /\ at \in Seq(T) /\ Len(at) = n + 2 /\ at[1] = DataPrefix /\ at[2] = OpenBrace
      /\ \A i \in 1 .. n : at[i + 2] = e.text[i]
    <2>1. /\ at \in Seq(T) /\ Len(at) = 2 + n
          /\ \A i \in 1 .. 2 : at[i] = a[i]
          /\ \A i \in 1 .. n : at[2 + i] = e.text[i]
        <3>1. /\ at \in Seq(T) /\ Len(at) = Len(a) + Len(e.text)
              /\ \A i \in 1 .. Len(a) : at[i] = a[i]
              /\ \A i \in 1 .. Len(e.text) : at[Len(a) + i] = e.text[i]
            <4>1. Joins(T, a, e.text, at)
                BY <1>3, Joined
            <4> HIDE DEF at
            <4> QED
                BY <4>1 DEF Joins
        <3> HIDE DEF at
        <3> QED
            BY <1>3, <3>1 DEF n
    <2>2. 1 \in 1 .. 2 /\ 2 \in 1 .. 2 /\ 2 + n = n + 2 /\ \A i \in 1 .. n : 2 + i = i + 2
        BY <1>6
    <2> HIDE DEF at
    <2> QED
        BY <1>3, <2>1, <2>2
<1> HIDE DEF at
<1> DEFINE atf == at \o f
<1>8. /\ atf \in Seq(T) /\ Len(atf) = n + 2 + Trailer(e) /\ atf[1] = DataPrefix /\ atf[2] = OpenBrace
      /\ \A i \in 1 .. n : atf[i + 2] = e.text[i]
      /\ e.finish # NoFinish => atf[n + 3] = e.finish
    BY <1>5, <1>6, <1>7
<1> HIDE DEF atf
<1>9. Line(e) = atf \o z
    BY <1>2 DEF at, atf
<1>10. /\ Line(e) \in Seq(T) /\ Len(Line(e)) = n + 3 + Trailer(e)
       /\ \A i \in 1 .. n + 2 + Trailer(e) : Line(e)[i] = atf[i]
       /\ Line(e)[n + 3 + Trailer(e)] = CloseBrace
    <2> DEFINE m == n + 2 + Trailer(e)
    <2>1. m \in Nat /\ m + 1 = n + 3 + Trailer(e) /\ 1 \in 1 .. 1
        BY <1>5, <1>6
    <2>2. /\ atf \o z \in Seq(T) /\ Len(atf \o z) = m + 1
          /\ \A i \in 1 .. m : (atf \o z)[i] = atf[i]
          /\ \A i \in 1 .. 1 : (atf \o z)[m + i] = z[i]
        <3>1. Joins(T, atf, z, atf \o z)
            BY <1>4, <1>8, Joined
        <3> QED
            BY <1>4, <1>8, <3>1 DEF Joins
    <2> HIDE DEF m
    <2>3. (atf \o z)[m + 1] = CloseBrace
        BY <1>4, <2>1, <2>2
    <2> QED
        BY <1>9, <2>1, <2>2, <2>3 DEF m
<1>11. \A i \in 1 .. n : i + 2 \in 1 .. n + 2 + Trailer(e)
    BY <1>5, <1>6
<1>12. /\ 1 \in 1 .. n + 2 + Trailer(e) /\ 2 \in 1 .. n + 2 + Trailer(e)
       /\ e.finish # NoFinish => n + 3 \in 1 .. n + 2 + Trailer(e)
    BY <1>5, <1>6
<1>13. n + 3 + Trailer(e) = n + Trailer(e) + 3
    BY <1>5, <1>6
<1> QED
    BY <1>5, <1>8, <1>10, <1>11, <1>12, <1>13 DEF IsChunkLine, n

\* A line: its prefix, and behind it what is data.
LEMMA LineIs ==
    ASSUME NEW T, Marks \union {Comment} \subseteq T, NEW e, IsEvent(e),
           e.kind = "chunk" => e.text \in Seq(T)
    PROVE  /\ Line(e) \in Seq(T) /\ Len(Line(e)) \in Nat \ {0}
           /\ e.kind = "comment" => Line(e) = <<Comment>>
           /\ e.kind # "comment" => Line(e)[1] = DataPrefix /\ Len(Line(e)) > 1
           /\ e.kind = "usage" => Line(e) = <<DataPrefix, OpenBrace, CloseBrace>>
           /\ e.kind = "error" => Line(e) = <<DataPrefix, NotJson>>
           /\ e.kind = "done" => Line(e) = <<DataPrefix, DoneMarker>>
           /\ e.kind = "chunk" => IsChunkLine(Line(e), e)
           /\ \A i \in 1 .. Len(Line(e)) :
                /\ Line(e)[i] \notin {CR, LF} /\ (i > 1 => Line(e)[i] # DataPrefix)
                /\ Line(e)[i] = Lead => i < Len(Line(e)) /\ Line(e)[i + 1] = Cont
                /\ Line(e)[i] = Cont => i > 1 /\ Line(e)[i - 1] = Lead
<1>1. e.kind \in Kinds
    BY EventIs
<1>2. CASE e.kind = "chunk"
    <2>1. /\ IsText(e.text) /\ e.finish \in StopReasons \union {NoFinish}
          /\ e.text \in Seq(T)
        BY <1>2, EventIs
    <2>2. Line(e) \in Seq(T) /\ IsChunkLine(Line(e), e)
        BY <1>2, <2>1, ChunkLineIs
    <2> DEFINE l == Line(e)
               n == Len(e.text)
    <2>3. n \in Nat /\ Trailer(e) \in {0, 1} /\ Len(l) = n + Trailer(e) + 3
        BY <2>1, <2>2 DEF IsChunkLine, Trailer
    <2>4. \A i \in 1 .. n : /\ e.text[i] \notin Marks
                            /\ e.text[i] = Lead => i < n /\ e.text[i + 1] = Cont
                            /\ e.text[i] = Cont => i > 1 /\ e.text[i - 1] = Lead
        BY <2>1 DEF IsText
    <2> HIDE DEF l, n
    <2>5. /\ l[1] = DataPrefix /\ l[2] = OpenBrace /\ l[Len(l)] = CloseBrace
          /\ \A i \in 1 .. n : l[i + 2] = e.text[i]
          /\ e.finish # NoFinish => l[n + 3] = e.finish /\ e.finish \in StopReasons
          /\ e.finish = NoFinish => Trailer(e) = 0
        BY <2>1, <2>2 DEF IsChunkLine, l, n, Trailer
    <2>6. ASSUME NEW i \in 1 .. Len(l)
          PROVE  /\ l[i] \notin {CR, LF} /\ (i > 1 => l[i] # DataPrefix)
                 /\ l[i] = Lead => i < Len(l) /\ l[i + 1] = Cont
                 /\ l[i] = Cont => i > 1 /\ l[i - 1] = Lead
        <3>1. CASE i = 1 \/ i = 2 \/ i = Len(l)
            BY <2>3, <2>5, <3>1, MarksDiffer
        <3>2. CASE i = n + 3 /\ i # Len(l)
            <4>1. e.finish # NoFinish
                BY <2>3, <2>5, <3>2
            <4> QED
                BY <2>3, <2>5, <3>2, <4>1, ReasonsDiffer
        <3>3. CASE i \in 3 .. n + 2
            <4>1. i - 2 \in 1 .. n /\ (i - 2) + 2 = i /\ i < Len(l) /\ i > 1
                BY <2>3, <3>3
            <4>2. l[i] = e.text[i - 2]
                BY <2>5, <4>1
            <4>3. l[i] \notin Marks
                BY <2>4, <4>1, <4>2
            <4>4. l[i] = Lead => l[i + 1] = Cont
                <5>1. i - 2 < n => (i - 2) + 1 \in 1 .. n /\ ((i - 2) + 1) + 2 = i + 1
                    BY <2>3, <4>1
                <5> QED
                    BY <2>4, <2>5, <4>1, <4>2, <5>1
            <4>5. l[i] = Cont => l[i - 1] = Lead
                <5>1. i - 2 > 1 => (i - 2) - 1 \in 1 .. n /\ ((i - 2) - 1) + 2 = i - 1
                    BY <2>3, <4>1
                <5> QED
                    BY <2>4, <2>5, <4>1, <4>2, <5>1
            <4> QED
                BY <4>1, <4>3, <4>4, <4>5 DEF Marks
        <3>4. i = 1 \/ i = 2 \/ i = Len(l) \/ i = n + 3 \/ i \in 3 .. n + 2
            BY <2>3
        <3> QED
            BY <3>1, <3>2, <3>3, <3>4
    <2> QED
        BY <1>2, <2>2, <2>3, <2>5, <2>6 DEF l
<1>3. CASE e.kind = "usage"
    BY <1>3, MarksDiffer DEF Line, Marks
<1>4. CASE e.kind = "comment"
    BY <1>4, MarksDiffer DEF Line, Marks
<1>5. CASE e.kind = "error"
    BY <1>5, MarksDiffer DEF Line, Marks
<1>6. CASE e.kind = "done"
    BY <1>6, MarksDiffer DEF Line, Marks
<1> QED
    BY <1>1, <1>2, <1>3, <1>4, <1>5, <1>6 DEF Kinds

-----------------------------------------------------------------------------

EndOf(b, n) == IF n = 0 THEN 0 ELSE b.ends[n]
Size(b, n) == Len(Line(b.events[n]))

\* Where the symbols of a body are whose line ends are w symbols wide.
Layout(b, w) ==
    /\ w \in {1, 2}
    /\ Len(b.events) \in Nat /\ DOMAIN b.events = 1 .. Len(b.events)
    /\ DOMAIN b.ends = 1 .. Len(b.events)
    /\ b.symbols \in Seq(Letters(b.events))
    /\ EndOf(b, Len(b.events)) = Len(b.symbols)
    /\ \A n \in 0 .. Len(b.events) : EndOf(b, n) \in Nat
    /\ \A n \in 1 .. Len(b.events) :
        /\ IsEvent(b.events[n]) /\ Size(b, n) \in Nat \ {0}
        /\ EndOf(b, n) = EndOf(b, n - 1) + Size(b, n) + 2 * w
        /\ \A i \in 1 .. Size(b, n) : b.symbols[EndOf(b, n - 1) + i] = Line(b.events[n])[i]
        /\ b.symbols[EndOf(b, n)] = LF /\ b.symbols[EndOf(b, n) - w] = LF
        /\ w = 2 => b.symbols[EndOf(b, n) - 1] = CR /\ b.symbols[EndOf(b, n) - 3] = CR

\* A frame as it is sent: a line and two line ends.
IsFrame(T, l, w, f) ==
    /\ w \in {1, 2} /\ f \in Seq(T) /\ Len(f) = Len(l) + 2 * w /\ Len(l) \in Nat
    /\ \A i \in 1 .. Len(l) : f[i] = l[i]
    /\ f[Len(f)] = LF /\ f[Len(f) - w] = LF
    /\ w = 2 => f[Len(f) - 1] = CR /\ f[Len(f) - 3] = CR

\* A line with its two line ends is a frame.
LEMMA FrameIs ==
    ASSUME NEW T, CR \in T, LF \in T, NEW eol \in LineEnds, NEW l \in Seq(T)
    PROVE  IsFrame(T, l, Len(eol), l \o eol \o eol)
<1> DEFINE w == Len(eol)
           n == Len(l)
           g == l \o eol
           f == g \o eol
<1>1. /\ eol \in Seq(T) /\ w \in {1, 2} /\ eol[w] = LF /\ (w = 2 => eol[1] = CR)
    <2>1. CASE eol = <<LF>>
        BY <2>1
    <2>2. CASE eol = <<CR, LF>>
        BY <2>2
    <2> QED
        BY <2>1, <2>2 DEF LineEnds
<1> HIDE DEF w, n
<1>2. /\ g \in Seq(T) /\ Len(g) = n + w /\ n \in Nat
      /\ \A i \in 1 .. n : g[i] = l[i]
      /\ \A i \in 1 .. w : g[n + i] = eol[i]
    <2>1. Joins(T, l, eol, g)
        BY <1>1, Joined
    <2> HIDE DEF g
    <2> QED
        BY <1>1, <2>1 DEF Joins, n, w
<1> HIDE DEF g
<1>3. /\ f \in Seq(T) /\ Len(f) = n + w + w
      /\ \A i \in 1 .. n + w : f[i] = g[i]
      /\ \A i \in 1 .. w : f[n + w + i] = eol[i]
    <2>1. /\ f \in Seq(T) /\ Len(f) = Len(g) + Len(eol)
          /\ \A i \in 1 .. Len(g) : f[i] = g[i]
          /\ \A i \in 1 .. Len(eol) : f[Len(g) + i] = eol[i]
        <3>1. Joins(T, g, eol, f)
            BY <1>1, <1>2, Joined
        <3> HIDE DEF f
        <3> QED
            BY <3>1 DEF Joins
    <2> HIDE DEF f
    <2> QED
        BY <1>2, <2>1 DEF w
<1> HIDE DEF f
<1>4. \A i \in 1 .. n : f[i] = l[i]
    BY <1>1, <1>2, <1>3
<1>5. f[n + w + w] = LF /\ f[n + w] = LF
    <2>1. w \in 1 .. w /\ n + w \in 1 .. n + w
        BY <1>1, <1>2
    <2> QED
        BY <1>1, <1>2, <1>3, <2>1
<1>6. w = 2 => f[n + w + 1] = CR /\ f[n + 1] = CR
    <2>1. w = 2 => 1 \in 1 .. w /\ n + 1 \in 1 .. n + w
        BY <1>2
    <2> QED
        BY <1>1, <1>2, <1>3, <2>1
<1>7. Len(f) - w = n + w /\ (w = 2 => Len(f) - 1 = n + w + 1 /\ Len(f) - 3 = n + 1)
      /\ Len(f) = n + 2 * w
    BY <1>1, <1>2, <1>3
<1> QED
    <2>1. IsFrame(T, l, w, f)
        BY <1>1, <1>2, <1>3, <1>4, <1>5, <1>6, <1>7 DEF IsFrame, n
    <2> QED
        BY <2>1 DEF f, g, w

\* What is sent up to an event, with the frames that lead there.
Sends(made, N, T, fr) ==
    /\ made \in [0 .. N -> Seq(T)] /\ made[0] = <<>>
    /\ \A n \in 1 .. N : made[n] = made[n - 1] \o fr[n]

SendsAll(made, N, fr) ==
    /\ \A n \in 0 .. N : Len(made[n]) \in Nat
    /\ \A n \in 1 .. N :
        /\ Len(fr[n]) \in Nat /\ Len(made[n]) = Len(made[n - 1]) + Len(fr[n])
        /\ \A i \in 1 .. Len(fr[n]) : made[N][Len(made[n - 1]) + i] = fr[n][i]

\* What was sent holds every frame, each behind the one before.
LEMMA SendsWhole ==
    ASSUME NEW N \in Nat, NEW T, NEW fr \in [1 .. N -> Seq(T)], NEW made, Sends(made, N, T, fr)
    PROVE  SendsAll(made, N, fr)
<1>1. /\ made \in [0 .. N -> Seq(T)]
      /\ \A n \in 1 .. N : made[n] = made[n - 1] \o fr[n]
    BY DEF Sends
<1>2. \A n \in 0 .. N : made[n] \in Seq(T)
    BY <1>1
<1>3. \A n \in 0 .. N : Len(made[n]) \in Nat
    BY <1>2
<1>4. \A n \in 1 .. N : Joins(T, made[n - 1], fr[n], made[n])
    <2> TAKE n \in 1 .. N
    <2>1. n - 1 \in 0 .. N
        OBVIOUS
    <2>2. made[n - 1] \in Seq(T) /\ fr[n] \in Seq(T)
        BY <1>2, <2>1
    <2> QED
        BY <1>1, <2>2, Joined
<1>5. \A n \in 1 .. N : /\ Len(fr[n]) \in Nat /\ Len(made[n]) = Len(made[n - 1]) + Len(fr[n])
                        /\ \A i \in 1 .. Len(made[n - 1]) : made[n][i] = made[n - 1][i]
                        /\ \A i \in 1 .. Len(fr[n]) : made[n][Len(made[n - 1]) + i] = fr[n][i]
    BY <1>4 DEF Joins
<1> DEFINE Begins(n) == \A i \in 1 .. Len(made[n]) : made[N][i] = made[n][i]
           S == {k \in 0 .. N : Begins(N - k)}
<1>6. \A k \in S : k < N => k + 1 \in S
    <2> SUFFICES ASSUME NEW k \in S, k < N
                 PROVE  k + 1 \in S
        OBVIOUS
    <2>1. k + 1 \in 0 .. N /\ N - k \in 1 .. N /\ N - (k + 1) = (N - k) - 1 /\ Begins(N - k)
          /\ (N - k) - 1 \in 0 .. N
        OBVIOUS
    <2> DEFINE n == N - k
    <2>2. n \in 1 .. N /\ Begins(n) /\ n - 1 \in 0 .. N
        BY <2>1
    <2> HIDE DEF n
    <2>3. Begins(n - 1)
        <3> SUFFICES ASSUME NEW i \in 1 .. Len(made[n - 1])
                     PROVE  made[N][i] = made[n - 1][i]
            OBVIOUS
        <3>1. made[n][i] = made[n - 1][i] /\ i \in 1 .. Len(made[n])
            BY <1>3, <1>5, <2>2
        <3> QED
            BY <2>2, <3>1
    <2> HIDE DEF Begins
    <2> QED
        BY <2>1, <2>3 DEF n
<1>7. S = 0 .. N
    <2>1. 0 \in S
        OBVIOUS
    <2>2. S \in SUBSET (0 .. N)
        OBVIOUS
    <2> HIDE DEF S
    <2> QED
        BY <1>6, <2>1, <2>2, Induction
<1>8. \A n \in 0 .. N : Begins(n)
    <2> TAKE n \in 0 .. N
    <2>1. N - n \in 0 .. N /\ N - (N - n) = n
        OBVIOUS
    <2>2. N - n \in S
        <3> HIDE DEF S
        <3> QED
            BY <1>7, <2>1
    <2> HIDE DEF Begins
    <2> QED
        BY <2>1, <2>2
<1>9. ASSUME NEW n \in 1 .. N
      PROVE  \A i \in 1 .. Len(fr[n]) : made[N][Len(made[n - 1]) + i] = fr[n][i]
    <2> TAKE i \in 1 .. Len(fr[n])
    <2>1. n \in 0 .. N /\ n - 1 \in 0 .. N
        OBVIOUS
    <2>2. Len(made[n - 1]) + i \in 1 .. Len(made[n])
        BY <1>3, <1>5, <2>1
    <2>3. made[N][Len(made[n - 1]) + i] = made[n][Len(made[n - 1]) + i]
        BY <1>8, <2>1, <2>2
    <2>4. made[n][Len(made[n - 1]) + i] = fr[n][i]
        BY <1>5
    <2> QED
        BY <2>3, <2>4
<1> QED
    BY <1>3, <1>5, <1>9 DEF SendsAll

\* A body, with the symbols that are sent up to each of its events.
IsMade(b, events, N, T, fr, made) ==
    /\ Sends(made, N, T, fr)
    /\ b = [events |-> events, symbols |-> made[N], ends |-> [n \in 1 .. N |-> Len(made[n])]]

\* The recursion of Body, unrolled: what it has sent after each event.
LEMMA BodySent ==
    ASSUME NEW events, NEW eol, NEW T, NEW N \in Nat, N = Len(events), DOMAIN events = 1 .. N,
           NEW fr \in [1 .. N -> Seq(T)],
           \A n \in 1 .. N : fr[n] = Line(events[n]) \o eol \o eol
    PROVE  \E made : IsMade(Body(events, eol), events, N, T, fr, made)
<1> DEFINE made == CHOOSE f : f = [n \in 0 .. Len(events) |->
                        IF n = 0 THEN <<>>
                        ELSE f[n - 1] \o (Line(events[n]) \o eol \o eol)]
           g == [x \in (1 .. N) \X Seq(T) |-> x[2] \o fr[x[1]]]
<1>1. g \in [(1 .. N) \X Seq(T) -> Seq(T)]
    <2>1. \A n \in 1 .. N, s \in Seq(T) : s \o fr[n] \in Seq(T)
        <3> TAKE n \in 1 .. N, s \in Seq(T)
        <3>1. fr[n] \in Seq(T)
            OBVIOUS
        <3> QED
            BY <3>1
    <2> QED
        BY <2>1
<1>2. PICK f \in [0 .. N -> Seq(T)] : Loops(f, N, <<>>, g)
    <2>1. <<>> \in Seq(T)
        OBVIOUS
    <2> HIDE DEF g
    <2> QED
        BY <1>1, <2>1, Iteration
<1>3. f[0] = <<>> /\ \A n \in 1 .. N : f[n] = g[<<n, f[n - 1]>>]
    BY <1>2 DEF Loops
<1>4. \A n \in 1 .. N : f[n] = f[n - 1] \o fr[n]
    <2>1. \A n \in 1 .. N : n - 1 \in 0 .. N /\ f[n - 1] \in Seq(T)
        <3> HIDE DEF g, made
        <3>1. \A n \in 1 .. N : n - 1 \in 0 .. N
            OBVIOUS
        <3> QED
            BY <3>1
    <2>2. \A n \in 1 .. N : g[<<n, f[n - 1]>>] = f[n - 1] \o fr[n]
        BY <2>1
    <2> QED
        BY <1>3, <2>2
<1> HIDE DEF g
<1>5. f = [n \in 0 .. Len(events) |->
            IF n = 0 THEN <<>> ELSE f[n - 1] \o (Line(events[n]) \o eol \o eol)]
    <2>1. \A n \in 0 .. N : n = 0 \/ n \in 1 .. N
        OBVIOUS
    <2> HIDE DEF made
    <2>2. \A n \in 0 .. N :
            f[n] = IF n = 0 THEN <<>> ELSE f[n - 1] \o (Line(events[n]) \o eol \o eol)
        BY <1>3, <1>4, <2>1
    <2> QED
        BY <2>2
<1>6. made = [n \in 0 .. Len(events) |->
                IF n = 0 THEN <<>> ELSE made[n - 1] \o (Line(events[n]) \o eol \o eol)]
    BY <1>5
<1>7. Body(events, eol) = [events  |-> events,
                           symbols |-> made[N],
                           ends    |-> [n \in 1 .. N |-> Len(made[n])]]
    BY DEF Body
<1> HIDE DEF made
<1>8. made[0] = <<>> /\ \A n \in 1 .. N : made[n] = made[n - 1] \o fr[n]
    <2>1. 0 \in 0 .. Len(events) /\ \A n \in 1 .. N : n \in 0 .. Len(events) /\ n # 0
        OBVIOUS
    <2>2. made[0] = <<>>
        BY <1>6, <2>1
    <2>3. \A n \in 1 .. N : made[n] = made[n - 1] \o (Line(events[n]) \o eol \o eol)
        BY <1>6, <2>1
    <2> QED
        BY <2>2, <2>3
<1> DEFINE S == {n \in 0 .. N : made[n] \in Seq(T)}
<1>9. \A n \in S : n < N => n + 1 \in S
    <2> SUFFICES ASSUME NEW n \in S, n < N
                 PROVE  n + 1 \in S
        OBVIOUS
    <2>1. n + 1 \in 1 .. N /\ n + 1 \in 0 .. N /\ (n + 1) - 1 = n /\ made[n] \in Seq(T)
        OBVIOUS
    <2>2. made[n + 1] = made[n] \o fr[n + 1] /\ fr[n + 1] \in Seq(T)
        BY <1>8, <2>1
    <2>3. made[n] \o fr[n + 1] \in Seq(T)
        BY <2>1, <2>2
    <2> QED
        BY <2>1, <2>2, <2>3
<1>10. S = 0 .. N
    <2>1. <<>> \in Seq(T) /\ 0 \in 0 .. N
        OBVIOUS
    <2>2. S \in SUBSET (0 .. N)
        OBVIOUS
    <2>3. 0 \in S
        BY <1>8, <2>1
    <2> HIDE DEF S
    <2> QED
        BY <1>9, <2>2, <2>3, Induction
<1>11. made \in [0 .. N -> Seq(T)]
    BY <1>6, <1>10
<1> QED
    BY <1>7, <1>8, <1>11 DEF Sends, IsMade

\* The text of a chunk is made of the letters of its events.
LEMMA TextInLetters ==
    ASSUME NEW ev, NEW n \in DOMAIN ev, IsEvent(ev[n]), ev[n].kind = "chunk"
    PROVE  ev[n].text \in Seq(Letters(ev))
<1> DEFINE t == ev[n].text
           T == Letters(ev)
<1>1. IsText(t)
    BY EventIs
<1>2. t \in Seq({t[i] : i \in DOMAIN t} \ Marks)
    BY <1>1 DEF IsText
<1>3. {t[i] : i \in DOMAIN t} \subseteq T
    BY DEF Letters
<1> HIDE DEF t, T
<1>4. \A i \in 1 .. Len(t) : t[i] \in T
    BY <1>2, <1>3
<1>5. t \in [1 .. Len(t) -> T] /\ Len(t) \in Nat
    BY <1>2, <1>4
<1> QED
    BY <1>5 DEF t, T

\* Every body an upstream sends is laid out so.
LEMMA BodyLayout ==
    ASSUME NEW b, IsBody(b)
    PROVE  \E w : Layout(b, w)
<1> DEFINE ev == b.events
           N == Len(ev)
           T == Letters(ev)
<1>1. N \in Nat /\ DOMAIN ev = 1 .. N /\ \A n \in 1 .. N : IsEvent(ev[n])
    BY DEF IsBody
<1>2. \A n \in 1 .. N : ev[n].kind = "chunk" => ev[n].text \in Seq(T)
    BY <1>1, TextInLetters
<1>3. Marks \union {Comment} \subseteq T /\ CR \in T /\ LF \in T
    BY DEF Letters, Marks
<1>4. PICK eol \in LineEnds : b = Body(ev, eol)
    BY DEF IsBody
<1> DEFINE w == Len(eol)
           fr == [n \in 1 .. N |-> Line(ev[n]) \o eol \o eol]
<1> HIDE DEF N, T, ev, w
<1>5. ASSUME NEW n \in 1 .. N
      PROVE  LET l == Line(ev[n])
             IN /\ w \in {1, 2} /\ fr[n] \in Seq(T) /\ Len(fr[n]) = Len(l) + 2 * w
                /\ Len(l) \in Nat \ {0}
                /\ \A i \in 1 .. Len(l) : fr[n][i] = l[i]
                /\ fr[n][Len(fr[n])] = LF /\ fr[n][Len(fr[n]) - w] = LF
                /\ w = 2 => fr[n][Len(fr[n]) - 1] = CR /\ fr[n][Len(fr[n]) - 3] = CR
    <2> DEFINE l == Line(ev[n])
    <2>1. l \in Seq(T) /\ Len(l) \in Nat \ {0}
        BY <1>1, <1>2, <1>3, LineIs
    <2>2. fr[n] = l \o eol \o eol
        OBVIOUS
    <2> HIDE DEF l, fr
    <2>3. /\ w \in {1, 2} /\ fr[n] \in Seq(T) /\ Len(fr[n]) = Len(l) + 2 * w
          /\ \A i \in 1 .. Len(l) : fr[n][i] = l[i]
          /\ fr[n][Len(fr[n])] = LF /\ fr[n][Len(fr[n]) - w] = LF
          /\ w = 2 => fr[n][Len(fr[n]) - 1] = CR /\ fr[n][Len(fr[n]) - 3] = CR
        <3>1. IsFrame(T, l, w, fr[n])
            BY <1>3, <2>1, <2>2, FrameIs DEF w
        <3> QED
            BY <3>1 DEF IsFrame
    <2> QED
        BY <2>1, <2>3 DEF l
<1>6. fr \in [1 .. N -> Seq(T)] /\ \A n \in 1 .. N : fr[n] = Line(ev[n]) \o eol \o eol
    BY <1>5
<1>7. w \in {1, 2}
    BY DEF w, LineEnds
<1> HIDE DEF fr
<1>8. PICK made : IsMade(b, ev, N, T, fr, made)
    BY <1>1, <1>4, <1>6, BodySent DEF N
<1>9. /\ Sends(made, N, T, fr) /\ b.symbols = made[N] /\ DOMAIN b.ends = 1 .. N
      /\ \A n \in 1 .. N : b.ends[n] = Len(made[n])
    BY <1>8 DEF IsMade
<1>10. made[N] \in Seq(T) /\ Len(made[0]) = 0
    BY <1>1, <1>9 DEF Sends
<1>11. \A n \in 0 .. N : EndOf(b, n) = Len(made[n])
    <2> TAKE n \in 0 .. N
    <2>1. CASE n = 0
        BY <1>10, <2>1 DEF EndOf
    <2>2. CASE n # 0
        <3>1. n \in 1 .. N
            BY <1>1, <2>2
        <3> QED
            BY <1>9, <2>2, <3>1 DEF EndOf
    <2> QED
        BY <2>1, <2>2
<1>12. SendsAll(made, N, fr)
    BY <1>1, <1>6, <1>9, SendsWhole
<1>13. ASSUME NEW n \in 1 .. N
       PROVE  /\ IsEvent(b.events[n]) /\ Size(b, n) \in Nat \ {0}
              /\ EndOf(b, n) = EndOf(b, n - 1) + Size(b, n) + 2 * w
              /\ \A i \in 1 .. Size(b, n) : b.symbols[EndOf(b, n - 1) + i] = Line(b.events[n])[i]
              /\ b.symbols[EndOf(b, n)] = LF /\ b.symbols[EndOf(b, n) - w] = LF
              /\ w = 2 => b.symbols[EndOf(b, n) - 1] = CR /\ b.symbols[EndOf(b, n) - 3] = CR
    <2> DEFINE l == Line(ev[n])
               a == Len(made[n - 1])
               m == Len(fr[n])
               s == Len(l)
    <2>1. /\ fr[n] \in Seq(T) /\ m = s + 2 * w /\ s \in Nat \ {0}
          /\ \A i \in 1 .. s : fr[n][i] = l[i]
          /\ fr[n][m] = LF /\ fr[n][m - w] = LF
          /\ w = 2 => fr[n][m - 1] = CR /\ fr[n][m - 3] = CR
        BY <1>5
    <2>2. n - 1 \in 0 .. N /\ n \in 0 .. N
        BY <1>1
    <2>3. a \in Nat /\ m \in Nat /\ Len(made[n]) = a + m
          /\ \A i \in 1 .. m : made[N][a + i] = fr[n][i]
        BY <1>12, <2>2 DEF SendsAll
    <2>4. EndOf(b, n - 1) = a /\ EndOf(b, n) = Len(made[n])
        BY <1>11, <2>2
    <2>5. Size(b, n) = s /\ Line(b.events[n]) = l /\ IsEvent(b.events[n])
        BY <1>1 DEF Size, ev
    <2> HIDE DEF l, a, m, s
    <2>6. EndOf(b, n) = a + m
        BY <2>3, <2>4
    <2>7. \A i \in 1 .. m : b.symbols[a + i] = fr[n][i]
        BY <1>9, <2>3
    <2>8. \A i \in 1 .. s : b.symbols[a + i] = l[i]
        <3>1. \A i \in 1 .. s : i \in 1 .. m
            BY <1>7, <2>1
        <3> QED
            BY <2>1, <2>7, <3>1
    <2>9. b.symbols[a + m] = LF /\ b.symbols[(a + m) - w] = LF
        <3>1. m \in 1 .. m /\ m - w \in 1 .. m /\ (a + m) - w = a + (m - w)
            <4>1. a \in Nat /\ s \in Nat \ {0} /\ m = s + 2 * w
                BY <2>1, <2>3
            <4> QED
                BY <1>7, <4>1
        <3> QED
            BY <2>1, <2>7, <3>1
    <2>10. w = 2 => b.symbols[(a + m) - 1] = CR /\ b.symbols[(a + m) - 3] = CR
        <3>1. w = 2 => /\ m - 1 \in 1 .. m /\ m - 3 \in 1 .. m
                       /\ (a + m) - 1 = a + (m - 1) /\ (a + m) - 3 = a + (m - 3)
            BY <2>1, <2>3
        <3> QED
            BY <2>1, <2>7, <3>1
    <2>11. a + m = a + s + 2 * w
        BY <1>7, <2>1, <2>3
    <2> QED
        BY <2>1, <2>4, <2>5, <2>6, <2>8, <2>9, <2>10, <2>11
<1>14. /\ b.symbols \in Seq(T) /\ EndOf(b, N) = Len(b.symbols)
       /\ \A n \in 0 .. N : EndOf(b, n) \in Nat
    <2>1. N \in 0 .. N
        BY <1>1
    <2> QED
        BY <1>9, <1>10, <1>11, <1>12, <2>1 DEF SendsAll
<1>15. Layout(b, w)
    BY <1>1, <1>7, <1>9, <1>13, <1>14 DEF Layout, N, T, ev
<1> QED
    BY <1>15

\* The sizes of a body.
LEMMA LayoutIs ==
    ASSUME NEW b, NEW w, Layout(b, w)
    PROVE  w \in {1, 2} /\ Len(b.symbols) \in Nat /\ Len(b.events) \in Nat
           /\ DOMAIN b.events = 1 .. Len(b.events) /\ DOMAIN b.ends = 1 .. Len(b.events)
<1>1. Len(b.events) \in 0 .. Len(b.events)
    BY DEF Layout
<1> QED
    BY <1>1 DEF Layout

\* Later events end later.
LEMMA EndsRise ==
    ASSUME NEW b, NEW w, Layout(b, w)
    PROVE  \A i, j \in 0 .. Len(b.events) : i <= j => EndOf(b, i) <= EndOf(b, j)
<1> DEFINE N == Len(b.events)
<1>1. /\ w \in {1, 2} /\ N \in Nat /\ \A n \in 0 .. N : EndOf(b, n) \in Nat
      /\ \A n \in 1 .. N : Size(b, n) \in Nat /\ EndOf(b, n) = EndOf(b, n - 1) + Size(b, n) + 2 * w
    BY DEF Layout
<1> HIDE DEF N
<1>2. \A n \in 1 .. N : EndOf(b, n - 1) <= EndOf(b, n)
    <2> TAKE n \in 1 .. N
    <2>1. n - 1 \in 0 .. N /\ n \in 0 .. N
        BY <1>1
    <2>2. EndOf(b, n - 1) \in Nat /\ EndOf(b, n) \in Nat /\ Size(b, n) \in Nat
          /\ EndOf(b, n) = EndOf(b, n - 1) + Size(b, n) + 2 * w
        BY <1>1, <2>1
    <2> QED
        BY <1>1, <2>2
<1>3. ASSUME NEW i \in 0 .. N, NEW j \in 0 .. N, i <= j
      PROVE  EndOf(b, i) <= EndOf(b, j)
    <2> DEFINE S == {d \in 0 .. N - i : EndOf(b, i) <= EndOf(b, i + d)}
    <2>1. N - i \in Nat /\ j - i \in 0 .. N - i /\ i + (j - i) = j /\ i + 0 = i /\ 0 \in 0 .. N - i
        BY <1>1, <1>3
    <2>2. 0 \in S
        BY <1>1, <2>1
    <2>3. \A d \in S : d < N - i => d + 1 \in S
        <3> SUFFICES ASSUME NEW d \in S, d < N - i
                     PROVE  d + 1 \in S
            OBVIOUS
        <3>1. d + 1 \in 0 .. N - i /\ i + (d + 1) \in 1 .. N /\ (i + (d + 1)) - 1 = i + d
              /\ i + d \in 0 .. N /\ i + (d + 1) \in 0 .. N
            BY <1>1
        <3>2. EndOf(b, i + d) <= EndOf(b, i + (d + 1))
            BY <1>2, <3>1
        <3>3. EndOf(b, i) \in Nat /\ EndOf(b, i + d) \in Nat /\ EndOf(b, i + (d + 1)) \in Nat
            BY <1>1, <3>1
        <3> QED
            BY <3>1, <3>2, <3>3
    <2>4. S \in SUBSET (0 .. N - i)
        OBVIOUS
    <2>5. S = 0 .. N - i
        <3> HIDE DEF S
        <3> QED
            BY <2>1, <2>2, <2>3, <2>4, Induction
    <2>6. j - i \in S
        BY <2>1, <2>5
    <2> QED
        BY <2>1, <2>6
<1> QED
    BY <1>3 DEF N

\* Every symbol belongs to an event.
LEMMA PlaceIn ==
    ASSUME NEW b, NEW w, Layout(b, w), NEW x \in 1 .. Len(b.symbols)
    PROVE  \E n \in 1 .. Len(b.events) : EndOf(b, n - 1) < x /\ x <= EndOf(b, n)
<1> DEFINE N == Len(b.events)
           S == {n \in 0 .. N : x <= EndOf(b, n)}
<1>1. /\ N \in Nat /\ \A n \in 0 .. N : EndOf(b, n) \in Nat
      /\ EndOf(b, N) = Len(b.symbols) /\ EndOf(b, 0) = 0
    BY DEF Layout, EndOf
<1> HIDE DEF N
<1>2. N \in S /\ S \in SUBSET Nat
    BY <1>1
<1> HIDE DEF S
<1>3. PICK n \in S : \A j \in S : n <= j
    BY <1>2, LeastPlace
<1>4. n \in 0 .. N /\ x <= EndOf(b, n)
    BY DEF S
<1>5. n \in 1 .. N /\ n - 1 \in 0 .. N
    BY <1>1, <1>4
<1>6. n - 1 \notin S
    BY <1>3, <1>5
<1>7. EndOf(b, n - 1) < x
    BY <1>1, <1>5, <1>6 DEF S
<1> QED
    BY <1>4, <1>5, <1>7 DEF N

\* What there is at a place of an event: a symbol of its line, or of its end.
LEMMA SymbolIs ==
    ASSUME NEW b, NEW w, Layout(b, w), NEW n \in 1 .. Len(b.events),
           NEW x \in Nat, EndOf(b, n - 1) < x, x <= EndOf(b, n)
    PROVE  LET i == x - EndOf(b, n - 1)
               l == Line(b.events[n])
           IN /\ x \in 1 .. Len(b.symbols)
              /\ i <= Size(b, n) => i \in 1 .. Len(l) /\ b.symbols[x] = l[i]
              /\ i > Size(b, n) =>
                    \/ x \in {EndOf(b, n), EndOf(b, n) - w} /\ b.symbols[x] = LF
                    \/ w = 2 /\ x \in {EndOf(b, n) - 1, EndOf(b, n) - 3} /\ b.symbols[x] = CR
<1> DEFINE N == Len(b.events)
           e == EndOf(b, n - 1)
           f == EndOf(b, n)
           i == x - e
           s == Size(b, n)
           l == Line(b.events[n])
<1>1. n - 1 \in 0 .. N /\ n \in 0 .. N /\ n <= N /\ N \in 0 .. N
    BY DEF Layout
<1>2. /\ w \in {1, 2} /\ e \in Nat /\ f \in Nat /\ s \in Nat /\ f = e + s + 2 * w
      /\ \A j \in 1 .. s : b.symbols[e + j] = l[j]
      /\ b.symbols[f] = LF /\ b.symbols[f - w] = LF
      /\ w = 2 => b.symbols[f - 1] = CR /\ b.symbols[f - 3] = CR
      /\ EndOf(b, N) = Len(b.symbols) /\ EndOf(b, N) \in Nat
    BY <1>1 DEF Layout
<1>3. f <= EndOf(b, N)
    BY <1>1, EndsRise
<1>4. s = Len(l)
    BY DEF Size
<1>5. e < x /\ x <= f
    OBVIOUS
<1> HIDE DEF N, e, f, s, l
<1>6. x \in 1 .. Len(b.symbols)
    <2>1. Len(b.symbols) \in Nat /\ f <= Len(b.symbols)
        BY <1>2, <1>3
    <2> QED
        BY <1>2, <1>5, <2>1
<1>7. i <= s => i \in 1 .. Len(l) /\ b.symbols[x] = l[i]
    <2> HAVE i <= s
    <2>1. i \in 1 .. s /\ e + i = x
        BY <1>2, <1>5
    <2> QED
        BY <1>2, <1>4, <2>1
<1>8. i > s => \/ x \in {f, f - w}
               \/ w = 2 /\ x \in {f - 1, f - 3}
    <2>1. /\ w \in {1, 2} /\ e \in Nat /\ f \in Nat /\ s \in Nat /\ f = e + s + 2 * w
        BY <1>2
    <2> QED
        BY <1>5, <2>1
<1> QED
    BY <1>2, <1>6, <1>7, <1>8 DEF e, f, s, l

\* What each symbol of a body tells of its place.
Spelled(b, w) ==
    \A x \in 1 .. Len(b.symbols) :
        /\ b.symbols[x] = LF =>
              \E n \in 1 .. Len(b.events) : x \in {EndOf(b, n), EndOf(b, n) - w}
        /\ b.symbols[x] = CR => w = 2 /\ x < Len(b.symbols) /\ b.symbols[x + 1] = LF
        /\ b.symbols[x] = Lead => x < Len(b.symbols) /\ b.symbols[x + 1] = Cont
        /\ b.symbols[x] = Cont => x > 1 /\ b.symbols[x - 1] = Lead
        /\ b.symbols[x] = DataPrefix =>
              \E n \in 1 .. Len(b.events) :
                  x = EndOf(b, n - 1) + 1 /\ b.events[n].kind # "comment"

\* What each mark tells of the place it was sent at.
LEMMA Spelling ==
    ASSUME NEW b, NEW w, Layout(b, w)
    PROVE  Spelled(b, w)
<1> SUFFICES ASSUME NEW x \in 1 .. Len(b.symbols)
             PROVE  /\ b.symbols[x] = LF =>
                          \E n \in 1 .. Len(b.events) : x \in {EndOf(b, n), EndOf(b, n) - w}
                    /\ b.symbols[x] = CR => w = 2 /\ x < Len(b.symbols) /\ b.symbols[x + 1] = LF
                    /\ b.symbols[x] = Lead => x < Len(b.symbols) /\ b.symbols[x + 1] = Cont
                    /\ b.symbols[x] = Cont => x > 1 /\ b.symbols[x - 1] = Lead
                    /\ b.symbols[x] = DataPrefix =>
                          \E n \in 1 .. Len(b.events) :
                              x = EndOf(b, n - 1) + 1 /\ b.events[n].kind # "comment"
    BY DEF Spelled
<1> DEFINE N == Len(b.events)
           T == Letters(b.events)
<1>1. PICK n \in 1 .. N : EndOf(b, n - 1) < x /\ x <= EndOf(b, n)
    BY PlaceIn
<1> DEFINE e == EndOf(b, n - 1)
           f == EndOf(b, n)
           i == x - e
           s == Size(b, n)
           l == Line(b.events[n])
           y == b.symbols
<1>2. /\ i <= s => i \in 1 .. Len(l) /\ y[x] = l[i]
      /\ i > s => \/ x \in {f, f - w} /\ y[x] = LF
                  \/ w = 2 /\ x \in {f - 1, f - 3} /\ y[x] = CR
    BY <1>1, SymbolIs
<1>3. n - 1 \in 0 .. N /\ n \in 0 .. N /\ n <= N /\ N \in 0 .. N /\ x \in Nat
    BY DEF Layout
<1>4. /\ w \in {1, 2} /\ e \in Nat /\ f \in Nat /\ s \in Nat /\ f = e + s + 2 * w
      /\ \A j \in 1 .. s : y[e + j] = l[j]
      /\ y[f] = LF /\ y[f - w] = LF
      /\ EndOf(b, N) = Len(b.symbols) /\ EndOf(b, N) \in Nat
      /\ IsEvent(b.events[n])
    BY <1>3 DEF Layout
<1>5. f <= EndOf(b, N)
    BY <1>3, EndsRise
<1>6. s = Len(l) /\ e < x /\ x <= f /\ Len(y) = Len(b.symbols)
    BY <1>1 DEF Size
<1>7. b.events[n].kind = "chunk" => b.events[n].text \in Seq(T)
    <2>1. n \in DOMAIN b.events /\ IsEvent(b.events[n])
        BY DEF Layout
    <2> QED
        BY <2>1, TextInLetters
<1>8. Marks \union {Comment} \subseteq T
    BY DEF Letters
<1>9. /\ b.events[n].kind = "comment" => l = <<Comment>>
      /\ \A j \in 1 .. Len(l) : /\ l[j] \notin {CR, LF} /\ (j > 1 => l[j] # DataPrefix)
                                /\ l[j] = Lead => j < Len(l) /\ l[j + 1] = Cont
                                /\ l[j] = Cont => j > 1 /\ l[j - 1] = Lead
    <2> HIDE DEF T
    <2> QED
        BY <1>4, <1>7, <1>8, LineIs
<1> HIDE DEF N, e, f, s, l, T
<1>10. f <= Len(y) /\ Len(y) \in Nat
    BY <1>4, <1>5
<1>11. CASE i <= s
    <2>1. i \in 1 .. Len(l) /\ y[x] = l[i] /\ e + i = x /\ i \in 1 .. s
        BY <1>2, <1>3, <1>4, <1>6, <1>11
    <2> HIDE DEF i
    <2>2. y[x] \notin {CR, LF}
        BY <1>9, <2>1
    <2>3. y[x] = Lead => x < Len(y) /\ y[x + 1] = Cont
        <3> HAVE y[x] = Lead
        <3>1. i < Len(l) /\ l[i + 1] = Cont
            BY <1>9, <2>1
        <3>2. i + 1 \in 1 .. s /\ e + (i + 1) = x + 1 /\ x < f
            BY <1>4, <1>6, <2>1, <3>1
        <3>3. y[e + (i + 1)] = l[i + 1]
            BY <1>4, <3>2
        <3> QED
            BY <1>3, <1>4, <1>10, <3>1, <3>2, <3>3
    <2>4. y[x] = Cont => x > 1 /\ y[x - 1] = Lead
        <3> HAVE y[x] = Cont
        <3>1. i > 1 /\ l[i - 1] = Lead
            BY <1>9, <2>1
        <3>2. i - 1 \in 1 .. s /\ e + (i - 1) = x - 1 /\ x > 1
            BY <1>4, <1>6, <2>1, <3>1
        <3>3. y[e + (i - 1)] = l[i - 1]
            BY <1>4, <3>2
        <3> QED
            BY <3>1, <3>2, <3>3
    <2>5. y[x] = DataPrefix => x = e + 1 /\ b.events[n].kind # "comment"
        <3> HAVE y[x] = DataPrefix
        <3>1. ~(i > 1)
            BY <1>9, <2>1
        <3>2. i = 1
            BY <1>4, <2>1, <3>1
        <3>3. b.events[n].kind # "comment"
            BY <1>9, <2>1, <3>2, MarksDiffer
        <3> QED
            BY <2>1, <3>2, <3>3
    <2> QED
        BY <2>2, <2>3, <2>4, <2>5 DEF N, e
<1>12. CASE i > s
    <2>1. \/ x \in {f, f - w} /\ y[x] = LF
          \/ w = 2 /\ x \in {f - 1, f - 3} /\ y[x] = CR
        BY <1>2, <1>12
    <2>2. y[x] = CR => w = 2 /\ x < Len(y) /\ y[x + 1] = LF
        <3> SUFFICES ASSUME y[x] = CR
                     PROVE  w = 2 /\ x < Len(y) /\ y[x + 1] = LF
            OBVIOUS
        <3>1. w = 2 /\ x \in {f - 1, f - 3}
            BY <2>1, MarksDiffer
        <3>2. x + 1 \in {f, f - w} /\ x < f
            BY <1>4, <3>1
        <3> QED
            BY <1>3, <1>4, <1>10, <3>1, <3>2
    <2>3. y[x] = LF => x \in {f, f - w}
        BY <2>1, MarksDiffer
    <2>4. y[x] \in {CR, LF}
        BY <2>1
    <2> QED
        BY <2>2, <2>3, <2>4, MarksDiffer DEF N, f
<1> QED
    <2>1. i \in Int /\ s \in Int
        BY <1>3, <1>4
    <2> QED
        BY <1>11, <1>12, <2>1

-----------------------------------------------------------------------------
(* What is held of it: the buffer, and where what is in it was sent.       *)

\* A symbol as it was received: itself, or what is left of half a character.
IsHeard(b, x, c, tear) ==
    \/ c = b.symbols[x]
    \/ "character" \in tear /\ c = Replacement /\ b.symbols[x] \in {Lead, Cont}

\* The buffer holds what came between the places k and a, but for some CRs:
\* its i-th symbol was sent at the place at[i].
Held(b, k, a, buf, tear, at) ==
    /\ buf \in Seq(Letters(b.events)) /\ Len(buf) \in Nat
    /\ at \in [1 .. Len(buf) -> Nat]
    /\ k \in Nat /\ a \in Nat /\ a <= Len(b.symbols)
    /\ \A i \in 1 .. Len(buf) : k < at[i] /\ at[i] <= a /\ IsHeard(b, at[i], buf[i], tear)
    /\ \A i, j \in 1 .. Len(buf) : i < j => at[i] < at[j]
    /\ \A x \in k + 1 .. a : b.symbols[x] # CR => \E i \in 1 .. Len(buf) : at[i] = x
    /\ \A i \in 1 .. Len(buf) : buf[i] = CR => "line end" \in tear

\* Only the halves of a character are heard wrongly.
LEMMA HeardMarks ==
    ASSUME NEW b, NEW x, NEW c, NEW tear, IsHeard(b, x, c, tear)
    PROVE  /\ c # Replacement => c = b.symbols[x]
           /\ b.symbols[x] \notin {Lead, Cont} => c = b.symbols[x]
    BY DEF IsHeard

\* Neighbours in the buffer: only CRs were left out between them.
LEMMA Neighbours ==
    ASSUME NEW b, NEW k, NEW a, NEW buf, NEW tear, NEW at, Held(b, k, a, buf, tear, at),
           NEW i \in 1 .. Len(buf), NEW j \in 1 .. Len(buf), i < j,
           \A l \in 1 .. Len(buf) : at[l] <= at[i] \/ at[j] <= at[l]
    PROVE  j = i + 1
<1>1. /\ Len(buf) \in Nat /\ at \in [1 .. Len(buf) -> Nat]
      /\ \A l, m \in 1 .. Len(buf) : l < m => at[l] < at[m]
    BY DEF Held
<1> SUFFICES ASSUME j # i + 1
             PROVE  FALSE
    OBVIOUS
<1>2. i + 1 \in 1 .. Len(buf) /\ i < i + 1 /\ i + 1 < j
    BY <1>1
<1>3. at[i] < at[i + 1] /\ at[i + 1] < at[j]
    BY <1>1, <1>2
<1>4. at[i] \in Nat /\ at[i + 1] \in Nat /\ at[j] \in Nat
    BY <1>1, <1>2
<1> QED
    BY <1>2, <1>3, <1>4

\* Two LFs in a row end an event.
LEMMA FrameEndsAt ==
    ASSUME NEW b, NEW w, Layout(b, w), NEW k, NEW a, NEW buf, NEW tear, NEW at,
           Held(b, k, a, buf, tear, at), NEW i \in FrameEnds(buf)
    PROVE  \E n \in 1 .. Len(b.events) :
                at[i] = EndOf(b, n) - w /\ at[i + 1] = EndOf(b, n) /\ EndOf(b, n) <= a
                /\ k < EndOf(b, n) - w
<1> DEFINE N == Len(b.events)
           y == b.symbols
<1>1. /\ Len(buf) \in Nat /\ at \in [1 .. Len(buf) -> Nat] /\ k \in Nat /\ a \in Nat
      /\ a <= Len(y)
      /\ \A l \in 1 .. Len(buf) : k < at[l] /\ at[l] <= a /\ IsHeard(b, at[l], buf[l], tear)
      /\ \A l, m \in 1 .. Len(buf) : l < m => at[l] < at[m]
      /\ \A x \in k + 1 .. a : y[x] # CR => \E l \in 1 .. Len(buf) : at[l] = x
    BY DEF Held
<1>2. i \in 1 .. Len(buf) /\ i + 1 \in 1 .. Len(buf) /\ buf[i] = LF /\ buf[i + 1] = LF
      /\ i < i + 1
    <2>1. i \in 1 .. Len(buf) - 1 /\ buf[i] = LF /\ buf[i + 1] = LF
        BY DEF FrameEnds
    <2> QED
        BY <1>1, <2>1
<1> DEFINE p == at[i]
           q == at[i + 1]
<1>3. p \in Nat /\ q \in Nat /\ p < q /\ k < p /\ q <= a
    BY <1>1, <1>2
<1>4. y[p] = LF /\ y[q] = LF
    <2>1. IsHeard(b, p, LF, tear) /\ IsHeard(b, q, LF, tear)
        BY <1>1, <1>2
    <2> QED
        BY <2>1, HeardMarks, MarksDiffer
<1>5. \A x \in p + 1 .. q - 1 : y[x] = CR
    <2> SUFFICES ASSUME NEW x \in p + 1 .. q - 1, y[x] # CR
                 PROVE  FALSE
        OBVIOUS
    <2>1. x \in k + 1 .. a
        BY <1>1, <1>3
    <2>2. PICK l \in 1 .. Len(buf) : at[l] = x
        BY <1>1, <2>1
    <2>3. l # i /\ l # i + 1 /\ (l < i => x < p) /\ (i + 1 < l => q < x)
        BY <1>1, <1>2, <1>3, <2>2
    <2>4. l < i \/ i + 1 < l
        BY <1>1, <1>2, <2>3
    <2>5. p < x /\ x < q /\ x \in Nat
        BY <1>3
    <2> QED
        BY <1>3, <2>3, <2>4, <2>5
<1> HIDE DEF p, q, y
<1>6. N \in Nat /\ Len(y) \in Nat /\ EndOf(b, N) = Len(y) /\ w \in {1, 2}
      /\ \A n \in 0 .. N : EndOf(b, n) \in Nat
    BY DEF Layout, y
<1>7. p \in 1 .. Len(y) /\ q \in 1 .. Len(y)
    BY <1>1, <1>3, <1>6
<1>8. PICK n \in 1 .. N : p \in {EndOf(b, n), EndOf(b, n) - w}
    BY <1>4, <1>7, Spelling DEF Spelled, y
<1> DEFINE f == EndOf(b, n)
<1>9. n \in 0 .. N /\ n - 1 \in 0 .. N /\ f \in Nat
    BY <1>6
<1> DEFINE e == EndOf(b, n - 1)
           s == Size(b, n)
<1>10. e \in Nat /\ s \in Nat \ {0} /\ f = e + s + 2 * w /\ y[f] = LF
    BY <1>9 DEF Layout, y
<1> HIDE DEF e, s
<1>11. p # f
    <2> SUFFICES ASSUME p = f
                 PROVE  FALSE
        OBVIOUS
    <2>1. p < Len(y) /\ p + 1 \in 1 .. Len(y)
        BY <1>3, <1>7
    <2>2. n # N
        BY <1>6, <2>1
    <2>3. n + 1 \in 1 .. N /\ (n + 1) - 1 = n /\ n + 1 \in 0 .. N
        BY <1>6, <2>2
    <2>4. Size(b, n + 1) \in Nat \ {0} /\ EndOf(b, n + 1) \in Nat
          /\ EndOf(b, n + 1) = f + Size(b, n + 1) + 2 * w /\ IsEvent(b.events[n + 1])
        BY <2>3 DEF Layout
    <2>5. /\ p + 1 \in Nat /\ EndOf(b, (n + 1) - 1) < p + 1 /\ p + 1 <= EndOf(b, n + 1)
          /\ (p + 1) - EndOf(b, (n + 1) - 1) = 1 /\ 1 <= Size(b, n + 1)
        <3> DEFINE g == EndOf(b, n + 1)
                   z == Size(b, n + 1)
                   h == EndOf(b, (n + 1) - 1)
        <3>1. h = p
            BY <2>3
        <3>2. p \in Nat /\ z \in Nat \ {0} /\ g = p + z + 2 * w /\ w \in {1, 2}
            BY <1>3, <1>6, <2>4
        <3> HIDE DEF g, z, h
        <3>3. p + 1 \in Nat /\ h < p + 1 /\ p + 1 <= g /\ (p + 1) - h = 1 /\ 1 <= z
            BY <3>1, <3>2
        <3> QED
            BY <3>3 DEF g, z, h
    <2>6. 1 \in 1 .. Len(Line(b.events[n + 1])) /\ y[p + 1] = Line(b.events[n + 1])[1]
        BY <2>3, <2>5, SymbolIs DEF y
    <2>7. Line(b.events[n + 1])[1] \notin {CR, LF}
        <3>1. b.events[n + 1].kind = "chunk"
                => b.events[n + 1].text \in Seq(Letters(b.events))
            <4>1. n + 1 \in DOMAIN b.events
                BY <2>3 DEF Layout
            <4> QED
                BY <2>4, <4>1, TextInLetters
        <3>2. Marks \union {Comment} \subseteq Letters(b.events)
            BY DEF Letters
        <3> QED
            BY <2>4, <2>6, <3>1, <3>2, LineIs
    <2>8. p + 1 = q
        <3>1. p + 1 < q => p + 1 \in p + 1 .. q - 1
            BY <1>3
        <3> QED
            BY <1>3, <1>5, <2>6, <2>7, <3>1
    <2> QED
        BY <1>4, <2>6, <2>7, <2>8
<1>12. p = f - w
    BY <1>8, <1>11
<1>13. q <= f
    <2>1. f < q => f \in p + 1 .. q - 1
        BY <1>3, <1>6, <1>9, <1>12
    <2> QED
        BY <1>3, <1>5, <1>9, <1>10, <2>1, MarksDiffer
<1>14. q = f
    <2>1. q - e > s /\ e < q
        BY <1>3, <1>6, <1>9, <1>10, <1>12
    <2>2. \/ q \in {f, f - w} /\ y[q] = LF
          \/ w = 2 /\ q \in {f - 1, f - 3} /\ y[q] = CR
        BY <1>3, <1>13, <2>1, SymbolIs DEF y, e, s
    <2> QED
        BY <1>3, <1>4, <1>12, <2>2, MarksDiffer
<1> QED
    BY <1>3, <1>12, <1>14 DEF p, q

\* The end of an event that has arrived is in the buffer, and is seen there
\* unless a read ended in the middle of it.
LEMMA EndHeld ==
    ASSUME NEW b, NEW w, Layout(b, w), NEW k, NEW a, NEW buf, NEW tear, NEW at,
           Held(b, k, a, buf, tear, at), NEW m \in 1 .. Len(b.events),
           k <= EndOf(b, m - 1), EndOf(b, m) <= a
    PROVE  \E i, j \in 1 .. Len(buf) :
                /\ at[i] = EndOf(b, m) - w /\ at[j] = EndOf(b, m) /\ i < j
                /\ buf[i] = LF /\ buf[j] = LF
                /\ "line end" \notin tear => i \in FrameEnds(buf)
<1> DEFINE N == Len(b.events)
           y == b.symbols
           e == EndOf(b, m - 1)
           f == EndOf(b, m)
           s == Size(b, m)
<1>1. /\ Len(buf) \in Nat /\ at \in [1 .. Len(buf) -> Nat] /\ k \in Nat /\ a \in Nat
      /\ a <= Len(y)
      /\ \A l \in 1 .. Len(buf) : k < at[l] /\ at[l] <= a /\ IsHeard(b, at[l], buf[l], tear)
      /\ \A l, n \in 1 .. Len(buf) : l < n => at[l] < at[n]
      /\ \A x \in k + 1 .. a : y[x] # CR => \E l \in 1 .. Len(buf) : at[l] = x
      /\ \A l \in 1 .. Len(buf) : buf[l] = CR => "line end" \in tear
    BY DEF Held
<1>2. N \in Nat /\ w \in {1, 2} /\ m - 1 \in 0 .. N /\ m \in 0 .. N
    BY DEF Layout
<1>3. /\ e \in Nat /\ f \in Nat /\ s \in Nat \ {0} /\ f = e + s + 2 * w /\ k <= e /\ f <= a
      /\ y[f] = LF /\ y[f - w] = LF /\ (w = 2 => y[f - 1] = CR)
    BY <1>2 DEF Layout
<1> HIDE DEF e, f, s
<1>4. f \in k + 1 .. a /\ f - w \in k + 1 .. a
    <2>1. k \in Nat /\ a \in Nat
        BY <1>1
    <2> QED
        BY <1>2, <1>3, <2>1
<1>5. PICK j \in 1 .. Len(buf) : at[j] = f
    BY <1>1, <1>3, <1>4, MarksDiffer
<1>6. PICK i \in 1 .. Len(buf) : at[i] = f - w
    BY <1>1, <1>3, <1>4, MarksDiffer
<1>7. i < j
    <2>1. f - w < f
        BY <1>2, <1>3
    <2>2. j < i => f < f - w
        BY <1>1, <1>5, <1>6
    <2>3. i # j /\ ~(j < i)
        BY <1>2, <1>3, <1>5, <1>6, <2>1, <2>2
    <2>4. i \in Nat /\ j \in Nat
        OBVIOUS
    <2> QED
        BY <2>3, <2>4
<1>8. buf[i] = LF /\ buf[j] = LF
    <2>1. IsHeard(b, f, buf[j], tear) /\ IsHeard(b, f - w, buf[i], tear)
        BY <1>1, <1>5, <1>6
    <2> QED
        BY <1>3, <2>1, HeardMarks, MarksDiffer DEF y
<1>9. ASSUME "line end" \notin tear
      PROVE  i \in FrameEnds(buf)
    <2>1. \A l \in 1 .. Len(buf) : at[l] <= at[i] \/ at[j] <= at[l]
        <3> SUFFICES ASSUME NEW l \in 1 .. Len(buf), ~(at[l] <= at[i]), ~(at[j] <= at[l])
                     PROVE  FALSE
            OBVIOUS
        <3>1. at[l] \in Nat
            BY <1>1
        <3>2. w = 2 /\ at[l] = f - 1
            BY <1>2, <1>3, <1>5, <1>6, <3>1
        <3>3. IsHeard(b, at[l], buf[l], tear)
            BY <1>1
        <3>4. buf[l] = CR
            BY <1>3, <3>2, <3>3, HeardMarks, MarksDiffer DEF y
        <3> QED
            BY <1>1, <1>9, <3>4
    <2>2. j = i + 1
        BY <1>7, <2>1, Neighbours
    <2>3. i \in 1 .. Len(buf) - 1
        <3>1. Len(buf) \in Nat /\ i + 1 \in 1 .. Len(buf)
            BY <1>1, <2>2
        <3> QED
            BY <3>1
    <2> QED
        BY <1>8, <2>2, <2>3 DEF FrameEnds
<1> QED
    BY <1>5, <1>6, <1>7, <1>8, <1>9 DEF f

\* Held, when the place k is that of the last frame taken out.
LEMMA RestHeld ==
    ASSUME NEW b, NEW k, NEW a, NEW buf, NEW tear, NEW at, Held(b, k, a, buf, tear, at),
           NEW e \in FrameEnds(buf), at[e + 1] <= a
    PROVE  \E to : Held(b, at[e + 1], a, SubSeq(buf, e + 2, Len(buf)), tear, to)
<1> DEFINE T == Letters(b.events)
           L == Len(buf)
           M == L - (e + 1)
           rest == SubSeq(buf, e + 2, L)
           to == [i \in 1 .. M |-> at[e + 1 + i]]
<1>1. /\ buf \in Seq(T) /\ L \in Nat /\ at \in [1 .. L -> Nat]
      /\ k \in Nat /\ a \in Nat /\ a <= Len(b.symbols)
      /\ \A i \in 1 .. L : k < at[i] /\ at[i] <= a /\ IsHeard(b, at[i], buf[i], tear)
      /\ \A i, j \in 1 .. L : i < j => at[i] < at[j]
      /\ \A x \in k + 1 .. a : b.symbols[x] # CR => \E i \in 1 .. L : at[i] = x
      /\ \A i \in 1 .. L : buf[i] = CR => "line end" \in tear
    BY DEF Held
<1>2. e \in 1 .. L - 1
    BY DEF FrameEnds
<1> HIDE DEF T, L, M
<1>0. L \in Nat /\ e \in 1 .. L - 1 /\ k \in Nat /\ a \in Nat
    BY <1>1, <1>2
<1>3. M \in Nat /\ e + 1 \in 1 .. L /\ e + 1 + M = L /\ e + 1 \in Nat /\ (e + 1) + 1 = e + 2
    BY <1>0 DEF M
<1>4. \A i \in 1 .. M : e + 1 + i \in 1 .. L /\ e + 1 < e + 1 + i
    BY <1>0, <1>3
<1>5. rest \in Seq(T) /\ Len(rest) = M /\ \A i \in 1 .. M : rest[i] = buf[e + 1 + i]
    <2>1. IsPart(T, buf, e + 1, M, SubSeq(buf, (e + 1) + 1, (e + 1) + M))
        <3>1. (e + 1) + M <= Len(buf)
            BY <1>0, <1>3 DEF L
        <3> QED
            BY <1>1, <1>3, <3>1, PartIs
    <2>2. IsPart(T, buf, e + 1, M, rest)
        BY <1>3, <2>1
    <2> HIDE DEF rest
    <2> QED
        BY <2>2 DEF IsPart
<1> HIDE DEF rest
<1>6. to \in [1 .. M -> Nat] /\ \A i \in 1 .. M : to[i] = at[e + 1 + i]
    BY <1>1, <1>4
<1> HIDE DEF to
<1>7. at[e + 1] \in Nat /\ k < at[e + 1]
    BY <1>1, <1>3
<1>8. \A i \in 1 .. M : /\ at[e + 1] < to[i] /\ to[i] <= a
                        /\ IsHeard(b, to[i], rest[i], tear)
                        /\ rest[i] = CR => "line end" \in tear
    <2> TAKE i \in 1 .. M
    <2>1. at[e + 1] < at[e + 1 + i]
        BY <1>1, <1>3, <1>4
    <2> QED
        BY <1>1, <1>4, <1>5, <1>6, <2>1
<1>9. \A i, j \in 1 .. M : i < j => to[i] < to[j]
    <2> SUFFICES ASSUME NEW i \in 1 .. M, NEW j \in 1 .. M, i < j
                 PROVE  to[i] < to[j]
        OBVIOUS
    <2>1. e + 1 + i < e + 1 + j
        BY <1>0
    <2>2. at[e + 1 + i] < at[e + 1 + j]
        BY <1>1, <1>4, <2>1
    <2> QED
        BY <1>6, <2>2
<1>10. ASSUME NEW x \in at[e + 1] + 1 .. a, b.symbols[x] # CR
       PROVE  \E i \in 1 .. M : to[i] = x
    <2>1. x \in k + 1 .. a /\ at[e + 1] < x /\ x \in Nat
        <3> DEFINE q == at[e + 1]
        <3>1. q \in Nat /\ k < q /\ x \in q + 1 .. a
            BY <1>7, <1>10
        <3> HIDE DEF q
        <3>2. x \in k + 1 .. a /\ q < x /\ x \in Nat
            BY <1>0, <3>1
        <3> QED
            BY <3>2 DEF q
    <2>2. PICK l \in 1 .. L : at[l] = x
        BY <1>1, <1>10, <2>1
    <2>3. ~(l <= e + 1)
        <3>1. l < e + 1 => at[l] < at[e + 1]
            BY <1>1, <1>3
        <3> QED
            BY <1>3, <1>7, <2>1, <2>2, <3>1
    <2>4. l - (e + 1) \in 1 .. M /\ e + 1 + (l - (e + 1)) = l
        <3>1. l \in 1 .. L /\ L \in Nat /\ e \in 1 .. L - 1
            BY <1>1, <1>2
        <3> QED
            BY <2>3, <3>1 DEF M
    <2> QED
        BY <1>6, <2>2, <2>4
<1>11. Len(rest) \in Nat
    BY <1>3, <1>5
<1>12. Held(b, at[e + 1], a, rest, tear, to)
    BY <1>1, <1>5, <1>6, <1>7, <1>8, <1>9, <1>10, <1>11 DEF Held, T
<1> QED
    BY <1>12 DEF rest, L

\* A read that ends at a, in the middle of a character, has torn it.
TornAt(b, a, tear) ==
    a > 0 /\ a < Len(b.symbols) =>
        /\ b.symbols[a] = Lead => "character" \in tear
        /\ b.symbols[a] = CR => "line end" \in tear

\* What a read of what was sent between a and a + n adds to what is held.
LEMMA ReadIs ==
    ASSUME NEW b, NEW w, Layout(b, w), NEW a \in Nat, NEW n \in Nat,
           a + n <= Len(b.symbols), NEW tear, NEW more, tear \subseteq more,
           TornAt(b, a, tear), TornAt(b, a + n, more),
           NEW read, IsPart(Letters(b.events), b.symbols, a, n, read)
    PROVE  \E to : Held(b, a, a + n, Unixed(Lossy(read)), more, to)
<1> DEFINE T == Letters(b.events)
           y == b.symbols
           heard == Lossy(read)
           P == {i \in DOMAIN heard : ~(heard[i] = CR /\ i < Len(heard) /\ heard[i + 1] = LF)}
           c == Cardinality(P)
           to == [i \in 1 .. c |-> a + Nth(P, i)]
<1>1. read \in Seq(T) /\ Len(read) = n /\ \A i \in 1 .. n : read[i] = y[a + i]
    BY DEF IsPart
<1>2. Len(y) \in Nat /\ Replacement \in T
    BY LayoutIs DEF Letters
<1>3. \A x \in 1 .. Len(y) :
        /\ y[x] = CR => x < Len(y) /\ y[x + 1] = LF
        /\ y[x] = Lead => x < Len(y) /\ y[x + 1] = Cont
        /\ y[x] = Cont => x > 1 /\ y[x - 1] = Lead
    BY Spelling DEF Spelled
<1> HIDE DEF T, y
<1>4. \A i \in 1 .. n : a + i \in 1 .. Len(y)
    BY <1>2 DEF y
<1>5. \A i \in 1 .. n : heard[i] =
        IF \/ read[i] = Lead /\ (i = n \/ read[i + 1] # Cont)
           \/ read[i] = Cont /\ (i = 1 \/ read[i - 1] # Lead)
        THEN Replacement ELSE read[i]
    <2>1. DOMAIN read = 1 .. n
        BY <1>1
    <2> QED
        BY <1>1, <2>1 DEF Lossy
<1>6. heard \in Seq(T) /\ Len(heard) = n /\ DOMAIN heard = 1 .. n
    <2>1. \A i \in 1 .. n : heard[i] \in T
        BY <1>1, <1>2, <1>5
    <2>2. heard = [i \in 1 .. n |-> heard[i]]
        <3>1. DOMAIN read = 1 .. n
            BY <1>1
        <3> QED
            BY <3>1 DEF Lossy
    <2> HIDE DEF heard
    <2>3. heard \in [1 .. n -> T]
        BY <2>1, <2>2
    <2> QED
        BY <2>3
<1> HIDE DEF heard
<1>7. ASSUME NEW i \in 1 .. n
      PROVE  IsHeard(b, a + i, heard[i], more)
    <2>1. a + i \in 1 .. Len(y) /\ read[i] = y[a + i]
        BY <1>1, <1>4
    <2>2. CASE read[i] = Lead /\ (i = n \/ read[i + 1] # Cont)
        <3>1. a + i < Len(y) /\ y[a + i + 1] = Cont
            BY <1>3, <2>1, <2>2
        <3>2. i = n
            <4>1. i # n => i + 1 \in 1 .. n /\ a + (i + 1) = a + i + 1
                OBVIOUS
            <4> QED
                BY <1>1, <2>2, <3>1, <4>1
        <3>3. "character" \in more
            <4>1. a + n > 0
                BY <2>1, <3>2
            <4> QED
                BY <2>1, <2>2, <3>1, <3>2, <4>1 DEF TornAt, y
        <3>4. heard[i] = Replacement
            BY <1>5, <2>2
        <3> QED
            BY <2>1, <2>2, <3>3, <3>4 DEF IsHeard, y
    <2>3. CASE read[i] = Cont /\ (i = 1 \/ read[i - 1] # Lead)
        <3>1. a + i > 1 /\ y[(a + i) - 1] = Lead
            BY <1>3, <2>1, <2>3
        <3>2. i = 1
            <4>1. i # 1 => i - 1 \in 1 .. n /\ a + (i - 1) = (a + i) - 1
                OBVIOUS
            <4> QED
                BY <1>1, <2>3, <3>1, <4>1
        <3>3. "character" \in tear
            <4>1. a > 0 /\ a < Len(y) /\ (a + i) - 1 = a
                BY <1>2, <2>1, <3>1, <3>2
            <4> QED
                BY <3>1, <4>1 DEF TornAt, y
        <3>4. heard[i] = Replacement
            BY <1>5, <2>3
        <3> QED
            BY <2>1, <2>3, <3>3, <3>4 DEF IsHeard, y
    <2>4. CASE ~(\/ read[i] = Lead /\ (i = n \/ read[i + 1] # Cont)
                 \/ read[i] = Cont /\ (i = 1 \/ read[i - 1] # Lead))
        <3>1. heard[i] = read[i]
            BY <1>5, <2>4
        <3> QED
            BY <2>1, <3>1 DEF IsHeard, y
    <2> QED
        BY <2>2, <2>3, <2>4
<1>8. P \in SUBSET DOMAIN heard
    OBVIOUS
<1>9. ASSUME NEW i \in 1 .. n, i \notin P
      PROVE  y[a + i] = CR
    <2>1. heard[i] = CR
        BY <1>6, <1>9
    <2> QED
        BY <1>7, <2>1, HeardMarks, MarksDiffer DEF y
<1>10. ASSUME NEW i \in P, heard[i] = CR
       PROVE  "line end" \in more
    <2>1. i \in 1 .. n /\ ~(i < n /\ heard[i + 1] = LF)
        BY <1>6, <1>10
    <2>2. y[a + i] = CR
        BY <1>7, <1>10, <2>1, HeardMarks, MarksDiffer DEF y
    <2>3. a + i < Len(y) /\ y[a + i + 1] = LF
        BY <1>3, <1>4, <2>1, <2>2
    <2>4. i = n
        <3> SUFFICES ASSUME i # n
                     PROVE  FALSE
            OBVIOUS
        <3>1. i + 1 \in 1 .. n /\ i < n /\ a + (i + 1) = a + i + 1
            BY <2>1
        <3>2. IsHeard(b, a + (i + 1), heard[i + 1], more)
            BY <1>7, <3>1
        <3>3. heard[i + 1] = LF
            BY <2>3, <3>1, <3>2, HeardMarks, MarksDiffer DEF y
        <3> QED
            BY <2>1, <3>1, <3>3
    <2>5. a + n > 0 /\ a + n < Len(b.symbols) /\ b.symbols[a + n] = CR
        BY <2>1, <2>2, <2>3, <2>4 DEF y
    <2> QED
        BY <2>5 DEF TornAt
<1> HIDE DEF P
<1> DEFINE new == Chosen(heard, P)
<1>11. /\ new \in Seq(T) /\ Len(new) = c /\ c \in Nat
       /\ \A i \in 1 .. c : Nth(P, i) \in P /\ new[i] = heard[Nth(P, i)]
       /\ \A i, j \in 1 .. c : i < j => Nth(P, i) < Nth(P, j)
    BY <1>6, <1>8, ChosenIs
<1> HIDE DEF c, new
<1>12. \A i \in 1 .. c : Nth(P, i) \in 1 .. n
    BY <1>6, <1>8, <1>11
<1>13. to \in [1 .. c -> Nat] /\ \A i \in 1 .. c : to[i] = a + Nth(P, i)
    BY <1>12
<1> HIDE DEF to
<1>14. \A i \in 1 .. c : /\ a < to[i] /\ to[i] <= a + n
                         /\ IsHeard(b, to[i], new[i], more)
                         /\ new[i] = CR => "line end" \in more
    <2> TAKE i \in 1 .. c
    <2>1. Nth(P, i) \in 1 .. n /\ Nth(P, i) \in P /\ to[i] = a + Nth(P, i) /\ new[i] = heard[Nth(P, i)]
        BY <1>11, <1>12, <1>13
    <2>2. a < a + Nth(P, i) /\ a + Nth(P, i) <= a + n
        BY <2>1
    <2> QED
        BY <1>7, <1>10, <2>1, <2>2
<1>15. \A i, j \in 1 .. c : i < j => to[i] < to[j]
    <2> SUFFICES ASSUME NEW i \in 1 .. c, NEW j \in 1 .. c, i < j
                 PROVE  to[i] < to[j]
        OBVIOUS
    <2>1. Nth(P, i) < Nth(P, j) /\ Nth(P, i) \in 1 .. n /\ Nth(P, j) \in 1 .. n
        BY <1>11, <1>12
    <2> QED
        BY <1>13, <2>1
<1>16. ASSUME NEW x \in a + 1 .. a + n, y[x] # CR
       PROVE  \E i \in 1 .. c : to[i] = x
    <2>1. x - a \in 1 .. n /\ a + (x - a) = x
        OBVIOUS
    <2>2. x - a \in P
        BY <1>9, <1>16, <2>1
    <2>3. PICK i \in 1 .. c : Nth(P, i) = x - a
        BY <1>6, <1>8, <2>2, RankIs DEF c
    <2> QED
        BY <1>13, <2>1, <2>3
<1>17. Held(b, a, a + n, new, more, to)
    <2>1. a + n \in Nat /\ Len(new) \in Nat
        BY <1>11
    <2> QED
        BY <1>11, <1>13, <1>14, <1>15, <1>16, <2>1 DEF Held, T, y
<1>18. Unixed(heard) = new
    BY DEF Unixed, new, P
<1> QED
    BY <1>17, <1>18 DEF heard

\* What is held grows by what comes next.
LEMMA HeldJoined ==
    ASSUME NEW b, NEW k, NEW a, NEW d, NEW buf, NEW new, NEW tear, NEW more, tear \subseteq more,
           NEW at, Held(b, k, a, buf, tear, at),
           NEW to, Held(b, a, d, new, more, to), k <= a, a <= d
    PROVE  \E on : Held(b, k, d, buf \o new, more, on)
<1> DEFINE T == Letters(b.events)
           B == Len(buf)
           c == Len(new)
           all == buf \o new
           on == [i \in 1 .. B + c |-> IF i <= B THEN at[i] ELSE to[i - B]]
<1>1. /\ buf \in Seq(T) /\ B \in Nat /\ at \in [1 .. B -> Nat]
      /\ k \in Nat /\ a \in Nat
      /\ \A i \in 1 .. B : k < at[i] /\ at[i] <= a /\ IsHeard(b, at[i], buf[i], tear)
      /\ \A i, j \in 1 .. B : i < j => at[i] < at[j]
      /\ \A x \in k + 1 .. a : b.symbols[x] # CR => \E i \in 1 .. B : at[i] = x
      /\ \A i \in 1 .. B : buf[i] = CR => "line end" \in tear
    BY DEF Held
<1>2. /\ new \in Seq(T) /\ c \in Nat /\ to \in [1 .. c -> Nat]
      /\ d \in Nat /\ d <= Len(b.symbols)
      /\ \A i \in 1 .. c : a < to[i] /\ to[i] <= d /\ IsHeard(b, to[i], new[i], more)
      /\ \A i, j \in 1 .. c : i < j => to[i] < to[j]
      /\ \A x \in a + 1 .. d : b.symbols[x] # CR => \E i \in 1 .. c : to[i] = x
      /\ \A i \in 1 .. c : new[i] = CR => "line end" \in more
    BY DEF Held
<1> HIDE DEF T, B, c
<1>0. B \in Nat /\ c \in Nat /\ k \in Nat /\ a \in Nat /\ d \in Nat
    BY <1>1, <1>2
<1>3. /\ all \in Seq(T) /\ Len(all) = B + c
      /\ \A i \in 1 .. B : all[i] = buf[i]
      /\ \A i \in 1 .. c : all[B + i] = new[i]
    <2>1. Joins(T, buf, new, all)
        BY <1>1, <1>2, Joined
    <2> HIDE DEF all
    <2> QED
        BY <2>1 DEF Joins, B, c
<1> HIDE DEF all
<1>4. \A i \in 1 .. B + c : i \in 1 .. B \/ (i > B /\ i - B \in 1 .. c /\ B + (i - B) = i)
    BY <1>0
<1>5. /\ on \in [1 .. B + c -> Nat]
      /\ \A i \in 1 .. B : on[i] = at[i]
      /\ \A i \in 1 .. c : on[B + i] = to[i]
    <2>1. \A i \in 1 .. B : i \in 1 .. B + c /\ i <= B
        BY <1>0
    <2>2. \A i \in 1 .. c : B + i \in 1 .. B + c /\ ~(B + i <= B) /\ (B + i) - B = i
        BY <1>0
    <2>3. \A i \in 1 .. B + c : (IF i <= B THEN at[i] ELSE to[i - B]) \in Nat
        <3> TAKE i \in 1 .. B + c
        <3>1. CASE i \in 1 .. B
            <4>1. i <= B
                BY <1>0, <3>1
            <4>2. at[i] \in Nat
                BY <1>1, <3>1
            <4> QED
                BY <4>1, <4>2
        <3>2. CASE i > B /\ i - B \in 1 .. c
            <4>1. ~(i <= B)
                BY <1>0, <3>2
            <4>2. to[i - B] \in Nat
                BY <1>2, <3>2
            <4> QED
                BY <4>1, <4>2
        <3> QED
            BY <1>4, <3>1, <3>2
    <2> QED
        BY <2>1, <2>2, <2>3
<1> HIDE DEF on
<1>6. ASSUME NEW i \in 1 .. B + c
      PROVE  /\ k < on[i] /\ on[i] <= d /\ IsHeard(b, on[i], all[i], more)
             /\ all[i] = CR => "line end" \in more
    <2>1. CASE i \in 1 .. B
        <3>0. at[i] \in Nat /\ at[i] <= a /\ k < at[i]
            BY <1>1, <2>1
        <3> DEFINE p == at[i]
        <3>4. p \in Nat /\ p <= a /\ k < p
            BY <3>0
        <3> HIDE DEF p
        <3>5. p <= d
            BY <1>0, <3>4
        <3>1. at[i] \in Nat /\ at[i] <= a /\ k < at[i] /\ at[i] <= d
            BY <3>0, <3>5 DEF p
        <3>2. IsHeard(b, at[i], buf[i], more)
            BY <1>1, <2>1 DEF IsHeard
        <3> QED
            BY <1>1, <1>3, <1>5, <2>1, <3>1, <3>2
    <2>2. CASE i \notin 1 .. B
        <3> DEFINE j == i - B
        <3>1. j \in 1 .. c /\ i = B + j
            BY <1>4, <2>2
        <3> HIDE DEF j
        <3>3. to[j] \in Nat /\ a < to[j] /\ to[j] <= d
            BY <1>2, <3>1
        <3>2. k < to[j]
            BY <1>0, <3>3
        <3> QED
            BY <1>2, <1>3, <1>5, <3>1, <3>2, <3>3
    <2> QED
        BY <2>1, <2>2
<1>7. ASSUME NEW i \in 1 .. B + c, NEW j \in 1 .. B + c, i < j
      PROVE  on[i] < on[j]
    <2>1. CASE j \in 1 .. B
        <3>1. i \in 1 .. B
            BY <1>0, <1>7, <2>1
        <3> QED
            BY <1>1, <1>5, <1>7, <2>1, <3>1
    <2>2. CASE j \notin 1 .. B /\ i \in 1 .. B
        <3> DEFINE l == j - B
        <3>1. l \in 1 .. c /\ j = B + l
            BY <1>4, <2>2
        <3> HIDE DEF l
        <3>2. at[i] \in Nat /\ at[i] <= a /\ to[l] \in Nat /\ a < to[l]
            BY <1>1, <1>2, <2>2, <3>1
        <3>3. at[i] < to[l]
            BY <1>0, <3>2
        <3> QED
            BY <1>5, <2>2, <3>1, <3>3
    <2>3. CASE j \notin 1 .. B /\ i \notin 1 .. B
        <3> DEFINE l == j - B
                   h == i - B
        <3>1. l \in 1 .. c /\ j = B + l /\ h \in 1 .. c /\ i = B + h
            BY <1>4, <2>3
        <3>2. h < l
            BY <1>0, <1>7
        <3> HIDE DEF l, h
        <3> QED
            BY <1>2, <1>5, <3>1, <3>2
    <2> QED
        BY <2>1, <2>2, <2>3
<1>8. ASSUME NEW x \in k + 1 .. d, b.symbols[x] # CR
      PROVE  \E i \in 1 .. B + c : on[i] = x
    <2>1. CASE x \in k + 1 .. a
        <3>1. PICK i \in 1 .. B : at[i] = x
            BY <1>1, <1>8, <2>1
        <3>2. i \in 1 .. B + c
            BY <1>0
        <3> QED
            BY <1>5, <3>1, <3>2
    <2>2. CASE x \in a + 1 .. d
        <3>1. PICK i \in 1 .. c : to[i] = x
            BY <1>2, <1>8, <2>2
        <3>2. B + i \in 1 .. B + c
            BY <1>0
        <3> QED
            BY <1>5, <3>1, <3>2
    <2>3. x \in k + 1 .. a \/ x \in a + 1 .. d
        BY <1>0
    <2> QED
        BY <2>1, <2>2, <2>3
<1>9. Held(b, k, d, all, more, on)
    <2>1. Len(all) \in Nat /\ Len(all) = B + c
        BY <1>0, <1>3
    <2>2. d <= Len(b.symbols)
        BY <1>2
    <2> QED
        BY <1>0, <1>3, <1>5, <1>6, <1>7, <1>8, <2>1, <2>2 DEF Held, T
<1> QED
    BY <1>9 DEF all

-----------------------------------------------------------------------------
(* The data of a frame, and what they are decoded to.                      *)

\* The places of an event: its prefix, its line and its ends.
IsPlaced(b, w, m) ==
    LET e == EndOf(b, m - 1)
        f == EndOf(b, m)
    IN /\ e \in Nat /\ f \in Nat /\ Size(b, m) \in Nat \ {0} /\ w \in {1, 2}
       /\ f = e + Size(b, m) + 2 * w /\ f <= Len(b.symbols)
       /\ b.symbols[f] = LF /\ b.symbols[f - w] = LF
       /\ b.events[m].kind # "comment" => Size(b, m) > 1 /\ b.symbols[e + 1] = DataPrefix
       /\ \A x \in Nat : e < x /\ x <= e + Size(b, m) =>
            /\ x \in 1 .. Len(b.symbols) /\ b.symbols[x] \notin {CR, LF}
            /\ x - e \in 1 .. Size(b, m) /\ b.symbols[x] = Line(b.events[m])[x - e]
       /\ \A x \in Nat : e + Size(b, m) < x /\ x < f - w => b.symbols[x] = CR

\* Every event of a body is placed so.
LEMMA Placed ==
    ASSUME NEW b, NEW w, Layout(b, w), NEW m \in 1 .. Len(b.events)
    PROVE  IsPlaced(b, w, m)
<1> DEFINE N == Len(b.events)
           e == EndOf(b, m - 1)
           f == EndOf(b, m)
           s == Size(b, m)
           l == Line(b.events[m])
           y == b.symbols
<1>1. N \in Nat /\ m - 1 \in 0 .. N /\ m \in 0 .. N /\ N \in 0 .. N /\ m <= N
    BY DEF Layout
<1>2. /\ e \in Nat /\ f \in Nat /\ s \in Nat \ {0} /\ f = e + s + 2 * w /\ w \in {1, 2}
      /\ \A j \in 1 .. s : y[e + j] = l[j]
      /\ y[f] = LF /\ y[f - w] = LF /\ EndOf(b, N) = Len(y) /\ IsEvent(b.events[m])
    BY <1>1 DEF Layout
<1>3. f <= Len(y)
    BY <1>1, <1>2, EndsRise
<1>4. /\ s = Len(l) /\ (b.events[m].kind # "comment" => l[1] = DataPrefix /\ Len(l) > 1)
      /\ \A j \in 1 .. Len(l) : l[j] \notin {CR, LF}
    <2>1. b.events[m].kind = "chunk" => b.events[m].text \in Seq(Letters(b.events))
        <3>1. m \in DOMAIN b.events
            BY DEF Layout
        <3> QED
            BY <1>2, <3>1, TextInLetters
    <2>2. Marks \union {Comment} \subseteq Letters(b.events)
        BY DEF Letters
    <2>3. s = Len(l)
        BY DEF Size
    <2> QED
        BY <1>2, <2>1, <2>2, <2>3, LineIs
<1>5. ASSUME NEW x \in Nat, e < x, x <= e + s
      PROVE  x \in 1 .. Len(y) /\ x - e \in 1 .. s /\ y[x] = l[x - e] /\ y[x] \notin {CR, LF}
    <2>0. e \in Nat /\ s \in Nat /\ f = e + s + 2 * w /\ w \in {1, 2} /\ e < x /\ x <= e + s
        BY <1>2, <1>5
    <2> HIDE DEF e, s, f
    <2>1. x <= f
        BY <2>0
    <2>2. x - e <= s /\ x - e \in 1 .. s
        BY <2>0
    <2>3. x \in 1 .. Len(y) /\ y[x] = l[x - e]
        BY <1>5, <2>1, <2>2, SymbolIs DEF e, s, f
    <2> QED
        BY <1>4, <2>2, <2>3
<1>6. ASSUME NEW x \in Nat, e + s < x, x < f - w
      PROVE  y[x] = CR
    <2>1. e < x /\ x <= f /\ x - e > s /\ x \notin {f, f - w}
        BY <1>2, <1>6
    <2>2. \/ x \in {f, f - w} /\ y[x] = LF
          \/ w = 2 /\ x \in {f - 1, f - 3} /\ y[x] = CR
        BY <2>1, SymbolIs
    <2> QED
        BY <2>1, <2>2
<1>7. b.events[m].kind # "comment" => s > 1 /\ y[e + 1] = DataPrefix
    <2>1. 1 \in 1 .. s
        BY <1>2
    <2> QED
        BY <1>2, <1>4, <2>1
<1> QED
    BY <1>2, <1>3, <1>5, <1>6, <1>7 DEF IsPlaced

\* Where the data of the events from k + 1 to n are sent.
DataPlaces(b, k, n) ==
    {x \in 1 .. Len(b.symbols) :
        \E m \in k + 1 .. n :
            /\ b.events[m].kind # "comment"
            /\ EndOf(b, m - 1) + 1 < x /\ x <= EndOf(b, m - 1) + Size(b, m)}

\* The places of a frame that event_data keeps.
DataOf(frame) ==
    {i \in DOMAIN frame :
        /\ \E p \in 1 .. i - 1 :
            /\ frame[p] = DataPrefix /\ (p = 1 \/ frame[p - 1] = LF)
            /\ \A j \in p .. i : frame[j] # LF
        /\ frame[i] # CR}

\* event_data, as a choice of places.
LEMMA EventDataIs == ASSUME NEW frame PROVE EventData(frame) = Chosen(frame, DataOf(frame))
    BY DEF EventData, DataOf

\* The buffer up to e is what was sent behind event k, and up to event n.
IsFront(b, w, k, n, a, buf, tear, at, e) ==
    /\ Layout(b, w) /\ k \in 0 .. Len(b.events) /\ n \in 1 .. Len(b.events)
    /\ Held(b, EndOf(b, k), a, buf, tear, at)
    /\ e \in FrameEnds(buf) /\ at[e] = EndOf(b, n) - w /\ EndOf(b, n) <= a

\* The events whose symbols the front of the buffer holds.
LEMMA FrontIs ==
    ASSUME NEW b, NEW w, NEW k, NEW n, NEW a, NEW buf, NEW tear, NEW at, NEW e,
           IsFront(b, w, k, n, a, buf, tear, at, e)
    PROVE  /\ k < n /\ k \in Nat /\ n \in Nat /\ n <= Len(b.events)
           /\ Len(buf) \in Nat /\ e \in 1 .. Len(buf) /\ at \in [1 .. Len(buf) -> Nat]
           /\ EndOf(b, k) \in Nat /\ EndOf(b, n) \in Nat /\ at[e] < EndOf(b, n)
           /\ \A m \in k + 1 .. n :
                /\ IsPlaced(b, w, m) /\ EndOf(b, k) <= EndOf(b, m - 1)
                /\ EndOf(b, m) - w <= at[e] /\ EndOf(b, m) <= EndOf(b, n)
<1> DEFINE N == Len(b.events)
<1>1. /\ Layout(b, w) /\ k \in 0 .. N /\ n \in 1 .. N /\ N \in Nat
      /\ Len(buf) \in Nat /\ at \in [1 .. Len(buf) -> Nat]
      /\ \A i \in 1 .. Len(buf) : EndOf(b, k) < at[i]
      /\ e \in 1 .. Len(buf) - 1 /\ at[e] = EndOf(b, n) - w /\ w \in {1, 2}
      /\ \A m \in 0 .. N : EndOf(b, m) \in Nat
    BY DEF IsFront, Held, Layout, FrameEnds
<1>2. \A i, j \in 0 .. N : i <= j => EndOf(b, i) <= EndOf(b, j)
    BY <1>1, EndsRise
<1>3. EndOf(b, k) \in Nat /\ EndOf(b, n) \in Nat /\ at[e] \in Nat /\ EndOf(b, k) < at[e]
    BY <1>1
<1>4. k < n
    <2>1. n <= k => EndOf(b, n) <= EndOf(b, k)
        BY <1>1, <1>2
    <2>2. ~(EndOf(b, n) <= EndOf(b, k))
        BY <1>1, <1>3
    <2> QED
        BY <1>1, <2>1, <2>2
<1>5. ASSUME NEW m \in k + 1 .. n
      PROVE  /\ IsPlaced(b, w, m) /\ EndOf(b, k) <= EndOf(b, m - 1)
             /\ EndOf(b, m) - w <= at[e] /\ EndOf(b, m) <= EndOf(b, n)
    <2>1. m \in 1 .. N /\ m \in 0 .. N /\ m - 1 \in 0 .. N /\ k <= m - 1 /\ m <= n
        BY <1>1
    <2>2. IsPlaced(b, w, m)
        BY <1>1, <2>1, Placed
    <2>3. EndOf(b, k) <= EndOf(b, m - 1) /\ EndOf(b, m) <= EndOf(b, n)
        BY <1>1, <1>2, <2>1
    <2>4. EndOf(b, m) \in Nat
        BY <1>1, <2>1
    <2> QED
        BY <1>1, <1>3, <2>2, <2>3, <2>4
<1> QED
    BY <1>1, <1>3, <1>4, <1>5

\* What event_data keeps was sent as data, by one of these events...
LEMMA DataComesFrom ==
    ASSUME NEW b, NEW w, NEW k, NEW n, NEW a, NEW buf, NEW tear, NEW at, NEW e,
           IsFront(b, w, k, n, a, buf, tear, at, e),
           NEW p \in 1 .. e - 1, NEW i \in 1 .. e - 1, p < i, buf[p] = DataPrefix,
           \A j \in p .. i : buf[j] # LF, buf[i] # CR
    PROVE  at[i] \in DataPlaces(b, k, n)
<1> DEFINE N == Len(b.events)
           y == b.symbols
<1>1. /\ k < n /\ k \in Nat /\ n \in Nat /\ n <= N /\ N \in Nat
      /\ Len(buf) \in Nat /\ e \in 1 .. Len(buf) /\ at \in [1 .. Len(buf) -> Nat]
      /\ EndOf(b, k) \in Nat /\ EndOf(b, n) \in Nat /\ at[e] < EndOf(b, n)
    BY FrontIs DEF IsFront, Layout
<1>2. /\ a \in Nat /\ a <= Len(y) /\ EndOf(b, n) <= a
      /\ \A l \in 1 .. Len(buf) : EndOf(b, k) < at[l] /\ at[l] <= a /\ IsHeard(b, at[l], buf[l], tear)
      /\ \A l, m \in 1 .. Len(buf) : l < m => at[l] < at[m]
      /\ \A x \in EndOf(b, k) + 1 .. a : y[x] # CR => \E l \in 1 .. Len(buf) : at[l] = x
    BY DEF IsFront, Held
<1>3. Layout(b, w) /\ w \in {1, 2} /\ Len(y) \in Nat
    BY LayoutIs DEF IsFront
<1>4. p \in 1 .. Len(buf) /\ i \in 1 .. Len(buf) /\ p < e /\ i < e
    BY <1>1
<1>5. at[p] < at[i] /\ at[i] < at[e] /\ at[p] \in Nat /\ at[i] \in Nat /\ at[e] \in Nat
      /\ EndOf(b, k) < at[p] /\ at[p] <= a /\ at[i] <= a
    BY <1>1, <1>2, <1>4
<1>6. y[at[p]] = DataPrefix
    <2>1. IsHeard(b, at[p], DataPrefix, tear)
        BY <1>2, <1>4
    <2> QED
        BY <2>1, HeardMarks, MarksDiffer
<1>7. at[p] \in 1 .. Len(y)
    BY <1>1, <1>2, <1>3, <1>5
<1>8. PICK m \in 1 .. N : at[p] = EndOf(b, m - 1) + 1 /\ b.events[m].kind # "comment"
    BY <1>3, <1>6, <1>7, Spelling DEF Spelled
<1>9. IsPlaced(b, w, m)
    BY <1>3, Placed
<1> DEFINE c == EndOf(b, m - 1)
           f == EndOf(b, m)
           s == Size(b, m)
<1>10. /\ c \in Nat /\ f \in Nat /\ s \in Nat /\ s > 1 /\ f = c + s + 2 * w
       /\ y[f - w] = LF
       /\ \A x \in Nat : c + s < x /\ x < f - w => y[x] = CR
    BY <1>8, <1>9 DEF IsPlaced
<1>11. m \in k + 1 .. n
    <2>1. \A g, h \in 0 .. N : g <= h => EndOf(b, g) <= EndOf(b, h)
        BY <1>3, EndsRise
    <2>2. m <= k => f <= EndOf(b, k)
        BY <1>1, <2>1
    <2>3. n <= m - 1 => EndOf(b, n) <= c
        BY <1>1, <2>1
    <2>4. at[p] = c + 1
        BY <1>8
    <2>5. c \in Nat /\ f \in Nat /\ s \in Nat /\ f = c + s + 2 * w /\ w \in {1, 2} /\ s > 1
        BY <1>3, <1>10
    <2>6. EndOf(b, k) \in Nat /\ EndOf(b, n) \in Nat /\ EndOf(b, k) < at[p]
          /\ at[p] < EndOf(b, n)
        <3> HIDE DEF c, f, s
        <3> QED
            BY <1>1, <1>5
    <2> DEFINE d == EndOf(b, k)
               h == EndOf(b, n)
    <2> HIDE DEF c, f, s, d, h
    <2>7. ~(m <= k)
        <3>1. m <= k => f <= d
            BY <2>2 DEF d
        <3>2. d \in Nat /\ d < at[p]
            BY <2>6 DEF d
        <3> QED
            BY <2>4, <2>5, <3>1, <3>2
    <2>8. ~(n <= m - 1)
        <3>1. n <= m - 1 => h <= c
            BY <2>3 DEF h
        <3>2. h \in Nat /\ at[p] < h
            BY <2>6 DEF h
        <3> QED
            BY <2>4, <2>5, <3>1, <3>2
    <2> QED
        BY <1>1, <2>7, <2>8
<1>12. EndOf(b, k) <= c /\ f - w <= at[e] /\ f <= EndOf(b, n)
    BY <1>11, FrontIs
<1> HIDE DEF c, f, s, N, y
<1>13. f - w \in Nat /\ f - w \in EndOf(b, k) + 1 .. a /\ at[p] = c + 1 /\ c + 1 < f - w
    <2> DEFINE d == EndOf(b, k)
               h == EndOf(b, n)
    <2>1. d \in Nat /\ h \in Nat /\ a \in Nat /\ h <= a /\ d <= c /\ f <= h
        BY <1>1, <1>2, <1>12
    <2>2. at[p] = c + 1
        BY <1>8 DEF c
    <2>3. c \in Nat /\ f \in Nat /\ s \in Nat /\ s > 1 /\ f = c + s + 2 * w /\ w \in {1, 2}
        BY <1>3, <1>10
    <2> HIDE DEF d, h
    <2>4. f - w \in Nat /\ f - w \in d + 1 .. a /\ c + 1 < f - w
        BY <2>1, <2>3
    <2> QED
        BY <2>2, <2>4 DEF d
<1>14. PICK l \in 1 .. Len(buf) : at[l] = f - w
    BY <1>2, <1>10, <1>13, MarksDiffer
<1>15. buf[l] = LF
    <2>1. IsHeard(b, f - w, buf[l], tear)
        BY <1>2, <1>14
    <2> QED
        BY <1>10, <2>1, HeardMarks, MarksDiffer DEF y
<1>16. at[i] < f - w
    <2> SUFFICES ASSUME ~(at[i] < f - w)
                 PROVE  FALSE
        OBVIOUS
    <2>1. ~(l < p) /\ ~(i < l)
        <3>1. l < p => at[l] < at[p]
            BY <1>2, <1>4
        <3>2. i < l => at[i] < at[l]
            BY <1>2, <1>4
        <3> QED
            BY <1>5, <1>13, <1>14, <3>1, <3>2
    <2>2. l \in p .. i
        BY <1>1, <1>4, <2>1
    <2> QED
        BY <1>15, <2>2
<1>17. at[i] <= c + s
    <2> SUFFICES ASSUME c + s < at[i]
                 PROVE  FALSE
        BY <1>5, <1>10
    <2>1. y[at[i]] = CR
        BY <1>5, <1>10, <1>16
    <2>2. IsHeard(b, at[i], buf[i], tear)
        BY <1>2, <1>4
    <2> QED
        BY <2>1, <2>2, HeardMarks, MarksDiffer DEF y
<1>18. at[i] \in 1 .. Len(y) /\ c + 1 < at[i]
    BY <1>2, <1>3, <1>5, <1>13
<1> QED
    BY <1>8, <1>11, <1>17, <1>18 DEF DataPlaces, c, s, y

\* ... and all that was sent as data is kept.
LEMMA DataIsKept ==
    ASSUME NEW b, NEW w, NEW k, NEW n, NEW a, NEW buf, NEW tear, NEW at, NEW e,
           IsFront(b, w, k, n, a, buf, tear, at, e),
           NEW x \in DataPlaces(b, k, n)
    PROVE  \E i \in 1 .. e - 1 :
                /\ at[i] = x /\ buf[i] # CR
                /\ \E p \in 1 .. i - 1 :
                    /\ buf[p] = DataPrefix /\ (p = 1 \/ buf[p - 1] = LF)
                    /\ \A j \in p .. i : buf[j] # LF
<1> DEFINE N == Len(b.events)
           y == b.symbols
<1>1. /\ k < n /\ k \in Nat /\ n \in Nat /\ n <= N /\ N \in Nat
      /\ Len(buf) \in Nat /\ e \in 1 .. Len(buf) /\ at \in [1 .. Len(buf) -> Nat]
      /\ EndOf(b, k) \in Nat /\ EndOf(b, n) \in Nat /\ at[e] < EndOf(b, n)
    BY FrontIs DEF IsFront, Layout
<1>2. /\ a \in Nat /\ a <= Len(y) /\ EndOf(b, n) <= a
      /\ \A l \in 1 .. Len(buf) : EndOf(b, k) < at[l] /\ at[l] <= a /\ IsHeard(b, at[l], buf[l], tear)
      /\ \A l, m \in 1 .. Len(buf) : l < m => at[l] < at[m]
      /\ \A z \in EndOf(b, k) + 1 .. a : y[z] # CR => \E l \in 1 .. Len(buf) : at[l] = z
    BY DEF IsFront, Held
<1>3. Layout(b, w) /\ w \in {1, 2} /\ Len(y) \in Nat
    BY LayoutIs DEF IsFront
<1>4. PICK m \in k + 1 .. n : /\ b.events[m].kind # "comment"
                              /\ EndOf(b, m - 1) + 1 < x /\ x <= EndOf(b, m - 1) + Size(b, m)
    BY DEF DataPlaces
<1> DEFINE c == EndOf(b, m - 1)
           f == EndOf(b, m)
           s == Size(b, m)
<1>5. IsPlaced(b, w, m) /\ EndOf(b, k) <= c /\ f - w <= at[e] /\ f <= EndOf(b, n)
    BY FrontIs
<1>6. /\ c \in Nat /\ f \in Nat /\ s \in Nat /\ s > 1 /\ f = c + s + 2 * w
      /\ y[c + 1] = DataPrefix
      /\ \A z \in Nat : c < z /\ z <= c + s => y[z] \notin {CR, LF}
    BY <1>4, <1>5 DEF IsPlaced
<1>7. x \in Nat /\ c + 1 < x /\ x <= c + s
    BY <1>4 DEF DataPlaces
<1>8. \A g, h \in 0 .. N : g <= h => EndOf(b, g) <= EndOf(b, h)
    BY <1>3, EndsRise
<1> DEFINE d == EndOf(b, k)
<1> HIDE DEF c, f, s, y, N, d
<1>9. x \in d + 1 .. a /\ c + 1 \in d + 1 .. a /\ at[e] \in Nat /\ x < at[e]
    <2>1. d \in Nat /\ d <= c /\ at[e] \in Nat
        BY <1>1, <1>5 DEF d
    <2> QED
        BY <1>1, <1>2, <1>3, <1>5, <1>6, <1>7, <2>1
<1>10. y[x] \notin {CR, LF}
    BY <1>6, <1>7
<1>11. PICK i \in 1 .. Len(buf) : at[i] = x
    BY <1>2, <1>9, <1>10 DEF d
<1>12. PICK p \in 1 .. Len(buf) : at[p] = c + 1
    BY <1>2, <1>6, <1>9, MarksDiffer DEF d
<1>13. \A l, m_1 \in 1 .. Len(buf) : at[l] < at[m_1] => l < m_1
    <2> SUFFICES ASSUME NEW l \in 1 .. Len(buf), NEW o \in 1 .. Len(buf), at[l] < at[o], ~(l < o)
                 PROVE  FALSE
        OBVIOUS
    <2>1. o = l \/ o < l
        BY <1>1
    <2>2. at[l] \in Nat /\ at[o] \in Nat
        BY <1>1
    <2> QED
        BY <1>2, <2>1, <2>2
<1>14. p < i /\ i < e
    BY <1>1, <1>6, <1>7, <1>9, <1>11, <1>12, <1>13
<1>15. i \in 1 .. e - 1 /\ p \in 1 .. i - 1
    BY <1>1, <1>14
<1>16. buf[p] = DataPrefix
    <2>1. IsHeard(b, c + 1, buf[p], tear)
        BY <1>2, <1>12
    <2> QED
        BY <1>6, <2>1, HeardMarks, MarksDiffer DEF y
<1>17. ASSUME NEW j \in p .. i
       PROVE  buf[j] \notin {CR, LF}
    <2>1. j \in 1 .. Len(buf)
        BY <1>1, <1>15
    <2>2. at[p] <= at[j] /\ at[j] <= at[i] /\ at[j] \in Nat
        <3>1. p = j \/ p < j
            BY <1>1
        <3>2. j = i \/ j < i
            BY <1>1
        <3>3. at[p] \in Nat /\ at[j] \in Nat /\ at[i] \in Nat
            BY <1>1, <2>1
        <3>4. (p < j => at[p] < at[j]) /\ (j < i => at[j] < at[i])
            BY <1>2, <2>1
        <3> QED
            BY <3>1, <3>2, <3>3, <3>4
    <2>3. c < at[j] /\ at[j] <= c + s
        BY <1>6, <1>7, <1>11, <1>12, <2>2
    <2>4. y[at[j]] \notin {CR, LF}
        BY <1>6, <2>2, <2>3
    <2>5. IsHeard(b, at[j], buf[j], tear)
        BY <1>2, <2>1
    <2> QED
        BY <2>4, <2>5, HeardMarks, MarksDiffer DEF y
<1>18. p = 1 \/ buf[p - 1] = LF
    <2> SUFFICES ASSUME p # 1
                 PROVE  buf[p - 1] = LF
        OBVIOUS
    <2>1. p - 1 \in 1 .. Len(buf) /\ p - 1 < p
        BY <1>1
    <2>2. at[p - 1] < c + 1 /\ at[p - 1] \in Nat /\ d < at[p - 1]
        BY <1>1, <1>2, <1>12, <2>1 DEF d
    <2>3. d < c /\ d \in Nat
        BY <1>1, <1>6, <2>2 DEF d
    <2>4. m - 1 \in k + 1 .. n
        <3>1. m - 1 # k
            BY <2>3 DEF c, d
        <3> QED
            BY <1>1, <3>1
    <2>5. IsPlaced(b, w, m - 1)
        BY <2>4, FrontIs
    <2>6. y[c] = LF
        BY <2>5 DEF IsPlaced, c, y
    <2>7. c \in d + 1 .. a
        BY <1>2, <1>6, <1>9, <2>3
    <2>8. PICK l \in 1 .. Len(buf) : at[l] = c
        BY <1>2, <2>6, <2>7, MarksDiffer DEF d
    <2>9. l < p /\ ~(l < p - 1)
        <3>1. l < p - 1 => at[l] < at[p - 1]
            BY <1>2, <2>1
        <3>2. ~(at[l] < at[p - 1])
            BY <1>6, <2>2, <2>8
        <3> QED
            BY <1>6, <1>12, <1>13, <2>8, <3>1, <3>2
    <2>10. l = p - 1
        BY <2>9
    <2>11. IsHeard(b, c, buf[p - 1], tear)
        BY <1>2, <2>8, <2>10
    <2> QED
        BY <2>6, <2>11, HeardMarks, MarksDiffer DEF y
<1>19. buf[i] # CR
    <2>1. i \in p .. i
        BY <1>1, <1>15
    <2> QED
        BY <1>17, <2>1
<1> QED
    BY <1>11, <1>15, <1>16, <1>17, <1>18, <1>19

\* data is what was sent at the data places of the events from k + 1 to n.
Carried(b, k, n, tear, data, from) ==
    /\ data \in Seq(Letters(b.events)) /\ Len(data) \in Nat
    /\ from \in [1 .. Len(data) -> Nat]
    /\ \A i, j \in 1 .. Len(data) : i < j => from[i] < from[j]
    /\ \A j \in 1 .. Len(data) :
            from[j] \in DataPlaces(b, k, n) /\ IsHeard(b, from[j], data[j], tear)
    /\ \A x \in DataPlaces(b, k, n) : \E j \in 1 .. Len(data) : from[j] = x

\* So the data of a frame are those of the events it was received from.
LEMMA DataIsCarried ==
    ASSUME NEW b, NEW w, NEW k, NEW n, NEW a, NEW buf, NEW tear, NEW at, NEW e,
           IsFront(b, w, k, n, a, buf, tear, at, e)
    PROVE  \E from : Carried(b, k, n, tear, EventData(SubSeq(buf, 1, e - 1)), from)
<1> DEFINE T == Letters(b.events)
           f == SubSeq(buf, 1, e - 1)
           D == DataOf(f)
           L == Cardinality(D)
           from == [j \in 1 .. L |-> at[Nth(D, j)]]
           data == Chosen(f, D)
<1>1. /\ buf \in Seq(T) /\ Len(buf) \in Nat /\ e \in 1 .. Len(buf)
      /\ at \in [1 .. Len(buf) -> Nat]
      /\ \A i, j \in 1 .. Len(buf) : i < j => at[i] < at[j]
      /\ \A i \in 1 .. Len(buf) : IsHeard(b, at[i], buf[i], tear)
    BY FrontIs DEF IsFront, Held
<1> HIDE DEF T
<1>2. f \in Seq(T) /\ Len(f) = e - 1 /\ \A i \in 1 .. e - 1 : f[i] = buf[i]
    <2>1. e - 1 \in Nat /\ 0 \in Nat /\ 0 + (e - 1) <= Len(buf) /\ 0 + 1 = 1 /\ 0 + (e - 1) = e - 1
        BY <1>1
    <2>2. IsPart(T, buf, 0, e - 1, SubSeq(buf, 0 + 1, 0 + (e - 1)))
        BY <1>1, <2>1, PartIs
    <2>3. IsPart(T, buf, 0, e - 1, f)
        BY <2>1, <2>2
    <2> HIDE DEF f
    <2>4. \A i \in 1 .. e - 1 : 0 + i = i
        OBVIOUS
    <2> QED
        BY <2>3, <2>4 DEF IsPart
<1> HIDE DEF f
<1>3. e - 1 \in Nat /\ DOMAIN f = 1 .. e - 1
    BY <1>1, <1>2
<1>4. D \in SUBSET (1 .. e - 1)
    BY <1>3 DEF DataOf
<1>5. \A i \in D : at[i] \in DataPlaces(b, k, n)
    <2> TAKE i \in D
    <2>1. /\ i \in 1 .. e - 1 /\ f[i] # CR
          /\ \E p \in 1 .. i - 1 : f[p] = DataPrefix /\ \A j \in p .. i : f[j] # LF
        BY <1>3 DEF DataOf
    <2>2. PICK p \in 1 .. i - 1 : f[p] = DataPrefix /\ \A j \in p .. i : f[j] # LF
        BY <2>1
    <2>3. p \in 1 .. e - 1 /\ p < i /\ \A j \in p .. i : j \in 1 .. e - 1
        <3>1. i \in 1 .. e - 1 /\ e \in Nat
            BY <1>1, <2>1
        <3> QED
            BY <3>1
    <2>4. buf[i] # CR /\ buf[p] = DataPrefix /\ \A j \in p .. i : buf[j] # LF
        BY <1>2, <2>1, <2>2, <2>3
    <2> QED
        BY <2>1, <2>3, <2>4, DataComesFrom
<1>6. \A x \in DataPlaces(b, k, n) : \E i \in D : at[i] = x
    <2> TAKE x \in DataPlaces(b, k, n)
    <2>1. PICK i \in 1 .. e - 1 :
                /\ at[i] = x /\ buf[i] # CR
                /\ \E p \in 1 .. i - 1 :
                    /\ buf[p] = DataPrefix /\ (p = 1 \/ buf[p - 1] = LF)
                    /\ \A j \in p .. i : buf[j] # LF
        BY DataIsKept
    <2>2. PICK p \in 1 .. i - 1 : /\ buf[p] = DataPrefix /\ (p = 1 \/ buf[p - 1] = LF)
                                  /\ \A j \in p .. i : buf[j] # LF
        BY <2>1
    <2>3. p \in 1 .. e - 1 /\ (p # 1 => p - 1 \in 1 .. e - 1) /\ \A j \in p .. i : j \in 1 .. e - 1
        <3>1. i \in 1 .. e - 1 /\ e \in Nat
            BY <1>1
        <3> QED
            BY <3>1
    <2>4. /\ f[p] = DataPrefix /\ (p = 1 \/ f[p - 1] = LF)
          /\ \A j \in p .. i : f[j] # LF
          /\ f[i] # CR
        BY <1>2, <2>1, <2>2, <2>3
    <2>5. i \in D
        BY <1>3, <2>4 DEF DataOf
    <2> QED
        BY <2>1, <2>5
<1> HIDE DEF D
<1>7. /\ data \in Seq(T) /\ Len(data) = L /\ L \in Nat
      /\ \A j \in 1 .. L : Nth(D, j) \in D /\ data[j] = f[Nth(D, j)]
      /\ \A i, j \in 1 .. L : i < j => Nth(D, i) < Nth(D, j)
    BY <1>2, <1>3, <1>4, ChosenIs
<1> HIDE DEF L, data
<1>8. \A j \in 1 .. L : Nth(D, j) \in 1 .. Len(buf) /\ Nth(D, j) \in 1 .. e - 1
    <2>1. \A i \in 1 .. e - 1 : i \in 1 .. Len(buf)
        BY <1>1
    <2> QED
        BY <1>4, <1>7, <2>1
<1>9. from \in [1 .. L -> Nat] /\ \A j \in 1 .. L : from[j] = at[Nth(D, j)]
    BY <1>1, <1>8
<1> HIDE DEF from
<1>10. \A i, j \in 1 .. L : i < j => from[i] < from[j]
    BY <1>1, <1>7, <1>8, <1>9
<1>11. ASSUME NEW j \in 1 .. L
       PROVE  from[j] \in DataPlaces(b, k, n) /\ IsHeard(b, from[j], data[j], tear)
    <2>1. from[j] \in DataPlaces(b, k, n)
        BY <1>5, <1>7, <1>9
    <2>2. data[j] = buf[Nth(D, j)]
        BY <1>2, <1>7, <1>8
    <2> QED
        BY <1>1, <1>8, <1>9, <2>1, <2>2
<1>12. ASSUME NEW x \in DataPlaces(b, k, n)
       PROVE  \E j \in 1 .. L : from[j] = x
    <2>1. PICK i \in D : at[i] = x
        BY <1>6
    <2>2. PICK j \in 1 .. L : Nth(D, j) = i
        BY <1>3, <1>4, RankIs DEF L
    <2> QED
        BY <1>9, <2>1, <2>2
<1>13. Carried(b, k, n, tear, data, from)
    BY <1>7, <1>9, <1>10, <1>11, <1>12 DEF Carried, T
<1> QED
    BY <1>13, EventDataIs DEF data, D, f

\* Of the events from k + 1 to n only m is more than a comment.
OnlySays(b, k, n, m) ==
    /\ m \in k + 1 .. n /\ b.events[m].kind # "comment"
    /\ \A l \in k + 1 .. n : l # m => b.events[l].kind = "comment"

\* What was sent at a data place: part of an event's line.
LEMMA DataPlaceIs ==
    ASSUME NEW b, NEW k, NEW n, NEW x \in DataPlaces(b, k, n)
    PROVE  \E m \in k + 1 .. n : /\ b.events[m].kind # "comment"
                                 /\ EndOf(b, m - 1) + 1 < x /\ x <= EndOf(b, m - 1) + Size(b, m)
    BY DEF DataPlaces

\* An event that is no comment has data.
SaidAt(b, m, i) == b.symbols[EndOf(b, m - 1) + i] = Line(b.events[m])[i]

\* An event that is no comment has data.
LEMMA SaysSomething ==
    ASSUME NEW b, NEW w, NEW k, NEW n, NEW m \in k + 1 .. n, b.events[m].kind # "comment",
           IsPlaced(b, w, m),
           NEW i \in 2 .. Size(b, m)
    PROVE  EndOf(b, m - 1) + i \in DataPlaces(b, k, n)
           /\ SaidAt(b, m, i)
<1> DEFINE e == EndOf(b, m - 1)
           s == Size(b, m)
           x == e + i
<1>1. e \in Nat /\ s \in Nat
    BY DEF IsPlaced
<1> HIDE DEF e, s
<1>2. x \in Nat /\ e < x /\ x <= e + s /\ e + 1 < x /\ x - e = i
    BY <1>1 DEF s
<1>3. x \in 1 .. Len(b.symbols) /\ b.symbols[x] = Line(b.events[m])[x - e]
    BY <1>2 DEF IsPlaced, e, s
<1> QED
    BY <1>2, <1>3 DEF DataPlaces, SaidAt, e, s

\* Data that come of one event are its line without the prefix.
LEMMA DataOfOne ==
    ASSUME NEW b, NEW w, NEW k, NEW n, NEW tear, NEW data, NEW from, NEW m,
           Carried(b, k, n, tear, data, from), OnlySays(b, k, n, m), IsPlaced(b, w, m)
    PROVE  /\ Len(data) = Size(b, m) - 1
           /\ \A j \in 1 .. Len(data) :
                /\ data[j] = Line(b.events[m])[j + 1]
                   \/ /\ "character" \in tear /\ data[j] = Replacement
                      /\ Line(b.events[m])[j + 1] \in {Lead, Cont}
<1> DEFINE e == EndOf(b, m - 1)
           s == Size(b, m)
           L == Len(data)
           g == [j \in 1 .. L |-> from[j] - (e + 1)]
<1>1. /\ L \in Nat /\ from \in [1 .. L -> Nat]
      /\ \A i, j \in 1 .. L : i < j => from[i] < from[j]
      /\ \A j \in 1 .. L : from[j] \in DataPlaces(b, k, n) /\ IsHeard(b, from[j], data[j], tear)
      /\ \A x \in DataPlaces(b, k, n) : \E j \in 1 .. L : from[j] = x
    BY DEF Carried
<1>2. e \in Nat /\ s \in Nat /\ s > 1
    BY DEF IsPlaced, OnlySays
<1>3. \A j \in 1 .. L : e + 1 < from[j] /\ from[j] <= e + s
    <2> TAKE j \in 1 .. L
    <2>1. PICK l \in k + 1 .. n :
                /\ b.events[l].kind # "comment"
                /\ EndOf(b, l - 1) + 1 < from[j] /\ from[j] <= EndOf(b, l - 1) + Size(b, l)
        BY <1>1, DataPlaceIs
    <2>2. l = m
        BY <2>1 DEF OnlySays
    <2> QED
        BY <2>1, <2>2
<1> HIDE DEF e, s, L
<1>4. \A j \in 1 .. L : from[j] - (e + 1) \in 1 .. s - 1 /\ e + (from[j] - e) = from[j]
                        /\ from[j] - e \in 2 .. s
    <2> TAKE j \in 1 .. L
    <2>1. from[j] \in Nat /\ e + 1 < from[j] /\ from[j] <= e + s
        BY <1>1, <1>3
    <2> QED
        BY <1>2, <2>1
<1>5. g \in [1 .. L -> 1 .. s - 1] /\ \A j \in 1 .. L : g[j] = from[j] - (e + 1)
    BY <1>4
<1> HIDE DEF g
<1>6. \A i, j \in 1 .. L : i < j => g[i] < g[j]
    <2> SUFFICES ASSUME NEW i \in 1 .. L, NEW j \in 1 .. L, i < j
                 PROVE  g[i] < g[j]
        OBVIOUS
    <2>1. from[i] < from[j] /\ from[i] \in Nat /\ from[j] \in Nat
        BY <1>1
    <2>2. g[i] = from[i] - (e + 1) /\ g[j] = from[j] - (e + 1)
        BY <1>5
    <2> QED
        BY <1>2, <2>1, <2>2
<1>7. \A p \in 1 .. s - 1 : \E j \in 1 .. L : g[j] = p
    <2> TAKE p \in 1 .. s - 1
    <2>1. p + 1 \in 2 .. s
        BY <1>2
    <2>2. e + (p + 1) \in DataPlaces(b, k, n)
        BY <2>1, SaysSomething DEF OnlySays, e, s
    <2>3. PICK j \in 1 .. L : from[j] = e + (p + 1)
        BY <1>1, <2>2
    <2>4. g[j] = (e + (p + 1)) - (e + 1)
        BY <1>5, <2>3
    <2>5. g[j] = p
        BY <1>2, <2>4
    <2> QED
        BY <2>5
<1>8. s - 1 \in Nat
    BY <1>2
<1> DEFINE M == s - 1
           P == 1 .. M
<1>9. L = Cardinality(P) /\ \A j \in 1 .. L : Nth(P, j) = g[j]
    <2>1. g \in [1 .. L -> P] /\ P \in SUBSET (1 .. M)
        BY <1>5
    <2>2. \A p \in P : \E j \in 1 .. L : g[j] = p
        BY <1>7
    <2>3. L \in Nat /\ M \in Nat
        BY <1>1, <1>8
    <2> HIDE DEF P, M
    <2> QED
        BY <1>6, <2>1, <2>2, <2>3, OnlyByRank
<1>10. Cardinality(P) = s - 1 /\ \A j \in 1 .. s - 1 : Nth(P, j) = j
    BY <1>8, NthOfAll
<1> HIDE DEF P
<1>11. L = s - 1 /\ \A j \in 1 .. L : g[j] = j
    BY <1>9, <1>10
<1>12. ASSUME NEW j \in 1 .. L
       PROVE  \/ data[j] = Line(b.events[m])[j + 1]
              \/ /\ "character" \in tear /\ data[j] = Replacement
                 /\ Line(b.events[m])[j + 1] \in {Lead, Cont}
    <2>1. j + 1 \in 2 .. s
        BY <1>2, <1>11
    <2>2. from[j] = e + (j + 1)
        <3>1. from[j] \in Nat /\ from[j] - (e + 1) = j
            BY <1>1, <1>5, <1>11
        <3> QED
            BY <1>2, <3>1
    <2>3. b.symbols[e + (j + 1)] = Line(b.events[m])[j + 1]
        <3>1. j + 1 \in 2 .. Size(b, m)
            BY <2>1 DEF s
        <3> QED
            <4>1. SaidAt(b, m, j + 1)
                BY <3>1, SaysSomething DEF OnlySays
            <4> QED
                BY <4>1 DEF SaidAt, e
    <2>4. IsHeard(b, e + (j + 1), data[j], tear)
        BY <1>1, <2>2
    <2> QED
        BY <2>3, <2>4 DEF IsHeard
<1> QED
    BY <1>11, <1>12 DEF L, s

\* Which event a mark in a line tells of.
LEMMA LineMarks ==
    ASSUME NEW T, Marks \union {Comment} \subseteq T, NEW e, IsEvent(e),
           e.kind = "chunk" => e.text \in Seq(T)
    PROVE  /\ Len(Line(e)) \in Nat
           /\ \A i \in 2 .. Len(Line(e)) :
                /\ Line(e)[i] = DoneMarker => e.kind = "done"
                /\ Line(e)[i] = OpenBrace => e.kind \in {"chunk", "usage"} /\ i = 2
           /\ e.kind \in {"chunk", "usage"} =>
                Line(e)[Len(Line(e))] = CloseBrace /\ Len(Line(e)) > 2
           /\ e.kind = "usage" => Len(Line(e)) = 3
<1> DEFINE l == Line(e)
<1>1. e.kind \in Kinds
    BY EventIs
<1>2. /\ l \in Seq(T) /\ Len(l) \in Nat \ {0}
      /\ e.kind = "comment" => l = <<Comment>>
      /\ e.kind = "usage" => l = <<DataPrefix, OpenBrace, CloseBrace>>
      /\ e.kind = "error" => l = <<DataPrefix, NotJson>>
      /\ e.kind = "done" => l = <<DataPrefix, DoneMarker>>
      /\ e.kind = "chunk" => IsChunkLine(l, e)
    BY LineIs
<1> HIDE DEF l
<1>3. CASE e.kind = "comment"
    <2>1. Len(l) = 1
        BY <1>2, <1>3
    <2> QED
        BY <1>2, <1>3, <2>1 DEF l
<1>4. CASE e.kind = "usage"
    <2>1. Len(l) = 3 /\ l[2] = OpenBrace /\ l[3] = CloseBrace
        BY <1>2, <1>4
    <2>2. \A i \in 2 .. 3 : i = 2 \/ i = 3
        OBVIOUS
    <2> QED
        BY <1>4, <2>1, <2>2, MarksDiffer DEF l
<1>5. CASE e.kind \in {"error", "done"}
    <2>1. Len(l) = 2 /\ (e.kind = "error" => l[2] = NotJson) /\ (e.kind = "done" => l[2] = DoneMarker)
        BY <1>2, <1>5
    <2>2. \A i \in 2 .. 2 : i = 2
        OBVIOUS
    <2> QED
        BY <1>5, <2>1, <2>2, MarksDiffer DEF l
<1>6. CASE e.kind = "chunk"
    <2> DEFINE t == Len(e.text)
    <2>1. IsText(e.text) /\ e.finish \in StopReasons \union {NoFinish} /\ e.text \in Seq(T)
        BY <1>6, EventIs
    <2>2. t \in Nat /\ Trailer(e) \in {0, 1} /\ (e.finish = NoFinish => Trailer(e) = 0)
        BY <2>1 DEF Trailer
    <2>3. \A i \in 1 .. t : e.text[i] \notin Marks
        BY <2>1 DEF IsText
    <2> HIDE DEF t
    <2>4. /\ Len(l) = t + Trailer(e) + 3
          /\ l[2] = OpenBrace /\ l[Len(l)] = CloseBrace
          /\ \A i \in 1 .. t : l[i + 2] = e.text[i]
          /\ e.finish # NoFinish => l[t + 3] = e.finish
        BY <1>2, <1>6 DEF IsChunkLine, t
    <2>5. ASSUME NEW i \in 2 .. Len(l)
          PROVE  l[i] # DoneMarker /\ (l[i] = OpenBrace => i = 2)
        <3>1. i = 2 \/ i = Len(l) \/ (i = t + 3 /\ e.finish # NoFinish) \/ i - 2 \in 1 .. t
            BY <2>2, <2>4
        <3>2. CASE i = 2 \/ i = Len(l)
            BY <2>4, <3>2, MarksDiffer
        <3>3. CASE i = t + 3 /\ e.finish # NoFinish
            BY <2>1, <2>4, <3>3, ReasonsDiffer
        <3>4. CASE i - 2 \in 1 .. t
            <4>1. l[i] = e.text[i - 2]
                <5>1. (i - 2) + 2 = i
                    BY <2>2, <2>4
                <5> QED
                    BY <2>4, <3>4, <5>1
            <4> QED
                BY <2>3, <3>4, <4>1 DEF Marks
        <3> QED
            BY <3>1, <3>2, <3>3, <3>4
    <2>6. Len(l) > 2 /\ Len(l) \in Nat
        BY <2>2, <2>4
    <2> QED
        BY <1>6, <2>4, <2>5, <2>6 DEF l
<1> QED
    BY <1>1, <1>3, <1>4, <1>5, <1>6 DEF Kinds

\* The events that a frame can be made of.
LEMMA EventLine ==
    ASSUME NEW b, NEW w, Layout(b, w), NEW m \in 1 .. Len(b.events)
    PROVE  /\ IsEvent(b.events[m]) /\ Size(b, m) = Len(Line(b.events[m]))
           /\ Marks \union {Comment} \subseteq Letters(b.events)
           /\ b.events[m].kind = "chunk" => b.events[m].text \in Seq(Letters(b.events))
<1>1. IsEvent(b.events[m]) /\ m \in DOMAIN b.events
    BY DEF Layout
<1> QED
    BY <1>1, TextInLetters DEF Size, Letters

\* A symbol belongs to one event only.
LEMMA OneOwner ==
    ASSUME NEW b, NEW w, Layout(b, w), NEW l \in 1 .. Len(b.events), NEW m \in 1 .. Len(b.events),
           NEW x \in Nat, EndOf(b, l - 1) < x, x <= EndOf(b, l), EndOf(b, m - 1) < x, x <= EndOf(b, m)
    PROVE  l = m
<1> DEFINE N == Len(b.events)
<1>1. N \in Nat
    BY LayoutIs
<1>2. \A i, j \in 0 .. N : i <= j => EndOf(b, i) <= EndOf(b, j)
    BY EndsRise
<1>3. \A i \in 0 .. N : EndOf(b, i) \in Nat
    BY DEF Layout
<1> HIDE DEF N
<1>4. l \in 0 .. N /\ m \in 0 .. N /\ l - 1 \in 0 .. N /\ m - 1 \in 0 .. N
    BY <1>1 DEF N
<1>5. ~(l <= m - 1)
    <2>1. l <= m - 1 => EndOf(b, l) <= EndOf(b, m - 1)
        BY <1>2, <1>4
    <2>2. EndOf(b, l) \in Nat /\ EndOf(b, m - 1) \in Nat
        BY <1>3, <1>4
    <2> QED
        BY <2>1, <2>2
<1>6. ~(m <= l - 1)
    <2>1. m <= l - 1 => EndOf(b, m) <= EndOf(b, l - 1)
        BY <1>2, <1>4
    <2>2. EndOf(b, m) \in Nat /\ EndOf(b, l - 1) \in Nat
        BY <1>3, <1>4
    <2> QED
        BY <2>1, <2>2
<1> QED
    BY <1>1, <1>5, <1>6

\* When all the data are one event's, the others of the frame are comments.
LEMMA OnlySaysIf ==
    ASSUME NEW b, NEW w, Layout(b, w), NEW k \in Nat, NEW n \in Nat, n <= Len(b.events),
           NEW tear, NEW data, NEW from, Carried(b, k, n, tear, data, from),
           NEW m \in k + 1 .. n, b.events[m].kind # "comment",
           \A j \in 1 .. Len(data) : EndOf(b, m - 1) < from[j] /\ from[j] <= EndOf(b, m)
    PROVE  OnlySays(b, k, n, m)
<1> SUFFICES ASSUME NEW l \in k + 1 .. n, b.events[l].kind # "comment"
             PROVE  l = m
    BY DEF OnlySays
<1>1. l \in 1 .. Len(b.events) /\ m \in 1 .. Len(b.events)
    BY LayoutIs
<1>2. IsPlaced(b, w, l)
    BY <1>1, Placed
<1> DEFINE e == EndOf(b, l - 1)
           x == e + 2
<1>3. e \in Nat /\ Size(b, l) \in Nat /\ Size(b, l) > 1 /\ EndOf(b, l) \in Nat
      /\ EndOf(b, l) = e + Size(b, l) + 2 * w /\ w \in {1, 2}
    BY <1>2 DEF IsPlaced
<1>4. 2 \in 2 .. Size(b, l)
    BY <1>3
<1>5. x \in DataPlaces(b, k, n)
    BY <1>2, <1>4, SaysSomething
<1>6. PICK j \in 1 .. Len(data) : from[j] = x
    BY <1>5 DEF Carried
<1>7. EndOf(b, m - 1) < x /\ x <= EndOf(b, m)
    BY <1>6
<1> HIDE DEF e
<1>8. x \in Nat /\ e < x /\ x <= EndOf(b, l)
    <2> DEFINE s == Size(b, l)
               f == EndOf(b, l)
    <2>1. e \in Nat /\ s \in Nat /\ s > 1 /\ f = e + s + 2 * w /\ w \in {1, 2}
        BY <1>3 DEF e
    <2> HIDE DEF s, f
    <2>2. 2 * w \in Nat
        BY <2>1
    <2>3. e + 2 \in Nat /\ e < e + 2 /\ e + 2 <= f
        BY <2>1, <2>2
    <2> QED
        BY <2>3 DEF f
<1> QED
    BY <1>1, <1>7, <1>8, OneOwner DEF e

\* The m-th event is the one whose data the symbol at place x is part of.
IsOwner(b, w, x, m) ==
    /\ b.events[m].kind # "comment" /\ m \in 1 .. Len(b.events)
    /\ IsPlaced(b, w, m) /\ x \in Nat
    /\ EndOf(b, m - 1) + 1 < x /\ x <= EndOf(b, m - 1) + Size(b, m) /\ x < EndOf(b, m)
    /\ x - EndOf(b, m - 1) \in 2 .. Size(b, m)
    /\ b.symbols[x] = Line(b.events[m])[x - EndOf(b, m - 1)]

\* Each data place is in one event's line.
LEMMA OwnerOf ==
    ASSUME NEW b, NEW w, Layout(b, w), NEW k \in Nat, NEW n \in Nat, n <= Len(b.events),
           NEW x \in DataPlaces(b, k, n)
    PROVE  \E m \in k + 1 .. n : IsOwner(b, w, x, m)
<1>1. PICK m \in k + 1 .. n : /\ b.events[m].kind # "comment"
                              /\ EndOf(b, m - 1) + 1 < x /\ x <= EndOf(b, m - 1) + Size(b, m)
    BY DataPlaceIs
<1>2. m \in 1 .. Len(b.events)
    BY LayoutIs
<1>3. IsPlaced(b, w, m)
    BY <1>2, Placed
<1> DEFINE e == EndOf(b, m - 1)
           s == Size(b, m)
           f == EndOf(b, m)
<1>4. /\ e \in Nat /\ s \in Nat /\ f = e + s + 2 * w /\ w \in {1, 2}
      /\ \A z \in Nat : e < z /\ z <= e + s => b.symbols[z] = Line(b.events[m])[z - e]
    BY <1>3 DEF IsPlaced
<1>5. x \in Nat
    BY DEF DataPlaces
<1>6. e + 1 < x /\ x <= e + s
    BY <1>1
<1> HIDE DEF e, s, f
<1>7. e < x /\ x < f /\ x - e \in 2 .. s
    <2>1. e \in Nat /\ s \in Nat /\ f = e + s + 2 * w /\ w \in {1, 2}
        BY <1>4
    <2> QED
        BY <1>5, <1>6, <2>1
<1>8. b.symbols[x] = Line(b.events[m])[x - e]
    BY <1>4, <1>5, <1>6, <1>7
<1>9. IsOwner(b, w, x, m)
    BY <1>1, <1>2, <1>3, <1>5, <1>6, <1>7, <1>8 DEF e, s, f, IsOwner
<1> QED
    BY <1>9

\* Decoded, of the data of a frame.
Decode(data) ==
    LET inner == SubSeq(data, 2, Len(data) - 1)
        texts == Chosen(inner, {i \in DOMAIN inner : inner[i] \notin StopReasons})
        reasons == Chosen(inner, {i \in DOMAIN inner : inner[i] \in StopReasons})
    IN
    CASE data = <<>> -> [kind |-> "skip"]
      [] data = <<DoneMarker>> -> [kind |-> "done"]
      [] data # <<>> /\ data # <<DoneMarker>> /\ ~ParsesAsChunk(data) -> [kind |-> "error"]
      [] ParsesAsChunk(data) /\ inner = <<>> -> [kind |-> "skip"]
      [] ParsesAsChunk(data) /\ inner # <<>> ->
            [kind   |-> "chunk",
             text   |-> texts,
             finish |-> IF reasons = <<>> THEN NoFinish ELSE FinishReason(Last(reasons))]

\* A frame is decoded by its data.
LEMMA DecodedIs == ASSUME NEW frame PROVE Decoded(frame) = Decode(EventData(frame))
    BY DEF Decoded, Decode

\* What a chunk gives: its words, and why it stopped.
ChunkOf(inner) ==
    LET texts == Chosen(inner, {i \in DOMAIN inner : inner[i] \notin StopReasons})
        reasons == Chosen(inner, {i \in DOMAIN inner : inner[i] \in StopReasons})
    IN [kind   |-> "chunk",
        text   |-> texts,
        finish |-> IF reasons = <<>> THEN NoFinish ELSE FinishReason(Last(reasons))]

\* What data are decoded to.
LEMMA DecodeCases ==
    ASSUME NEW T, NEW data \in Seq(T)
    PROVE  /\ data = <<>> => Decode(data) = [kind |-> "skip"]
           /\ data = <<DoneMarker>> => Decode(data) = [kind |-> "done"]
           /\ data # <<>> /\ data # <<DoneMarker>> /\ ~ParsesAsChunk(data)
                => Decode(data) = [kind |-> "error"]
           /\ ParsesAsChunk(data) =>
                LET inner == SubSeq(data, 2, Len(data) - 1)
                IN /\ inner = <<>> => Decode(data) = [kind |-> "skip"]
                   /\ inner # <<>> => Decode(data) = ChunkOf(inner)
<1>1. ParsesAsChunk(data) => data # <<>> /\ data # <<DoneMarker>>
    BY DEF ParsesAsChunk
<1>2. <<DoneMarker>> # <<>>
    OBVIOUS
<1>3. ASSUME data = <<>>
      PROVE  Decode(data) = [kind |-> "skip"]
    BY <1>1, <1>2, <1>3 DEF Decode
<1>4. ASSUME data = <<DoneMarker>>
      PROVE  Decode(data) = [kind |-> "done"]
    BY <1>1, <1>2, <1>4 DEF Decode
<1>5. ASSUME data # <<>>, data # <<DoneMarker>>, ~ParsesAsChunk(data)
      PROVE  Decode(data) = [kind |-> "error"]
    BY <1>5 DEF Decode
<1>6. ASSUME ParsesAsChunk(data), SubSeq(data, 2, Len(data) - 1) = <<>>
      PROVE  Decode(data) = [kind |-> "skip"]
    BY <1>1, <1>6 DEF Decode
<1>7. ASSUME ParsesAsChunk(data), SubSeq(data, 2, Len(data) - 1) # <<>>
      PROVE  Decode(data) = ChunkOf(SubSeq(data, 2, Len(data) - 1))
    BY <1>1, <1>7 DEF Decode, ChunkOf
<1> QED
    BY <1>3, <1>4, <1>5, <1>6, <1>7

\* The words of a chunk, behind which there may be a reason to stop.
IsInner(inner, T, text, finish, garbled) ==
    LET t == Len(text)
    IN /\ inner \in Seq(T)
       /\ \A i \in 1 .. t :
            /\ inner[i] = text[i] \/ (garbled /\ inner[i] = Replacement /\ text[i] \in {Lead, Cont})
       /\ finish = NoFinish => Len(inner) = t
       /\ finish # NoFinish => Len(inner) = t + 1 /\ inner[t + 1] = finish

\* A frame without data is one of comments.
LEMMA NoDataMeans ==
    ASSUME NEW b, NEW w, Layout(b, w), NEW k \in Nat, NEW n \in Nat, n <= Len(b.events),
           NEW tear, NEW data, NEW from, Carried(b, k, n, tear, data, from), data = <<>>
    PROVE  \A m \in k + 1 .. n : b.events[m].kind = "comment"
<1> SUFFICES ASSUME NEW m \in k + 1 .. n, b.events[m].kind # "comment"
             PROVE  FALSE
    OBVIOUS
<1>1. m \in 1 .. Len(b.events)
    BY LayoutIs
<1>2. IsPlaced(b, w, m)
    BY <1>1, Placed
<1>3. 2 \in 2 .. Size(b, m)
    BY <1>2 DEF IsPlaced
<1>4. EndOf(b, m - 1) + 2 \in DataPlaces(b, k, n)
    BY <1>2, <1>3, SaysSomething
<1>5. Len(data) = 0
    OBVIOUS
<1>6. \E j \in 1 .. Len(data) : TRUE
    BY <1>4 DEF Carried
<1> QED
    BY <1>5, <1>6

\* Data that are [DONE] are those of the end.
LEMMA DoneMeans ==
    ASSUME NEW b, NEW w, Layout(b, w), NEW k \in Nat, NEW n \in Nat, n <= Len(b.events),
           NEW tear, NEW data, NEW from, Carried(b, k, n, tear, data, from),
           data = <<DoneMarker>>
    PROVE  \E m \in k + 1 .. n : OnlySays(b, k, n, m) /\ b.events[m].kind = "done"
<1>1. Len(data) = 1 /\ data[1] = DoneMarker /\ 1 \in 1 .. 1
    OBVIOUS
<1> DEFINE x == from[1]
<1>2. x \in DataPlaces(b, k, n) /\ IsHeard(b, x, DoneMarker, tear)
    BY <1>1 DEF Carried
<1> HIDE DEF x
<1>3. b.symbols[x] = DoneMarker
    <2>1. DoneMarker # Replacement
        BY DEF DoneMarker, Replacement
    <2> QED
        BY <1>2, <2>1, HeardMarks
<1>4a. PICK m \in k + 1 .. n : IsOwner(b, w, x, m)
    BY <1>2, OwnerOf
<1>4. /\ b.events[m].kind # "comment" /\ m \in 1 .. Len(b.events)
      /\ IsPlaced(b, w, m) /\ x \in Nat
      /\ EndOf(b, m - 1) + 1 < x /\ x <= EndOf(b, m - 1) + Size(b, m) /\ x < EndOf(b, m)
      /\ x - EndOf(b, m - 1) \in 2 .. Size(b, m)
      /\ b.symbols[x] = Line(b.events[m])[x - EndOf(b, m - 1)]
    BY <1>4a DEF IsOwner
<1>5. b.events[m].kind = "done"
    <2> DEFINE T == Letters(b.events)
    <2>1. /\ IsEvent(b.events[m]) /\ Size(b, m) = Len(Line(b.events[m]))
          /\ Marks \union {Comment} \subseteq T
          /\ b.events[m].kind = "chunk" => b.events[m].text \in Seq(T)
        BY <1>4, EventLine
    <2> HIDE DEF T
    <2> QED
        BY <1>3, <1>4, <2>1, LineMarks
<1>6. \A j \in 1 .. Len(data) : EndOf(b, m - 1) < from[j] /\ from[j] <= EndOf(b, m)
    <2>1. EndOf(b, m - 1) \in Nat /\ EndOf(b, m) \in Nat
        BY <1>4 DEF IsPlaced
    <2>2. EndOf(b, m - 1) < x /\ x <= EndOf(b, m)
        BY <1>4, <2>1
    <2>3. \A j \in 1 .. Len(data) : j = 1
        BY <1>1
    <2> QED
        BY <2>2, <2>3 DEF x
<1> QED
    BY <1>4, <1>5, <1>6, OnlySaysIf

\* A chunk that parses is the line of one event.
LEMMA ChunkMeans ==
    ASSUME NEW b, NEW w, Layout(b, w), NEW k \in Nat, NEW n \in Nat, n <= Len(b.events),
           NEW tear, NEW data, NEW from, Carried(b, k, n, tear, data, from),
           ParsesAsChunk(data)
    PROVE  \E m \in k + 1 .. n :
                OnlySays(b, k, n, m) /\ b.events[m].kind \in {"chunk", "usage"}
<1> DEFINE L == Len(data)
           x == from[1]
<1>1. /\ L \in Nat /\ from \in [1 .. L -> Nat]
      /\ \A i, j \in 1 .. L : i < j => from[i] < from[j]
      /\ \A j \in 1 .. L : from[j] \in DataPlaces(b, k, n) /\ IsHeard(b, from[j], data[j], tear)
      /\ \A z \in DataPlaces(b, k, n) : \E j \in 1 .. L : from[j] = z
    BY DEF Carried
<1>2. /\ L >= 2 /\ data[1] = OpenBrace
      /\ \A i \in 2 .. L - 1 : data[i] # CloseBrace
    BY DEF ParsesAsChunk
<1> HIDE DEF L
<1>3. 1 \in 1 .. L
    BY <1>1, <1>2
<1>4. x \in DataPlaces(b, k, n) /\ IsHeard(b, x, OpenBrace, tear)
    BY <1>1, <1>2, <1>3
<1> HIDE DEF x
<1>5. b.symbols[x] = OpenBrace
    <2>1. OpenBrace # Replacement
        BY DEF OpenBrace, Replacement
    <2> QED
        BY <1>4, <2>1, HeardMarks
<1>6a. PICK m \in k + 1 .. n : IsOwner(b, w, x, m)
    BY <1>4, OwnerOf
<1>6. /\ b.events[m].kind # "comment" /\ m \in 1 .. Len(b.events)
      /\ IsPlaced(b, w, m) /\ x \in Nat
      /\ EndOf(b, m - 1) + 1 < x /\ x <= EndOf(b, m - 1) + Size(b, m) /\ x < EndOf(b, m)
      /\ x - EndOf(b, m - 1) \in 2 .. Size(b, m)
      /\ b.symbols[x] = Line(b.events[m])[x - EndOf(b, m - 1)]
    BY <1>6a DEF IsOwner
<1> DEFINE l == Line(b.events[m])
           e == EndOf(b, m - 1)
           f == EndOf(b, m)
           s == Size(b, m)
<1>7. b.events[m].kind \in {"chunk", "usage"} /\ l[s] = CloseBrace /\ s > 2
    <2> DEFINE T == Letters(b.events)
    <2>1. /\ IsEvent(b.events[m]) /\ Size(b, m) = Len(Line(b.events[m]))
          /\ Marks \union {Comment} \subseteq T
          /\ b.events[m].kind = "chunk" => b.events[m].text \in Seq(T)
        BY <1>6, EventLine
    <2> HIDE DEF T
    <2>2. b.events[m].kind \in {"chunk", "usage"}
        BY <1>5, <1>6, <2>1, LineMarks
    <2> QED
        BY <2>1, <2>2, LineMarks
<1>8. e \in Nat /\ f \in Nat /\ s \in Nat /\ f = e + s + 2 * w /\ w \in {1, 2}
    BY <1>6 DEF IsPlaced
<1>9. e + s \in DataPlaces(b, k, n) /\ b.symbols[e + s] = CloseBrace
    <2>1. s \in 2 .. s
        BY <1>7, <1>8
    <2>2. IsPlaced(b, w, m) /\ b.events[m].kind # "comment"
        BY <1>6
    <2>3. e + s \in DataPlaces(b, k, n) /\ b.symbols[e + s] = l[s]
        <3>1. PICK i : i = s /\ i \in 2 .. Size(b, m)
            BY <2>1
        <3>2. /\ EndOf(b, m - 1) + i \in DataPlaces(b, k, n)
              /\ b.symbols[EndOf(b, m - 1) + i] = Line(b.events[m])[i]
            <4> HIDE DEF e, l, s, f
            <4>1. EndOf(b, m - 1) + i \in DataPlaces(b, k, n) /\ SaidAt(b, m, i)
                BY <2>2, <3>1, SaysSomething
            <4> QED
                BY <4>1 DEF SaidAt
        <3> QED
            BY <3>1, <3>2
    <2> QED
        BY <1>7, <2>3
<1>10. PICK z \in 1 .. L : from[z] = e + s
    BY <1>1, <1>9
<1>11. data[z] = CloseBrace
    <2>1. IsHeard(b, e + s, data[z], tear)
        BY <1>1, <1>10
    <2>2. CloseBrace \notin {Lead, Cont}
        BY MarksDiffer
    <2> QED
        BY <1>9, <2>1, <2>2, HeardMarks
<1>12. z = L
    <2>1. z # 1
        BY <1>2, <1>11, MarksDiffer
    <2>2. z \notin 2 .. L - 1
        BY <1>2, <1>11
    <2> QED
        BY <1>1, <1>2, <2>1, <2>2
<1>13. e < x /\ x \in Nat
    BY <1>6, <1>8
<1> HIDE DEF e, f, s, l
<1>14. ASSUME NEW j \in 1 .. L
       PROVE  e < from[j] /\ from[j] <= f
    <2>1. x <= from[j] /\ from[j] <= e + s
        <3>1. from[j] \in Nat
            BY <1>1
        <3>2. j = 1 \/ 1 < j
            OBVIOUS
        <3>3. j = L \/ j < L
            BY <1>1
        <3>4. 1 < j => x < from[j]
            BY <1>1, <1>3 DEF x
        <3>5. j < L => from[j] < e + s
            BY <1>1, <1>10, <1>12
        <3>6. (j = 1 => from[j] = x) /\ (j = L => from[j] = e + s)
            BY <1>10, <1>12 DEF x
        <3> QED
            BY <1>8, <1>13, <3>1, <3>2, <3>3, <3>4, <3>5, <3>6
    <2>2. from[j] \in Nat
        BY <1>1
    <2> QED
        BY <1>8, <1>13, <2>1, <2>2
<1> QED
    BY <1>6, <1>7, <1>14, OnlySaysIf DEF e, f, L

\* What stands between the braces of a chunk is what the model said.
LEMMA InnerIs ==
    ASSUME NEW b, NEW w, Layout(b, w), NEW k \in Nat, NEW n \in Nat, n <= Len(b.events),
           NEW tear, NEW data, NEW from, Carried(b, k, n, tear, data, from),
           NEW m \in k + 1 .. n, OnlySays(b, k, n, m)
    PROVE  LET inner == SubSeq(data, 2, Len(data) - 1)
               e == b.events[m]
           IN /\ e.kind = "usage" => inner = <<>>
              /\ e.kind = "chunk" =>
                    /\ inner # <<>>
                    /\ IsInner(inner, Letters(b.events), e.text, e.finish, "character" \in tear)
<1> DEFINE T == Letters(b.events)
           e == b.events[m]
           l == Line(e)
           L == Len(data)
           inner == SubSeq(data, 2, L - 1)
<1>1. m \in 1 .. Len(b.events)
    BY LayoutIs
<1>2. IsPlaced(b, w, m)
    BY <1>1, Placed
<1>3. /\ IsEvent(e) /\ Size(b, m) = Len(l)
      /\ Marks \union {Comment} \subseteq T
      /\ e.kind = "chunk" => e.text \in Seq(T)
    BY <1>1, EventLine
<1>4. data \in Seq(T) /\ L \in Nat
    BY DEF Carried
<1>5. /\ L = Len(l) - 1 /\ Len(l) \in Nat
      /\ \A j \in 1 .. L : \/ data[j] = l[j + 1]
                           \/ /\ "character" \in tear /\ data[j] = Replacement
                              /\ l[j + 1] \in {Lead, Cont}
    <2>1. Size(b, m) \in Nat
        BY <1>2 DEF IsPlaced
    <2> QED
        BY <1>2, <1>3, <2>1, DataOfOne
<1> HIDE DEF L, T
<1>6. L >= 2 => IsPart(T, data, 1, L - 2, inner)
    <2> HAVE L >= 2
    <2>1. 1 \in Nat /\ L - 2 \in Nat /\ 1 + (L - 2) <= L /\ 1 + 1 = 2 /\ 1 + (L - 2) = L - 1
        BY <1>4
    <2>2. IsPart(T, data, 1, L - 2, SubSeq(data, 1 + 1, 1 + (L - 2)))
        BY <1>4, <2>1, PartIs DEF L
    <2> QED
        BY <2>1, <2>2
<1> HIDE DEF inner, l
<1>7. e.kind = "usage" => inner = <<>>
    <2> HAVE e.kind = "usage"
    <2>1. Len(l) = 3
        BY <1>3, LineMarks DEF l
    <2>2. L >= 2 /\ L - 2 = 0
        BY <1>5, <2>1
    <2> QED
        BY <1>6, <2>2 DEF IsPart
<1>8. ASSUME e.kind = "chunk"
      PROVE  inner # <<>> /\ IsInner(inner, T, e.text, e.finish, "character" \in tear)
    <2> DEFINE t == Len(e.text)
    <2>1. /\ IsText(e.text) /\ e.finish \in StopReasons \union {NoFinish}
          /\ (e.text = <<>> => e.finish # NoFinish) /\ e.text \in Seq(T)
        BY <1>3, <1>8, EventIs
    <2>2. IsChunkLine(l, e)
        BY <1>3, <1>8, <2>1, LineIs DEF l
    <2>3. t \in Nat /\ (t = 0 => e.text = <<>>) /\ Trailer(e) \in {0, 1}
          /\ (e.finish = NoFinish => Trailer(e) = 0) /\ (e.finish # NoFinish => Trailer(e) = 1)
        BY <2>1 DEF Trailer
    <2> HIDE DEF t
    <2>4. /\ Len(l) = t + Trailer(e) + 3
          /\ \A i \in 1 .. t : l[i + 2] = e.text[i]
          /\ e.finish # NoFinish => l[t + 3] = e.finish
        BY <2>2 DEF IsChunkLine, t
    <2>5. L = t + Trailer(e) + 2 /\ L >= 2 /\ L - 2 = t + Trailer(e) /\ t + Trailer(e) > 0
        BY <1>5, <2>1, <2>3, <2>4
    <2>6. /\ inner \in Seq(T) /\ Len(inner) = t + Trailer(e)
          /\ \A i \in 1 .. t + Trailer(e) : inner[i] = data[1 + i]
        BY <1>6, <2>5 DEF IsPart
    <2>7. inner # <<>>
        BY <2>5, <2>6
    <2>8. ASSUME NEW i \in 1 .. t + Trailer(e)
          PROVE  \/ inner[i] = l[i + 2]
                 \/ "character" \in tear /\ inner[i] = Replacement /\ l[i + 2] \in {Lead, Cont}
        <3>1. 1 + i \in 1 .. L /\ (1 + i) + 1 = i + 2
            BY <2>3, <2>5
        <3> QED
            BY <1>5, <2>6, <3>1
    <2>9. ASSUME NEW i \in 1 .. t
          PROVE  \/ inner[i] = e.text[i]
                 \/ "character" \in tear /\ inner[i] = Replacement /\ e.text[i] \in {Lead, Cont}
        <3>1. i \in 1 .. t + Trailer(e)
            BY <2>3
        <3> QED
            BY <2>4, <2>8, <3>1
    <2>10. e.finish # NoFinish => Len(inner) = t + 1 /\ inner[t + 1] = e.finish
        <3> HAVE e.finish # NoFinish
        <3>1. t + 1 \in 1 .. t + Trailer(e) /\ t + Trailer(e) = t + 1 /\ (t + 1) + 2 = t + 3
            BY <2>3
        <3>2. e.finish \notin {Lead, Cont}
            BY <2>1, ReasonsDiffer
        <3> QED
            BY <2>4, <2>6, <2>8, <3>1, <3>2
    <2>11. e.finish = NoFinish => Len(inner) = t
        BY <2>3, <2>6
    <2> QED
        BY <2>6, <2>7, <2>9, <2>10, <2>11 DEF IsInner, t
<1> QED
    BY <1>7, <1>8 DEF inner, L, T

=============================================================================
