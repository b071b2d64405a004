-------------------------- MODULE MergeJob_proofs ---------------------------
(***************************************************************************)
(* Theorems about MergeJob and the functions of Combine, for any keys and  *)
(* any bounds.                                                             *)
(***************************************************************************)
EXTENDS MergeJob, SequenceTheorems, WellFoundedInduction, TLAPS

-----------------------------------------------------------------------------
(* Recursion over the rows of a table.                                     *)

\* Every set of naturals has a least member.
LEMMA LeastNumber ==
    ASSUME NEW S \in SUBSET Nat, S # {}
    PROVE  \E x \in S : \A y \in S : x =< y
<1> DEFINE Less == {pair \in Nat \X Nat : pair[1] < pair[2]}
<1>1. IsWellFoundedOn(Less, Nat)
  BY NatLessThanWellFounded DEF OpToRel
<1>2. \A x, y \in Nat : <<y, x>> \notin Less => x =< y
  OBVIOUS
<1> HIDE DEF Less
<1>3. PICK x \in S : \A y \in S : <<y, x>> \notin Less
  BY <1>1, WFMin
<1>4. \A y \in S : x =< y
  BY <1>2, <1>3
<1> QED  BY <1>4

\* Induction up to N, for a set of numbers: the least number that is missing has its
\* predecessor in the set.
LEMMA UpTo ==
    ASSUME NEW N \in Nat, NEW S, 0 \in S, \A n \in 1..N : n - 1 \in S => n \in S
    PROVE  0..N \subseteq S
<1> DEFINE Missing == {n \in 0..N : n \notin S}
<1>1. SUFFICES ASSUME Missing # {} PROVE FALSE
  OBVIOUS
<1>2. PICK n \in Missing : \A k \in Missing : n =< k
  <2>1. Missing \in SUBSET Nat
    OBVIOUS
  <2> HIDE DEF Missing
  <2> QED  BY <1>1, <2>1, LeastNumber
<1>3. n \in 1..N /\ n - 1 \in 0..N /\ n - 1 \in S
  BY <1>2
<1> QED  BY <1>2, <1>3

\* g is the recursion over 0..N that starts at base and goes on by step.
Unfolds(g, N, base, step) ==
    /\ g[0] = base
    /\ \A n \in 1..N : g[n] = step[n][g[n - 1]]

\* Every recursion over 0..N has a function that satisfies it, so that the recursive
\* functions of Combine are what their definitions say.
LEMMA Recursion ==
    ASSUME NEW N \in Nat, NEW T, NEW base \in T, NEW step \in [1..N -> [T -> T]]
    PROVE  \E g \in [0..N -> T] : Unfolds(g, N, base, step)
<1> DEFINE Reached(m) == \E g \in [0..m -> T] : Unfolds(g, m, base, step)
           S == {m \in 0..N : Reached(m)}
<1>1. Reached(0)
  <2> DEFINE g == [n \in 0..0 |-> base]
  <2>1. g \in [0..0 -> T] /\ g[0] = base
    OBVIOUS
  <2> HIDE DEF g
  <2> QED  BY <2>1 DEF Unfolds
<1>2. ASSUME NEW m \in 1..N, Reached(m - 1)
      PROVE  Reached(m)
  <2>1. PICK g \in [0..(m - 1) -> T] : Unfolds(g, m - 1, base, step)
    BY <1>2
  <2> DEFINE h == [n \in 0..m |-> IF n = m THEN step[m][g[m - 1]] ELSE g[n]]
  <2>2. g[m - 1] \in T /\ step[m][g[m - 1]] \in T
    OBVIOUS
  <2>3. h \in [0..m -> T] /\ h[0] = base
    BY <2>1, <2>2 DEF Unfolds
  <2>4. ASSUME NEW n \in 1..m
        PROVE  h[n] = step[n][h[n - 1]]
    <3>1. h[n - 1] = g[n - 1]
      OBVIOUS
    <3>2. CASE n = m
      <4>1. h[m] = step[m][g[m - 1]]
        OBVIOUS
      <4> HIDE DEF h
      <4> QED  BY <3>1, <3>2, <4>1
    <3>3. CASE n # m
      <4>1. n \in 1..(m - 1)
        BY <3>3
      <4>2. h[n] = g[n]
        BY <4>1
      <4>3. g[n] = step[n][g[n - 1]]
        BY <2>1, <4>1 DEF Unfolds
      <4> QED  BY <3>1, <4>2, <4>3
    <3> QED  BY <3>2, <3>3
  <2> HIDE DEF h
  <2> QED  BY <2>3, <2>4 DEF Unfolds
<1> HIDE DEF Reached
<1>3. 0 \in S /\ \A n \in 1..N : n - 1 \in S => n \in S
  BY <1>1, <1>2
<1>4. N \in S
  <2> HIDE DEF S
  <2>1. 0..N \subseteq S
    BY <1>3, UpTo
  <2>2. N \in 0..N
    OBVIOUS
  <2> QED  BY <2>1, <2>2
<1> QED  BY <1>4 DEF Reached
-----------------------------------------------------------------------------
(* Select, with which the rows of a table are filtered.                    *)

\* g holds the stages of Select(s, S).
Selecting(g, s, S) ==
    /\ g[0] = <<>>
    /\ \A n \in 1..Len(s) :
           g[n] = IF s[n] \in S THEN Append(g[n - 1], s[n]) ELSE g[n - 1]
    /\ Select(s, S) = g[Len(s)]

\* Select is the recursion it says it is.
LEMMA SelectUnfolds ==
    ASSUME NEW T, NEW s \in Seq(T), NEW S
    PROVE  \E g \in [0..Len(s) -> Seq(T)] : Selecting(g, s, S)
<1> DEFINE N == Len(s)
           chosen == CHOOSE g : g = [n \in 0..N |->
                         IF n = 0 THEN <<>>
                         ELSE IF s[n] \in S THEN Append(g[n - 1], s[n])
                         ELSE g[n - 1]]
           step == [n \in 1..N |-> [q \in Seq(T) |->
                         IF s[n] \in S THEN Append(q, s[n]) ELSE q]]
<1>1. N \in Nat /\ <<>> \in Seq(T)
  OBVIOUS
<1>2. step \in [1..N -> [Seq(T) -> Seq(T)]]
  <2>1. ASSUME NEW n \in 1..N, NEW q \in Seq(T)
        PROVE  (IF s[n] \in S THEN Append(q, s[n]) ELSE q) \in Seq(T)
    <3>1. s[n] \in T
      OBVIOUS
    <3> QED  BY <3>1
  <2> QED  BY <2>1
<1>3. \A n \in 1..N, q \in Seq(T) :
          step[n][q] = IF s[n] \in S THEN Append(q, s[n]) ELSE q
  OBVIOUS
<1>4. Select(s, S) = chosen[N]
  BY DEF Select
<1> HIDE DEF step, N
<1>5. PICK g \in [0..N -> Seq(T)] : Unfolds(g, N, <<>>, step)
  BY <1>1, <1>2, Recursion
<1>6. \A n \in 1..N : n - 1 \in 0..N /\ g[n - 1] \in Seq(T)
  BY <1>1
<1>7. \A n \in 0..N : n = 0 \/ n \in 1..N
  BY <1>1
<1>8. \A n \in 0..N : g[n] = IF n = 0 THEN <<>>
                             ELSE IF s[n] \in S THEN Append(g[n - 1], s[n])
                             ELSE g[n - 1]
  BY <1>3, <1>5, <1>6, <1>7 DEF Unfolds
<1>9. g = [n \in 0..N |-> IF n = 0 THEN <<>>
                          ELSE IF s[n] \in S THEN Append(g[n - 1], s[n])
                          ELSE g[n - 1]]
  <2>1. DOMAIN g = 0..N /\ g = [n \in DOMAIN g |-> g[n]]
    OBVIOUS
  <2> QED  BY <1>8, <2>1
<1>10. chosen = [n \in 0..N |-> IF n = 0 THEN <<>>
                               ELSE IF s[n] \in S THEN Append(chosen[n - 1], s[n])
                               ELSE chosen[n - 1]]
  BY <1>9
<1> HIDE DEF chosen
<1>11. \A n \in 0..N : chosen[n] = IF n = 0 THEN <<>>
                                  ELSE IF s[n] \in S THEN Append(chosen[n - 1], s[n])
                                  ELSE chosen[n - 1]
  BY <1>10
<1>12. chosen[0] = <<>> /\ \A n \in 1..N :
          chosen[n] = IF s[n] \in S THEN Append(chosen[n - 1], s[n]) ELSE chosen[n - 1]
  <2>1. 0 \in 0..N /\ \A n \in 1..N : n \in 0..N /\ n # 0
    BY <1>1
  <2> QED  BY <1>11, <2>1
<1>13. \A n \in 0..N : chosen[n] \in Seq(T)
  <2> DEFINE Typed == {n \in 0..N : chosen[n] \in Seq(T)}
  <2>1. 0 \in Typed
    <3>1. 0 \in 0..N
      BY <1>1
    <3> QED  BY <1>1, <1>12, <3>1
  <2>2. ASSUME NEW n \in 1..N, n - 1 \in Typed
        PROVE  n \in Typed
    <3>0. s[n] \in T
      BY DEF N
    <3>1. s[n] \in T /\ chosen[n - 1] \in Seq(T)
      BY <2>2, <3>0
    <3>2. Append(chosen[n - 1], s[n]) \in Seq(T)
      BY <3>1
    <3>3. n \in 0..N
      BY <1>1
    <3> QED  BY <1>12, <3>1, <3>2, <3>3
  <2> HIDE DEF Typed
  <2>3. 0..N \subseteq Typed
    BY <1>1, <2>1, <2>2, UpTo
  <2> QED  BY <2>3 DEF Typed
<1>14. chosen \in [0..N -> Seq(T)]
  <2>1. DOMAIN chosen = 0..N /\ chosen = [n \in DOMAIN chosen |-> chosen[n]]
    BY <1>10
  <2> QED  BY <1>13, <2>1
<1>15. Selecting(chosen, s, S)
  BY <1>4, <1>12 DEF Selecting, N
<1> QED  BY <1>14, <1>15 DEF N

\* A selection has the rows that are in S, each as often as it was there and in the
\* order they were in.
LEMMA SelectRows ==
    ASSUME NEW T, NEW s \in Seq(T), NEW S
    PROVE  /\ Select(s, S) \in Seq(T)
           /\ ToSet(Select(s, S)) = ToSet(s) \cap S
           /\ \E at \in [1..Len(Select(s, S)) -> 1..Len(s)] :
                  /\ \A i \in 1..Len(Select(s, S)) : Select(s, S)[i] = s[at[i]]
                  /\ \A i, j \in 1..Len(Select(s, S)) : i < j => at[i] < at[j]
<1>0. PICK g \in [0..Len(s) -> Seq(T)] : Selecting(g, s, S)
  BY SelectUnfolds
<1>1. /\ g[0] = <<>>
      /\ \A n \in 1..Len(s) :
             g[n] = IF s[n] \in S THEN Append(g[n - 1], s[n]) ELSE g[n - 1]
      /\ Select(s, S) = g[Len(s)]
  BY <1>0 DEF Selecting
<1> DEFINE Kept(n) == /\ \A k \in 1..n : s[k] \in S => \E i \in 1..Len(g[n]) : g[n][i] = s[k]
                      /\ \E at \in [1..Len(g[n]) -> 1..n] :
                            /\ \A i \in 1..Len(g[n]) : g[n][i] = s[at[i]] /\ s[at[i]] \in S
                            /\ \A i, j \in 1..Len(g[n]) : i < j => at[i] < at[j]
           Stages == {n \in 0..Len(s) : Kept(n)}
<1>2. Kept(0)
  <2>1. 1..Len(g[0]) = {} /\ 1..0 = {}
    BY <1>1
  <2> DEFINE at == [i \in 1..Len(g[0]) |-> i]
  <2>2. at \in [1..Len(g[0]) -> 1..0]
    BY <2>1
  <2> HIDE DEF at
  <2> QED  BY <2>1, <2>2
<1>3. ASSUME NEW n \in 1..Len(s), Kept(n - 1)
      PROVE  Kept(n)
  <2>0. n - 1 \in 0..Len(s) /\ g[n - 1] \in Seq(T) /\ s[n] \in T /\ g[n] \in Seq(T)
    OBVIOUS
  <2>1. PICK at \in [1..Len(g[n - 1]) -> 1..(n - 1)] :
            /\ \A i \in 1..Len(g[n - 1]) : g[n - 1][i] = s[at[i]] /\ s[at[i]] \in S
            /\ \A i, j \in 1..Len(g[n - 1]) : i < j => at[i] < at[j]
    BY <1>3
  <2>2. CASE s[n] \notin S
    <3>1. g[n] = g[n - 1]
      BY <1>1, <2>2
    <3>2. at \in [1..Len(g[n]) -> 1..n]
      BY <2>0, <3>1
    <3>3. \A k \in 1..n : s[k] \in S => \E i \in 1..Len(g[n]) : g[n][i] = s[k]
      BY <1>3, <2>2, <3>1
    <3> QED  BY <2>1, <3>1, <3>2, <3>3
  <2>3. CASE s[n] \in S
    <3> DEFINE old == g[n - 1]
               m == Len(old)
               new == [i \in 1..(m + 1) |-> IF i = m + 1 THEN n ELSE at[i]]
    <3>1. g[n] = Append(old, s[n])
      BY <1>1, <2>3
    <3>2. /\ m \in Nat /\ Len(g[n]) = m + 1
          /\ g[n][m + 1] = s[n]
          /\ \A i \in 1..m : g[n][i] = old[i]
      BY <2>0, <3>1
    <3>3. new \in [1..(m + 1) -> 1..n]
      BY <2>0
    <3>4. new[m + 1] = n /\ \A i \in 1..m : new[i] = at[i] /\ at[i] \in 1..(n - 1)
      BY <2>0
    <3> HIDE DEF new
    <3>5. \A i \in 1..(m + 1) : g[n][i] = s[new[i]] /\ s[new[i]] \in S
      <4> TAKE i \in 1..(m + 1)
      <4>1. i = m + 1 \/ i \in 1..m
        BY <3>2
      <4> QED  BY <2>1, <2>3, <3>2, <3>4, <4>1
    <3>6. \A i, j \in 1..(m + 1) : i < j => new[i] < new[j]
      <4> TAKE i, j \in 1..(m + 1)
      <4>1. i < j => i \in 1..m /\ (j = m + 1 \/ j \in 1..m)
        BY <3>2
      <4> QED  BY <2>1, <3>4, <4>1
    <3>7. \A k \in 1..n : s[k] \in S => \E i \in 1..(m + 1) : g[n][i] = s[k]
      <4> TAKE k \in 1..n
      <4>1. k = n \/ k \in 1..(n - 1)
        OBVIOUS
      <4>2. CASE k = n
        BY <3>2, <4>2
      <4>3. CASE k \in 1..(n - 1)
        BY <1>3, <3>2, <4>3
      <4> QED  BY <4>1, <4>2, <4>3
    <3> QED  BY <3>2, <3>3, <3>5, <3>6, <3>7
  <2> QED  BY <2>2, <2>3
<1>4. Kept(Len(s))
  <2>1. 0 \in Stages /\ \A n \in 1..Len(s) : n - 1 \in Stages => n \in Stages
    <3> HIDE DEF Kept
    <3> QED  BY <1>2, <1>3
  <2> HIDE DEF Stages
  <2>2. Len(s) \in Nat /\ Len(s) \in 0..Len(s)
    OBVIOUS
  <2>3. Len(s) \in Stages
    BY <2>1, <2>2, UpTo
  <2> QED  BY <2>3 DEF Stages
<1> DEFINE r == Select(s, S)
<1>5. r = g[Len(s)] /\ r \in Seq(T)
  BY <1>1
<1>6. PICK at \in [1..Len(r) -> 1..Len(s)] :
          /\ \A i \in 1..Len(r) : r[i] = s[at[i]] /\ s[at[i]] \in S
          /\ \A i, j \in 1..Len(r) : i < j => at[i] < at[j]
  BY <1>4, <1>5
<1>7. \A k \in 1..Len(s) : s[k] \in S => \E i \in 1..Len(r) : r[i] = s[k]
  BY <1>4, <1>5
<1> HIDE DEF r
<1>8. ToSet(r) = ToSet(s) \cap S
  <2>1. DOMAIN r = 1..Len(r) /\ DOMAIN s = 1..Len(s)
    BY <1>5
  <2>2. ToSet(r) \subseteq ToSet(s) \cap S
    BY <1>6, <2>1 DEF ToSet
  <2>3. ToSet(s) \cap S \subseteq ToSet(r)
    BY <1>7, <2>1 DEF ToSet
  <2> QED  BY <2>2, <2>3
<1> QED  BY <1>5, <1>6, <1>8 DEF r

\* Rows outside S may change and the selection stays.
LEMMA SelectSame ==
    ASSUME NEW T, NEW s \in Seq(T), NEW t \in Seq(T), NEW S, Len(s) = Len(t),
           \A n \in 1..Len(s) : s[n] = t[n] \/ (s[n] \notin S /\ t[n] \notin S)
    PROVE  Select(s, S) = Select(t, S)
<1>1. PICK g \in [0..Len(s) -> Seq(T)] : Selecting(g, s, S)
  BY SelectUnfolds
<1>2. PICK h \in [0..Len(t) -> Seq(T)] : Selecting(h, t, S)
  BY SelectUnfolds
<1> DEFINE Same == {n \in 0..Len(s) : g[n] = h[n]}
<1>3. 0 \in Same
  BY <1>1, <1>2 DEF Selecting
<1>4. ASSUME NEW n \in 1..Len(s), n - 1 \in Same
      PROVE  n \in Same
  <2>1. g[n - 1] = h[n - 1] /\ n \in 0..Len(s) /\ n \in 1..Len(t)
    BY <1>4
  <2> QED  BY <1>1, <1>2, <2>1 DEF Selecting
<1>5. Len(s) \in Same
  <2> HIDE DEF Same
  <2>1. Len(s) \in Nat /\ Len(s) \in 0..Len(s)
    OBVIOUS
  <2>2. 0..Len(s) \subseteq Same
    BY <1>3, <1>4, <2>1, UpTo
  <2> QED  BY <2>1, <2>2
<1> QED  BY <1>1, <1>2, <1>5 DEF Selecting

\* Nothing is selected from an empty table.
LEMMA SelectEmpty ==
    ASSUME NEW S
    PROVE  Select(<<>>, S) = <<>>
<1>1. <<>> \in Seq({}) /\ Len(<<>>) = 0
  OBVIOUS
<1>2. PICK g \in [0..Len(<<>>) -> Seq({})] : Selecting(g, <<>>, S)
  BY <1>1, SelectUnfolds
<1> QED  BY <1>1, <1>2 DEF Selecting

\* A row at the end comes last in the selection, if it is selected.
LEMMA SelectAppend ==
    ASSUME NEW T, NEW s \in Seq(T), NEW x \in T, NEW S
    PROVE  Select(Append(s, x), S) =
               IF x \in S THEN Append(Select(s, S), x) ELSE Select(s, S)
<1> DEFINE t == Append(s, x)
           N == Len(s)
<1>2. /\ t \in Seq(T) /\ N \in Nat /\ Len(t) = N + 1
      /\ t[N + 1] = x /\ \A n \in 1..N : t[n] = s[n]
  OBVIOUS
<1> HIDE DEF t
<1>3. PICK g \in [0..Len(s) -> Seq(T)] : Selecting(g, s, S)
  BY SelectUnfolds
<1>4. PICK h \in [0..Len(t) -> Seq(T)] : Selecting(h, t, S)
  BY <1>2, SelectUnfolds
<1> DEFINE Same == {n \in 0..N : g[n] = h[n]}
<1>5. 0 \in Same
  BY <1>2, <1>3, <1>4 DEF Selecting
<1>6. ASSUME NEW n \in 1..N, n - 1 \in Same
      PROVE  n \in Same
  <2>1. g[n - 1] = h[n - 1] /\ n \in 0..N /\ n \in 1..Len(t) /\ t[n] = s[n]
    BY <1>2, <1>6
  <2> QED  BY <1>3, <1>4, <2>1 DEF Selecting
<1>7. g[N] = h[N]
  <2> HIDE DEF Same
  <2>1. 0..N \subseteq Same
    BY <1>2, <1>5, <1>6, UpTo
  <2>2. N \in 0..N
    BY <1>2
  <2> QED  BY <2>1, <2>2 DEF Same
<1>8. /\ Select(t, S) = h[N + 1] /\ Select(s, S) = g[N]
      /\ h[N + 1] = IF x \in S THEN Append(h[N], x) ELSE h[N]
  <2>1. N + 1 \in 1..Len(t) /\ (N + 1) - 1 = N
    BY <1>2
  <2> QED  BY <1>2, <1>3, <1>4, <2>1 DEF Selecting
<1> QED  BY <1>7, <1>8 DEF t

\* Selecting twice, when the first selection keeps all that the second looks for.
LEMMA SelectSelect ==
    ASSUME NEW T, NEW s \in Seq(T), NEW A, NEW B,
           \A i \in 1..Len(s) : s[i] \in B => s[i] \in A
    PROVE  Select(Select(s, A), B) = Select(s, B)
<1>1. PICK g \in [0..Len(s) -> Seq(T)] : Selecting(g, s, A)
  BY SelectUnfolds
<1>2. PICK h \in [0..Len(s) -> Seq(T)] : Selecting(h, s, B)
  BY SelectUnfolds
<1> DEFINE Same == {n \in 0..Len(s) : Select(g[n], B) = h[n]}
<1>3. 0 \in Same
  <2>1. g[0] = <<>> /\ h[0] = <<>> /\ 0 \in 0..Len(s) /\ Len(s) \in Nat
    BY <1>1, <1>2 DEF Selecting
  <2>2. Select(g[0], B) = h[0]
    BY <2>1, SelectEmpty
  <2> QED  BY <2>1, <2>2
<1>4. ASSUME NEW n \in 1..Len(s), n - 1 \in Same
      PROVE  n \in Same
  <2>1. /\ n \in 0..Len(s) /\ n - 1 \in 0..Len(s)
        /\ s[n] \in T /\ g[n - 1] \in Seq(T)
        /\ Select(g[n - 1], B) = h[n - 1]
    BY <1>4
  <2>2. g[n] = IF s[n] \in A THEN Append(g[n - 1], s[n]) ELSE g[n - 1]
    BY <1>1 DEF Selecting
  <2>3. h[n] = IF s[n] \in B THEN Append(h[n - 1], s[n]) ELSE h[n - 1]
    BY <1>2 DEF Selecting
  <2>4. Select(Append(g[n - 1], s[n]), B) =
            IF s[n] \in B THEN Append(Select(g[n - 1], B), s[n]) ELSE Select(g[n - 1], B)
    <3>1. \A q \in Seq(T), x \in T :
              Select(Append(q, x), B) =
                  IF x \in B THEN Append(Select(q, B), x) ELSE Select(q, B)
      BY SelectAppend
    <3> QED  BY <2>1, <3>1
  <2>5. Select(g[n], B) = h[n]
    BY <2>1, <2>2, <2>3, <2>4
  <2> QED  BY <2>1, <2>5
<1>5. Len(s) \in Same
  <2> HIDE DEF Same
  <2>1. Len(s) \in Nat /\ Len(s) \in 0..Len(s)
    OBVIOUS
  <2>2. 0..Len(s) \subseteq Same
    BY <1>3, <1>4, <2>1, UpTo
  <2> QED  BY <2>1, <2>2
<1> QED  BY <1>1, <1>2, <1>5 DEF Selecting

\* A selection is empty when no row is in S ...
LEMMA SelectNone ==
    ASSUME NEW T, NEW s \in Seq(T), NEW S
    PROVE  Select(s, S) = <<>> <=> \A i \in 1..Len(s) : s[i] \notin S
<1> DEFINE r == Select(s, S)
<1>1. r \in Seq(T) /\ ToSet(r) = ToSet(s) \cap S
  BY SelectRows
<1>2. r = <<>> <=> ToSet(r) = {}
  <2> HIDE DEF r
  <2>1. DOMAIN r = 1..Len(r) /\ Len(r) \in Nat
    BY <1>1
  <2>2. r = <<>> <=> Len(r) = 0
    BY <1>1
  <2>3. Len(r) = 0 <=> 1..Len(r) = {}
    <3>1. \A n \in Nat : n = 0 <=> 1..n = {}
      <4> TAKE n \in Nat
      <4>1. n # 0 => 1 \in 1..n
        OBVIOUS
      <4>2. n = 0 => 1..n = {}
        OBVIOUS
      <4> QED  BY <4>1, <4>2
    <3> QED  BY <2>1, <3>1
  <2>4. ToSet(r) = {} <=> 1..Len(r) = {}
    BY <2>1 DEF ToSet
  <2> QED  BY <2>2, <2>3, <2>4
<1>3. ToSet(s) \cap S = {} <=> \A i \in 1..Len(s) : s[i] \notin S
  <2>1. DOMAIN s = 1..Len(s)
    OBVIOUS
  <2> QED  BY <2>1 DEF ToSet
<1> QED  BY <1>1, <1>2, <1>3

\* ... and has one row when only one place holds a row in S.
LEMMA SelectOne ==
    ASSUME NEW T, NEW s \in Seq(T), NEW S, NEW p \in 1..Len(s), s[p] \in S,
           \A i \in 1..Len(s) : s[i] \in S => i = p
    PROVE  Select(s, S) = <<s[p]>>
<1> DEFINE r == Select(s, S)
<1>1. r \in Seq(T) /\ ToSet(r) = ToSet(s) \cap S
  BY SelectRows
<1>2. PICK at \in [1..Len(r) -> 1..Len(s)] :
          /\ \A i \in 1..Len(r) : r[i] = s[at[i]]
          /\ \A i, j \in 1..Len(r) : i < j => at[i] < at[j]
  BY SelectRows
<1>3. r # <<>>
  BY SelectNone
<1> HIDE DEF r
<1>4. \A i \in 1..Len(r) : at[i] = p /\ r[i] = s[p]
  <2> TAKE i \in 1..Len(r)
  <2>1. DOMAIN r = 1..Len(r)
    BY <1>1
  <2>2. r[i] \in S
    BY <1>1, <2>1 DEF ToSet
  <2> QED  BY <1>2, <2>2
<1>5. Len(r) \in Nat /\ Len(r) # 0
  BY <1>1, <1>3
<1>6. PICK m \in Nat : m = Len(r)
  BY <1>5
<1>7. m = 1
  <2>1. m > 1 => 1 \in 1..m /\ 2 \in 1..m /\ 1 < 2
    BY <1>6
  <2>2. m > 1 => at[1] < at[2] /\ at[1] = p /\ at[2] = p
    BY <1>2, <1>4, <1>6, <2>1
  <2>3. m # 0
    BY <1>5, <1>6
  <2> QED  BY <2>2, <2>3
<1>8. Len(r) = 1 /\ r[1] = s[p]
  BY <1>4, <1>6, <1>7
<1>9. r = <<s[p]>>
  <2>1. s[p] \in T /\ <<s[p]>> \in Seq(T) /\ Len(<<s[p]>>) = 1 /\ <<s[p]>>[1] = s[p]
    OBVIOUS
  <2>2. \A i \in 1..Len(r) : r[i] = <<s[p]>>[i]
    BY <1>8, <2>1
  <2> QED  BY <1>1, <1>8, <2>1, <2>2, SeqEqual
<1> QED  BY <1>9 DEF r

\* A selection that leaves nothing out is the table itself.
LEMMA SelectAll ==
    ASSUME NEW T, NEW s \in Seq(T), NEW S, \A i \in 1..Len(s) : s[i] \in S
    PROVE  Select(s, S) = s
<1>1. PICK h \in [0..Len(s) -> Seq(T)] : Selecting(h, s, S)
  BY SelectUnfolds
<1> DEFINE Same == {n \in 0..Len(s) : Len(h[n]) = n /\ \A i \in 1..n : h[n][i] = s[i]}
<1>2. 0 \in Same
  <2>1. h[0] = <<>> /\ Len(<<>>) = 0 /\ 0 \in 0..Len(s) /\ 1..0 = {}
    BY <1>1 DEF Selecting
  <2> QED  BY <2>1
<1>3. ASSUME NEW n \in 1..Len(s), n - 1 \in Same
      PROVE  n \in Same
  <2>1. /\ n \in 0..Len(s) /\ n - 1 \in 0..Len(s) /\ h[n - 1] \in Seq(T)
        /\ s[n] \in T /\ s[n] \in S
        /\ Len(h[n - 1]) = n - 1 /\ \A i \in 1..(n - 1) : h[n - 1][i] = s[i]
        /\ \A i \in 1..n : i = n \/ i \in 1..(n - 1)
    BY <1>3
  <2>2. h[n] = Append(h[n - 1], s[n])
    BY <1>1, <2>1 DEF Selecting
  <2> QED  BY <2>1, <2>2
<1>4. Len(s) \in Same
  <2> HIDE DEF Same
  <2>1. Len(s) \in Nat /\ Len(s) \in 0..Len(s)
    OBVIOUS
  <2>2. 0..Len(s) \subseteq Same
    BY <1>2, <1>3, <2>1, UpTo
  <2> QED  BY <2>1, <2>2
<1>5. Select(s, S) = h[Len(s)] /\ h[Len(s)] \in Seq(T)
  BY <1>1 DEF Selecting
<1>6. Len(h[Len(s)]) = Len(s) /\ \A i \in 1..Len(s) : h[Len(s)][i] = s[i]
  BY <1>4
<1> QED  BY <1>5, <1>6

\* A sequence goes on with another.
Followed(s, t) == s \o t

\* Where its members are.
LEMMA FollowedFacts ==
    ASSUME NEW T, NEW s \in Seq(T), NEW t \in Seq(T)
    PROVE  /\ Followed(s, t) \in Seq(T) /\ Len(Followed(s, t)) = Len(s) + Len(t)
           /\ \A i \in 1..Len(s) : Followed(s, t)[i] = s[i]
BY DEF Followed

LEMMA FollowedRest ==
    ASSUME NEW T, NEW s \in Seq(T), NEW t \in Seq(T), NEW i \in 1..Len(t)
    PROVE  Followed(s, t)[Len(s) + i] = t[i]
BY DEF Followed

\* Nothing follows, or follows nothing.
LEMMA FollowedEmpty ==
    ASSUME NEW T, NEW s \in Seq(T)
    PROVE  Followed(s, <<>>) = s /\ Followed(<<>>, s) = s
BY DEF Followed

\* Appending to what follows.
LEMMA FollowedAppend ==
    ASSUME NEW T, NEW s \in Seq(T), NEW t \in Seq(T), NEW x \in T
    PROVE  Append(Followed(s, t), x) = Followed(s, Append(t, x))
BY DEF Followed

\* Selecting from two tables in a row.
LEMMA SelectConcat ==
    ASSUME NEW T, NEW s \in Seq(T), NEW t \in Seq(T), NEW S
    PROVE  Select(Followed(s, t), S) = Followed(Select(s, S), Select(t, S))
<1> DEFINE u == Followed(s, t)
           N == Len(s)
           M == Len(t)
<1>1. /\ u \in Seq(T) /\ N \in Nat /\ M \in Nat /\ Len(u) = N + M
      /\ \A n \in 1..N : u[n] = s[n]
      /\ \A n \in 1..M : u[N + n] = t[n]
  <2>1. u \in Seq(T) /\ Len(u) = Len(s) + Len(t)
    BY FollowedFacts
  <2>2. \A n \in 1..Len(s) : u[n] = s[n]
    BY FollowedFacts
  <2>3. \A n \in 1..Len(t) : u[Len(s) + n] = t[n]
    BY FollowedRest
  <2> QED  BY <2>1, <2>2, <2>3
<1> HIDE DEF u
<1>2. PICK f \in [0..Len(u) -> Seq(T)] : Selecting(f, u, S)
  BY <1>1, SelectUnfolds
<1>3. PICK g \in [0..Len(s) -> Seq(T)] : Selecting(g, s, S)
  BY SelectUnfolds
<1>4. PICK h \in [0..Len(t) -> Seq(T)] : Selecting(h, t, S)
  BY SelectUnfolds
<1> DEFINE Same == {n \in 0..N : f[n] = g[n]}
<1>5. N \in Same
  <2>1. 0 \in Same
    BY <1>1, <1>2, <1>3 DEF Selecting
  <2>2. ASSUME NEW n \in 1..N, n - 1 \in Same PROVE n \in Same
    <3>1. f[n - 1] = g[n - 1] /\ n \in 0..N /\ n \in 1..Len(u) /\ u[n] = s[n]
      BY <1>1, <2>2
    <3> QED  BY <1>2, <1>3, <3>1 DEF Selecting
  <2> HIDE DEF Same, N
  <2>3. 0..N \subseteq Same
    BY <1>1, <2>1, <2>2, UpTo
  <2>4. N \in 0..N
    BY <1>1
  <2> QED  BY <2>3, <2>4
<1>6. f[N] = g[N] /\ g[N] \in Seq(T)
  BY <1>5
<1> DEFINE Rest == {n \in 0..M : f[N + n] = Followed(g[N], h[n])}
<1>7. M \in Rest
  <2>1. 0 \in Rest
    <3>1. h[0] = <<>> /\ N + 0 = N /\ 0 \in 0..M
      BY <1>1, <1>4 DEF Selecting
    <3>2. Followed(g[N], <<>>) = g[N]
      BY <1>6, FollowedEmpty
    <3> QED  BY <1>6, <3>1, <3>2
  <2>2. ASSUME NEW n \in 1..M, n - 1 \in Rest PROVE n \in Rest
    <3>1. /\ n \in 0..M /\ n - 1 \in 0..M /\ N + n \in 1..Len(u) /\ (N + n) - 1 = N + (n - 1)
          /\ u[N + n] = t[n] /\ t[n] \in T /\ h[n - 1] \in Seq(T)
          /\ f[N + (n - 1)] = Followed(g[N], h[n - 1])
      <4>1. f[N + (n - 1)] = Followed(g[N], h[n - 1])
        BY <2>2
      <4>2. n \in 0..M /\ n - 1 \in 0..M /\ t[n] \in T
        BY <1>1
      <4>4. h[n - 1] \in Seq(T)
        BY <4>2
      <4>3. /\ N + n \in 1..Len(u) /\ (N + n) - 1 = N + (n - 1)
            /\ u[N + n] = t[n]
        BY <1>1
      <4> QED  BY <4>1, <4>2, <4>3, <4>4
    <3>2. f[N + n] = IF t[n] \in S THEN Append(f[N + (n - 1)], t[n]) ELSE f[N + (n - 1)]
      BY <1>2, <3>1 DEF Selecting
    <3>3. h[n] = IF t[n] \in S THEN Append(h[n - 1], t[n]) ELSE h[n - 1]
      BY <1>4 DEF Selecting
    <3>4. Append(Followed(g[N], h[n - 1]), t[n]) = Followed(g[N], Append(h[n - 1], t[n]))
      <4>1. \A a, b \in Seq(T), x \in T : Append(Followed(a, b), x) = Followed(a, Append(b, x))
        BY FollowedAppend
      <4> QED  BY <1>6, <3>1, <4>1
    <3> QED  BY <3>1, <3>2, <3>3, <3>4
  <2> HIDE DEF Rest, M
  <2>3. 0..M \subseteq Rest
    BY <1>1, <2>1, <2>2, UpTo
  <2>4. M \in 0..M
    BY <1>1
  <2> QED  BY <2>3, <2>4
<1>8. Select(u, S) = f[N + M] /\ Select(s, S) = g[N] /\ Select(t, S) = h[M]
  BY <1>1, <1>2, <1>3, <1>4 DEF Selecting
<1> QED  BY <1>7, <1>8 DEF u
-----------------------------------------------------------------------------
(* merge_rows.                                                             *)

\* The largest of a set of places is one of them.
LEMMA MaxMember ==
    ASSUME NEW n \in Nat, NEW S \in SUBSET (1..n), S # {}
    PROVE  Max(S) \in S
<1> DEFINE Mirror == {n - i : i \in S}
<1>0. \A i \in S : i \in Nat /\ n - i \in Nat /\ n - i \in Mirror
  <2> TAKE i \in S
  <2>1. i \in 1..n
    OBVIOUS
  <2> QED  BY <2>1
<1>1. Mirror \in SUBSET Nat /\ Mirror # {}
  BY <1>0
<1>2. PICK m \in Mirror : \A y \in Mirror : m =< y
  <2> HIDE DEF Mirror
  <2> QED  BY <1>1, LeastNumber
<1>3. PICK x \in S : m = n - x
  BY <1>2
<1>4. \A y \in S : x >= y
  <2> TAKE y \in S
  <2>1. m =< n - y
    BY <1>0, <1>2
  <2>2. x \in Nat /\ y \in Nat
    BY <1>0
  <2> QED  BY <1>3, <2>1, <2>2
<1> QED  BY <1>3, <1>4 DEF Max

\* One turn of merge_rows: the row is appended when no row has its key, or takes the
\* place of one that has it.
LEMMA MergeRowEffect ==
    ASSUME NEW s \in Seq(Row), NEW row \in Row, NEW byKey
    PROVE  /\ MergeRow(s, row, byKey) \in Seq(Row)
           /\ \/ /\ \A i \in 1..Len(s) : RowKey(s[i], byKey) # RowKey(row, byKey)
                 /\ MergeRow(s, row, byKey) = Append(s, row)
              \/ \E p \in 1..Len(s) :
                    /\ RowKey(s[p], byKey) = RowKey(row, byKey)
                    /\ MergeRow(s, row, byKey) = [s EXCEPT ![p] = row]
<1> DEFINE at == {i \in DOMAIN s : RowKey(s[i], byKey) = RowKey(row, byKey)}
<1>1. DOMAIN s = 1..Len(s) /\ Len(s) \in Nat
  OBVIOUS
<1>2. CASE at = {}
  <2>1. MergeRow(s, row, byKey) = Append(s, row)
    BY <1>2 DEF MergeRow
  <2>2. \A i \in 1..Len(s) : RowKey(s[i], byKey) # RowKey(row, byKey)
    BY <1>1, <1>2
  <2> QED  BY <2>1, <2>2
<1>3. CASE at # {}
  <2>1. Max(at) \in at
    <3>1. at \in SUBSET (1..Len(s))
      BY <1>1
    <3> HIDE DEF at
    <3> QED  BY <1>1, <1>3, <3>1, MaxMember
  <2>2. MergeRow(s, row, byKey) = [s EXCEPT ![Max(at)] = row]
    BY <1>3 DEF MergeRow
  <2>3. PICK p \in 1..Len(s) : p = Max(at) /\ RowKey(s[p], byKey) = RowKey(row, byKey)
    BY <1>1, <2>1
  <2>4. MergeRow(s, row, byKey) = [s EXCEPT ![p] = row]
    BY <2>2, <2>3
  <2>5. [s EXCEPT ![p] = row] \in Seq(Row)
    BY ExceptSeq
  <2> QED  BY <2>3, <2>4, <2>5
<1> QED  BY <1>2, <1>3

\* g holds the stages of MergeRows(existing, incoming, byKey).
Merging(g, existing, incoming, byKey) ==
    /\ g[0] = existing
    /\ \A n \in 1..Len(incoming) : g[n] = MergeRow(g[n - 1], incoming[n], byKey)
    /\ MergeRows(existing, incoming, byKey) = g[Len(incoming)]

\* MergeRows is the recursion it says it is.
LEMMA MergeUnfolds ==
    ASSUME NEW existing \in Seq(Row), NEW incoming \in Seq(Row), NEW byKey
    PROVE  \E g \in [0..Len(incoming) -> Seq(Row)] : Merging(g, existing, incoming, byKey)
<1> DEFINE N == Len(incoming)
           merged == CHOOSE g : g = [n \in 0..N |->
                         IF n = 0 THEN existing ELSE MergeRow(g[n - 1], incoming[n], byKey)]
           step == [n \in 1..N |-> [q \in Seq(Row) |-> MergeRow(q, incoming[n], byKey)]]
<1>1. N \in Nat
  OBVIOUS
<1>2. step \in [1..N -> [Seq(Row) -> Seq(Row)]]
  <2>1. ASSUME NEW n \in 1..N, NEW q \in Seq(Row)
        PROVE  MergeRow(q, incoming[n], byKey) \in Seq(Row)
    <3>1. incoming[n] \in Row
      OBVIOUS
    <3> QED  BY <3>1, MergeRowEffect
  <2> QED  BY <2>1
<1>3. \A n \in 1..N, q \in Seq(Row) : step[n][q] = MergeRow(q, incoming[n], byKey)
  OBVIOUS
<1>4. MergeRows(existing, incoming, byKey) = merged[N]
  BY DEF MergeRows
<1> HIDE DEF step, N
<1>5. PICK g \in [0..N -> Seq(Row)] : Unfolds(g, N, existing, step)
  BY <1>1, <1>2, Recursion
<1>6. \A n \in 1..N : n - 1 \in 0..N /\ g[n - 1] \in Seq(Row)
  BY <1>1
<1>7. \A n \in 0..N : n = 0 \/ n \in 1..N
  BY <1>1
<1>8. \A n \in 0..N : g[n] = IF n = 0 THEN existing
                             ELSE MergeRow(g[n - 1], incoming[n], byKey)
  BY <1>3, <1>5, <1>6, <1>7 DEF Unfolds
<1>9. g = [n \in 0..N |-> IF n = 0 THEN existing
                          ELSE MergeRow(g[n - 1], incoming[n], byKey)]
  <2>1. DOMAIN g = 0..N /\ g = [n \in DOMAIN g |-> g[n]]
    OBVIOUS
  <2> QED  BY <1>8, <2>1
<1>10. merged = [n \in 0..N |-> IF n = 0 THEN existing
                                ELSE MergeRow(merged[n - 1], incoming[n], byKey)]
  BY <1>9
<1> HIDE DEF merged
<1>11. \A n \in 0..N : merged[n] = IF n = 0 THEN existing
                                   ELSE MergeRow(merged[n - 1], incoming[n], byKey)
  BY <1>10
<1>12. merged[0] = existing
       /\ \A n \in 1..N : merged[n] = MergeRow(merged[n - 1], incoming[n], byKey)
  <2>1. 0 \in 0..N /\ \A n \in 1..N : n \in 0..N /\ n # 0
    BY <1>1
  <2> QED  BY <1>11, <2>1
<1>13. \A n \in 0..N : merged[n] \in Seq(Row)
  <2> DEFINE Typed == {n \in 0..N : merged[n] \in Seq(Row)}
  <2>1. 0 \in Typed
    <3>1. 0 \in 0..N
      BY <1>1
    <3> QED  BY <1>12, <3>1
  <2>2. ASSUME NEW n \in 1..N, n - 1 \in Typed
        PROVE  n \in Typed
    <3>1. incoming[n] \in Row
      BY DEF N
    <3>2. merged[n - 1] \in Seq(Row)
      BY <2>2
    <3>3. n \in 0..N
      BY <1>1
    <3>4. MergeRow(merged[n - 1], incoming[n], byKey) \in Seq(Row)
      BY <3>1, <3>2, MergeRowEffect
    <3> QED  BY <1>12, <3>3, <3>4
  <2> HIDE DEF Typed
  <2>3. 0..N \subseteq Typed
    BY <1>1, <2>1, <2>2, UpTo
  <2> QED  BY <2>3 DEF Typed
<1>14. merged \in [0..N -> Seq(Row)]
  <2>1. DOMAIN merged = 0..N /\ merged = [n \in DOMAIN merged |-> merged[n]]
    BY <1>10
  <2> QED  BY <1>13, <2>1
<1>15. Merging(merged, existing, incoming, byKey)
  BY <1>4, <1>12 DEF Merging, N
<1> QED  BY <1>14, <1>15 DEF N

\* The incoming rows have different keys, and a key of theirs is at most once among
\* the existing rows.
DistinctKeys(existing, incoming, byKey) ==
    /\ \A i, j \in 1..Len(incoming) :
           RowKey(incoming[i], byKey) = RowKey(incoming[j], byKey) => i = j
    /\ \A i, j \in 1..Len(existing) :
           RowKey(existing[i], byKey) = RowKey(existing[j], byKey)
               => i = j \/ \A k \in 1..Len(incoming) :
                               RowKey(existing[i], byKey) # RowKey(incoming[k], byKey)

\* m is what merging the first n incoming rows leaves: these rows and the existing ones
\* with other keys, in the places the existing rows had.
MergedUpTo(n, m, existing, incoming, byKey) ==
    /\ \A i \in 1..Len(m) :
           \/ \E k \in 1..n : m[i] = incoming[k]
           \/ /\ i =< Len(existing) /\ m[i] = existing[i]
              /\ \A k \in 1..n : RowKey(m[i], byKey) # RowKey(incoming[k], byKey)
    /\ \A k \in 1..n : \E i \in 1..Len(m) : m[i] = incoming[k]
    /\ Len(existing) =< Len(m)
    /\ \A i \in 1..Len(existing) : RowKey(m[i], byKey) = RowKey(existing[i], byKey)
    /\ \A i, j \in 1..Len(m) :
           RowKey(m[i], byKey) = RowKey(m[j], byKey)
               => i = j \/ \A k \in 1..Len(incoming) :
                               RowKey(m[i], byKey) # RowKey(incoming[k], byKey)

\* One more row.
LEMMA MergeStep ==
    ASSUME NEW existing \in Seq(Row), NEW incoming \in Seq(Row), NEW byKey,
           DistinctKeys(existing, incoming, byKey),
           NEW n \in 1..Len(incoming), NEW m \in Seq(Row),
           MergedUpTo(n - 1, m, existing, incoming, byKey)
    PROVE  MergedUpTo(n, MergeRow(m, incoming[n], byKey), existing, incoming, byKey)
<1> DEFINE x == incoming[n]
           r == MergeRow(m, x, byKey)
           Key(row) == RowKey(row, byKey)
<1>1. /\ x \in Row /\ n \in Nat /\ Len(m) \in Nat /\ Len(existing) \in Nat
      /\ Len(existing) =< Len(m) /\ n \in 1..n
      /\ \A k \in 1..n : k = n \/ k \in 1..(n - 1)
      /\ \A k \in 1..n : k \in 1..Len(incoming)
      /\ \A i \in 1..Len(existing) : i \in 1..Len(m)
  BY DEF MergedUpTo
<1>2. /\ \A i \in 1..Len(m) :
           \/ \E k \in 1..(n - 1) : m[i] = incoming[k]
           \/ /\ i =< Len(existing) /\ m[i] = existing[i]
              /\ \A k \in 1..(n - 1) : Key(m[i]) # Key(incoming[k])
      /\ \A k \in 1..(n - 1) : \E i \in 1..Len(m) : m[i] = incoming[k]
      /\ \A i \in 1..Len(existing) : Key(m[i]) = Key(existing[i])
      /\ \A i, j \in 1..Len(m) : Key(m[i]) = Key(m[j])
             => i = j \/ \A k \in 1..Len(incoming) : Key(m[i]) # Key(incoming[k])
  BY DEF MergedUpTo
<1>3. \A i, j \in 1..Len(incoming) : Key(incoming[i]) = Key(incoming[j]) => i = j
  BY DEF DistinctKeys
<1> HIDE DEF Key
<1>4. CASE /\ \A i \in 1..Len(m) : Key(m[i]) # Key(x)
           /\ r = Append(m, x)
  <2>1. /\ Len(r) = Len(m) + 1 /\ r[Len(m) + 1] = x
        /\ \A i \in 1..Len(m) : r[i] = m[i]
        /\ \A i \in 1..Len(r) : i = Len(m) + 1 \/ i \in 1..Len(m)
        /\ \A i \in 1..Len(m) : i \in 1..Len(r)
        /\ Len(m) + 1 \in 1..Len(r)
    BY <1>1, <1>4
  <2> HIDE DEF r, x
  <2>2. \A i \in 1..Len(r) :
           \/ \E k \in 1..n : r[i] = incoming[k]
           \/ /\ i =< Len(existing) /\ r[i] = existing[i]
              /\ \A k \in 1..n : Key(r[i]) # Key(incoming[k])
    <3> TAKE i \in 1..Len(r)
    <3>1. CASE i = Len(m) + 1
      BY <1>1, <2>1, <3>1 DEF x
    <3>2. CASE i \in 1..Len(m)
      <4>1. r[i] = m[i] /\ Key(m[i]) # Key(incoming[n])
        BY <1>4, <2>1, <3>2 DEF x
      <4>2. \A k \in 1..(n - 1) : k \in 1..n
        BY <1>1
      <4> QED  BY <1>1, <1>2, <3>2, <4>1, <4>2
    <3> QED  BY <2>1, <3>1, <3>2
  <2>3. \A k \in 1..n : \E i \in 1..Len(r) : r[i] = incoming[k]
    BY <1>1, <1>2, <2>1 DEF x
  <2>4. Len(existing) =< Len(r) /\ \A i \in 1..Len(existing) : Key(r[i]) = Key(existing[i])
    BY <1>1, <1>2, <2>1
  <2>5. \A i, j \in 1..Len(r) : Key(r[i]) = Key(r[j])
             => i = j \/ \A k \in 1..Len(incoming) : Key(r[i]) # Key(incoming[k])
    BY <1>2, <1>4, <2>1
  <2> QED  BY <2>2, <2>3, <2>4, <2>5 DEF MergedUpTo, Key, r, x
<1>5. ASSUME NEW p \in 1..Len(m), Key(m[p]) = Key(x), r = [m EXCEPT ![p] = x]
      PROVE  MergedUpTo(n, r, existing, incoming, byKey)
  <2>1. /\ Len(r) = Len(m) /\ r[p] = x
        /\ \A i \in 1..Len(m) : i # p => r[i] = m[i]
    BY <1>1, <1>5
  <2> HIDE DEF r
  <2>2. \A i \in 1..Len(m) : Key(r[i]) = Key(m[i])
    BY <1>5, <2>1
  <2>3. \A i \in 1..Len(m) : i # p => Key(m[i]) # Key(x)
    BY <1>1, <1>2, <1>5
  <2>4. \A i \in 1..Len(r) :
           \/ \E k \in 1..n : r[i] = incoming[k]
           \/ /\ i =< Len(existing) /\ r[i] = existing[i]
              /\ \A k \in 1..n : Key(r[i]) # Key(incoming[k])
    <3> TAKE i \in 1..Len(r)
    <3>1. CASE i = p
      BY <1>1, <2>1, <3>1
    <3>2. CASE i # p
      <4>1. i \in 1..Len(m) /\ r[i] = m[i] /\ Key(m[i]) # Key(incoming[n])
        BY <2>1, <2>3, <3>2
      <4>2. \A k \in 1..(n - 1) : k \in 1..n
        BY <1>1
      <4> QED  BY <1>1, <1>2, <4>1, <4>2
    <3> QED  BY <3>1, <3>2
  <2>5. \A k \in 1..n : \E i \in 1..Len(r) : r[i] = incoming[k]
    <3> TAKE k \in 1..n
    <3>1. CASE k = n
      BY <2>1, <3>1
    <3>2. CASE k \in 1..(n - 1)
      <4>1. PICK i \in 1..Len(m) : m[i] = incoming[k]
        BY <1>2, <3>2
      <4>2. i # p
        <5>1. k # n /\ k \in 1..Len(incoming)
          BY <1>1, <3>2
        <5> QED  BY <1>3, <1>5, <4>1, <5>1
      <4> QED  BY <2>1, <4>1, <4>2
    <3> QED  BY <1>1, <3>1, <3>2
  <2>6. Len(existing) =< Len(r) /\ \A i \in 1..Len(existing) : Key(r[i]) = Key(existing[i])
    BY <1>1, <1>2, <2>1, <2>2
  <2>7. \A i, j \in 1..Len(r) : Key(r[i]) = Key(r[j])
             => i = j \/ \A k \in 1..Len(incoming) : Key(r[i]) # Key(incoming[k])
    <3> TAKE i, j \in 1..Len(r)
    <3>1. i \in 1..Len(m) /\ j \in 1..Len(m)
      BY <2>1
    <3>2. Key(m[i]) = Key(m[j])
              => i = j \/ \A k \in 1..Len(incoming) : Key(m[i]) # Key(incoming[k])
      BY <1>2, <3>1
    <3>3. Key(r[i]) = Key(m[i]) /\ Key(r[j]) = Key(m[j])
      BY <2>2, <3>1
    <3> QED  BY <3>2, <3>3
  <2> QED  BY <2>4, <2>5, <2>6, <2>7 DEF MergedUpTo, Key
<1> QED  BY <1>1, <1>4, <1>5, MergeRowEffect DEF Key

\* merge_rows: every incoming row, and of the existing ones those with other keys, are in
\* the result.
LEMMA MergeResult ==
    ASSUME NEW existing \in Seq(Row), NEW incoming \in Seq(Row), NEW byKey,
           DistinctKeys(existing, incoming, byKey)
    PROVE  /\ MergeRows(existing, incoming, byKey) \in Seq(Row)
           /\ MergedUpTo(Len(incoming), MergeRows(existing, incoming, byKey),
                         existing, incoming, byKey)
<1>1. PICK g \in [0..Len(incoming) -> Seq(Row)] : Merging(g, existing, incoming, byKey)
  BY MergeUnfolds
<1> DEFINE Stages == {n \in 0..Len(incoming) :
                          MergedUpTo(n, g[n], existing, incoming, byKey)}
<1>2. 0 \in Stages
  <2>1. g[0] = existing
    BY <1>1 DEF Merging
  <2>2. 1..0 = {} /\ 0 \in 0..Len(incoming) /\ Len(existing) \in Nat
    OBVIOUS
  <2>3. MergedUpTo(0, existing, existing, incoming, byKey)
    BY <2>2 DEF MergedUpTo, DistinctKeys
  <2> QED  BY <2>1, <2>2, <2>3
<1>3. ASSUME NEW n \in 1..Len(incoming), n - 1 \in Stages
      PROVE  n \in Stages
  <2>1. n \in 0..Len(incoming) /\ n - 1 \in 0..Len(incoming) /\ g[n - 1] \in Seq(Row)
    OBVIOUS
  <2>2. MergedUpTo(n - 1, g[n - 1], existing, incoming, byKey)
    BY <1>3
  <2>3. g[n] = MergeRow(g[n - 1], incoming[n], byKey)
    BY <1>1 DEF Merging
  <2>4. MergedUpTo(n, g[n], existing, incoming, byKey)
    BY <2>1, <2>2, <2>3, MergeStep
  <2> QED  BY <2>1, <2>4
<1>4. Len(incoming) \in Stages
  <2> HIDE DEF Stages
  <2>1. Len(incoming) \in Nat /\ Len(incoming) \in 0..Len(incoming)
    OBVIOUS
  <2>2. 0..Len(incoming) \subseteq Stages
    BY <1>2, <1>3, <2>1, UpTo
  <2> QED  BY <2>1, <2>2
<1>5. Len(incoming) \in 0..Len(incoming)
  OBVIOUS
<1> QED  BY <1>1, <1>4, <1>5 DEF Merging

\* The rows merge_rows does not match keep their order: a selection of keys the file does
\* not have is the same before and after.
LEMMA MergeKeepsOthers ==
    ASSUME NEW existing \in Seq(Row), NEW incoming \in Seq(Row), NEW byKey, NEW B,
           \A row \in B, k \in 1..Len(incoming) :
               RowKey(row, byKey) # RowKey(incoming[k], byKey)
    PROVE  Select(MergeRows(existing, incoming, byKey), B) = Select(existing, B)
<1>1. PICK g \in [0..Len(incoming) -> Seq(Row)] : Merging(g, existing, incoming, byKey)
  BY MergeUnfolds
<1> DEFINE Same == {n \in 0..Len(incoming) : Select(g[n], B) = Select(existing, B)}
<1>2. 0 \in Same
  <2>1. g[0] = existing /\ 0 \in 0..Len(incoming)
    BY <1>1 DEF Merging
  <2> QED  BY <2>1
<1>3. ASSUME NEW n \in 1..Len(incoming), n - 1 \in Same
      PROVE  n \in Same
  <2> DEFINE x == incoming[n]
  <2>1. /\ n \in 0..Len(incoming) /\ n - 1 \in 0..Len(incoming)
        /\ x \in Row /\ x \notin B
    OBVIOUS
  <2>2. PICK m \in Seq(Row) : m = g[n - 1]
    BY <2>1
  <2>3. g[n] = MergeRow(m, x, byKey) /\ Select(m, B) = Select(existing, B)
    BY <1>1, <1>3, <2>2 DEF Merging
  <2>4. CASE g[n] = Append(m, x)
    <3>1. Select(Append(m, x), B) = Select(m, B)
      BY <2>1, SelectAppend
    <3> QED  BY <2>1, <2>3, <2>4, <3>1
  <2>5. ASSUME NEW p \in 1..Len(m), RowKey(m[p], byKey) = RowKey(x, byKey),
               g[n] = [m EXCEPT ![p] = x]
        PROVE  n \in Same
    <3>1. m[p] \notin B
      BY <2>5
    <3>2. PICK r \in Seq(Row) : r = [m EXCEPT ![p] = x]
      BY <2>1, ExceptSeq
    <3>3. Len(r) = Len(m) /\ \A i \in 1..Len(m) : r[i] = m[i] \/ (i = p /\ r[i] = x)
      BY <2>1, <3>2
    <3>4. Select(m, B) = Select(r, B)
      BY <2>1, <3>1, <3>3, SelectSame
    <3> QED  BY <2>1, <2>3, <2>5, <3>2, <3>4
  <2>6. \/ g[n] = Append(m, x)
        \/ \E p \in 1..Len(m) : /\ RowKey(m[p], byKey) = RowKey(x, byKey)
                                /\ g[n] = [m EXCEPT ![p] = x]
    <3> HIDE DEF x
    <3>1. x \in Row
      BY <2>1
    <3>2. \/ /\ \A i \in 1..Len(m) : RowKey(m[i], byKey) # RowKey(x, byKey)
             /\ MergeRow(m, x, byKey) = Append(m, x)
          \/ \E p \in 1..Len(m) :
                /\ RowKey(m[p], byKey) = RowKey(x, byKey)
                /\ MergeRow(m, x, byKey) = [m EXCEPT ![p] = x]
      BY <3>1, MergeRowEffect
    <3> QED  BY <2>3, <3>2
  <2> QED  BY <2>4, <2>5, <2>6
<1>4. Len(incoming) \in Same
  <2> HIDE DEF Same
  <2>1. Len(incoming) \in Nat /\ Len(incoming) \in 0..Len(incoming)
    OBVIOUS
  <2>2. 0..Len(incoming) \subseteq Same
    BY <1>2, <1>3, <2>1, UpTo
  <2> QED  BY <2>1, <2>2
<1> QED  BY <1>1, <1>4 DEF Merging
-----------------------------------------------------------------------------
(* Sound tables, and the operations that keep them so.                     *)

\* What every table of a job is like: rows of U, none twice; no key twice when rows
\* are matched by key; and no flagged row where none may land.
Sound(s, U, byKey, live) ==
    /\ s \in Seq(Row)
    /\ \A i \in 1..Len(s) : s[i] \in U
    /\ \A i, j \in 1..Len(s) : s[i].id = s[j].id => i = j
    /\ byKey => \A i, j \in 1..Len(s) : s[i].key = s[j].key => i = j \/ s[i].key = NoKey
    /\ live => \A i \in 1..Len(s) : ~s[i].del

\* Rows with the same id are the same row.
IdsTell(U) == U \in SUBSET Row /\ \A r, q \in U : r.id = q.id => r = q

\* No row lacks its key.
NoNulls(s) == \A i \in 1..Len(s) : s[i].key # NoKey

\* Members of a table by place.
LEMMA SetOfSeq ==
    ASSUME NEW T, NEW s \in Seq(T), NEW x
    PROVE  x \in ToSet(s) <=> \E i \in 1..Len(s) : x = s[i]
<1>1. DOMAIN s = 1..Len(s)
  OBVIOUS
<1> QED  BY <1>1 DEF ToSet

\* Keys of a table by place.
LEMMA KeysOfSeq ==
    ASSUME NEW s \in Seq(Row), NEW byKey, NEW key
    PROVE  key \in KeysOf(s, byKey) <=> \E i \in 1..Len(s) : key = RowKey(s[i], byKey)
<1>1. DOMAIN s = 1..Len(s)
  OBVIOUS
<1> QED  BY <1>1 DEF ToSet, KeysOf

\* A selection of a sound table is sound ...
LEMMA SelectSound ==
    ASSUME NEW s, NEW U, NEW byKey, NEW live, NEW S,
           Sound(s, U, byKey, live)
    PROVE  /\ Sound(Select(s, S), U, byKey, live)
           /\ \A i \in 1..Len(Select(s, S)) : Select(s, S)[i] \in S
           /\ \A x : x \in ToSet(Select(s, S)) <=> x \in ToSet(s) /\ x \in S
<1> DEFINE r == Select(s, S)
<1>1. s \in Seq(Row)
  BY DEF Sound
<1>2. r \in Seq(Row) /\ ToSet(r) = ToSet(s) \cap S
  BY <1>1, SelectRows
<1>3. PICK at \in [1..Len(r) -> 1..Len(s)] :
          /\ \A i \in 1..Len(r) : r[i] = s[at[i]]
          /\ \A i, j \in 1..Len(r) : i < j => at[i] < at[j]
  BY <1>1, SelectRows
<1> HIDE DEF r
<1>4. \A i, j \in 1..Len(r) : at[i] = at[j] => i = j
  <2> TAKE i, j \in 1..Len(r)
  <2>1. i \in Int /\ j \in Int /\ at[i] \in Int /\ at[j] \in Int
    OBVIOUS
  <2>2. i < j \/ j < i \/ i = j
    BY <2>1
  <2>3. (i < j => at[i] < at[j]) /\ (j < i => at[j] < at[i])
    BY <1>3
  <2> QED  BY <2>1, <2>2, <2>3
<1>5. \A i \in 1..Len(r) : at[i] \in 1..Len(s) /\ r[i] = s[at[i]]
  BY <1>3
<1>6. Sound(r, U, byKey, live)
  <2>1. \A i \in 1..Len(r) : r[i] \in U
    BY <1>5 DEF Sound
  <2>2. \A i, j \in 1..Len(r) : r[i].id = r[j].id => i = j
    BY <1>4, <1>5 DEF Sound
  <2>3. ASSUME byKey, NEW i \in 1..Len(r), NEW j \in 1..Len(r), r[i].key = r[j].key
        PROVE  i = j \/ r[i].key = NoKey
    <3>1. at[i] = at[j] \/ s[at[i]].key = NoKey
      BY <1>5, <2>3 DEF Sound
    <3> QED  BY <1>4, <1>5, <3>1
  <2>4. live => \A i \in 1..Len(r) : ~r[i].del
    BY <1>5 DEF Sound
  <2> QED  BY <1>2, <2>1, <2>2, <2>3, <2>4 DEF Sound
<1>7. \A i \in 1..Len(r) : r[i] \in S
  <2> TAKE i \in 1..Len(r)
  <2>1. r[i] \in ToSet(r)
    BY <1>2, SetOfSeq
  <2> QED  BY <1>2, <2>1
<1> QED  BY <1>2, <1>6, <1>7 DEF r

\* ... so are both halves of split_hard_delete, and the live one has no flagged row ...
LEMMA SplitSound ==
    ASSUME NEW s, NEW U, NEW byKey, NEW live, Sound(s, U, byKey, live)
    PROVE  /\ Sound(Live(s), U, byKey, TRUE)
           /\ Sound(Flagged(s), U, byKey, live)
           /\ \A x : x \in ToSet(Live(s)) <=> x \in ToSet(s) /\ ~x.del
           /\ \A x : x \in ToSet(Flagged(s)) <=> x \in ToSet(s) /\ x.del
<1> DEFINE L == {row \in Row : ~row.del}
           D == {row \in Row : row.del}
<1>1. s \in Seq(Row) /\ \A x : x \in ToSet(s) => x \in Row
  <2>1. s \in Seq(Row)
    BY DEF Sound
  <2> QED  BY <2>1, SetOfSeq
<1>2. \A x \in Row : (x \in L <=> ~x.del) /\ (x \in D <=> x.del)
  OBVIOUS
<1> HIDE DEF L, D
<1>3. /\ Sound(Select(s, L), U, byKey, live)
      /\ \A i \in 1..Len(Select(s, L)) : Select(s, L)[i] \in L
      /\ \A x : x \in ToSet(Select(s, L)) <=> x \in ToSet(s) /\ x \in L
  BY SelectSound
<1>4. /\ Sound(Select(s, D), U, byKey, live)
      /\ \A x : x \in ToSet(Select(s, D)) <=> x \in ToSet(s) /\ x \in D
  BY SelectSound
<1>5. Live(s) = Select(s, L) /\ Flagged(s) = Select(s, D)
  BY DEF Live, Flagged, L, D
<1>6. Sound(Select(s, L), U, byKey, TRUE)
  <2> DEFINE r == Select(s, L)
  <2>1. r \in Seq(Row) /\ \A i \in 1..Len(r) : r[i] \in L
    BY <1>3 DEF Sound
  <2>2. \A i \in 1..Len(r) : ~r[i].del
    <3> HIDE DEF r
    <3> TAKE i \in 1..Len(r)
    <3>1. r[i] \in Row
      BY <2>1
    <3> QED  BY <1>2, <2>1, <3>1
  <2>3. Sound(r, U, byKey, live)
    BY <1>3
  <2> HIDE DEF r
  <2>4. Sound(r, U, byKey, TRUE)
    BY <2>2, <2>3 DEF Sound
  <2> QED  BY <2>4 DEF r
<1> QED  BY <1>1, <1>2, <1>3, <1>4, <1>5, <1>6

\* ... and so is what removing keys leaves.
LEMMA WithoutSound ==
    ASSUME NEW s, NEW U, NEW byKey, NEW live, NEW keys,
           NEW onKey, Sound(s, U, byKey, live)
    PROVE  /\ Sound(WithoutKeys(s, keys, onKey), U, byKey, live)
           /\ \A x : x \in ToSet(WithoutKeys(s, keys, onKey)) <=>
                         x \in ToSet(s) /\ RowKey(x, onKey) \notin keys
<1> DEFINE S == {row \in Row : RowKey(row, onKey) \notin keys}
<1>1. s \in Seq(Row) /\ \A x : x \in ToSet(s) => x \in Row
  <2>1. s \in Seq(Row)
    BY DEF Sound
  <2> QED  BY <2>1, SetOfSeq
<1>2. \A x \in Row : x \in S <=> RowKey(x, onKey) \notin keys
  OBVIOUS
<1>3. WithoutKeys(s, keys, onKey) = Select(s, S)
  BY DEF WithoutKeys
<1> HIDE DEF S
<1>4. /\ Sound(Select(s, S), U, byKey, live)
      /\ \A x : x \in ToSet(Select(s, S)) <=> x \in ToSet(s) /\ x \in S
  BY SelectSound
<1> QED  BY <1>1, <1>2, <1>3, <1>4

\* Merging two sound tables whose rows are told apart by id gives a sound one: no row
\* appears twice even if it was in both, as when a job repeats what it did.
LEMMA MergeSound ==
    ASSUME NEW U, IdsTell(U), NEW byKey, NEW live,
           NEW e, Sound(e, U, byKey, live),
           NEW s, Sound(s, U, byKey, live), byKey => NoNulls(s)
    PROVE  /\ Sound(MergeRows(e, s, byKey), U, byKey, live)
           /\ \A x : x \in ToSet(MergeRows(e, s, byKey)) <=>
                         \/ x \in ToSet(s)
                         \/ x \in ToSet(e) /\ RowKey(x, byKey) \notin KeysOf(s, byKey)
<1> DEFINE r == MergeRows(e, s, byKey)
<1>1. e \in Seq(Row) /\ s \in Seq(Row)
  BY DEF Sound
<1>2. DistinctKeys(e, s, byKey)
  <2>1. CASE byKey
    BY <2>1 DEF Sound, DistinctKeys, RowKey, NoNulls
  <2>2. CASE ~byKey
    BY <2>2 DEF Sound, DistinctKeys, RowKey
  <2> QED  BY <2>1, <2>2
<1>3. r \in Seq(Row) /\ MergedUpTo(Len(s), r, e, s, byKey)
  BY <1>1, <1>2, MergeResult
<1> HIDE DEF r
<1>4. /\ Len(r) \in Nat /\ Len(e) \in Nat /\ Len(s) \in Nat
      /\ \A i \in 1..Len(r) :
             \/ \E k \in 1..Len(s) : r[i] = s[k]
             \/ /\ i \in 1..Len(e) /\ r[i] = e[i]
                /\ \A k \in 1..Len(s) : RowKey(r[i], byKey) # RowKey(s[k], byKey)
  BY <1>1, <1>3 DEF MergedUpTo
<1>5. \A k \in 1..Len(s) : \E i \in 1..Len(r) : r[i] = s[k]
  BY <1>3 DEF MergedUpTo
<1>6. \A i \in 1..Len(e) : /\ i \in 1..Len(r)
                           /\ RowKey(r[i], byKey) = RowKey(e[i], byKey)
  BY <1>1, <1>3, <1>4 DEF MergedUpTo
<1>7. \A i, j \in 1..Len(r) : RowKey(r[i], byKey) = RowKey(r[j], byKey)
         => i = j \/ \A k \in 1..Len(s) : RowKey(r[i], byKey) # RowKey(s[k], byKey)
  BY <1>3 DEF MergedUpTo
<1>8. \A i \in 1..Len(r) : r[i] \in U
  BY <1>4 DEF Sound
<1>9. \A i, j \in 1..Len(r) : RowKey(r[i], byKey) = RowKey(r[j], byKey)
         => i = j \/ (i \in 1..Len(e) /\ j \in 1..Len(e) /\ r[i] = e[i] /\ r[j] = e[j])
  BY <1>4, <1>7
<1>10. \A i, j \in 1..Len(r) : r[i].id = r[j].id => i = j
  <2> TAKE i, j \in 1..Len(r)
  <2>1. r[i].id = r[j].id => r[i] = r[j]
    BY <1>8 DEF IdsTell
  <2> QED  BY <1>9, <2>1 DEF Sound
<1>11. byKey => \A i, j \in 1..Len(r) : r[i].key = r[j].key => i = j \/ r[i].key = NoKey
  BY <1>9 DEF Sound, RowKey
<1>12. live => \A i \in 1..Len(r) : ~r[i].del
  BY <1>4 DEF Sound
<1>13. Sound(r, U, byKey, live)
  BY <1>3, <1>8, <1>10, <1>11, <1>12 DEF Sound
<1>14. ASSUME NEW x
       PROVE  x \in ToSet(r) <=> \/ x \in ToSet(s)
                                 \/ x \in ToSet(e) /\ RowKey(x, byKey) \notin KeysOf(s, byKey)
  <2>1. RowKey(x, byKey) \in KeysOf(s, byKey) <=>
            \E k \in 1..Len(s) : RowKey(x, byKey) = RowKey(s[k], byKey)
    BY <1>1, KeysOfSeq
  <2>2. (x \in ToSet(s) <=> \E k \in 1..Len(s) : x = s[k])
        /\ (x \in ToSet(e) <=> \E i \in 1..Len(e) : x = e[i])
        /\ (x \in ToSet(r) <=> \E i \in 1..Len(r) : x = r[i])
    BY <1>1, <1>3, SetOfSeq
  <2>3. ASSUME x \in ToSet(r)
        PROVE  \/ x \in ToSet(s)
               \/ x \in ToSet(e) /\ RowKey(x, byKey) \notin KeysOf(s, byKey)
    BY <1>4, <2>1, <2>2, <2>3
  <2>4. ASSUME x \in ToSet(s) PROVE x \in ToSet(r)
    BY <1>5, <2>2, <2>4
  <2>5. ASSUME x \in ToSet(e), RowKey(x, byKey) \notin KeysOf(s, byKey)
        PROVE  x \in ToSet(r)
    <3>1. PICK i \in 1..Len(e) : x = e[i]
      BY <2>2, <2>5
    <3>2. i \in 1..Len(r) /\ RowKey(r[i], byKey) = RowKey(x, byKey)
      BY <1>6, <3>1
    <3>3. r[i] = e[i]
      <4>1. ~\E k \in 1..Len(s) : r[i] = s[k]
        BY <2>1, <2>5, <3>2
      <4> QED  BY <1>4, <3>2, <4>1
    <3> QED  BY <2>2, <3>1, <3>2, <3>3
  <2> QED  BY <2>3, <2>4, <2>5
<1> QED  BY <1>13, <1>14 DEF r

\* Appending rows with keys of their own keeps a table sound (insert-only).
LEMMA ConcatSound ==
    ASSUME NEW U, IdsTell(U), NEW byKey, NEW live, NEW e, NEW s,
           Sound(e, U, byKey, live), Sound(s, U, byKey, live),
           \A x : x \in ToSet(s) => RowKey(x, byKey) \notin KeysOf(e, byKey)
    PROVE  /\ Sound(e \o s, U, byKey, live)
           /\ \A x : x \in ToSet(e \o s) <=> x \in ToSet(e) \/ x \in ToSet(s)
<1> DEFINE r == e \o s
           m == Len(e)
<1>1. /\ e \in Seq(Row) /\ s \in Seq(Row) /\ r \in Seq(Row)
      /\ m \in Nat /\ Len(s) \in Nat /\ Len(r) = m + Len(s)
  BY DEF Sound
<1>2. /\ \A i \in 1..m : r[i] = e[i] /\ i \in 1..Len(r)
      /\ \A i \in 1..Len(s) : r[m + i] = s[i] /\ m + i \in 1..Len(r)
      /\ \A i \in 1..Len(r) : i \in 1..m \/ \E k \in 1..Len(s) : i = m + k /\ r[i] = s[k]
  <2>1. \A i \in 1..m : r[i] = e[i] /\ i \in 1..Len(r)
    BY <1>1
  <2>2. \A i \in 1..Len(s) : r[m + i] = s[i] /\ m + i \in 1..Len(r)
    BY <1>1
  <2>3. \A i \in 1..Len(r) : i \in 1..m \/ (i - m \in 1..Len(s) /\ i = m + (i - m))
    <3> HIDE DEF r, m
    <3> QED  BY <1>1
  <2> HIDE DEF r, m
  <2> QED  BY <2>1, <2>2, <2>3
<1> HIDE DEF r, m
<1>3. \A i \in 1..m, k \in 1..Len(s) : RowKey(s[k], byKey) # RowKey(e[i], byKey)
  <2> TAKE i \in 1..m, k \in 1..Len(s)
  <2>1. s[k] \in ToSet(s)
    BY <1>1, SetOfSeq
  <2>2. RowKey(e[i], byKey) \in KeysOf(e, byKey)
    BY <1>1, KeysOfSeq DEF m
  <2> QED  BY <2>1, <2>2
<1>4. \A i, j \in 1..Len(r) :
          \/ i \in 1..m /\ j \in 1..m /\ r[i] = e[i] /\ r[j] = e[j]
          \/ \E k, l \in 1..Len(s) : /\ i = m + k /\ j = m + l
                                     /\ r[i] = s[k] /\ r[j] = s[l]
          \/ RowKey(r[i], byKey) # RowKey(r[j], byKey)
  <2> TAKE i, j \in 1..Len(r)
  <2>1. i \in 1..m \/ \E k \in 1..Len(s) : i = m + k /\ r[i] = s[k]
    BY <1>2
  <2>2. j \in 1..m \/ \E k \in 1..Len(s) : j = m + k /\ r[j] = s[k]
    BY <1>2
  <2>3. (i \in 1..m => r[i] = e[i]) /\ (j \in 1..m => r[j] = e[j])
    BY <1>2
  <2> QED  BY <1>3, <2>1, <2>2, <2>3
<1>5. \A i \in 1..Len(r) : r[i] \in U
  BY <1>2 DEF Sound, m
<1>6. \A i, j \in 1..Len(r) : r[i].id = r[j].id => i = j
  <2> TAKE i, j \in 1..Len(r)
  <2>1. r[i].id = r[j].id => r[i] = r[j]
    BY <1>5 DEF IdsTell
  <2>2. \A k, l \in 1..m : e[k].id = e[l].id => k = l
    BY DEF Sound, m
  <2>3. \A k, l \in 1..Len(s) : s[k].id = s[l].id => k = l
    BY DEF Sound
  <2>4. CASE i \in 1..m /\ j \in 1..m /\ r[i] = e[i] /\ r[j] = e[j]
    BY <2>2, <2>4
  <2>5. CASE \E k, l \in 1..Len(s) : i = m + k /\ j = m + l /\ r[i] = s[k] /\ r[j] = s[l]
    BY <2>3, <2>5
  <2> QED  BY <1>4, <2>1, <2>4, <2>5
<1>7. ASSUME byKey, NEW i \in 1..Len(r), NEW j \in 1..Len(r), r[i].key = r[j].key
      PROVE  i = j \/ r[i].key = NoKey
  <2>1. RowKey(r[i], byKey) = RowKey(r[j], byKey)
    BY <1>7 DEF RowKey
  <2>2. \A k, l \in 1..m : e[k].key = e[l].key => k = l \/ e[k].key = NoKey
    BY <1>7 DEF Sound, m
  <2>3. \A k, l \in 1..Len(s) : s[k].key = s[l].key => k = l \/ s[k].key = NoKey
    BY <1>7 DEF Sound
  <2>4. CASE i \in 1..m /\ j \in 1..m /\ r[i] = e[i] /\ r[j] = e[j]
    BY <1>7, <2>2, <2>4
  <2>5. CASE \E k, l \in 1..Len(s) : i = m + k /\ j = m + l /\ r[i] = s[k] /\ r[j] = s[l]
    BY <1>7, <2>3, <2>5
  <2> QED  BY <1>4, <2>1, <2>4, <2>5
<1>8. live => \A i \in 1..Len(r) : ~r[i].del
  BY <1>2 DEF Sound, m
<1>9. Sound(r, U, byKey, live)
  BY <1>1, <1>5, <1>6, <1>7, <1>8 DEF Sound
<1>10. ASSUME NEW x PROVE x \in ToSet(r) <=> x \in ToSet(e) \/ x \in ToSet(s)
  <2>1. (x \in ToSet(r) <=> \E i \in 1..Len(r) : x = r[i])
        /\ (x \in ToSet(e) <=> \E i \in 1..m : x = e[i])
        /\ (x \in ToSet(s) <=> \E i \in 1..Len(s) : x = s[i])
    BY <1>1, SetOfSeq DEF m
  <2> QED  BY <1>2, <2>1
<1> QED  BY <1>9, <1>10 DEF r

\* The keys of a part of a table are keys of the table.
LEMMA FewerKeys ==
    ASSUME NEW s \in Seq(Row), NEW t \in Seq(Row), NEW byKey,
           \A x : x \in ToSet(s) => x \in ToSet(t)
    PROVE  /\ \A key : key \in KeysOf(s, byKey) => key \in KeysOf(t, byKey)
           /\ NoNulls(t) => NoNulls(s)
<1>1. \A i \in 1..Len(s) : \E k \in 1..Len(t) : s[i] = t[k]
  <2> TAKE i \in 1..Len(s)
  <2>1. s[i] \in ToSet(t)
    BY SetOfSeq
  <2> QED  BY <2>1, SetOfSeq
<1>2. NoNulls(t) => NoNulls(s)
  BY <1>1 DEF NoNulls
<1>3. ASSUME NEW key, key \in KeysOf(s, byKey) PROVE key \in KeysOf(t, byKey)
  <2>1. PICK i \in 1..Len(s) : key = RowKey(s[i], byKey)
    BY <1>3, KeysOfSeq
  <2>2. PICK k \in 1..Len(t) : s[i] = t[k]
    BY <1>1
  <2> QED  BY <2>1, <2>2, KeysOfSeq
<1> QED  BY <1>2, <1>3

\* Where row_key does not raise, no row lacks its key.
LEMMA NullKeys ==
    ASSUME NEW s \in Seq(Row), NEW byKey, ~HasNullKey(s, byKey)
    PROVE  byKey => NoNulls(s)
<1> SUFFICES ASSUME byKey, NEW i \in 1..Len(s) PROVE s[i].key # NoKey
  BY DEF NoNulls
<1>1. NoKey \notin KeysOf(s, byKey)
  BY DEF HasNullKey
<1>2. RowKey(s[i], byKey) # NoKey
  BY <1>1, KeysOfSeq
<1> QED  BY <1>2 DEF RowKey

\* The file s is applied in r: r has the rows the file writes, except those the file
\* deletes again, and of a key the file deletes at most rows the file wrote.
AppliesFile(r, s, byKey, hard) ==
    /\ \A x \in ToSet(Candidates(s, hard)) :
           (hard => RowKey(x, byKey) \notin KeysOf(Flagged(s), byKey)) => x \in ToSet(r)
    /\ \A x \in ToSet(r) :
           hard /\ RowKey(x, byKey) \in KeysOf(Flagged(s), byKey)
               => x \in ToSet(Candidates(s, hard))

\* combine_tables makes a sound table of sound ones, keeps every row whose key the file
\* does not have, and (merge) applies the file.
LEMMA CombineSound ==
    ASSUME NEW U, IdsTell(U), NEW byKey, NEW hard \in BOOLEAN,
           NEW disposition \in {"merge", "insert-only"},
           NEW e, Sound(e, U, byKey, hard),
           NEW s, Sound(s, U, byKey, FALSE),
           ~CannotCombine(disposition, e, s, byKey, hard)
    PROVE  LET r == CombineTables(disposition, e, s, byKey, hard) IN
           /\ Sound(r, U, byKey, hard)
           /\ \A x : x \in ToSet(e) /\ RowKey(x, byKey) \notin KeysOf(s, byKey) => x \in ToSet(r)
           /\ disposition = "merge" => AppliesFile(r, s, byKey, hard)
<1> DEFINE r == CombineTables(disposition, e, s, byKey, hard)
           c == IF hard THEN Live(s) ELSE s
<1>1. e \in Seq(Row) /\ s \in Seq(Row)
  BY DEF Sound
<1>2. /\ Sound(Live(s), U, byKey, TRUE)
      /\ \A x : x \in ToSet(Live(s)) <=> x \in ToSet(s) /\ ~x.del
      /\ Sound(Flagged(s), U, byKey, FALSE)
      /\ \A x : x \in ToSet(Flagged(s)) <=> x \in ToSet(s) /\ x.del
  BY SplitSound
<1>3. /\ Sound(c, U, byKey, hard)
      /\ \A x : x \in ToSet(c) => x \in ToSet(s)
  <2>1. CASE hard
    BY <1>2, <2>1 DEF Sound
  <2>2. CASE ~hard
    BY <2>2 DEF Sound
  <2> QED  BY <2>1, <2>2
<1>4. c \in Seq(Row) /\ Flagged(s) \in Seq(Row)
  BY <1>2, <1>3 DEF Sound
<1>5. Candidates(s, hard) = c
  BY DEF Candidates
<1> HIDE DEF c
<1>6. CASE e = <<>>
  <2>1. r = c
    BY <1>6 DEF CombineTables, c
  <2>2. \A x : x \notin ToSet(e)
    BY <1>6 DEF ToSet
  <2> QED  BY <1>3, <1>5, <2>1, <2>2 DEF AppliesFile
<1>7. CASE e # <<>> /\ disposition = "merge"
  <2>1. byKey => NoNulls(s)
    <3>1. ~HasNullKey(s, byKey)
      BY <1>7 DEF CannotCombine
    <3> QED  BY <1>1, <3>1, NullKeys
  <2>2. byKey => NoNulls(c)
    BY <1>1, <1>3, <1>4, <2>1, FewerKeys
  <2> DEFINE m == MergeRows(e, c, byKey)
  <2>3. /\ Sound(m, U, byKey, hard)
        /\ \A x : x \in ToSet(m) <=>
                     \/ x \in ToSet(c)
                     \/ x \in ToSet(e) /\ RowKey(x, byKey) \notin KeysOf(c, byKey)
    BY <1>3, <2>2, MergeSound
  <2>4. r = IF hard THEN WithoutKeys(m, KeysOf(Flagged(s), byKey), byKey) ELSE m
    BY <1>7 DEF CombineTables, CombineMerge, c
  <2> HIDE DEF m, r
  <2>5. /\ \A key : key \in KeysOf(c, byKey) => key \in KeysOf(s, byKey)
        /\ \A key : key \in KeysOf(Flagged(s), byKey) => key \in KeysOf(s, byKey)
    BY <1>1, <1>2, <1>3, <1>4, FewerKeys
  <2>6. CASE hard
    <3>1. /\ Sound(r, U, byKey, hard)
          /\ \A x : x \in ToSet(r) <=>
                       x \in ToSet(m) /\ RowKey(x, byKey) \notin KeysOf(Flagged(s), byKey)
      BY <2>3, <2>4, <2>6, WithoutSound
    <3> QED  BY <1>5, <2>3, <2>5, <2>6, <3>1 DEF r, AppliesFile
  <2>7. CASE ~hard
    BY <1>5, <2>3, <2>4, <2>5, <2>7 DEF r, AppliesFile
  <2> QED  BY <2>6, <2>7
<1>8. CASE e # <<>> /\ disposition = "insert-only"
  <2> DEFINE w == WithoutKeys(c, KeysOf(e, byKey), byKey)
  <2>1. r = e \o w
    BY <1>5, <1>8 DEF CombineTables, CombineInsertOnly
  <2>2. /\ Sound(w, U, byKey, hard)
        /\ \A x : x \in ToSet(w) <=> x \in ToSet(c) /\ RowKey(x, byKey) \notin KeysOf(e, byKey)
    BY <1>3, WithoutSound
  <2> HIDE DEF w, r
  <2>3. /\ Sound(e \o w, U, byKey, hard)
        /\ \A x : x \in ToSet(e \o w) <=> x \in ToSet(e) \/ x \in ToSet(w)
    BY <2>2, ConcatSound
  <2> QED  BY <1>8, <2>1, <2>3 DEF r
<1> QED  BY <1>6, <1>7, <1>8

\* So does the server's upsert, exactly.
LEMMA UpsertSound ==
    ASSUME NEW U, IdsTell(U), NEW live,
           NEW e, Sound(e, U, TRUE, live),
           NEW s, Sound(s, U, TRUE, live), NoNulls(s)
    PROVE  LET r == ServerUpsert(e, s) IN
           /\ Sound(r, U, TRUE, live)
           /\ \A x : x \in ToSet(r) <=>
                         \/ x \in ToSet(s)
                         \/ x \in ToSet(e) /\ RowKey(x, TRUE) \notin KeysOf(s, TRUE)
<1> DEFINE w == WithoutKeys(e, KeysOf(s, TRUE), TRUE)
           r == MergeRows(w, s, TRUE)
<1>1. /\ Sound(w, U, TRUE, live)
      /\ \A x : x \in ToSet(w) <=> x \in ToSet(e) /\ RowKey(x, TRUE) \notin KeysOf(s, TRUE)
  BY WithoutSound
<1>2. ServerUpsert(e, s) = r
  BY DEF ServerUpsert
<1> HIDE DEF w
<1>3. /\ Sound(r, U, TRUE, live)
      /\ \A x : x \in ToSet(r) <=>
                   \/ x \in ToSet(s)
                   \/ x \in ToSet(w) /\ RowKey(x, TRUE) \notin KeysOf(s, TRUE)
  BY <1>1, MergeSound
<1> HIDE DEF r
<1> QED  BY <1>1, <1>2, <1>3

\* Rows matched by id: merge_rows adds the rows that are not there yet.
LEMMA MergeById ==
    ASSUME NEW U, IdsTell(U), NEW live, NEW e, NEW s,
           Sound(e, U, FALSE, live), Sound(s, U, FALSE, live)
    PROVE  MergeRows(e, s, FALSE) = Followed(e, WithoutKeys(s, KeysOf(e, FALSE), FALSE))
<1> DEFINE A == {row \in Row : RowKey(row, FALSE) \notin KeysOf(e, FALSE)}
<1>1. /\ e \in Seq(Row) /\ s \in Seq(Row)
      /\ \A i \in 1..Len(e) : e[i] \in U /\ e[i] \in Row
      /\ \A i \in 1..Len(s) : s[i] \in U /\ s[i] \in Row
      /\ \A i, j \in 1..Len(s) : s[i].id = s[j].id => i = j
  BY DEF Sound
<1>2. \A r, q \in U : r.id = q.id => r = q
  BY DEF IdsTell
<1>3. \A i \in 1..Len(s) : s[i] \in A <=> \A k \in 1..Len(e) : e[k].id # s[i].id
  <2> TAKE i \in 1..Len(s)
  <2> DEFINE byKey == FALSE
  <2>0. \A row : RowKey(row, byKey) = row.id
    BY DEF RowKey
  <2> HIDE DEF byKey
  <2>1. s[i].id \in KeysOf(e, byKey) <=> \E k \in 1..Len(e) : s[i].id = e[k].id
    BY <1>1, <2>0, KeysOfSeq
  <2> USE DEF byKey
  <2> QED  BY <1>1, <2>1 DEF RowKey
<1>4. WithoutKeys(s, KeysOf(e, FALSE), FALSE) = Select(s, A)
  BY DEF WithoutKeys
<1> HIDE DEF A
<1>5. PICK g \in [0..Len(s) -> Seq(Row)] : Merging(g, e, s, FALSE)
  BY <1>1, MergeUnfolds
<1>6. PICK h \in [0..Len(s) -> Seq(Row)] : Selecting(h, s, A)
  BY <1>1, SelectUnfolds
<1> DEFINE Same == {n \in 0..Len(s) :
                        /\ g[n] = Followed(e, h[n])
                        /\ \A i \in 1..Len(h[n]) : \E k \in 1..n : h[n][i] = s[k]}
<1>7. 0 \in Same
  <2>1. g[0] = e /\ h[0] = <<>> /\ 0 \in 0..Len(s) /\ 1..Len(<<>>) = {} /\ Followed(e, <<>>) = e
    BY <1>1, <1>5, <1>6, FollowedEmpty DEF Merging, Selecting
  <2> QED  BY <2>1
<1>8. ASSUME NEW n \in 1..Len(s), n - 1 \in Same
      PROVE  n \in Same
  <2> DEFINE x == s[n]
  <2>1. /\ n \in 0..Len(s) /\ n - 1 \in 0..Len(s) /\ n \in 1..n
        /\ x \in Row /\ x \in U /\ RowKey(x, FALSE) = x.id
        /\ \A k \in 1..(n - 1) : k \in 1..n /\ k \in 1..Len(s) /\ k # n
    BY <1>1 DEF RowKey
  <2>2. PICK m \in Seq(Row) : m = g[n - 1]
    BY <2>1
  <2>3. PICK q \in Seq(Row) : q = h[n - 1]
    BY <2>1
  <2>4. m = Followed(e, q) /\ \A i \in 1..Len(q) : \E k \in 1..(n - 1) : q[i] = s[k]
    BY <1>8, <2>2, <2>3
  <2>5. /\ Len(m) = Len(e) + Len(q) /\ Len(e) \in Nat /\ Len(q) \in Nat
        /\ \A i \in 1..Len(e) : i \in 1..Len(m) /\ m[i] = e[i]
        /\ \A i \in 1..Len(m) : i \in 1..Len(e) \/ \E j \in 1..Len(q) : m[i] = q[j]
    <3>0. e \in Seq(Row) /\ q \in Seq(Row) /\ m = Followed(e, q)
      BY <1>1, <2>4
    <3>1. /\ Len(m) = Len(e) + Len(q) /\ Len(e) \in Nat /\ Len(q) \in Nat
          /\ \A i \in 1..Len(e) : m[i] = e[i]
          /\ \A i \in 1..Len(q) : m[Len(e) + i] = q[i]
      <4>1. Len(m) = Len(e) + Len(q)
        BY <3>0, FollowedFacts
      <4>2. \A i \in 1..Len(e) : m[i] = e[i]
        BY <3>0, FollowedFacts
      <4>3. \A i \in 1..Len(q) : m[Len(e) + i] = q[i]
        <5>1. \A i \in 1..Len(q) : Followed(e, q)[Len(e) + i] = q[i]
          <6> TAKE i \in 1..Len(q)
          <6> QED  BY <3>0, FollowedRest
        <5> QED  BY <3>0, <5>1, Zenon
      <4> QED  BY <3>0, <4>1, <4>2, <4>3
    <3>2. \A i \in 1..Len(e) : i \in 1..Len(m)
      BY <3>1
    <3>3. ASSUME NEW i \in 1..Len(m), i \notin 1..Len(e)
          PROVE  \E j \in 1..Len(q) : m[i] = q[j]
      <4>1. i - Len(e) \in 1..Len(q) /\ Len(e) + (i - Len(e)) = i
        BY <3>1, <3>3
      <4> QED  BY <3>1, <4>1
    <3> QED  BY <3>1, <3>2, <3>3
  <2>6. \A i \in 1..Len(m) :
            \/ \E k \in 1..Len(e) : m[i] = e[k]
            \/ \E k \in 1..Len(s) : k # n /\ m[i] = s[k]
    <3> TAKE i \in 1..Len(m)
    <3>1. CASE i \in 1..Len(e)
      BY <2>5, <3>1
    <3>2. CASE \E j \in 1..Len(q) : m[i] = q[j]
      BY <2>1, <2>4, <3>2
    <3> QED  BY <2>5, <3>1, <3>2
  <2>7. /\ g[n] = MergeRow(m, x, FALSE)
        /\ h[n] = IF x \in A THEN Append(q, x) ELSE q
    BY <1>5, <1>6, <2>2, <2>3 DEF Merging, Selecting
  <2> HIDE DEF x
  <2>8. \/ /\ \A i \in 1..Len(m) : m[i].id # x.id
           /\ g[n] = Append(m, x)
        \/ \E p \in 1..Len(m) : m[p].id = x.id /\ g[n] = [m EXCEPT ![p] = x]
    <3>1. \/ /\ \A i \in 1..Len(m) : RowKey(m[i], FALSE) # RowKey(x, FALSE)
             /\ MergeRow(m, x, FALSE) = Append(m, x)
          \/ \E p \in 1..Len(m) : /\ RowKey(m[p], FALSE) = RowKey(x, FALSE)
                                  /\ MergeRow(m, x, FALSE) = [m EXCEPT ![p] = x]
      <4> DEFINE byKey == FALSE
      <4> HIDE DEF byKey
      <4>1. \/ /\ \A i \in 1..Len(m) : RowKey(m[i], byKey) # RowKey(x, byKey)
               /\ MergeRow(m, x, byKey) = Append(m, x)
            \/ \E p \in 1..Len(m) : /\ RowKey(m[p], byKey) = RowKey(x, byKey)
                                    /\ MergeRow(m, x, byKey) = [m EXCEPT ![p] = x]
        BY <2>1, MergeRowEffect
      <4> QED  BY <4>1 DEF byKey
    <3> QED  BY <2>7, <3>1 DEF RowKey
  <2>9. CASE x \in A
    <3>1. \A i \in 1..Len(m) : m[i].id # x.id
      <4>1. \A k \in 1..Len(e) : e[k].id # x.id
        BY <1>3, <2>9 DEF x
      <4>2. \A k \in 1..Len(s) : k # n => s[k].id # x.id
        BY <1>1 DEF x
      <4> QED  BY <2>6, <4>1, <4>2
    <3>2. g[n] = Append(m, x)
      BY <2>8, <3>1
    <3>3. Append(Followed(e, q), x) = Followed(e, Append(q, x))
      <4>1. e \in Seq(Row) /\ q \in Seq(Row) /\ x \in Row
        BY <1>1, <2>1
      <4> QED  BY <4>1, FollowedAppend
    <3>4. g[n] = Followed(e, h[n]) /\ h[n] = Append(q, x)
      BY <2>4, <2>7, <2>9, <3>2, <3>3
    <3>5. \A i \in 1..Len(Append(q, x)) : \E k \in 1..n : Append(q, x)[i] = s[k]
      <4>1. /\ Len(Append(q, x)) = Len(q) + 1 /\ Append(q, x)[Len(q) + 1] = x
            /\ \A i \in 1..Len(q) : Append(q, x)[i] = q[i]
            /\ \A i \in 1..(Len(q) + 1) : i \in 1..Len(q) \/ i = Len(q) + 1
        BY <2>3, <2>1
      <4> QED  BY <2>1, <2>4, <4>1 DEF x
    <3> QED  BY <2>1, <3>4, <3>5
  <2>10. CASE x \notin A
    <3>1. PICK k \in 1..Len(e) : e[k].id = x.id
      BY <1>3, <2>10 DEF x
    <3>2. k \in 1..Len(m) /\ m[k].id = x.id
      BY <2>5, <3>1
    <3>3. PICK p \in 1..Len(m) : m[p].id = x.id /\ g[n] = [m EXCEPT ![p] = x]
      BY <2>8, <3>2
    <3>4. m[p] = x
      <4>1. m[p] \in U
        BY <1>1, <2>6
      <4> QED  BY <1>2, <2>1, <3>3, <4>1
    <3>5. g[n] = m
      BY <2>2, <3>3, <3>4
    <3>6. h[n] = q
      BY <2>7, <2>10
    <3> QED  BY <2>1, <2>4, <3>5, <3>6
  <2> QED  BY <2>9, <2>10
<1>9. Len(s) \in Same
  <2> HIDE DEF Same
  <2>1. Len(s) \in Nat /\ Len(s) \in 0..Len(s)
    BY <1>1
  <2>2. 0..Len(s) \subseteq Same
    BY <1>7, <1>8, <2>1, UpTo
  <2> QED  BY <2>1, <2>2
<1> QED  BY <1>4, <1>5, <1>6, <1>9 DEF Merging, Selecting

\* Rows matched by id: a combine for merge is one for insert-only, since the rows a file
\* flags are not in the table.
LEMMA CombineById ==
    ASSUME NEW U, IdsTell(U), NEW hard \in BOOLEAN, NEW e, NEW s,
           Sound(e, U, FALSE, hard), Sound(s, U, FALSE, FALSE)
    PROVE  CombineTables("merge", e, s, FALSE, hard) = CombineTables("insert-only", e, s, FALSE, hard)
<1> DEFINE c == Candidates(s, hard)
           m == MergeRows(e, c, FALSE)
           w == WithoutKeys(c, KeysOf(e, FALSE), FALSE)
           D == KeysOf(Flagged(s), FALSE)
<1>1. /\ e \in Seq(Row) /\ s \in Seq(Row)
      /\ \A i \in 1..Len(s) : s[i] \in U
  BY DEF Sound
<1>2. CASE e = <<>>
  BY <1>2 DEF CombineTables
<1>3. CASE e # <<>>
  <2>1. /\ Sound(Live(s), U, FALSE, TRUE) /\ Sound(Flagged(s), U, FALSE, FALSE)
        /\ \A x : x \in ToSet(Flagged(s)) <=> x \in ToSet(s) /\ x.del
    BY SplitSound
  <2>2. Sound(c, U, FALSE, hard)
    <3>1. CASE hard
      BY <2>1, <3>1 DEF Candidates, Sound
    <3>2. CASE ~hard
      BY <3>2 DEF Candidates, Sound
    <3> QED  BY <3>1, <3>2
  <2> HIDE DEF c
  <2>3. m = Followed(e, w)
    BY <2>2, MergeById
  <2>4. Sound(m, U, FALSE, hard)
    BY <2>2, MergeSound
  <2>5. CombineTables("insert-only", e, s, FALSE, hard) = Followed(e, w)
    BY <1>3 DEF CombineTables, CombineInsertOnly, Followed, c
  <2>6. CombineTables("merge", e, s, FALSE, hard) = IF hard THEN WithoutKeys(m, D, FALSE) ELSE m
    BY <1>3 DEF CombineTables, CombineMerge, Candidates, c
  <2>7. ASSUME hard PROVE WithoutKeys(m, D, FALSE) = m
    <3> DEFINE A == {row \in Row : RowKey(row, FALSE) \notin D}
    <3> HIDE DEF m
    <3>1. m \in Seq(Row) /\ \A i \in 1..Len(m) : m[i] \in Row /\ m[i] \in U /\ ~m[i].del
      BY <2>4, <2>7 DEF Sound
    <3>2. \A i \in 1..Len(m) : m[i].id \notin D
      <4> TAKE i \in 1..Len(m)
      <4> SUFFICES ASSUME m[i].id \in D PROVE FALSE
        OBVIOUS
      <4>1. PICK x \in ToSet(Flagged(s)) : RowKey(x, FALSE) = m[i].id
        BY DEF KeysOf
      <4>2. x.del /\ x.id = m[i].id /\ x \in ToSet(s)
        BY <2>1, <4>1 DEF RowKey
      <4>3. x \in U
        BY <1>1, <4>2, SetOfSeq
      <4>4. x = m[i]
        BY <3>1, <4>2, <4>3 DEF IdsTell
      <4> QED  BY <3>1, <4>2, <4>4
    <3>3. \A i \in 1..Len(m) : m[i] \in A
      BY <3>1, <3>2 DEF RowKey
    <3>4. WithoutKeys(m, D, FALSE) = Select(m, A)
      BY DEF WithoutKeys
    <3> HIDE DEF A
    <3> QED  BY <3>1, <3>3, <3>4, SelectAll
  <2> QED  BY <2>3, <2>5, <2>6, <2>7
<1> QED  BY <1>2, <1>3
-----------------------------------------------------------------------------
(* The rows of one key.                                                    *)

\* A key is in a table when it has hits there.
LEMMA HitsNone ==
    ASSUME NEW s \in Seq(Row), NEW key
    PROVE  Hits(s, key) = <<>> <=> key \notin KeysOf(s, TRUE)
<1> DEFINE B == {row \in Row : row.key = key}
<1>1. \A i \in 1..Len(s) : s[i] \in B <=> RowKey(s[i], TRUE) = key
  BY DEF RowKey
<1>2. Hits(s, key) = Select(s, B)
  BY DEF Hits
<1> HIDE DEF B
<1> QED  BY <1>1, <1>2, SelectNone, KeysOfSeq

\* A key of a sound table has one row.
LEMMA HitsOne ==
    ASSUME NEW s, NEW U, NEW live, Sound(s, U, TRUE, live), NEW x, x \in ToSet(s), x.key # NoKey
    PROVE  Hits(s, x.key) = <<x>>
<1> DEFINE B == {row \in Row : row.key = x.key}
<1>1. s \in Seq(Row)
  BY DEF Sound
<1>2. PICK p \in 1..Len(s) : x = s[p]
  BY <1>1, SetOfSeq
<1>3. s[p] \in B /\ \A i \in 1..Len(s) : s[i] \in B => i = p
  BY <1>1, <1>2 DEF Sound
<1>4. Hits(s, x.key) = Select(s, B)
  BY DEF Hits
<1> HIDE DEF B
<1> QED  BY <1>1, <1>2, <1>3, <1>4, SelectOne

\* Removing other keys leaves the rows of a key alone ...
LEMMA HitsWithout ==
    ASSUME NEW s \in Seq(Row), NEW keys, NEW key, key \notin keys
    PROVE  Hits(WithoutKeys(s, keys, TRUE), key) = Hits(s, key)
<1> DEFINE A == {row \in Row : RowKey(row, TRUE) \notin keys}
           B == {row \in Row : row.key = key}
<1>1. \A i \in 1..Len(s) : s[i] \in B => s[i] \in A
  BY DEF RowKey
<1>2. WithoutKeys(s, keys, TRUE) = Select(s, A)
  BY DEF WithoutKeys
<1>3. \A t : Hits(t, key) = Select(t, B)
  BY DEF Hits
<1> HIDE DEF A, B
<1> QED  BY <1>1, <1>2, <1>3, SelectSelect

\* ... merging rows of other keys does ...
LEMMA HitsMerge ==
    ASSUME NEW e \in Seq(Row), NEW s \in Seq(Row), NEW key, key \notin KeysOf(s, TRUE)
    PROVE  Hits(MergeRows(e, s, TRUE), key) = Hits(e, key)
<1> DEFINE B == {row \in Row : row.key = key}
<1>1. \A row \in B, k \in 1..Len(s) : RowKey(row, TRUE) # RowKey(s[k], TRUE)
  <2> TAKE row \in B, k \in 1..Len(s)
  <2>1. RowKey(s[k], TRUE) \in KeysOf(s, TRUE)
    BY KeysOfSeq
  <2> QED  BY <2>1 DEF RowKey
<1>2. \A t : Hits(t, key) = Select(t, B)
  BY DEF Hits
<1> DEFINE byKey == TRUE
<1> HIDE DEF B, byKey
<1>3. \A row \in B, k \in 1..Len(s) : RowKey(row, byKey) # RowKey(s[k], byKey)
  BY <1>1 DEF byKey
<1>4. Select(MergeRows(e, s, byKey), B) = Select(e, B)
  BY <1>3, MergeKeepsOthers
<1> QED  BY <1>2, <1>4 DEF byKey

\* ... and so do a keyed load ...
LEMMA HitsUpsert ==
    ASSUME NEW e \in Seq(Row), NEW s \in Seq(Row), NEW key, key \notin KeysOf(s, TRUE)
    PROVE  Hits(ServerUpsert(e, s), key) = Hits(e, key)
<1> DEFINE w == WithoutKeys(e, KeysOf(s, TRUE), TRUE)
<1>1. Hits(w, key) = Hits(e, key)
  BY HitsWithout
<1>2. w \in Seq(Row)
  BY SelectRows DEF WithoutKeys
<1>3. ServerUpsert(e, s) = MergeRows(w, s, TRUE)
  BY DEF ServerUpsert
<1> HIDE DEF w
<1>4. Hits(MergeRows(w, s, TRUE), key) = Hits(w, key)
  BY <1>2, HitsMerge
<1> QED  BY <1>1, <1>3, <1>4

\* ... and a combine that does not name the key.
LEMMA HitsCombine ==
    ASSUME NEW e \in Seq(Row), NEW s \in Seq(Row), NEW hard \in BOOLEAN,
           NEW key, key \notin KeysOf(s, TRUE)
    PROVE  Hits(CombineTables("merge", e, s, TRUE, hard), key) = Hits(e, key)
<1> DEFINE c == IF hard THEN Live(s) ELSE s
           r == CombineTables("merge", e, s, TRUE, hard)
<1>1. /\ Live(s) \in Seq(Row) /\ Flagged(s) \in Seq(Row)
      /\ \A x : x \in ToSet(Live(s)) => x \in ToSet(s)
      /\ \A x : x \in ToSet(Flagged(s)) => x \in ToSet(s)
  BY SelectRows DEF Live, Flagged
<1>2. c \in Seq(Row) /\ \A x : x \in ToSet(c) => x \in ToSet(s)
  BY <1>1
<1>3. key \notin KeysOf(c, TRUE) /\ key \notin KeysOf(Flagged(s), TRUE)
  <2> HIDE DEF c
  <2> QED  BY <1>1, <1>2, FewerKeys
<1>4. CASE e = <<>>
  <2>1. r = c
    BY <1>4 DEF CombineTables
  <2> HIDE DEF c, r
  <2>2. Hits(r, key) = <<>>
    BY <1>2, <1>3, <2>1, HitsNone
  <2>3. Hits(e, key) = <<>>
    BY <1>4, SelectEmpty DEF Hits
  <2> QED  BY <2>2, <2>3 DEF r
<1>5. CASE e # <<>>
  <2> DEFINE m == MergeRows(e, c, TRUE)
  <2>1. r = IF hard THEN WithoutKeys(m, KeysOf(Flagged(s), TRUE), TRUE) ELSE m
    BY <1>5 DEF CombineTables, CombineMerge
  <2> HIDE DEF c, r
  <2>2. m \in Seq(Row)
    <3>1. PICK g \in [0..Len(c) -> Seq(Row)] : Merging(g, e, c, TRUE)
      BY <1>2, MergeUnfolds
    <3>2. Len(c) \in 0..Len(c)
      BY <1>2
    <3> QED  BY <3>1, <3>2 DEF Merging
  <2>3. Hits(m, key) = Hits(e, key)
    BY <1>2, <1>3, HitsMerge
  <2> HIDE DEF m
  <2>4. Hits(WithoutKeys(m, KeysOf(Flagged(s), TRUE), TRUE), key) = Hits(m, key)
    BY <1>3, <2>2, HitsWithout
  <2>5. Hits(r, key) = Hits(e, key)
    BY <2>1, <2>3, <2>4
  <2> QED  BY <2>5 DEF r
<1> QED  BY <1>4, <1>5

\* The rows of a key in two tables in a row.
LEMMA HitsFollowed ==
    ASSUME NEW s \in Seq(Row), NEW t \in Seq(Row), NEW key
    PROVE  Hits(Followed(s, t), key) = Followed(Hits(s, key), Hits(t, key))
<1> DEFINE B == {row \in Row : row.key = key}
<1>1. \A u : Hits(u, key) = Select(u, B)
  BY DEF Hits
<1> HIDE DEF B
<1> QED  BY <1>1, SelectConcat

\* insert-only: after the rows of a key that are there come those of the file whose key
\* (or id, without a primary key) the table lacks.
LEMMA HitsInsert ==
    ASSUME NEW e \in Seq(Row), NEW s \in Seq(Row), NEW byKey, NEW hard \in BOOLEAN, NEW key
    PROVE  /\ Candidates(s, hard) \in Seq(Row)
           /\ WithoutKeys(Candidates(s, hard), KeysOf(e, byKey), byKey) \in Seq(Row)
           /\ Hits(CombineTables("insert-only", e, s, byKey, hard), key) =
                  Followed(Hits(e, key),
                           Hits(WithoutKeys(Candidates(s, hard), KeysOf(e, byKey), byKey), key))
<1> DEFINE c == Candidates(s, hard)
           A == {row \in Row : RowKey(row, byKey) \notin KeysOf(e, byKey)}
           r == CombineTables("insert-only", e, s, byKey, hard)
           w == WithoutKeys(c, KeysOf(e, byKey), byKey)
<1>1. c \in Seq(Row)
  <2>1. Live(s) \in Seq(Row)
    BY SelectRows DEF Live
  <2> QED  BY <2>1 DEF Candidates
<1>2. w = Select(c, A)
  BY DEF WithoutKeys
<1>3. w \in Seq(Row)
  <2> HIDE DEF A, c
  <2> QED  BY <1>1, <1>2, SelectRows
<1>4. CASE e = <<>>
  <2>1. r = c
    BY <1>4 DEF CombineTables, Candidates
  <2>2. w = c
    <3>1. \A i \in 1..Len(c) : c[i] \in A
      <4>1. KeysOf(e, byKey) = {}
        BY <1>4 DEF KeysOf, ToSet
      <4> HIDE DEF c
      <4> QED  BY <1>1, <4>1
    <3> HIDE DEF A, c
    <3> QED  BY <1>1, <1>2, <3>1, SelectAll
  <2> HIDE DEF r, c, w
  <2>3. Hits(e, key) = <<>>
    BY <1>4, SelectEmpty DEF Hits
  <2>4. Hits(c, key) \in Seq(Row)
    BY <1>1, SelectRows DEF Hits
  <2>5. Followed(<<>>, Hits(c, key)) = Hits(c, key)
    BY <2>4, FollowedEmpty
  <2> QED  BY <1>1, <1>3, <2>1, <2>2, <2>3, <2>5 DEF c, r, w
<1>5. CASE e # <<>>
  <2>1. r = Followed(e, w)
    BY <1>5 DEF CombineTables, CombineInsertOnly, Followed
  <2> HIDE DEF r, w, c
  <2>2. Hits(Followed(e, w), key) = Followed(Hits(e, key), Hits(w, key))
    BY <1>3, HitsFollowed
  <2> QED  BY <1>1, <1>3, <2>1, <2>2 DEF c, r, w
<1> QED  BY <1>4, <1>5

\* A key the file does not have keeps its rows when the file is inserted, and so, matched
\* by key, does one the table has.
LEMMA InsertLeaves ==
    ASSUME NEW e \in Seq(Row), NEW s \in Seq(Row), NEW byKey, NEW hard \in BOOLEAN, NEW key,
           \A x \in ToSet(Candidates(s, hard)) :
               x.key = key => RowKey(x, byKey) \in KeysOf(e, byKey)
    PROVE  Hits(CombineTables("insert-only", e, s, byKey, hard), key) = Hits(e, key)
<1> DEFINE c == Candidates(s, hard)
           w == WithoutKeys(c, KeysOf(e, byKey), byKey)
           A == {row \in Row : RowKey(row, byKey) \notin KeysOf(e, byKey)}
           r == CombineTables("insert-only", e, s, byKey, hard)
<1>1. c \in Seq(Row) /\ w \in Seq(Row) /\ Hits(r, key) = Followed(Hits(e, key), Hits(w, key))
  BY HitsInsert
<1>2. \A x \in ToSet(c) : x.key = key => RowKey(x, byKey) \in KeysOf(e, byKey)
  OBVIOUS
<1>3. w = Select(c, A)
  BY DEF WithoutKeys
<1>4. \A x \in A : RowKey(x, byKey) \notin KeysOf(e, byKey)
  OBVIOUS
<1> HIDE DEF c, w, A, r
<1>5. key \notin KeysOf(w, TRUE)
  <2> SUFFICES ASSUME key \in KeysOf(w, TRUE) PROVE FALSE
    OBVIOUS
  <2>1. PICK x \in ToSet(w) : x.key = key
    BY DEF KeysOf, RowKey
  <2>2. ToSet(w) = ToSet(c) \cap A
    BY <1>1, <1>3, SelectRows
  <2> QED  BY <1>2, <1>4, <2>1, <2>2
<1>6. Hits(w, key) = <<>>
  BY <1>1, <1>5, HitsNone
<1>7. Hits(e, key) \in Seq(Row)
  BY SelectRows DEF Hits
<1>8. Followed(Hits(e, key), <<>>) = Hits(e, key)
  BY <1>7, FollowedEmpty
<1> QED  BY <1>1, <1>6, <1>8 DEF r

\* When none of the file's rows of a key is held back, they follow the rows that are there.
LEMMA InsertAdds ==
    ASSUME NEW e \in Seq(Row), NEW s \in Seq(Row), NEW byKey, NEW hard \in BOOLEAN, NEW key,
           \A x \in ToSet(Candidates(s, hard)) :
               x.key = key => RowKey(x, byKey) \notin KeysOf(e, byKey)
    PROVE  Hits(CombineTables("insert-only", e, s, byKey, hard), key) =
               Followed(Hits(e, key), Hits(Candidates(s, hard), key))
<1> DEFINE c == Candidates(s, hard)
           w == WithoutKeys(c, KeysOf(e, byKey), byKey)
           A == {row \in Row : RowKey(row, byKey) \notin KeysOf(e, byKey)}
           B == {row \in Row : row.key = key}
           r == CombineTables("insert-only", e, s, byKey, hard)
<1>1. c \in Seq(Row) /\ w \in Seq(Row) /\ Hits(r, key) = Followed(Hits(e, key), Hits(w, key))
  BY HitsInsert
<1>2. \A i \in 1..Len(c) : c[i] \in B => c[i] \in A
  <2> HIDE DEF c
  <2> TAKE i \in 1..Len(c)
  <2>1. c[i] \in ToSet(c) /\ c[i] \in Row
    BY <1>1, SetOfSeq
  <2> QED  BY <2>1 DEF c
<1>3. w = Select(c, A) /\ \A u : Hits(u, key) = Select(u, B)
  BY DEF WithoutKeys, Hits
<1> HIDE DEF c, w, A, B, r
<1>4. Select(Select(c, A), B) = Select(c, B)
  BY <1>1, <1>2, SelectSelect
<1> QED  BY <1>1, <1>3, <1>4 DEF c, r
-----------------------------------------------------------------------------
(* The inductive invariant.                                                *)

\* All rows there are.
Universe == ToSet(before) \union ToSet(batch) \union ToSet(others)

\* What a job starts from, which no step changes: ids number the rows of the table, the
\* file and the other runs one after the other, and keys repeat in none of them.
SettingOK ==
    /\ before \in Seq(Row) /\ batch \in Seq(Row) /\ others \in Seq(Row)
    /\ Len(before) =< MaxExisting /\ Len(batch) =< MaxBatch
    /\ \A i \in 1..Len(before) : before[i].id = i /\ ~before[i].del
    /\ \A i \in 1..Len(batch) : batch[i].id = MaxExisting + i
    /\ \A i \in 1..Len(others) : others[i].id = MaxExisting + MaxBatch + i /\ ~others[i].del
    /\ UniqueKeys(before) /\ UniqueKeys(batch)
    /\ strategy \in {"upsert", "insert-only"}
    /\ primaryKey \in BOOLEAN /\ hardDelete \in BOOLEAN /\ keyDeclared \in BOOLEAN
    /\ keyDeclared => primaryKey
    /\ ~hardDelete => \A i \in 1..Len(batch) : ~batch[i].del
    /\ Native => NoNulls(batch) /\ NoNulls(others)

\* The table and what was read of it are sound, through any retries.
TablesOK ==
    /\ Sound(table, Universe, primaryKey, hardDelete)
    /\ Sound(fetched, Universe, primaryKey, hardDelete)
    /\ synced \in BOOLEAN /\ (table # <<>> => synced)
    /\ phase \in {"start", "delete", "replace", "done", "failed"}
    /\ phase = "delete" => ~Combines
    /\ phase = "replace" \/ erased # {} => Combines
    /\ unread # {} => phase = "replace" /\ fetched = <<>>
    /\ faults \in 0..MaxFaults

\* With insert-only the table still begins with the rows it had, and so does what was
\* read of it, unless it was not read.
InsertOnlyOK ==
    strategy = "insert-only" /\ erased = {} =>
        /\ IsPrefix(before, table)
        /\ phase = "replace" /\ unread = {} => IsPrefix(before, fetched)

\* Every row of another run is in rows, or gone for one of the reasons there are.
AccountsFor(rows) ==
    \A i \in 1..Len(others) :
        \/ others[i] \in rows
        \/ others[i] \in raced
        \/ others[i] \in erased
        \/ primaryKey /\ others[i].key \in KeysOf(batch, TRUE)
        \/ primaryKey /\ \E j \in 1..Len(others) : j > i /\ others[j].key = others[i].key

\* It is in the table, and in what was read or missed for the replace to come.
OthersOK ==
    /\ AccountsFor(ToSet(table))
    /\ phase = "replace" => AccountsFor(ToSet(fetched) \union unread)

\* The keys no other run loaded.
Untouched == (Keys \union {NoKey}) \ KeysOf(others, TRUE)

\* For a key, s has the rows the table had at first, or those the merge ends with.
KeyOK(s, key) == Hits(s, key) \in {Hits(before, key), Merged(key)}

\* Every key is in one of these two states, whichever attempt was cut short where, or has
\* the file's rows once a replace took rows away unread; what is read for a replace has
\* its rows.  Before the delete the keys not to be deleted are merged, and at the end all
\* are.
KeysOK ==
    \A key \in Untouched :
        /\ erased = {} => KeyOK(table, key)
        /\ erased # {} => Hits(table, key) = Hits(Upserts, key)
        /\ phase = "replace" /\ unread = {} => Hits(fetched, key) = Hits(table, key)
        /\ phase = "delete" /\ key \notin KeysOf(Deletes, TRUE) => Hits(table, key) = Merged(key)
        /\ phase = "done" /\ erased = {} => Hits(table, key) = Merged(key)

\* The inductive invariant.
IInv == SettingOK /\ TablesOK /\ InsertOnlyOK /\ OthersOK /\ KeysOK
-----------------------------------------------------------------------------
(* Facts about the file.                                                   *)

\* Ids tell the rows of the table, the file and the other runs apart.
LEMMA IdsApart ==
    ASSUME NEW b \in Seq(Row), NEW f \in Seq(Row), NEW o \in Seq(Row),
           Len(b) =< MaxExisting, Len(f) =< MaxBatch,
           \A i \in 1..Len(b) : b[i].id = i,
           \A i \in 1..Len(f) : f[i].id = MaxExisting + i,
           \A i \in 1..Len(o) : o[i].id = MaxExisting + MaxBatch + i
    PROVE  IdsTell(ToSet(b) \union ToSet(f) \union ToSet(o))
<1> DEFINE U == ToSet(b) \union ToSet(f) \union ToSet(o)
<1>1. \A x \in U : \/ \E i \in 1..Len(b) : x = b[i]
                   \/ \E i \in 1..Len(f) : x = f[i]
                   \/ \E i \in 1..Len(o) : x = o[i]
  BY SetOfSeq
<1>2. Len(b) \in Nat /\ Len(f) \in Nat /\ Len(o) \in Nat
  OBVIOUS
<1>3. U \in SUBSET Row
  <2> HIDE DEF U
  <2>1. (\A i \in 1..Len(b) : b[i] \in Row) /\ (\A i \in 1..Len(f) : f[i] \in Row)
        /\ (\A i \in 1..Len(o) : o[i] \in Row)
    OBVIOUS
  <2> QED  BY <1>1, <2>1
<1> HIDE DEF U
<1>4. /\ \A i \in 1..Len(b), k \in 1..Len(f) : b[i].id # f[k].id
      /\ \A i \in 1..Len(b), k \in 1..Len(o) : b[i].id # o[k].id
      /\ \A i \in 1..Len(f), k \in 1..Len(o) : f[i].id # o[k].id
  BY <1>2, BoundAssumption
<1>5. /\ \A i, k \in 1..Len(b) : b[i].id = b[k].id => i = k
      /\ \A i, k \in 1..Len(f) : f[i].id = f[k].id => i = k
      /\ \A i, k \in 1..Len(o) : o[i].id = o[k].id => i = k
  BY <1>2, BoundAssumption
<1>6. \A r, q \in U : r.id = q.id => r = q
  BY <1>1, <1>4, <1>5
<1> QED  BY <1>3, <1>6 DEF IdsTell, U

\* The file's rows are split into those it writes and those it deletes.
LEMMA FileFacts ==
    ASSUME SettingOK
    PROVE  /\ IdsTell(Universe)
           /\ Sound(batch, Universe, primaryKey, FALSE)
           /\ Sound(Upserts, Universe, primaryKey, hardDelete)
           /\ Sound(Deletes, Universe, primaryKey, FALSE)
           /\ \A x : x \in ToSet(Upserts) => x \in ToSet(batch) /\ ~x.del
           /\ \A x : x \in ToSet(Deletes) => x \in ToSet(batch) /\ x.del
           /\ \A x : x \in ToSet(batch) => x \in ToSet(Upserts) \/ x \in ToSet(Deletes)
           /\ Native => NoNulls(batch) /\ NoNulls(Upserts) /\ NoNulls(Deletes)
<1>1. IdsTell(Universe)
  BY IdsApart DEF SettingOK, Universe
<1>2. batch \in Seq(Row) /\ Len(batch) \in Nat
  BY DEF SettingOK
<1>3. Sound(batch, Universe, primaryKey, FALSE)
  <2>1. \A i \in 1..Len(batch) : batch[i] \in Universe
    BY <1>2, SetOfSeq DEF Universe
  <2>2. \A i, j \in 1..Len(batch) : batch[i].id = batch[j].id => i = j
    BY <1>2, BoundAssumption DEF SettingOK
  <2>3. DOMAIN batch = 1..Len(batch)
    BY <1>2
  <2>4. \A i, j \in 1..Len(batch) : batch[i].key = batch[j].key => i = j \/ batch[i].key = NoKey
    BY <2>3 DEF SettingOK, UniqueKeys
  <2> QED  BY <1>2, <2>1, <2>2, <2>4 DEF Sound
<1>4. /\ Sound(Live(batch), Universe, primaryKey, TRUE)
      /\ Sound(Flagged(batch), Universe, primaryKey, FALSE)
      /\ \A x : x \in ToSet(Live(batch)) <=> x \in ToSet(batch) /\ ~x.del
      /\ \A x : x \in ToSet(Flagged(batch)) <=> x \in ToSet(batch) /\ x.del
  BY <1>3, SplitSound
<1>5. CASE hardDelete
  <2>1. Upserts = Live(batch) /\ Deletes = Flagged(batch)
    BY <1>5 DEF Upserts, Deletes
  <2>2. /\ Sound(Upserts, Universe, primaryKey, hardDelete)
        /\ Upserts \in Seq(Row) /\ Deletes \in Seq(Row)
    BY <1>4, <1>5, <2>1 DEF Sound
  <2>3. Native => NoNulls(batch)
    BY DEF SettingOK
  <2>4. Native => NoNulls(Upserts) /\ NoNulls(Deletes)
    BY <1>2, <1>4, <2>1, <2>2, <2>3, FewerKeys
  <2>5. \A x : x \in ToSet(batch) => x \in ToSet(Upserts) \/ x \in ToSet(Deletes)
    BY <1>4, <2>1
  <2> QED  BY <1>1, <1>3, <1>4, <2>1, <2>2, <2>3, <2>4, <2>5
<1>6. CASE ~hardDelete
  <2>1. Upserts = batch /\ Deletes = <<>>
    BY <1>6 DEF Upserts, Deletes
  <2>2. Sound(Upserts, Universe, primaryKey, hardDelete)
    BY <1>3, <1>6, <2>1 DEF Sound
  <2>3. Sound(Deletes, Universe, primaryKey, FALSE) /\ NoNulls(Deletes)
    BY <2>1 DEF Sound, NoNulls
  <2>4. \A x : x \notin ToSet(Deletes)
    BY <2>1 DEF ToSet
  <2>5. \A x : x \in ToSet(Upserts) => x \in ToSet(batch) /\ ~x.del
    <3> TAKE x
    <3> HAVE x \in ToSet(Upserts)
    <3>1. PICK i \in 1..Len(batch) : x = batch[i]
      BY <1>2, <2>1, SetOfSeq
    <3> QED  BY <1>6, <2>1, <3>1 DEF SettingOK
  <2>6. Native => NoNulls(batch)
    BY DEF SettingOK
  <2> QED  BY <1>1, <1>3, <2>1, <2>2, <2>3, <2>4, <2>5, <2>6
<1> QED  BY <1>5, <1>6

\* What the file makes of a key: nothing, if it does not name it; its row, if it writes
\* one; no row, if it deletes it.
LEMMA MergedFacts ==
    ASSUME SettingOK, Native, NEW key
    PROVE  /\ key \notin KeysOf(batch, TRUE) => /\ Merged(key) = Hits(before, key)
                                                /\ key \notin KeysOf(Upserts, TRUE)
                                                /\ key \notin KeysOf(Deletes, TRUE)
           /\ key \in KeysOf(Upserts, TRUE) =>
                  /\ key \notin KeysOf(Deletes, TRUE) /\ key # NoKey
                  /\ \E x \in ToSet(Upserts) : x.key = key /\ Merged(key) = <<x>>
           /\ key \in KeysOf(Deletes, TRUE) => Merged(key) = <<>>
           /\ key \in KeysOf(batch, TRUE) =>
                  key \in KeysOf(Upserts, TRUE) \/ key \in KeysOf(Deletes, TRUE)
<1>0. Merged(key) = CASE Hits(Deletes, key) # <<>> -> <<>>
                      [] Hits(Deletes, key) = <<>> /\ Hits(Upserts, key) # <<>> ->
                            <<Last(Hits(Upserts, key))>>
                      [] OTHER -> Hits(before, key)
  BY DEF Merged, Native
<1>1. /\ Sound(batch, Universe, primaryKey, FALSE)
      /\ Sound(Upserts, Universe, primaryKey, hardDelete)
      /\ Sound(Deletes, Universe, primaryKey, FALSE)
      /\ \A x : x \in ToSet(Upserts) => x \in ToSet(batch) /\ ~x.del
      /\ \A x : x \in ToSet(Deletes) => x \in ToSet(batch) /\ x.del
      /\ \A x : x \in ToSet(batch) => x \in ToSet(Upserts) \/ x \in ToSet(Deletes)
      /\ NoNulls(batch) /\ primaryKey = TRUE
  BY FileFacts DEF Native, SettingOK
<1>2. batch \in Seq(Row) /\ Upserts \in Seq(Row) /\ Deletes \in Seq(Row)
  BY <1>1 DEF Sound
<1>3. /\ key \in KeysOf(batch, TRUE) <=> \E x \in ToSet(batch) : x.key = key
      /\ key \in KeysOf(Upserts, TRUE) <=> \E x \in ToSet(Upserts) : x.key = key
      /\ key \in KeysOf(Deletes, TRUE) <=> \E x \in ToSet(Deletes) : x.key = key
  BY DEF KeysOf, RowKey
<1>4. \A x, y \in ToSet(batch) : x.key = y.key => x = y /\ x.key # NoKey
  <2> TAKE x, y \in ToSet(batch)
  <2>1. (\E i \in 1..Len(batch) : x = batch[i]) /\ (\E j \in 1..Len(batch) : y = batch[j])
    BY <1>2, SetOfSeq
  <2> QED  BY <1>1, <2>1 DEF Sound, NoNulls
<1>5. /\ Hits(Deletes, key) = <<>> <=> key \notin KeysOf(Deletes, TRUE)
      /\ Hits(Upserts, key) = <<>> <=> key \notin KeysOf(Upserts, TRUE)
  BY <1>2, HitsNone
<1>6. key \notin KeysOf(batch, TRUE) => /\ Merged(key) = Hits(before, key)
                                        /\ key \notin KeysOf(Upserts, TRUE)
                                        /\ key \notin KeysOf(Deletes, TRUE)
  BY <1>0, <1>1, <1>3, <1>5
<1>7. ASSUME key \in KeysOf(Upserts, TRUE)
      PROVE  /\ key \notin KeysOf(Deletes, TRUE) /\ key # NoKey
             /\ \E x \in ToSet(Upserts) : x.key = key /\ Merged(key) = <<x>>
  <2>1. PICK x \in ToSet(Upserts) : x.key = key
    BY <1>3, <1>7
  <2>2. x \in ToSet(batch) /\ ~x.del /\ key # NoKey
    BY <1>1, <1>4, <2>1
  <2>3. key \notin KeysOf(Deletes, TRUE)
    BY <1>1, <1>3, <1>4, <2>1, <2>2
  <2>4. Sound(Upserts, Universe, TRUE, hardDelete)
    BY <1>1
  <2>5. Hits(Upserts, key) = <<x>>
    BY <2>1, <2>2, <2>4, HitsOne
  <2>6. Hits(Deletes, key) = <<>> /\ Hits(Upserts, key) # <<>>
    BY <1>5, <1>7, <2>3
  <2>7. Merged(key) = <<Last(<<x>>)>>
    BY <1>0, <2>5, <2>6
  <2>8. Last(<<x>>) = x
    BY DEF Last
  <2> QED  BY <2>1, <2>2, <2>3, <2>7, <2>8
<1>8. key \in KeysOf(Deletes, TRUE) => Merged(key) = <<>>
  BY <1>0, <1>5
<1>9. key \in KeysOf(batch, TRUE) =>
          key \in KeysOf(Upserts, TRUE) \/ key \in KeysOf(Deletes, TRUE)
  BY <1>1, <1>3
<1> QED  BY <1>6, <1>7, <1>8, <1>9
-----------------------------------------------------------------------------
(* Combines, prefixes and what a step leaves alone.                        *)

\* A combine of a table in which a key is in either state ends with the key merged.
LEMMA CombineKeyed ==
    ASSUME SettingOK, Native, NEW e, Sound(e, Universe, primaryKey, hardDelete),
           ~CannotCombine("merge", e, batch, primaryKey, hardDelete),
           NEW key, KeyOK(e, key)
    PROVE  Hits(CombineTables("merge", e, batch, primaryKey, hardDelete), key) = Merged(key)
<1> DEFINE r == CombineTables("merge", e, batch, TRUE, hardDelete)
<1>1. /\ IdsTell(Universe) /\ primaryKey = TRUE /\ hardDelete \in BOOLEAN
      /\ Sound(batch, Universe, TRUE, FALSE)
      /\ Sound(e, Universe, TRUE, hardDelete)
      /\ ~CannotCombine("merge", e, batch, TRUE, hardDelete)
  BY FileFacts DEF SettingOK, Native
<1>2. e \in Seq(Row) /\ batch \in Seq(Row)
  BY <1>1 DEF Sound
<1>3. Candidates(batch, hardDelete) = Upserts
  BY DEF Candidates, Upserts
<1>4. Sound(r, Universe, TRUE, hardDelete) /\ AppliesFile(r, batch, TRUE, hardDelete)
  <2> DEFINE d == "merge"
             byKey == TRUE
  <2>1. d \in {"merge", "insert-only"} /\ d = "merge" /\ byKey = TRUE
    OBVIOUS
  <2> HIDE DEF d, byKey
  <2>2. /\ Sound(e, Universe, byKey, hardDelete) /\ Sound(batch, Universe, byKey, FALSE)
        /\ ~CannotCombine(d, e, batch, byKey, hardDelete)
    BY <1>1, <2>1
  <2>3. /\ Sound(CombineTables(d, e, batch, byKey, hardDelete), Universe, byKey, hardDelete)
        /\ d = "merge" =>
              AppliesFile(CombineTables(d, e, batch, byKey, hardDelete), batch, byKey, hardDelete)
    BY <1>1, <2>1, <2>2, CombineSound
  <2> QED  BY <2>1, <2>3
<1>5. r \in Seq(Row)
  BY <1>4 DEF Sound
<1>6. /\ hardDelete => Deletes = Flagged(batch)
      /\ ~hardDelete => Deletes = <<>>
  BY DEF Deletes
<1>7. CASE key \notin KeysOf(batch, TRUE)
  <2>1. Hits(r, key) = Hits(e, key)
    BY <1>1, <1>2, <1>7, HitsCombine
  <2>2. Merged(key) = Hits(before, key)
    BY <1>7, MergedFacts
  <2> QED  BY <1>1, <2>1, <2>2 DEF KeyOK
<1>8. CASE key \in KeysOf(Upserts, TRUE)
  <2>1. PICK x \in ToSet(Upserts) : x.key = key /\ Merged(key) = <<x>>
    BY <1>8, MergedFacts
  <2>2. key \notin KeysOf(Deletes, TRUE) /\ key # NoKey
    BY <1>8, MergedFacts
  <2>3. RowKey(x, TRUE) = key
    BY <2>1 DEF RowKey
  <2> HIDE DEF r
  <2>4. x \in ToSet(r)
    BY <1>3, <1>4, <1>6, <2>2, <2>3 DEF AppliesFile
  <2>5. Hits(r, x.key) = <<x>>
    BY <1>4, <2>1, <2>2, <2>4, HitsOne
  <2> QED  BY <1>1, <2>1, <2>5 DEF r
<1>9. CASE key \in KeysOf(Deletes, TRUE)
  <2>1. Merged(key) = <<>> /\ key \notin KeysOf(Upserts, TRUE)
    BY <1>9, MergedFacts
  <2>2. hardDelete
    <3>1. KeysOf(<<>>, TRUE) = {}
      BY DEF KeysOf, ToSet
    <3> QED  BY <1>6, <1>9, <3>1
  <2> HIDE DEF r
  <2>3. key \notin KeysOf(r, TRUE)
    <3> SUFFICES ASSUME key \in KeysOf(r, TRUE) PROVE FALSE
      OBVIOUS
    <3>1. PICK x \in ToSet(r) : RowKey(x, TRUE) = key
      BY DEF KeysOf
    <3>2. x \in ToSet(Upserts)
      BY <1>3, <1>4, <1>6, <1>9, <2>2, <3>1 DEF AppliesFile
    <3> QED  BY <2>1, <3>1, <3>2 DEF KeysOf
  <2>4. Hits(r, key) = <<>>
    BY <1>5, <2>3, HitsNone
  <2> QED  BY <1>1, <2>1, <2>4 DEF r
<1> QED  BY <1>7, <1>8, <1>9, MergedFacts

\* What insert-only makes of a key, and a merge of rows that are matched by id, whatever
\* of it an earlier attempt has left.
LEMMA CombineInserts ==
    ASSUME SettingOK, ~Native, NEW e, Sound(e, Universe, primaryKey, hardDelete),
           NEW key, KeyOK(e, key)
    PROVE  Hits(CombineTables("insert-only", e, batch, primaryKey, hardDelete), key) = Merged(key)
<1> DEFINE r == CombineTables("insert-only", e, batch, primaryKey, hardDelete)
<1>1. /\ e \in Seq(Row) /\ batch \in Seq(Row) /\ before \in Seq(Row)
      /\ primaryKey \in BOOLEAN /\ hardDelete \in BOOLEAN
  BY DEF SettingOK, Sound
<1>2. /\ IdsTell(Universe)
      /\ Sound(Upserts, Universe, primaryKey, hardDelete)
      /\ \A x : x \in ToSet(Upserts) => x \in ToSet(batch)
  BY FileFacts
<1>3. Upserts \in Seq(Row) /\ Candidates(batch, hardDelete) = Upserts
  BY <1>2 DEF Sound, Candidates, Upserts
<1>4. Hits(e, key) = Hits(before, key) \/ Hits(e, key) = Merged(key)
  BY DEF KeyOK
<1>5. /\ Hits(e, key) \in Seq(Row) /\ Hits(before, key) \in Seq(Row)
      /\ Hits(Upserts, key) \in Seq(Row)
  BY <1>1, <1>3, SelectRows DEF Hits
<1>6. CASE primaryKey
  <2>0. primaryKey = TRUE
    BY <1>1, <1>6
  <2>1. Merged(key) = IF Hits(before, key) # <<>> THEN Hits(before, key) ELSE Hits(Upserts, key)
    BY <1>6 DEF Merged
  <2>2. CASE key \in KeysOf(e, TRUE)
    <3>1. Hits(r, key) = Hits(e, key)
      <4>1. \A x \in ToSet(Candidates(batch, hardDelete)) :
                x.key = key => RowKey(x, primaryKey) \in KeysOf(e, primaryKey)
        BY <2>0, <2>2 DEF RowKey
      <4> QED  BY <1>1, <4>1, InsertLeaves
    <3>2. Hits(e, key) # <<>>
      BY <1>1, <2>2, HitsNone
    <3> QED  BY <1>4, <2>1, <3>1, <3>2
  <2>3. CASE key \notin KeysOf(e, TRUE)
    <3>1. Hits(r, key) = Followed(Hits(e, key), Hits(Upserts, key))
      <4>1. \A x \in ToSet(Candidates(batch, hardDelete)) :
                x.key = key => RowKey(x, primaryKey) \notin KeysOf(e, primaryKey)
        BY <2>0, <2>3 DEF RowKey
      <4> QED  BY <1>1, <1>3, <4>1, InsertAdds
    <3>2. Hits(e, key) = <<>>
      BY <1>1, <2>3, HitsNone
    <3>3. Followed(<<>>, Hits(Upserts, key)) = Hits(Upserts, key)
      BY <1>5, FollowedEmpty
    <3>4. Hits(r, key) = Hits(Upserts, key)
      BY <3>1, <3>2, <3>3
    <3> QED  BY <1>4, <2>1, <3>2, <3>4
  <2> QED  BY <2>2, <2>3
<1>7. CASE ~primaryKey
  <2>0. primaryKey = FALSE
    BY <1>1, <1>7
  <2>1. Merged(key) = Followed(Hits(before, key), Hits(Upserts, key))
    BY <1>7 DEF Merged, Followed
  <2>2. \A s \in Seq(Row) : \A x : x \in ToSet(Hits(s, key)) <=> x \in ToSet(s) /\ x.key = key
    <3> TAKE s \in Seq(Row)
    <3> TAKE x
    <3>1. ToSet(Hits(s, key)) = ToSet(s) \cap {row \in Row : row.key = key}
      BY SelectRows DEF Hits
    <3>2. x \in ToSet(s) => x \in Row
      BY SetOfSeq
    <3> QED  BY <3>1, <3>2
  <2>3. CASE Hits(e, key) = Hits(before, key)
    <3>1. ASSUME NEW x \in ToSet(Upserts), x.key = key PROVE x.id \notin KeysOf(e, FALSE)
      <4> SUFFICES ASSUME x.id \in KeysOf(e, FALSE) PROVE FALSE
        OBVIOUS
      <4>1. PICK y \in ToSet(e) : y.id = x.id
        BY DEF KeysOf, RowKey
      <4>2. y \in Universe
        <5>1. PICK i \in 1..Len(e) : y = e[i]
          BY <1>1, <4>1, SetOfSeq
        <5> QED  BY <5>1 DEF Sound
      <4>3. x \in Universe /\ x \in ToSet(batch)
        BY <1>2, <3>1 DEF Universe
      <4>4. x \in ToSet(e)
        BY <1>2, <4>1, <4>2, <4>3 DEF IdsTell
      <4>5. x \in ToSet(before)
        BY <1>1, <2>2, <2>3, <3>1, <4>4
      <4>6. PICK i \in 1..Len(before) : x = before[i]
        BY <1>1, <4>5, SetOfSeq
      <4>7. PICK j \in 1..Len(batch) : x = batch[j]
        BY <1>1, <4>3, SetOfSeq
      <4>8. x.id = i /\ i \in Nat /\ i =< MaxExisting
        BY <1>1, <4>6, BoundAssumption DEF SettingOK
      <4>9. x.id = MaxExisting + j /\ j \in Nat /\ j >= 1
        BY <1>1, <4>7, BoundAssumption DEF SettingOK
      <4> QED  BY <4>8, <4>9, BoundAssumption
    <3>2. Hits(r, key) = Followed(Hits(e, key), Hits(Upserts, key))
      <4>1. \A x \in ToSet(Candidates(batch, hardDelete)) :
                x.key = key => RowKey(x, primaryKey) \notin KeysOf(e, primaryKey)
        BY <1>3, <2>0, <3>1 DEF RowKey
      <4> QED  BY <1>1, <1>3, <4>1, InsertAdds
    <3> QED  BY <2>1, <2>3, <3>2
  <2>4. CASE Hits(e, key) = Merged(key)
    <3>1. ASSUME NEW x \in ToSet(Upserts), x.key = key PROVE x.id \in KeysOf(e, FALSE)
      <4>1. x \in ToSet(Hits(Upserts, key))
        BY <1>3, <2>2, <3>1
      <4>2. PICK i \in 1..Len(Hits(Upserts, key)) : x = Hits(Upserts, key)[i]
        BY <1>5, <4>1, SetOfSeq
      <4>3. /\ x = Followed(Hits(before, key), Hits(Upserts, key))[Len(Hits(before, key)) + i]
            /\ Len(Hits(before, key)) + i \in
                   1..Len(Followed(Hits(before, key), Hits(Upserts, key)))
            /\ Followed(Hits(before, key), Hits(Upserts, key)) \in Seq(Row)
        <5> DEFINE b == Hits(before, key)
                   u == Hits(Upserts, key)
        <5>1. b \in Seq(Row) /\ u \in Seq(Row) /\ i \in 1..Len(u) /\ x = u[i]
          BY <1>5, <4>2
        <5> HIDE DEF b, u
        <5>2. Followed(b, u)[Len(b) + i] = u[i]
          BY <5>1, FollowedRest
        <5>3. Followed(b, u) \in Seq(Row) /\ Len(Followed(b, u)) = Len(b) + Len(u)
          BY <5>1, FollowedFacts
        <5>4. Len(b) \in Nat /\ Len(u) \in Nat
          BY <5>1
        <5>5. Len(b) + i \in 1..Len(Followed(b, u))
          BY <5>1, <5>3, <5>4
        <5> QED  BY <5>1, <5>2, <5>3, <5>5 DEF b, u
      <4>4. x \in ToSet(Hits(e, key))
        <5> DEFINE v == Followed(Hits(before, key), Hits(Upserts, key))
        <5>1. v = Hits(e, key)
          BY <2>1, <2>4
        <5> HIDE DEF v
        <5>2. x \in ToSet(v)
          BY <4>3, SetOfSeq DEF v
        <5> QED  BY <5>1, <5>2
      <4>5. x \in ToSet(e)
        BY <1>1, <2>2, <4>4
      <4> QED  BY <4>5 DEF KeysOf, RowKey
    <3>2. Hits(r, key) = Hits(e, key)
      <4>1. \A x \in ToSet(Candidates(batch, hardDelete)) :
                x.key = key => RowKey(x, primaryKey) \in KeysOf(e, primaryKey)
        BY <1>3, <2>0, <3>1 DEF RowKey
      <4> QED  BY <1>1, <4>1, InsertLeaves
    <3> QED  BY <2>4, <3>2
  <2> QED  BY <1>4, <2>3, <2>4
<1> QED  BY <1>6, <1>7

\* Whatever the setting, a combine of a table in which a key has its first or its merged
\* rows ends with the key merged.
LEMMA CombineConverges ==
    ASSUME SettingOK, NEW e, Sound(e, Universe, primaryKey, hardDelete),
           ~CannotCombine(Disposition, e, batch, primaryKey, hardDelete),
           NEW key, KeyOK(e, key)
    PROVE  Hits(CombineTables(Disposition, e, batch, primaryKey, hardDelete), key) = Merged(key)
<1>1. CASE Native
  <2>1. Disposition = "merge"
    BY <1>1 DEF Native, Disposition
  <2>2. ~CannotCombine("merge", e, batch, primaryKey, hardDelete)
    BY <2>1
  <2>3. Hits(CombineTables("merge", e, batch, primaryKey, hardDelete), key) = Merged(key)
    BY <1>1, <2>2, CombineKeyed
  <2> QED  BY <2>1, <2>3
<1>2. CASE ~Native
  <2>1. Hits(CombineTables("insert-only", e, batch, primaryKey, hardDelete), key) = Merged(key)
    BY <1>2, CombineInserts
  <2>2. CASE Disposition = "insert-only"
    BY <2>1, <2>2
  <2>3. CASE Disposition # "insert-only"
    <3>1. Disposition = "merge" /\ primaryKey = FALSE
      BY <1>2, <2>3 DEF Native, Disposition, SettingOK
    <3>2. /\ IdsTell(Universe) /\ hardDelete \in BOOLEAN
          /\ Sound(e, Universe, FALSE, hardDelete) /\ Sound(batch, Universe, FALSE, FALSE)
      BY <3>1, FileFacts DEF SettingOK
    <3>3. CombineTables("merge", e, batch, FALSE, hardDelete) =
              CombineTables("insert-only", e, batch, FALSE, hardDelete)
      BY <3>2, CombineById
    <3> QED  BY <2>1, <3>1, <3>3
  <2> QED  BY <2>2, <2>3
<1> QED  BY <1>1, <1>2

\* Of an empty table the combine makes the file's rows.
LEMMA CombineFirst ==
    ASSUME NEW disposition, NEW byKey
    PROVE  CombineTables(disposition, <<>>, batch, byKey, hardDelete) = Upserts
BY DEF CombineTables, Upserts

\* The combine leaves a key alone that the file does not name.
LEMMA CombineSpares ==
    ASSUME SettingOK, NEW e \in Seq(Row), NEW key, key \notin KeysOf(batch, TRUE)
    PROVE  Hits(CombineTables("merge", e, batch, TRUE, hardDelete), key) = Hits(e, key)
<1>1. batch \in Seq(Row) /\ hardDelete \in BOOLEAN
  BY DEF SettingOK
<1> QED  BY <1>1, HitsCombine

\* A combine of a table in which a key has the file's rows, and no other, leaves it them.
LEMMA CombineRepeats ==
    ASSUME SettingOK, NEW e, Sound(e, Universe, primaryKey, hardDelete),
           ~CannotCombine(Disposition, e, batch, primaryKey, hardDelete),
           NEW key, Hits(e, key) = Hits(Upserts, key)
    PROVE  Hits(CombineTables(Disposition, e, batch, primaryKey, hardDelete), key) =
               Hits(Upserts, key)
<1>1. /\ IdsTell(Universe) /\ Sound(batch, Universe, primaryKey, FALSE)
      /\ Sound(Upserts, Universe, primaryKey, hardDelete)
      /\ e \in Seq(Row) /\ batch \in Seq(Row) /\ Upserts \in Seq(Row)
      /\ primaryKey \in BOOLEAN /\ hardDelete \in BOOLEAN
      /\ Candidates(batch, hardDelete) = Upserts
  BY FileFacts DEF SettingOK, Sound, Candidates, Upserts
<1>2. CASE Native
  <2>1. Disposition = "merge" /\ primaryKey = TRUE
    BY <1>1, <1>2 DEF Native, Disposition
  <2>2. CASE key \in KeysOf(batch, TRUE)
    <3>1. CASE key \in KeysOf(Upserts, TRUE)
      <4>1. PICK x \in ToSet(Upserts) : x.key = key /\ key # NoKey /\ Merged(key) = <<x>>
        BY <1>2, <3>1, MergedFacts
      <4>2. Sound(Upserts, Universe, TRUE, hardDelete)
        BY <1>1, <2>1
      <4>3. Hits(Upserts, key) = <<x>>
        BY <4>1, <4>2, HitsOne
      <4>4. KeyOK(e, key)
        BY <4>1, <4>3 DEF KeyOK
      <4> QED  BY <4>1, <4>3, <4>4, CombineConverges
    <3>2. CASE key \notin KeysOf(Upserts, TRUE)
      <4>1. Merged(key) = <<>>
        BY <1>2, <2>2, <3>2, MergedFacts
      <4>2. Hits(Upserts, key) = <<>>
        BY <1>1, <3>2, HitsNone
      <4>3. KeyOK(e, key)
        BY <4>1, <4>2 DEF KeyOK
      <4> QED  BY <4>1, <4>2, <4>3, CombineConverges
    <3> QED  BY <3>1, <3>2
  <2>3. CASE key \notin KeysOf(batch, TRUE)
    <3>1. e \in Seq(Row)
      BY <1>1
    <3>2. Hits(CombineTables("merge", e, batch, TRUE, hardDelete), key) = Hits(e, key)
      BY <2>3, <3>1, CombineSpares
    <3> QED  BY <2>1, <3>2
  <2> QED  BY <2>2, <2>3
<1>3. CASE ~Native
  <2>1. \A x \in ToSet(Candidates(batch, hardDelete)) :
            x.key = key => RowKey(x, primaryKey) \in KeysOf(e, primaryKey)
    <3> SUFFICES ASSUME NEW x \in ToSet(Upserts), x.key = key
                 PROVE  x \in ToSet(e)
      BY <1>1 DEF KeysOf
    <3> DEFINE B == {row \in Row : row.key = key}
    <3>1. x \in B
      <4>1. x \in Row
        BY <1>1, SetOfSeq
      <4> QED  BY <4>1
    <3>2. Hits(e, key) = Select(e, B) /\ Hits(Upserts, key) = Select(Upserts, B)
      BY DEF Hits
    <3> HIDE DEF B
    <3>3. ToSet(Select(e, B)) = ToSet(e) \cap B /\ ToSet(Select(Upserts, B)) = ToSet(Upserts) \cap B
      BY <1>1, SelectRows
    <3> QED  BY <3>1, <3>2, <3>3
  <2>2. Hits(CombineTables("insert-only", e, batch, primaryKey, hardDelete), key) = Hits(e, key)
    BY <1>1, <2>1, InsertLeaves
  <2>3. CASE Disposition = "insert-only"
    BY <2>2, <2>3
  <2>4. CASE Disposition # "insert-only"
    <3>1. Disposition = "merge" /\ primaryKey = FALSE
      BY <1>1, <1>3, <2>4 DEF Native, Disposition
    <3>2. Sound(e, Universe, FALSE, hardDelete) /\ Sound(batch, Universe, FALSE, FALSE)
      BY <1>1, <3>1
    <3>3. CombineTables("merge", e, batch, FALSE, hardDelete) =
              CombineTables("insert-only", e, batch, FALSE, hardDelete)
      BY <1>1, <3>2, CombineById
    <3> QED  BY <2>2, <3>1, <3>3
  <2> QED  BY <2>3, <2>4
<1> QED  BY <1>2, <1>3

\* A prefix stays one when rows follow; of an empty table only the empty one is.
LEMMA PrefixFacts ==
    ASSUME NEW T, NEW s \in Seq(T), NEW e \in Seq(T), NEW t \in Seq(T), IsPrefix(s, e)
    PROVE  /\ IsPrefix(s, e \o t)
           /\ e = <<>> => IsPrefix(s, t)
<1>1. Len(s) \in Nat /\ Len(e) \in Nat /\ Len(t) \in Nat /\ Len(e \o t) = Len(e) + Len(t)
  OBVIOUS
<1>2. Len(s) =< Len(e) /\ SubSeq(s, 1, Len(s)) = SubSeq(e, 1, Len(s))
  BY DEF IsPrefix
<1>3. SubSeq(e \o t, 1, Len(s)) = SubSeq(e, 1, Len(s))
  <2>1. CASE Len(s) = 0
    BY <2>1, SubSeqEmpty
  <2>2. CASE Len(s) # 0
    <3>1. 1 \in 1..Len(e) /\ Len(s) \in 1..Len(e)
      BY <1>1, <1>2, <2>2
    <3> QED  BY <3>1, SubSeqOfConcat1
  <2> QED  BY <2>1, <2>2
<1>4. e = <<>> => Len(s) = 0
  BY <1>1, <1>2
<1>5. SubSeq(s, 1, 0) = <<>> /\ SubSeq(t, 1, 0) = <<>>
  BY SubSeqEmpty
<1> QED  BY <1>1, <1>2, <1>3, <1>4, <1>5 DEF IsPrefix

\* insert-only only adds rows at the end.
LEMMA InsertKeepsPrefix ==
    ASSUME NEW b \in Seq(Row), NEW e \in Seq(Row), NEW s \in Seq(Row), NEW byKey,
           NEW hard \in BOOLEAN, IsPrefix(b, e)
    PROVE  IsPrefix(b, CombineTables("insert-only", e, s, byKey, hard))
<1> DEFINE c == Candidates(s, hard)
           w == WithoutKeys(c, KeysOf(e, byKey), byKey)
           r == CombineTables("insert-only", e, s, byKey, hard)
<1>1. c \in Seq(Row)
  <2>1. Live(s) \in Seq(Row)
    BY SelectRows DEF Live
  <2> QED  BY <2>1 DEF Candidates
<1>2. w \in Seq(Row)
  <2> HIDE DEF c
  <2> QED  BY <1>1, SelectRows DEF WithoutKeys
<1>3. CASE e = <<>>
  <2>1. r = c
    BY <1>3 DEF CombineTables, Candidates
  <2> HIDE DEF c, r
  <2>2. IsPrefix(b, c)
    BY <1>1, <1>3, PrefixFacts
  <2> QED  BY <2>1, <2>2 DEF r
<1>4. CASE e # <<>>
  <2>1. r = e \o w
    BY <1>4 DEF CombineTables, CombineInsertOnly
  <2> HIDE DEF w, r
  <2>2. IsPrefix(b, e \o w)
    BY <1>2, PrefixFacts
  <2> QED  BY <2>1, <2>2 DEF r
<1> QED  BY <1>3, <1>4

\* What the setting determines stays as it is.
LEMMA Frame ==
    ASSUME UNCHANGED <<setting, others>>
    PROVE  /\ Universe' = Universe /\ Upserts' = Upserts /\ Deletes' = Deletes
           /\ Untouched' = Untouched /\ Native' = Native /\ Combines' = Combines
           /\ \A key : Merged(key)' = Merged(key)
           /\ SettingOK => SettingOK'
<1>1. /\ before' = before /\ batch' = batch /\ others' = others /\ strategy' = strategy
      /\ primaryKey' = primaryKey /\ hardDelete' = hardDelete /\ keyDeclared' = keyDeclared
  BY DEF setting
<1>2. Universe' = Universe /\ Upserts' = Upserts /\ Deletes' = Deletes
      /\ Untouched' = Untouched /\ Native' = Native
  BY <1>1 DEF Universe, Upserts, Deletes, Untouched, Native
<1>3. Combines' = Combines
  BY <1>1, <1>2 DEF Combines
<1>4. \A key : Merged(key)' = Merged(key)
  BY <1>1, <1>2 DEF Merged
<1>5. SettingOK => SettingOK'
  BY <1>1, <1>2 DEF SettingOK, UniqueKeys
<1> QED  BY <1>2, <1>3, <1>4, <1>5
-----------------------------------------------------------------------------
(* Init and the steps.                                                     *)

\* What the file does not excuse has a key that the file does not match.
LEMMA FileSpares ==
    ASSUME SettingOK, NEW i \in 1..Len(others),
           ~(primaryKey /\ others[i].key \in KeysOf(batch, TRUE))
    PROVE  RowKey(others[i], primaryKey) \notin KeysOf(batch, primaryKey)
<1>0. batch \in Seq(Row) /\ Len(batch) \in Nat /\ Len(batch) =< MaxBatch /\ primaryKey \in BOOLEAN
  BY DEF SettingOK
<1>1. CASE primaryKey
  <2>1. primaryKey = TRUE
    BY <1>1
  <2> QED  BY <2>1 DEF RowKey
<1>2. CASE ~primaryKey
  <2>1. \A row : RowKey(row, primaryKey) = row.id
    BY <1>2 DEF RowKey
  <2>2. \A k \in 1..Len(batch) : batch[k].id # others[i].id
    <3>1. others[i].id = MaxExisting + MaxBatch + i /\ i \in Nat /\ i >= 1
      BY DEF SettingOK
    <3>2. \A k \in 1..Len(batch) : batch[k].id = MaxExisting + k
      BY DEF SettingOK
    <3> QED  BY <1>0, <3>1, <3>2, BoundAssumption
  <2> QED  BY <1>0, <2>1, <2>2, KeysOfSeq
<1> QED  BY <1>1, <1>2

\* Every job starts in the invariant.
LEMMA InitOK == Init => IInv
<1> SUFFICES ASSUME Init PROVE IInv
  OBVIOUS
<1>0. /\ table = before /\ fetched = <<>> /\ others = <<>> /\ raced = {}
      /\ unread = {} /\ erased = {}
      /\ phase = "start" /\ faults = 0
  BY DEF Init
<1>1. /\ before \in Seq(Row) /\ Len(before) =< MaxExisting
      /\ \A i \in 1..Len(before) : before[i].id = i /\ ~before[i].del
  <2>0. PICK n \in 0..MaxExisting : \E keys \in [1..n -> Keys \union {NoKey}] :
            before = Numbered(0, keys, [i \in 1..n |-> FALSE])
    BY <1>0 DEF Init, Tables
  <2>1. PICK keys \in [1..n -> Keys \union {NoKey}] :
            before = Numbered(0, keys, [i \in 1..n |-> FALSE])
    BY <2>0
  <2>2. before = [i \in 1..n |-> [id |-> i, key |-> keys[i], del |-> FALSE]]
    BY <2>1, BoundAssumption DEF Numbered
  <2>3. \A i \in 1..n : [id |-> i, key |-> keys[i], del |-> FALSE] \in Row
    BY BoundAssumption DEF Row
  <2>4. before \in [1..n -> Row] /\ n \in Nat
    BY <2>2, <2>3, BoundAssumption
  <2>5. before \in Seq(Row) /\ Len(before) = n
    BY <2>4
  <2> QED  BY <2>2, <2>5, BoundAssumption
<1>2. /\ batch \in Seq(Row) /\ Len(batch) =< MaxBatch
      /\ \A i \in 1..Len(batch) : batch[i].id = MaxExisting + i
  <2>0. PICK n \in 1..MaxBatch :
            \E keys \in [1..n -> Keys \union {NoKey}], dels \in [1..n -> BOOLEAN] :
                batch = Numbered(MaxExisting, keys, dels)
    BY DEF Init, Files
  <2>1. PICK keys \in [1..n -> Keys \union {NoKey}], dels \in [1..n -> BOOLEAN] :
            batch = Numbered(MaxExisting, keys, dels)
    BY <2>0
  <2>2. batch = [i \in 1..n |-> [id |-> MaxExisting + i, key |-> keys[i], del |-> dels[i]]]
    BY <2>1 DEF Numbered
  <2>3. \A i \in 1..n : [id |-> MaxExisting + i, key |-> keys[i], del |-> dels[i]] \in Row
    BY BoundAssumption DEF Row
  <2>4. batch \in [1..n -> Row] /\ n \in Nat
    BY <2>2, <2>3, BoundAssumption
  <2>5. batch \in Seq(Row) /\ Len(batch) = n
    BY <2>4
  <2> QED  BY <2>2, <2>5, BoundAssumption
<1>3. others \in Seq(Row) /\ Len(others) = 0 /\ 1..0 = {}
  BY <1>0
<1>4. ~hardDelete => \A i \in 1..Len(batch) : ~batch[i].del
  <2> SUFFICES ASSUME ~hardDelete, NEW i \in 1..Len(batch) PROVE ~batch[i].del
    OBVIOUS
  <2> DEFINE D == {row \in Row : row.del}
  <2>1. Select(batch, D) = <<>>
    BY DEF Init, Flagged
  <2>2. batch[i] \in Row /\ (batch[i].del => batch[i] \in D)
    BY <1>2
  <2> HIDE DEF D
  <2>3. batch[i] \notin D
    BY <1>2, <2>1, SelectNone
  <2> QED  BY <2>2, <2>3
<1>5. Native => NoNulls(batch) /\ NoNulls(others)
  <2>1. Native => NoKey \notin KeysOf(batch, TRUE)
    BY DEF Init
  <2>2. NoKey \notin KeysOf(batch, TRUE) => NoNulls(batch)
    BY <1>2, KeysOfSeq DEF NoNulls, RowKey
  <2> QED  BY <1>3, <2>1, <2>2 DEF NoNulls
<1>6. SettingOK
  BY <1>0, <1>1, <1>2, <1>3, <1>4, <1>5 DEF SettingOK, Init
<1>7. TablesOK
  <2>1. \A i \in 1..Len(before) : before[i] \in Universe
    BY <1>1, SetOfSeq DEF Universe
  <2>2. DOMAIN before = 1..Len(before)
    BY <1>1
  <2>3. Sound(before, Universe, primaryKey, hardDelete)
    BY <1>1, <1>6, <2>1, <2>2 DEF Sound, SettingOK, UniqueKeys
  <2>4. Sound(<<>>, Universe, primaryKey, hardDelete)
    BY DEF Sound
  <2> QED  BY <1>0, <2>3, <2>4, BoundAssumption DEF TablesOK, Init
<1>8. InsertOnlyOK
  <2>1. IsPrefix(before, before)
    BY <1>1 DEF IsPrefix
  <2> QED  BY <1>0, <2>1 DEF InsertOnlyOK
<1>9. OthersOK
  BY <1>0, <1>3 DEF OthersOK, AccountsFor
<1>10. KeysOK
  BY <1>0 DEF KeysOK, KeyOK
<1> QED  BY <1>6, <1>7, <1>8, <1>9, <1>10 DEF IInv

\* The native upsert merges the keys the file writes, and leaves the others alone.
LEMMA UpsertKeys ==
    ASSUME IInv, Upsert, NEW key
    PROVE  /\ key \in KeysOf(Upserts, TRUE) => Hits(table', key) = Merged(key)
           /\ key \notin KeysOf(Upserts, TRUE) => Hits(table', key) = Hits(table, key)
<1>1. Native /\ table' = ServerUpsert(table, Upserts)
  BY DEF Upsert, Combines
<1>2. SettingOK /\ TablesOK /\ primaryKey = TRUE
  BY <1>1 DEF IInv, SettingOK, Native
<1>3. /\ IdsTell(Universe)
      /\ Sound(table, Universe, TRUE, hardDelete)
      /\ Sound(Upserts, Universe, TRUE, hardDelete) /\ NoNulls(Upserts)
  BY <1>1, <1>2, FileFacts DEF TablesOK
<1>4. /\ Sound(table', Universe, TRUE, hardDelete)
      /\ \A x : x \in ToSet(Upserts) => x \in ToSet(table')
  BY <1>1, <1>3, UpsertSound
<1>5. Upserts \in Seq(Row) /\ table \in Seq(Row)
  BY <1>3 DEF Sound
<1>6. CASE key \in KeysOf(Upserts, TRUE)
  <2>1. PICK x \in ToSet(Upserts) : x.key = key /\ key # NoKey /\ Merged(key) = <<x>>
    BY <1>1, <1>2, <1>6, MergedFacts
  <2>2. Hits(table', key) = <<x>>
    BY <1>4, <2>1, HitsOne
  <2> QED  BY <1>6, <2>1, <2>2
<1>7. CASE key \notin KeysOf(Upserts, TRUE)
  BY <1>1, <1>5, <1>7, HitsUpsert
<1> QED  BY <1>6, <1>7

\* The native upsert: keys the file writes are merged, the others stay.
LEMMA UpsertOK == ASSUME IInv, Upsert PROVE IInv'
<1>1. /\ Native /\ table' = ServerUpsert(table, Upserts) /\ synced' = TRUE
      /\ phase = "start"
      /\ \/ Deletes # <<>> /\ phase' = "delete"
         \/ Deletes = <<>> /\ phase' = "done"
      /\ ~Combines /\ keyDeclared
      /\ UNCHANGED <<setting, fetched, unread, faults, others, raced, erased>>
      /\ keyDeclared' = keyDeclared /\ primaryKey' = primaryKey /\ hardDelete' = hardDelete
      /\ before' = before /\ batch' = batch /\ strategy' = strategy
  BY DEF Upsert, Combines, setting, read, history
<1>2. SettingOK /\ TablesOK /\ OthersOK /\ KeysOK
  BY DEF IInv
<1>3. /\ Universe' = Universe /\ Upserts' = Upserts /\ Deletes' = Deletes
      /\ Untouched' = Untouched /\ Native' = Native /\ Combines' = Combines
      /\ \A key : Merged(key)' = Merged(key)
      /\ SettingOK'
  BY <1>1, <1>2, Frame
<1>4. primaryKey = TRUE /\ strategy # "insert-only" /\ erased = {}
  BY <1>1, <1>2 DEF Native, SettingOK, TablesOK
<1>5. /\ IdsTell(Universe)
      /\ Sound(table, Universe, TRUE, hardDelete)
      /\ Sound(Upserts, Universe, TRUE, hardDelete) /\ NoNulls(Upserts)
      /\ \A x : x \in ToSet(Upserts) => x \in ToSet(batch) /\ ~x.del
  BY <1>1, <1>2, <1>4, FileFacts DEF TablesOK
<1>6. /\ Sound(table', Universe, TRUE, hardDelete)
      /\ \A x : x \in ToSet(table') <=>
                   \/ x \in ToSet(Upserts)
                   \/ x \in ToSet(table) /\ RowKey(x, TRUE) \notin KeysOf(Upserts, TRUE)
  BY <1>1, <1>5, UpsertSound
<1>7. TablesOK'
  BY <1>1, <1>2, <1>3, <1>4, <1>6 DEF TablesOK
<1>8. InsertOnlyOK'
  BY <1>1, <1>4 DEF InsertOnlyOK
<1>9. batch \in Seq(Row) /\ Upserts \in Seq(Row) /\ table \in Seq(Row) /\ table' \in Seq(Row)
  BY <1>2, <1>5, <1>6 DEF SettingOK, Sound
<1>10. OthersOK'
  <2>1. \A key : key \in KeysOf(Upserts, TRUE) => key \in KeysOf(batch, TRUE)
    BY <1>5, <1>9, FewerKeys
  <2>2. AccountsFor(ToSet(table))'
    BY <1>1, <1>2, <1>4, <1>6, <2>1 DEF OthersOK, AccountsFor, RowKey
  <2> QED  BY <1>1, <2>2 DEF OthersOK
<1>11. KeysOK'
  <2> SUFFICES ASSUME NEW key \in Untouched
               PROVE  /\ Hits(table', key) \in {Hits(before, key), Merged(key)}
                      /\ key \notin KeysOf(Deletes, TRUE) => Hits(table', key) = Merged(key)
    <3>1. KeysOf(<<>>, TRUE) = {}
      BY DEF KeysOf, ToSet
    <3> QED  BY <1>1, <1>3, <1>4, <3>1 DEF KeysOK, KeyOK
  <2>1. Hits(table, key) \in {Hits(before, key), Merged(key)}
    BY <1>2, <1>4 DEF KeysOK, KeyOK
  <2>2. CASE key \in KeysOf(Upserts, TRUE)
    BY <2>2, UpsertKeys
  <2>3. CASE key \notin KeysOf(Upserts, TRUE)
    <3>1. Hits(table', key) = Hits(table, key)
      BY <2>3, UpsertKeys
    <3>2. key \notin KeysOf(Deletes, TRUE) => Merged(key) = Hits(before, key)
      BY <1>1, <1>2, <2>3, MergedFacts
    <3> QED  BY <2>1, <3>1, <3>2
  <2> QED  BY <2>2, <2>3
<1> QED  BY <1>3, <1>7, <1>8, <1>10, <1>11 DEF IInv

\* The native delete: the flagged keys go, the others were merged by the upsert.
LEMMA DeleteOK == ASSUME IInv, Delete PROVE IInv'
<1>1. /\ table' = WithoutKeys(table, KeysOf(Deletes, TRUE), TRUE)
      /\ phase = "delete" /\ phase' = "done"
      /\ UNCHANGED <<synced, setting, fetched, unread, faults, others, raced, erased>>
      /\ keyDeclared' = keyDeclared /\ primaryKey' = primaryKey /\ hardDelete' = hardDelete
      /\ before' = before /\ batch' = batch /\ strategy' = strategy
  BY DEF Delete, setting, read, history
<1>2. SettingOK /\ TablesOK /\ OthersOK /\ KeysOK
  BY DEF IInv
<1>3. /\ Universe' = Universe /\ Upserts' = Upserts /\ Deletes' = Deletes
      /\ Untouched' = Untouched /\ Native' = Native /\ Combines' = Combines
      /\ \A key : Merged(key)' = Merged(key)
      /\ SettingOK'
  BY <1>1, <1>2, Frame
<1>4. Native /\ primaryKey = TRUE /\ strategy # "insert-only" /\ ~Combines /\ erased = {}
  BY <1>1, <1>2 DEF Combines, Native, SettingOK, TablesOK
<1>5. /\ Sound(table, Universe, primaryKey, hardDelete)
      /\ Sound(Deletes, Universe, primaryKey, FALSE)
      /\ \A x : x \in ToSet(Deletes) => x \in ToSet(batch)
  BY <1>2, FileFacts DEF TablesOK
<1>6. /\ Sound(table', Universe, primaryKey, hardDelete)
      /\ \A x : x \in ToSet(table') <=>
                   x \in ToSet(table) /\ RowKey(x, TRUE) \notin KeysOf(Deletes, TRUE)
  BY <1>1, <1>5, WithoutSound
<1>7. batch \in Seq(Row) /\ Deletes \in Seq(Row) /\ table \in Seq(Row) /\ table' \in Seq(Row)
  BY <1>2, <1>5, <1>6 DEF SettingOK, Sound
<1>8. TablesOK'
  <2>1. table' # <<>> => synced'
    <3>1. table = <<>> => table' = <<>>
      <4>1. table = <<>> => Len(table) = 0 /\ 1..0 = {}
        OBVIOUS
      <4> QED  BY <1>1, <1>7, <4>1, SelectNone DEF WithoutKeys
    <3> QED  BY <1>1, <1>2, <3>1 DEF TablesOK
  <2> QED  BY <1>1, <1>2, <1>3, <1>4, <1>6, <2>1 DEF TablesOK
<1>9. InsertOnlyOK'
  BY <1>1, <1>4 DEF InsertOnlyOK
<1>10. OthersOK'
  <2>1. \A key : key \in KeysOf(Deletes, TRUE) => key \in KeysOf(batch, TRUE)
    BY <1>5, <1>7, FewerKeys
  <2>2. AccountsFor(ToSet(table))'
    BY <1>1, <1>2, <1>4, <1>6, <2>1 DEF OthersOK, AccountsFor, RowKey
  <2> QED  BY <1>1, <2>2 DEF OthersOK
<1>11. KeysOK'
  <2> SUFFICES ASSUME NEW key \in Untouched
               PROVE  Hits(table', key) = Merged(key)
    BY <1>1, <1>3, <1>4 DEF KeysOK, KeyOK
  <2>1. CASE key \in KeysOf(Deletes, TRUE)
    <3>1. Merged(key) = <<>>
      BY <1>2, <1>4, <2>1, MergedFacts
    <3>2. key \notin KeysOf(table', TRUE)
      BY <1>6, <2>1 DEF KeysOf
    <3> QED  BY <1>7, <3>1, <3>2, HitsNone
  <2>2. CASE key \notin KeysOf(Deletes, TRUE)
    <3>1. Hits(table', key) = Hits(table, key)
      BY <1>1, <1>7, <2>2, HitsWithout
    <3> QED  BY <1>1, <1>2, <1>4, <2>2, <3>1 DEF KeysOK
  <2> QED  BY <2>1, <2>2
<1> QED  BY <1>3, <1>8, <1>9, <1>10, <1>11 DEF IInv

\* After a read that returns the table, what was read is in the state the table is in.
LEMMA ReadOK ==
    ASSUME IInv, phase = "start", Combines, phase' = "replace",
           fetched' = table, unread' = {}, faults' \in 0..MaxFaults,
           UNCHANGED <<table, synced, setting, history>>
    PROVE  IInv'
<1>1. /\ UNCHANGED <<others, raced, erased>>
      /\ keyDeclared' = keyDeclared /\ primaryKey' = primaryKey /\ hardDelete' = hardDelete
      /\ before' = before /\ batch' = batch /\ strategy' = strategy
  BY DEF setting, history
<1>2. SettingOK /\ TablesOK /\ InsertOnlyOK /\ OthersOK /\ KeysOK
  BY DEF IInv
<1>3. /\ Universe' = Universe /\ Upserts' = Upserts /\ Deletes' = Deletes
      /\ Untouched' = Untouched /\ Native' = Native /\ Combines' = Combines
      /\ \A key : Merged(key)' = Merged(key)
      /\ SettingOK'
  BY <1>1, <1>2, Frame
<1>4. TablesOK'
  BY <1>1, <1>2, <1>3 DEF TablesOK
<1>5. InsertOnlyOK'
  BY <1>1, <1>2 DEF InsertOnlyOK
<1>6. OthersOK'
  BY <1>1, <1>2 DEF OthersOK, AccountsFor
<1>7. KeysOK'
  BY <1>1, <1>2, <1>3 DEF KeysOK, KeyOK
<1> QED  BY <1>3, <1>4, <1>5, <1>6, <1>7 DEF IInv

\* The fetch reads the table as it is: one that was never loaded is empty.
LEMMA FetchOK == ASSUME IInv, Fetch PROVE IInv'
<1>1. phase = "start" /\ phase' = "replace" /\ Combines /\ unread' = {}
      /\ UNCHANGED <<table, synced, setting, faults, history>>
  BY DEF Fetch
<1>2. fetched' = table /\ faults' \in 0..MaxFaults
  BY DEF Fetch, IInv, TablesOK
<1> QED  BY <1>1, <1>2, ReadOK

\* A fetch without a result: nothing was read, all was missed.
LEMMA FetchNamesNoResultOK == ASSUME IInv, FetchNamesNoResult PROVE IInv'
<1>1. /\ phase = "start" /\ phase' = "replace" /\ Combines
      /\ fetched' = <<>> /\ unread' = ToSet(table)
      /\ UNCHANGED <<table, synced, setting, history, others, raced, erased>>
      /\ keyDeclared' = keyDeclared /\ primaryKey' = primaryKey /\ hardDelete' = hardDelete
      /\ before' = before /\ batch' = batch /\ strategy' = strategy
  BY DEF FetchNamesNoResult, setting, history
<1>2. SettingOK /\ TablesOK /\ InsertOnlyOK /\ OthersOK /\ KeysOK
  BY DEF IInv
<1>3. faults' \in 0..MaxFaults
  <2>1. faults \in Nat /\ MaxFaults \in Nat
    BY <1>2, BoundAssumption DEF TablesOK
  <2> QED  BY <2>1 DEF FetchNamesNoResult
<1>4. table \in Seq(Row)
  BY <1>2 DEF TablesOK, Sound
<1>5. CASE table = <<>>
  <2>1. ToSet(table) = {}
    BY <1>5 DEF ToSet
  <2> QED  BY <1>1, <1>3, <1>5, <2>1, ReadOK
<1>6. CASE table # <<>>
  <2>1. unread' # {}
    <3>1. 1 \in 1..Len(table)
      BY <1>4, <1>6
    <3>2. table[1] \in ToSet(table)
      BY <1>4, <3>1, SetOfSeq
    <3> QED  BY <1>1, <3>2
  <2>2. /\ Universe' = Universe /\ Upserts' = Upserts /\ Deletes' = Deletes
        /\ Untouched' = Untouched /\ Native' = Native /\ Combines' = Combines
        /\ \A key : Merged(key)' = Merged(key)
        /\ SettingOK'
    BY <1>1, <1>2, Frame
  <2>3. TablesOK'
    <3>1. Sound(<<>>, Universe, primaryKey, hardDelete)
      BY DEF Sound
    <3> QED  BY <1>1, <1>2, <1>3, <2>2, <3>1 DEF TablesOK
  <2>4. InsertOnlyOK'
    BY <1>1, <1>2, <2>1 DEF InsertOnlyOK
  <2>5. OthersOK'
    BY <1>1, <1>2 DEF OthersOK, AccountsFor
  <2>6. KeysOK'
    BY <1>1, <1>2, <2>1, <2>2 DEF KeysOK, KeyOK
  <2> QED  BY <2>2, <2>3, <2>4, <2>5, <2>6 DEF IInv
<1> QED  BY <1>5, <1>6

\* Replacing the table by the combination of what was read and the file.  What landed
\* since the read is lost, and raced has it; what was missed is lost, and erased has it.
LEMMA ReplaceTableOK == ASSUME IInv, ReplaceTable PROVE IInv'
<1> DEFINE r == CombineTables(Disposition, fetched, batch, primaryKey, hardDelete)
<1>1. /\ table' = r /\ synced' = TRUE /\ fetched' = <<>>
      /\ unread' = {} /\ erased' = erased \union unread
      /\ phase = "replace" /\ phase' = "done"
      /\ ~CannotCombine(Disposition, fetched, batch, primaryKey, hardDelete)
      /\ UNCHANGED <<setting, faults, others, raced>>
      /\ keyDeclared' = keyDeclared /\ primaryKey' = primaryKey /\ hardDelete' = hardDelete
      /\ before' = before /\ batch' = batch /\ strategy' = strategy
  BY DEF ReplaceTable, Refused, Combined, setting
<1>2. SettingOK /\ TablesOK /\ InsertOnlyOK /\ OthersOK /\ KeysOK
  BY DEF IInv
<1>3. /\ Universe' = Universe /\ Upserts' = Upserts /\ Deletes' = Deletes
      /\ Untouched' = Untouched /\ Native' = Native /\ Combines' = Combines
      /\ \A key : Merged(key)' = Merged(key)
      /\ SettingOK'
  BY <1>1, <1>2, Frame
<1>4. /\ Disposition \in {"merge", "insert-only"} /\ hardDelete \in BOOLEAN
      /\ IdsTell(Universe)
      /\ Sound(fetched, Universe, primaryKey, hardDelete)
      /\ Sound(batch, Universe, primaryKey, FALSE)
  BY <1>2, FileFacts DEF SettingOK, TablesOK, Disposition
<1>5. /\ Sound(r, Universe, primaryKey, hardDelete)
      /\ \A x : x \in ToSet(fetched) /\ RowKey(x, primaryKey) \notin KeysOf(batch, primaryKey)
                    => x \in ToSet(r)
  BY <1>1, <1>4, CombineSound
<1> HIDE DEF r
<1>6. TablesOK'
  <2>1. Sound(<<>>, Universe, primaryKey, hardDelete)
    BY DEF Sound
  <2> QED  BY <1>1, <1>2, <1>3, <1>5, <2>1 DEF TablesOK
<1>7. InsertOnlyOK'
  <2> SUFFICES ASSUME strategy = "insert-only", erased = {}, unread = {}
               PROVE  IsPrefix(before, r)
    BY <1>1 DEF InsertOnlyOK
  <2>1. before \in Seq(Row) /\ fetched \in Seq(Row) /\ batch \in Seq(Row)
    BY <1>2, <1>4 DEF SettingOK, Sound
  <2>2. IsPrefix(before, fetched) /\ Disposition = "insert-only"
    BY <1>1, <1>2 DEF InsertOnlyOK, Disposition
  <2>3. IsPrefix(before, CombineTables("insert-only", fetched, batch, primaryKey, hardDelete))
    BY <1>4, <2>1, <2>2, InsertKeepsPrefix
  <2> QED  BY <2>2, <2>3 DEF r
<1>8. OthersOK'
  <2>1. AccountsFor(ToSet(fetched) \union unread)
    BY <1>1, <1>2 DEF OthersOK
  <2>2. \A i \in 1..Len(others) :
            \/ others[i] \in ToSet(r)
            \/ others[i] \in raced
            \/ others[i] \in erased \union unread
            \/ primaryKey /\ others[i].key \in KeysOf(batch, TRUE)
            \/ primaryKey /\ \E j \in 1..Len(others) : j > i /\ others[j].key = others[i].key
    <3> SUFFICES ASSUME NEW i \in 1..Len(others),
                        ~(primaryKey /\ others[i].key \in KeysOf(batch, TRUE)),
                        others[i] \in ToSet(fetched)
                 PROVE  others[i] \in ToSet(r)
      BY <2>1 DEF AccountsFor
    <3> QED  BY <1>2, <1>5, FileSpares
  <2> QED  BY <1>1, <2>2 DEF OthersOK, AccountsFor
<1>9. KeysOK'
  <2> SUFFICES ASSUME NEW key \in Untouched
               PROVE  Hits(r, key) = IF erased \union unread = {} THEN Merged(key)
                                     ELSE Hits(Upserts, key)
    BY <1>1, <1>3 DEF KeysOK, KeyOK
  <2>1. CASE unread # {}
    <3>1. fetched = <<>>
      BY <1>2, <2>1 DEF TablesOK
    <3>2. r = Upserts
      BY <3>1, CombineFirst DEF r
    <3> QED  BY <2>1, <3>2
  <2>2. CASE unread = {} /\ erased = {}
    <3>1. KeyOK(fetched, key)
      BY <1>1, <1>2, <2>2 DEF KeysOK, KeyOK
    <3>2. Hits(r, key) = Merged(key)
      BY <1>1, <1>2, <1>4, <3>1, CombineConverges DEF r
    <3> QED  BY <2>2, <3>2
  <2>3. CASE unread = {} /\ erased # {}
    <3>1. Hits(fetched, key) = Hits(Upserts, key)
      BY <1>1, <1>2, <2>3 DEF KeysOK
    <3>2. Hits(r, key) = Hits(Upserts, key)
      BY <1>1, <1>2, <1>4, <3>1, CombineRepeats DEF r
    <3> QED  BY <2>3, <3>2
  <2> QED  BY <2>1, <2>2, <2>3
<1> QED  BY <1>3, <1>6, <1>7, <1>8, <1>9 DEF IInv

\* Reject, Terminate and Retry leave the table as it is.
LEMMA GiveUpOK ==
    ASSUME IInv, phase' \in {"start", "failed"}, fetched' = <<>>, unread' = {},
           faults' \in 0..MaxFaults,
           UNCHANGED <<table, synced, setting, history>>
    PROVE  IInv'
<1>1. /\ others' = others /\ raced' = raced /\ erased' = erased
      /\ keyDeclared' = keyDeclared /\ primaryKey' = primaryKey /\ hardDelete' = hardDelete
      /\ before' = before /\ batch' = batch /\ strategy' = strategy
  BY DEF setting, history
<1>2. SettingOK /\ TablesOK /\ InsertOnlyOK /\ OthersOK /\ KeysOK
  BY DEF IInv
<1>3. /\ Universe' = Universe /\ Upserts' = Upserts /\ Deletes' = Deletes
      /\ Untouched' = Untouched /\ Native' = Native /\ Combines' = Combines
      /\ \A key : Merged(key)' = Merged(key)
      /\ SettingOK'
  BY <1>1, <1>2, Frame
<1>4. TablesOK'
  <2>1. Sound(<<>>, Universe, primaryKey, hardDelete)
    BY DEF Sound
  <2> QED  BY <1>1, <1>2, <1>3, <2>1 DEF TablesOK
<1>5. InsertOnlyOK'
  BY <1>1, <1>2 DEF InsertOnlyOK
<1>6. OthersOK'
  BY <1>1, <1>2 DEF OthersOK, AccountsFor
<1>7. KeysOK'
  BY <1>1, <1>2, <1>3 DEF KeysOK, KeyOK
<1> QED  BY <1>3, <1>4, <1>5, <1>6, <1>7 DEF IInv

\* The table of one row.
LEMMA OneRow ==
    ASSUME NEW row \in Row
    PROVE  /\ <<row>> \in Seq(Row) /\ Len(<<row>>) = 1
           /\ \A x : x \in ToSet(<<row>>) <=> x = row
           /\ \A byKey, key : key \in KeysOf(<<row>>, byKey) <=> key = RowKey(row, byKey)
<1>1. <<row>> \in Seq(Row) /\ Len(<<row>>) = 1 /\ <<row>>[1] = row
  OBVIOUS
<1>2. \A x : x \in ToSet(<<row>>) <=> x = row
  BY <1>1 DEF ToSet
<1>3. \A byKey, key : key \in KeysOf(<<row>>, byKey) <=> key = RowKey(row, byKey)
  BY <1>2 DEF KeysOf
<1> QED  BY <1>1, <1>2, <1>3

\* A sound table stays sound when more rows come into being.
LEMMA WiderSound ==
    ASSUME NEW s, NEW U, NEW V, NEW byKey, NEW live, Sound(s, U, byKey, live),
           \A x : x \in U => x \in V
    PROVE  Sound(s, V, byKey, live)
BY DEF Sound

\* A job of another run leaves the rows of all other keys alone.
LEMMA OthersSpare ==
    ASSUME IInv, NEW key \in Keys \union {NoKey}, OtherLoads(key), NEW k, k # key
    PROVE  Hits(table', k) = Hits(table, k)
<1> DEFINE row == [id |-> MaxExisting + MaxBatch + Len(others) + 1, key |-> key, del |-> FALSE]
           s == <<row>>
<1>1. table' = LoadedByOthers(row)
  BY DEF OtherLoads
<1>2. SettingOK /\ TablesOK
  BY DEF IInv
<1>3. row \in Row /\ row.key = key /\ ~row.del
  <2>1. Len(others) \in Nat
    BY <1>2 DEF SettingOK
  <2> QED  BY <2>1, BoundAssumption DEF Row
<1> HIDE DEF row
<1>4. /\ s \in Seq(Row) /\ Len(s) = 1 /\ s[1] = row
      /\ \A x : x \in ToSet(s) <=> x = row
      /\ k \notin KeysOf(s, TRUE)
  <2>1. s \in Seq(Row) /\ Len(s) = 1 /\ s[1] = row
    BY <1>3
  <2>2. \A x : x \in ToSet(s) <=> x = row
    BY <1>3, OneRow
  <2>3. k \notin KeysOf(s, TRUE)
    BY <1>3, <2>2 DEF KeysOf, RowKey
  <2> QED  BY <2>1, <2>2, <2>3
<1>5. /\ hardDelete \in BOOLEAN /\ primaryKey \in BOOLEAN
      /\ Disposition \in {"merge", "insert-only"} /\ (keyDeclared => primaryKey)
      /\ table \in Seq(Row)
  BY <1>2 DEF SettingOK, Disposition, TablesOK, Sound
<1>6. /\ Native /\ keyDeclared => table' = ServerUpsert(table, s)
      /\ ~(Native /\ keyDeclared) =>
             table' = CombineTables(Disposition, table, s, primaryKey, hardDelete)
  BY <1>1 DEF LoadedByOthers
<1> HIDE DEF s
<1>7. CASE Native /\ keyDeclared
  <2>1. table' = ServerUpsert(table, s)
    BY <1>6, <1>7
  <2>2. Hits(ServerUpsert(table, s), k) = Hits(table, k)
    BY <1>4, <1>5, HitsUpsert
  <2> QED  BY <2>1, <2>2
<1>8. CASE ~(Native /\ keyDeclared) /\ Disposition = "merge" /\ primaryKey
  <2>1. table' = CombineTables("merge", table, s, TRUE, hardDelete)
    BY <1>5, <1>6, <1>8
  <2> QED  BY <1>4, <1>5, <2>1, HitsCombine
<1>9. Hits(CombineTables("insert-only", table, s, primaryKey, hardDelete), k) = Hits(table, k)
  <2>1. \A x \in ToSet(Candidates(s, hardDelete)) : x.key # k
    <3>1. \A x \in ToSet(Candidates(s, hardDelete)) : x \in ToSet(s)
      BY <1>4, SelectRows DEF Candidates, Live
    <3> QED  BY <1>3, <1>4, <3>1
  <2>2. \A x \in ToSet(Candidates(s, hardDelete)) :
            x.key = k => RowKey(x, primaryKey) \in KeysOf(table, primaryKey)
    BY <2>1
  <2> QED  BY <1>4, <1>5, <2>2, InsertLeaves
<1>10. CASE ~(Native /\ keyDeclared) /\ Disposition = "insert-only"
  BY <1>6, <1>9, <1>10
<1>11. CASE ~(Native /\ keyDeclared) /\ Disposition = "merge" /\ ~primaryKey
  <2>1. table' = CombineTables("merge", table, s, FALSE, hardDelete) /\ primaryKey = FALSE
    BY <1>5, <1>6, <1>11
  <2> DEFINE U == Universe \union {row}
  <2>2. IdsTell(U) /\ Sound(table, U, FALSE, hardDelete) /\ Sound(s, U, FALSE, FALSE)
    <3>1. IdsTell(Universe) /\ Sound(table, Universe, FALSE, hardDelete)
      BY <1>2, <2>1, FileFacts DEF TablesOK
    <3>2. \A x \in Universe : x.id # row.id
      <4>1. /\ before \in Seq(Row) /\ batch \in Seq(Row) /\ others \in Seq(Row)
            /\ Len(before) =< MaxExisting /\ Len(batch) =< MaxBatch
            /\ \A i \in 1..Len(before) : before[i].id = i
            /\ \A i \in 1..Len(batch) : batch[i].id = MaxExisting + i
            /\ \A i \in 1..Len(others) : others[i].id = MaxExisting + MaxBatch + i
        BY <1>2 DEF SettingOK
      <4>2. row.id = MaxExisting + MaxBatch + Len(others) + 1
        BY DEF row
      <4>3. Len(before) \in Nat /\ Len(batch) \in Nat /\ Len(others) \in Nat
        BY <4>1
      <4>4. (\A i \in 1..Len(before) : before[i].id # row.id)
            /\ (\A i \in 1..Len(batch) : batch[i].id # row.id)
            /\ (\A i \in 1..Len(others) : others[i].id # row.id)
        BY <4>1, <4>2, <4>3, BoundAssumption
      <4>5. \A x \in Universe : \/ \E i \in 1..Len(before) : x = before[i]
                                \/ \E i \in 1..Len(batch) : x = batch[i]
                                \/ \E i \in 1..Len(others) : x = others[i]
        <5>1. before \in Seq(Row) /\ batch \in Seq(Row) /\ others \in Seq(Row)
          BY <4>1
        <5> QED  BY <5>1, SetOfSeq DEF Universe
      <4> QED  BY <4>4, <4>5
    <3>3. IdsTell(U)
      BY <1>3, <3>1, <3>2 DEF IdsTell
    <3>4. Sound(table, U, FALSE, hardDelete)
      BY <3>1, WiderSound
    <3>5. Sound(s, U, FALSE, FALSE)
      <4>1. 1..Len(s) = {1}
        BY <1>4
      <4> QED  BY <1>4, <4>1 DEF Sound
    <3> QED  BY <3>3, <3>4, <3>5
  <2>3. CombineTables("merge", table, s, FALSE, hardDelete) =
            CombineTables("insert-only", table, s, FALSE, hardDelete)
    <3> HIDE DEF U
    <3> QED  BY <1>5, <2>2, CombineById
  <2> QED  BY <1>9, <2>1, <2>3
<1> QED  BY <1>5, <1>7, <1>8, <1>10, <1>11

\* A job of another run: its row joins, and takes only a row with its key away.
LEMMA OtherLoadsOK ==
    ASSUME IInv, NEW key \in Keys \union {NoKey}, OtherLoads(key)
    PROVE  IInv'
<1> DEFINE row == [id |-> MaxExisting + MaxBatch + Len(others) + 1, key |-> key, del |-> FALSE]
           last == Len(others) + 1
<1>1. /\ Native => key # NoKey
      /\ (Native /\ keyDeclared) \/ ~CannotCombine(Disposition, table, <<row>>, primaryKey, hardDelete)
      /\ table' = LoadedByOthers(row) /\ row \in ToSet(table') /\ synced' = TRUE
      /\ others' = Append(others, row)
      /\ raced' = IF phase = "replace" THEN raced \union {row} ELSE raced
      /\ UNCHANGED <<setting, phase, fetched, unread, faults, erased>>
      /\ keyDeclared' = keyDeclared /\ primaryKey' = primaryKey /\ hardDelete' = hardDelete
      /\ before' = before /\ batch' = batch /\ strategy' = strategy
  BY DEF OtherLoads, setting, read
<1>2. SettingOK /\ TablesOK /\ InsertOnlyOK /\ OthersOK /\ KeysOK
  BY DEF IInv
<1>3. others \in Seq(Row) /\ Len(others) \in Nat
  BY <1>2 DEF SettingOK
<1>4. row \in Row /\ row.key = key /\ ~row.del /\ row.id = MaxExisting + MaxBatch + last
  BY <1>3, BoundAssumption DEF Row
<1> HIDE DEF row
<1>5. /\ others' \in Seq(Row) /\ Len(others') = last /\ others'[last] = row
      /\ \A i \in 1..Len(others) : others'[i] = others[i]
      /\ last \in 1..last
      /\ \A i \in 1..last : i \in 1..Len(others) \/ i = last
      /\ \A i \in 1..Len(others) : i \in 1..last /\ last > i
  BY <1>1, <1>3, <1>4
<1>6. Native' = Native /\ Upserts' = Upserts /\ Deletes' = Deletes /\ Combines' = Combines
  BY <1>1 DEF Native, Upserts, Deletes, Combines
<1>7. \A k : Merged(k)' = Merged(k)
  BY <1>1, <1>6 DEF Merged
<1>8. \A x : x \in ToSet(others') <=> x \in ToSet(others) \/ x = row
  <2> TAKE x
  <2>1. x \in ToSet(others') <=> \E i \in 1..Len(others') : x = others'[i]
    BY <1>5, SetOfSeq
  <2>2. x \in ToSet(others) <=> \E i \in 1..Len(others) : x = others[i]
    BY <1>3, SetOfSeq
  <2> QED  BY <1>5, <2>1, <2>2
<1>9. SettingOK'
  <2>1. \A i \in 1..last : others'[i].id = MaxExisting + MaxBatch + i /\ ~others'[i].del
    <3>1. \A i \in 1..Len(others) : others[i].id = MaxExisting + MaxBatch + i /\ ~others[i].del
      BY <1>2 DEF SettingOK
    <3> HIDE DEF last
    <3> QED  BY <1>4, <1>5, <3>1
  <2>2. (Native => NoNulls(others))
    BY <1>2 DEF SettingOK
  <2>3. Native => NoNulls(others')
    BY <1>1, <1>4, <1>5, <2>2 DEF NoNulls
  <2>4. (Native => NoNulls(batch) /\ NoNulls(others))'
    BY <1>1, <1>2, <1>6, <2>3 DEF SettingOK
  <2>5. (UniqueKeys(before) /\ UniqueKeys(batch))'
    BY <1>1, <1>2 DEF SettingOK, UniqueKeys
  <2>6. SettingOK
    BY <1>2
  <2> HIDE DEF last
  <2> QED  BY <1>1, <1>5, <2>1, <2>4, <2>5, <2>6 DEF SettingOK
<1>10. IdsTell(Universe') /\ (\A x : x \in Universe => x \in Universe') /\ row \in Universe'
  <2>1. IdsTell(Universe)'
    <3>1. SettingOK'
      BY <1>9
    <3>2. (SettingOK => IdsTell(Universe))'
      BY FileFacts, PTL
    <3> QED  BY <3>1, <3>2
  <2>2. \A x : x \in Universe' <=> x \in Universe \/ x = row
    BY <1>1, <1>8 DEF Universe
  <2> QED  BY <2>1, <2>2
<1>11. /\ Sound(table, Universe', primaryKey, hardDelete)
       /\ Sound(fetched, Universe', primaryKey, hardDelete)
  BY <1>2, <1>10, WiderSound DEF TablesOK
<1>12. /\ <<row>> \in Seq(Row) /\ Len(<<row>>) = 1 /\ <<row>>[1] = row
       /\ \A x : x \in ToSet(<<row>>) <=> x = row
       /\ \A byKey, k : k \in KeysOf(<<row>>, byKey) <=> k = RowKey(row, byKey)
  BY <1>4, OneRow
<1>13. \A live : Sound(<<row>>, Universe', primaryKey, live)
  <2>1. <<row>> \in Seq(Row) /\ 1..Len(<<row>>) = {1} /\ <<row>>[1] = row
    BY <1>12
  <2> QED  BY <1>4, <1>10, <2>1 DEF Sound
<1>14. hardDelete \in BOOLEAN /\ primaryKey \in BOOLEAN
       /\ Disposition \in {"merge", "insert-only"} /\ (keyDeclared => primaryKey)
       /\ before \in Seq(Row) /\ batch \in Seq(Row)
  BY <1>2 DEF SettingOK, Disposition
<1>15. table \in Seq(Row) /\ fetched \in Seq(Row)
  BY <1>11 DEF Sound
\* the load of the other run: what is left of the table
<1>16. /\ Sound(table', Universe', primaryKey, hardDelete)
       /\ \A x : x \in ToSet(table) /\ RowKey(x, primaryKey) # RowKey(row, primaryKey)
                     => x \in ToSet(table')
  <2>1. CASE Native /\ keyDeclared
    <3>1. table' = ServerUpsert(table, <<row>>) /\ primaryKey = TRUE
      BY <1>1, <1>14, <2>1 DEF LoadedByOthers, Native
    <3>2. NoNulls(<<row>>)
      BY <1>1, <1>4, <1>12, <2>1 DEF NoNulls
    <3>3. Sound(table, Universe', TRUE, hardDelete) /\ Sound(<<row>>, Universe', TRUE, hardDelete)
      BY <1>11, <1>13, <3>1
    <3>4. /\ Sound(ServerUpsert(table, <<row>>), Universe', TRUE, hardDelete)
          /\ \A x : x \in ToSet(ServerUpsert(table, <<row>>)) <=>
                        \/ x \in ToSet(<<row>>)
                        \/ x \in ToSet(table) /\ RowKey(x, TRUE) \notin KeysOf(<<row>>, TRUE)
      BY <1>10, <3>2, <3>3, UpsertSound
    <3> QED  BY <1>12, <3>1, <3>4
  <2>2. CASE ~(Native /\ keyDeclared)
    <3> DEFINE r == CombineTables(Disposition, table, <<row>>, primaryKey, hardDelete)
    <3>1. table' = r /\ ~CannotCombine(Disposition, table, <<row>>, primaryKey, hardDelete)
      BY <1>1, <2>2 DEF LoadedByOthers
    <3>2. /\ Sound(r, Universe', primaryKey, hardDelete)
          /\ \A x : x \in ToSet(table) /\ RowKey(x, primaryKey) \notin KeysOf(<<row>>, primaryKey)
                        => x \in ToSet(r)
      BY <1>10, <1>11, <1>13, <1>14, <3>1, CombineSound
    <3> HIDE DEF r
    <3> QED  BY <1>12, <3>1, <3>2
  <2> QED  BY <2>1, <2>2
<1>17. table' \in Seq(Row)
  BY <1>16 DEF Sound
<1>18. TablesOK'
  BY <1>1, <1>2, <1>6, <1>11, <1>16 DEF TablesOK
<1>19. InsertOnlyOK'
  <2> SUFFICES ASSUME strategy = "insert-only", erased = {} PROVE IsPrefix(before, table')
    BY <1>1, <1>2 DEF InsertOnlyOK
  <2>1. table' = CombineTables("insert-only", table, <<row>>, primaryKey, hardDelete)
    BY <1>1 DEF LoadedByOthers, Native, Disposition
  <2>2. IsPrefix(before, table)
    BY <1>2 DEF InsertOnlyOK
  <2> QED  BY <1>12, <1>14, <1>15, <2>1, <2>2, InsertKeepsPrefix
<1>20. OthersOK'
  <2>1. \A x : x \in raced => x \in raced'
    BY <1>1
  <2>2. row \in ToSet(table') /\ (phase = "replace" => row \in raced')
    BY <1>1
  <2>3. \A i \in 1..Len(others) :
            others[i].key \in KeysOf(batch, TRUE) => others'[i].key \in KeysOf(batch', TRUE)
    BY <1>1, <1>5
  <2>4. \A i \in 1..Len(others) :
            (\E j \in 1..Len(others) : j > i /\ others[j].key = others[i].key)
               => \E j \in 1..Len(others') : j > i /\ others'[j].key = others'[i].key
    BY <1>5
  <2>5. \A i \in 1..Len(others) :
            \/ others[i] \in ToSet(table) => others[i] \in ToSet(table')
            \/ primaryKey /\ \E j \in 1..Len(others') : j > i /\ others'[j].key = others'[i].key
    <3> SUFFICES ASSUME NEW i \in 1..Len(others), others[i] \in ToSet(table),
                        RowKey(others[i], primaryKey) = RowKey(row, primaryKey)
                 PROVE  primaryKey /\ others[i].key = row.key
      BY <1>5, <1>16
    <3>1. others[i].id # row.id
      <4>1. others[i].id = MaxExisting + MaxBatch + i
        BY <1>2 DEF SettingOK
      <4> QED  BY <1>3, <1>4, <4>1, BoundAssumption
    <3> QED  BY <3>1 DEF RowKey
  <2>6. AccountsFor(ToSet(table))'
    <3> SUFFICES ASSUME NEW i \in 1..Len(others')
                 PROVE  \/ others'[i] \in ToSet(table')
                        \/ others'[i] \in raced'
                        \/ others'[i] \in erased'
                        \/ primaryKey /\ others'[i].key \in KeysOf(batch', TRUE)
                        \/ primaryKey /\ \E j \in 1..Len(others') : j > i /\ others'[j].key = others'[i].key
      BY <1>1 DEF AccountsFor
    <3>1. CASE i \in 1..Len(others)
      <4>1. \/ others[i] \in ToSet(table)
            \/ others[i] \in raced
            \/ others[i] \in erased
            \/ primaryKey /\ others[i].key \in KeysOf(batch, TRUE)
            \/ primaryKey /\ \E j \in 1..Len(others) : j > i /\ others[j].key = others[i].key
        BY <1>2, <3>1 DEF OthersOK, AccountsFor
      <4> QED  BY <1>1, <1>5, <2>1, <2>3, <2>4, <2>5, <3>1, <4>1
    <3>2. CASE i = last
      BY <1>5, <2>2, <3>2
    <3> HIDE DEF last
    <3> QED  BY <1>5, <3>1, <3>2
  <2>7. ASSUME phase = "replace" PROVE AccountsFor(ToSet(fetched) \union unread)'
    <3> SUFFICES ASSUME NEW i \in 1..Len(others')
                 PROVE  \/ others'[i] \in ToSet(fetched) \union unread
                        \/ others'[i] \in raced'
                        \/ others'[i] \in erased'
                        \/ primaryKey /\ others'[i].key \in KeysOf(batch', TRUE)
                        \/ primaryKey /\ \E j \in 1..Len(others') : j > i /\ others'[j].key = others'[i].key
      BY <1>1 DEF AccountsFor
    <3>1. CASE i \in 1..Len(others)
      <4>1. \/ others[i] \in ToSet(fetched) \union unread
            \/ others[i] \in raced
            \/ others[i] \in erased
            \/ primaryKey /\ others[i].key \in KeysOf(batch, TRUE)
            \/ primaryKey /\ \E j \in 1..Len(others) : j > i /\ others[j].key = others[i].key
        BY <1>2, <2>7, <3>1 DEF OthersOK, AccountsFor
      <4> QED  BY <1>1, <1>5, <2>1, <2>3, <2>4, <3>1, <4>1
    <3>2. CASE i = last
      BY <1>5, <2>2, <2>7, <3>2
    <3> HIDE DEF last
    <3> QED  BY <1>5, <3>1, <3>2
  <2> QED  BY <1>1, <2>6, <2>7 DEF OthersOK
<1>21. KeysOK'
  <2>1. \A k : k \in Untouched' => k \in Untouched /\ k # key
    <3>1. \A k : k \in KeysOf(others, TRUE) \/ k = key => k \in KeysOf(others', TRUE)
      BY <1>4, <1>8 DEF KeysOf, RowKey
    <3> QED  BY <3>1 DEF Untouched
  <2> SUFFICES ASSUME NEW k \in Untouched'
               PROVE  /\ erased = {} => KeyOK(table, k)'
                      /\ erased # {} => Hits(table', k) = Hits(Upserts, k)
                      /\ phase = "replace" /\ unread = {} => Hits(fetched, k) = Hits(table', k)
                      /\ phase = "delete" /\ k \notin KeysOf(Deletes, TRUE) => Hits(table', k) = Merged(k)
                      /\ phase = "done" /\ erased = {} => Hits(table', k) = Merged(k)
    BY <1>1, <1>6, <1>7 DEF KeysOK
  <2>2. k \in Untouched /\ k # key
    BY <2>1
  <2>3. Hits(table', k) = Hits(table, k)
    BY <2>2, OthersSpare
  <2>4. /\ erased = {} => KeyOK(table, k)
        /\ erased # {} => Hits(table, k) = Hits(Upserts, k)
        /\ phase = "replace" /\ unread = {} => Hits(fetched, k) = Hits(table, k)
        /\ phase = "delete" /\ k \notin KeysOf(Deletes, TRUE) => Hits(table, k) = Merged(k)
        /\ phase = "done" /\ erased = {} => Hits(table, k) = Merged(k)
    BY <1>2, <2>2 DEF KeysOK
  <2>5. erased = {} => KeyOK(table, k)'
    BY <1>1, <1>7, <2>3, <2>4 DEF KeyOK
  <2> QED  BY <2>3, <2>4, <2>5
<1> QED  BY <1>9, <1>18, <1>19, <1>20, <1>21 DEF IInv

\* Nothing happens.
LEMMA StutterOK == ASSUME IInv, UNCHANGED vars PROVE IInv'
<1>1. /\ UNCHANGED <<table, synced, phase, fetched, unread, faults, others, raced, erased, setting>>
      /\ keyDeclared' = keyDeclared /\ primaryKey' = primaryKey /\ hardDelete' = hardDelete
      /\ before' = before /\ batch' = batch /\ strategy' = strategy
  BY DEF vars, setting, read, history
<1>2. SettingOK /\ TablesOK /\ InsertOnlyOK /\ OthersOK /\ KeysOK
  BY DEF IInv
<1>3. /\ Universe' = Universe /\ Upserts' = Upserts /\ Deletes' = Deletes
      /\ Untouched' = Untouched /\ Native' = Native /\ Combines' = Combines
      /\ \A key : Merged(key)' = Merged(key)
      /\ SettingOK'
  BY <1>1, <1>2, Frame
<1>4. TablesOK' /\ InsertOnlyOK'
  BY <1>1, <1>2, <1>3 DEF TablesOK, InsertOnlyOK
<1>5. OthersOK'
  BY <1>1, <1>2 DEF OthersOK, AccountsFor
<1>6. KeysOK'
  BY <1>1, <1>2, <1>3 DEF KeysOK, KeyOK
<1> QED  BY <1>3, <1>4, <1>5, <1>6 DEF IInv
-----------------------------------------------------------------------------
(* The theorems.                                                           *)

\* From any table, file and setting, whatever the attempts, retries and other runs do, the
\* invariant holds.
THEOREM Invariance == Spec => []IInv
<1>1. Init => IInv
  BY InitOK
<1>2. IInv /\ [Next]_vars => IInv'
  <2> SUFFICES ASSUME IInv, [Next]_vars PROVE IInv'
    OBVIOUS
  <2>0. faults \in Nat /\ faults \in 0..MaxFaults
    BY BoundAssumption DEF IInv, TablesOK
  <2>1. CASE Upsert
    BY <2>1, UpsertOK
  <2>2. CASE Delete
    BY <2>2, DeleteOK
  <2>3. CASE Fetch
    BY <2>3, FetchOK
  <2>4. CASE ReplaceTable
    BY <2>4, ReplaceTableOK
  <2>5. CASE Reject
    <3>1. /\ phase' \in {"start", "failed"} /\ fetched' = <<>> /\ unread' = {}
          /\ faults' \in 0..MaxFaults
          /\ UNCHANGED <<table, synced, setting, history>>
      BY <2>0, <2>5 DEF Reject
    <3> QED  BY <3>1, GiveUpOK
  <2>6. CASE Terminate
    <3>1. /\ phase' \in {"start", "failed"} /\ fetched' = <<>> /\ unread' = {}
          /\ faults' \in 0..MaxFaults
          /\ UNCHANGED <<table, synced, setting, history>>
      BY <2>0, <2>6 DEF Terminate
    <3> QED  BY <3>1, GiveUpOK
  <2>7. CASE Retry
    <3>1. /\ phase' \in {"start", "failed"} /\ fetched' = <<>> /\ unread' = {}
          /\ UNCHANGED <<table, synced, setting, history>>
      BY <2>7 DEF Retry
    <3>2. faults' \in 0..MaxFaults
      BY <2>0, <2>7, BoundAssumption DEF Retry
    <3> QED  BY <3>1, <3>2, GiveUpOK
  <2>8. CASE \E key \in Keys \union {NoKey} : OtherLoads(key)
    BY <2>8, OtherLoadsOK
  <2>9. CASE FetchNamesNoResult
    BY <2>9, FetchNamesNoResultOK
  <2>10. CASE UNCHANGED vars
    BY <2>10, StutterOK
  <2> QED  BY <2>1, <2>2, <2>3, <2>4, <2>5, <2>6, <2>7, <2>8, <2>9, <2>10 DEF Next, Step
<1> QED  BY <1>1, <1>2, PTL DEF Spec

\* Tables stay tables, and a table with rows counts as loaded (HotdataLoadJob.run keeps
\* its types through every path and retry).
THEOREM TypeCorrect == Spec => []TypeOK
<1>1. IInv => TypeOK
  BY DEF IInv, SettingOK, TablesOK, Sound, TypeOK
<1> QED  BY <1>1, Invariance, PTL

\* A merge ends with exactly the merged table whichever way it was applied, natively
\* or by fetch, combine and replace, and whatever earlier attempts left behind, for every
\* key no other run loaded; with exactly the file's rows, if a replace took rows away that
\* the fetch had not returned (HotdataLoadJob.run, _combine_and_replace).
THEOREM MergesConverge == Spec => []MergeConverges
<1>1. IInv => MergeConverges
  BY DEF IInv, KeysOK, Untouched, MergeConverges
<1> QED  BY <1>1, Invariance, PTL

\* insert-only neither changes nor drops a row that was there, over any number of attempts,
\* unless a replace took away rows that the fetch had not returned (combine_tables over
\* its own result).
THEOREM InsertOnlyKeeps == Spec => []InsertOnlyKeepsExisting
<1>1. IInv => InsertOnlyKeepsExisting
  BY DEF IInv, InsertOnlyOK, InsertOnlyKeepsExisting
<1> QED  BY <1>1, Invariance, PTL

\* No attempt adds a row that an earlier one added already (the job is run again from
\* the start after every lost reply).
THEOREM RetriesAreHarmless == Spec => []RetriesNeverDuplicate
<1>1. IInv => RetriesNeverDuplicate
  <2> SUFFICES ASSUME IInv PROVE RetriesNeverDuplicate
    OBVIOUS
  <2>1. table \in Seq(Row) /\ \A i, j \in 1..Len(table) : table[i].id = table[j].id => i = j
    BY DEF IInv, TablesOK, Sound
  <2>2. DOMAIN table = 1..Len(table)
    BY <2>1
  <2> QED  BY <2>1, <2>2 DEF RetriesNeverDuplicate
<1> QED  BY <1>1, Invariance, PTL

\* A row flagged for deletion never lands as live data, on the native path, in a combine
\* or in the first load of an empty table (job_client.py:410).
THEOREM TombstonesStayOut == Spec => []TombstonesNeverLand
<1>1. IInv => TombstonesNeverLand
  <2> SUFFICES ASSUME IInv, hardDelete PROVE \A i \in DOMAIN table : ~table[i].del
    BY DEF TombstonesNeverLand
  <2>1. table \in Seq(Row) /\ \A i \in 1..Len(table) : ~table[i].del
    BY DEF IInv, TablesOK, Sound
  <2>2. DOMAIN table = 1..Len(table)
    BY <2>1
  <2> QED  BY <2>1, <2>2
<1> QED  BY <1>1, Invariance, PTL

\* A row of another run is missing only if its key was written again, if it landed
\* between the fetch and the replace of a combine, or if the fetch did not return it (the
\* read-modify-write of _combine_and_replace; the keyed modes lose nothing).
THEOREM OthersRowsAccounted == Spec => []OthersRowsAreAccountedFor
<1>1. IInv => OthersRowsAreAccountedFor
  <2> SUFFICES ASSUME IInv PROVE OthersRowsAreAccountedFor
    OBVIOUS
  <2>1. others \in Seq(Row) /\ AccountsFor(ToSet(table))
    BY DEF IInv, SettingOK, OthersOK
  <2>2. DOMAIN others = 1..Len(others)
    BY <2>1
  <2> QED  BY <2>1, <2>2 DEF AccountsFor, OthersRowsAreAccountedFor
<1> QED  BY <1>1, Invariance, PTL
-----------------------------------------------------------------------------
(* The merge contract.                                                     *)

\* What another run has loaded so far.
LEMMA OthersCount ==
    ASSUME IInv, NEW key \in Keys \union {NoKey}, OtherLoads(key)
    PROVE  \A k : k \in KeysOf(others, TRUE)' <=> k \in KeysOf(others, TRUE) \/ k = key
<1> DEFINE row == [id |-> MaxExisting + MaxBatch + Len(others) + 1, key |-> key, del |-> FALSE]
<1>1. others' = Append(others, row) /\ others \in Seq(Row) /\ Len(others) \in Nat
  BY DEF OtherLoads, IInv, SettingOK
<1>2. row \in Row /\ row.key = key
  BY <1>1, BoundAssumption DEF Row
<1> HIDE DEF row
<1>3. /\ others' \in Seq(Row) /\ Len(others') = Len(others) + 1
      /\ others'[Len(others) + 1] = row
      /\ \A i \in 1..Len(others) : others'[i] = others[i]
  BY <1>1, <1>2
<1>4. \A k : k \in KeysOf(others', TRUE) <=> \E i \in 1..Len(others') : k = others'[i].key
  <2> TAKE k
  <2>1. \A x : RowKey(x, TRUE) = x.key
    BY DEF RowKey
  <2>2. others' \in Seq(Row)
    BY <1>3
  <2>3. k \in KeysOf(others', TRUE) <=> \E i \in 1..Len(others') : k = RowKey(others'[i], TRUE)
    <3> DEFINE byKey == TRUE
               s == others'
    <3>1. s \in Seq(Row)
      BY <2>2
    <3> HIDE DEF byKey, s
    <3>2. k \in KeysOf(s, byKey) <=> \E i \in 1..Len(s) : k = RowKey(s[i], byKey)
      BY <3>1, KeysOfSeq
    <3> QED  BY <3>2 DEF byKey, s
  <2> QED  BY <2>1, <2>3
<1>5. \A k : k \in KeysOf(others, TRUE) <=> \E i \in 1..Len(others) : k = others[i].key
  BY <1>1, KeysOfSeq DEF RowKey
<1>6. \A i : i \in 1..(Len(others) + 1) <=> i \in 1..Len(others) \/ i = Len(others) + 1
  BY <1>1
<1> SUFFICES ASSUME NEW k
             PROVE  k \in KeysOf(others', TRUE) <=> k \in KeysOf(others, TRUE) \/ k = key
  OBVIOUS
<1>7. ASSUME k \in KeysOf(others', TRUE) PROVE k \in KeysOf(others, TRUE) \/ k = key
  <2>1. PICK i \in 1..(Len(others) + 1) : k = others'[i].key
    BY <1>3, <1>4, <1>7
  <2> QED  BY <1>2, <1>3, <1>5, <1>6, <2>1
<1>8. ASSUME k \in KeysOf(others, TRUE) PROVE k \in KeysOf(others', TRUE)
  <2>1. PICK i \in 1..Len(others) : k = others[i].key
    BY <1>5, <1>8
  <2>2. others'[i].key = k /\ i \in 1..Len(others')
    BY <1>1, <1>3, <2>1
  <2> QED  BY <1>4, <2>2
<1>9. key \in KeysOf(others', TRUE)
  <2>1. Len(others) + 1 \in 1..Len(others')
    BY <1>1, <1>3
  <2> QED  BY <1>2, <1>3, <1>4, <2>1
<1> QED  BY <1>7, <1>8, <1>9

\* A key that no other run loads is never taken back: once it has its merged rows, it
\* keeps them through whatever the job does next, as long as no row is taken unread.
LEMMA MergedStays ==
    ASSUME IInv, IInv', Next, erased' = {}, NEW key \in Untouched', Hits(table, key) = Merged(key)
    PROVE  Hits(table', key) = Merged(key)'
<1>1. CASE \E k \in Keys \union {NoKey} : OtherLoads(k)
  <2>1. PICK k \in Keys \union {NoKey} : OtherLoads(k)
    BY <1>1
  <2>2. Merged(key)' = Merged(key)
    <3>1. /\ before' = before /\ batch' = batch /\ strategy' = strategy
          /\ primaryKey' = primaryKey /\ hardDelete' = hardDelete
      BY <2>1 DEF OtherLoads, setting
    <3>2. Upserts' = Upserts /\ Deletes' = Deletes /\ Native' = Native
      BY <3>1 DEF Upserts, Deletes, Native
    <3> QED  BY <3>1, <3>2 DEF Merged
  <2>3. key # k
    <3>1. k \in KeysOf(others, TRUE)'
      BY <2>1, OthersCount
    <3> QED  BY <3>1 DEF Untouched
  <2>4. Hits(table', key) = Hits(table, key)
    BY <2>1, <2>3, OthersSpare
  <2> QED  BY <2>2, <2>4
<1>2. CASE Step \/ FetchNamesNoResult \/ Terminate \/ Retry
  <2>1. UNCHANGED <<setting, others>>
    BY <1>2 DEF Step, Upsert, Delete, Fetch, FetchNamesNoResult, ReplaceTable, Reject,
                Terminate, Retry, history
  <2>2. Merged(key)' = Merged(key)
    BY <2>1, Frame
  <2>3. CASE Upsert
    BY <2>2, <2>3, UpsertKeys
  <2>4. CASE Delete \/ ReplaceTable
    <3>1. phase' = "done"
      BY <2>4 DEF Delete, ReplaceTable
    <3> QED  BY <3>1 DEF IInv, KeysOK
  <2>5. CASE Fetch \/ FetchNamesNoResult \/ Reject \/ Terminate \/ Retry
    <3>1. table' = table
      BY <2>5 DEF Fetch, FetchNamesNoResult, Reject, Terminate, Retry
    <3> QED  BY <2>2, <3>1
  <2> QED  BY <1>2, <2>3, <2>4, <2>5 DEF Step
<1> QED  BY <1>1, <1>2 DEF Next

\* What KeyState says of a key: KeyIs(state, key).
KeyIs(state, key) ==
    /\ key \notin Untouched => state = "shared"
    /\ key \in Untouched /\ erased = {} =>
           state = IF Hits(table, key) = Merged(key) THEN "merged" ELSE "first"
    /\ key \in Untouched /\ erased # {} =>
           state = IF Hits(table, key) = Hits(Upserts, key) THEN "file" ELSE "first"

KeyStatesOK ==
    /\ KeyState = [key \in Keys \union {NoKey} |-> KeyState[key]]
    /\ \A key \in Keys \union {NoKey} : KeyIs(KeyState[key], key)

LEMMA KeyStates == KeyStatesOK
<1>1. KeyState = [key \in Keys \union {NoKey} |-> KeyState[key]]
  BY DEF KeyState
<1> SUFFICES ASSUME NEW key \in Keys \union {NoKey} PROVE KeyIs(KeyState[key], key)
  BY <1>1 DEF KeyStatesOK
<1> QED  BY DEF KeyIs, KeyState, Untouched

\* An attempt's step merges some keys, or leaves the table to the file.
LEMMA StepMerges ==
    ASSUME IInv, IInv', Step \/ FetchNamesNoResult \/ Terminate \/ (Retry /\ phase # "done")
    PROVE  \/ \E S \in SUBSET (Keys \union {NoKey}) : Contract!Merge(S)
           \/ Contract!Overwrite
<1> DEFINE P == Keys \union {NoKey}
           S == {key \in P : KeyState[key] = "first" /\ KeyState'[key] = "merged"}
<1>1. /\ UNCHANGED <<setting, others>> /\ phase # "done" /\ Next
      /\ erased' = erased \/ (phase' = "done" /\ erased' = erased \union unread)
  BY DEF Step, Upsert, Delete, Fetch, FetchNamesNoResult, ReplaceTable, Reject, Terminate,
         Retry, history, Next
<1>2. Untouched' = Untouched /\ Upserts' = Upserts
  BY <1>1, Frame
<1>3. KeyState = [key \in P |-> KeyState[key]] /\ \A key \in P : KeyIs(KeyState[key], key)
  BY KeyStates DEF KeyStatesOK
<1>4. KeyState' = [key \in P |-> KeyState'[key]] /\ \A key \in P : KeyIs(KeyState[key], key)'
  <2>1. KeyStatesOK'
    BY KeyStates, PTL
  <2> QED  BY <2>1 DEF KeyStatesOK
<1>5. CASE erased' = {}
  <2>1. erased = {}
    BY <1>1, <1>5
  <2>2. \A key \in Untouched : Hits(table, key) = Merged(key) => Hits(table', key) = Merged(key)'
    BY <1>1, <1>2, <1>5, MergedStays
  <2>3. KeyState' = [key \in P |-> IF key \in S THEN "merged" ELSE KeyState[key]]
    <3>1. \A key \in P : KeyState'[key] = IF key \in S THEN "merged" ELSE KeyState[key]
      BY <1>2, <1>3, <1>4, <1>5, <2>1, <2>2 DEF KeyIs
    <3> HIDE DEF S, P
    <3> QED  BY <1>4, <3>1
  <2>4. phase' = "done" => \A key \in P : KeyState'[key] # "first"
    <3>1. phase' = "done" => \A key \in Untouched' : Hits(table', key) = Merged(key)'
      BY <1>5 DEF IInv, KeysOK
    <3> QED  BY <1>4, <1>5, <3>1 DEF KeyIs
  <2>5. Contract!Merge(S)
    <3>1. \A key \in S : KeyState[key] = "first"
      OBVIOUS
    <3> HIDE DEF S
    <3> QED  BY <1>1, <2>3, <2>4, <3>1 DEF Contract!Merge
  <2>6. S \in SUBSET P
    OBVIOUS
  <2> QED  BY <2>5, <2>6
<1>6. CASE erased' # {}
  <2>1. \A key \in P : KeyState'[key] = IF key \in Untouched THEN "file" ELSE "shared"
    <3>1. \A key \in Untouched' : Hits(table', key) = Hits(Upserts, key)'
      BY <1>6 DEF IInv, KeysOK
    <3> QED  BY <1>2, <1>4, <1>6, <3>1 DEF KeyIs
  <2>2. CASE erased = {}
    <3>1. \A key \in P : KeyState[key] = "shared" <=> key \notin Untouched
      BY <1>3, <2>2 DEF KeyIs
    <3>2. KeyState' = [key \in P |-> IF KeyState[key] = "shared" THEN "shared" ELSE "file"]
      <4>1. \A key \in P : KeyState'[key] = IF KeyState[key] = "shared" THEN "shared" ELSE "file"
        BY <2>1, <3>1
      <4> HIDE DEF P
      <4> QED  BY <1>4, <4>1
    <3>3. phase' = "done"
      BY <1>1, <1>6, <2>2
    <3> QED  BY <1>1, <3>2, <3>3 DEF Contract!Overwrite
  <2>3. CASE erased # {}
    <3>1. \A key \in P : KeyState[key] = IF key \in Untouched THEN "file" ELSE "shared"
      <4>1. \A key \in Untouched : Hits(table, key) = Hits(Upserts, key)
        BY <2>3 DEF IInv, KeysOK
      <4> QED  BY <1>3, <2>3, <4>1 DEF KeyIs
    <3>2. KeyState' = [key \in P |-> IF key \in {} THEN "merged" ELSE KeyState[key]]
      <4>1. \A key \in P : KeyState'[key] = IF key \in {} THEN "merged" ELSE KeyState[key]
        BY <2>1, <3>1
      <4> HIDE DEF P
      <4> QED  BY <1>4, <4>1
    <3>3. \A key \in P : KeyState'[key] # "first"
      BY <2>1
    <3>4. Contract!Merge({})
      BY <1>1, <3>2, <3>3 DEF Contract!Merge
    <3> QED  BY <3>4
  <2> QED  BY <2>2, <2>3
<1> QED  BY <1>5, <1>6

\* A job of another run takes its key out of the contract, and touches no other.
LEMMA OthersShare ==
    ASSUME IInv, IInv', NEW key \in Keys \union {NoKey}, OtherLoads(key)
    PROVE  Contract!Share(key)
<1> DEFINE P == Keys \union {NoKey}
<1>1. /\ phase' = phase /\ erased' = erased /\ Next
      /\ before' = before /\ batch' = batch /\ strategy' = strategy
      /\ primaryKey' = primaryKey /\ hardDelete' = hardDelete
  BY DEF OtherLoads, setting, Next
<1>2. \A k : k \in KeysOf(others, TRUE)' <=> k \in KeysOf(others, TRUE) \/ k = key
  BY OthersCount
<1>3. Upserts' = Upserts /\ \A k : Merged(k)' = Merged(k)
  <2>1. Upserts' = Upserts /\ Deletes' = Deletes /\ Native' = Native
    BY <1>1 DEF Upserts, Deletes, Native
  <2> QED  BY <1>1, <2>1 DEF Merged
<1>4. \A k : k # key => Hits(table', k) = Hits(table, k)
  BY OthersSpare
<1>5. KeyState' = [KeyState EXCEPT ![key] = "shared"]
  <2>1. KeyState = [k \in P |-> KeyState[k]] /\ \A k \in P : KeyIs(KeyState[k], k)
    BY KeyStates DEF KeyStatesOK
  <2>2. KeyState' = [k \in P |-> KeyState'[k]] /\ \A k \in P : KeyIs(KeyState[k], k)'
    <3>1. KeyStatesOK'
      BY KeyStates, PTL
    <3> QED  BY <3>1 DEF KeyStatesOK
  <2>3. \A k \in P : k \in Untouched' <=> k \in Untouched /\ k # key
    BY <1>2 DEF Untouched
  <2>4. \A k \in P : KeyState'[k] = IF k = key THEN "shared" ELSE KeyState[k]
    BY <1>1, <1>3, <1>4, <2>1, <2>2, <2>3 DEF KeyIs
  <2> HIDE DEF P
  <2> QED  BY <2>1, <2>2, <2>4
<1> QED  BY <1>1, <1>5 DEF Contract!Share

\* Every way to apply the file, with every retry and beside every other run, implements
\* the contract: a key is merged once and stays merged, success is reported only when
\* every key is, and a table replaced unread is the file's as a whole
\* (HotdataLoadJob.run).
THEOREM KeepsTheContract == Spec => ImplementsMergeContract
<1>1. Init => Contract!Init
  <2> SUFFICES ASSUME Init PROVE Contract!Init
    OBVIOUS
  <2>1. others = <<>> /\ phase = "start" /\ erased = {}
    BY DEF Init
  <2>2. \A key : key \notin KeysOf(others, TRUE)
    BY <2>1 DEF KeysOf, ToSet
  <2>3. KeyState \in [Keys \union {NoKey} -> {"first", "merged"}]
    BY <2>1, <2>2 DEF KeyState
  <2> QED  BY <2>1, <2>3 DEF Contract!Init
<1>2. IInv /\ IInv' /\ [Next]_vars => [Contract!Next]_Contract!vars
  <2> SUFFICES ASSUME IInv, IInv', [Next]_vars
               PROVE  Contract!Next \/ UNCHANGED Contract!vars
    OBVIOUS
  <2>1. CASE Step \/ FetchNamesNoResult \/ Terminate \/ (Retry /\ phase # "done")
    BY <2>1, StepMerges DEF Contract!Next
  <2>2. CASE Retry /\ phase = "done"
    <3>1. /\ phase' # "done" /\ UNCHANGED <<table, others, erased, setting>>
      BY <2>2 DEF Retry, history
    <3>2. Upserts' = Upserts /\ \A key : Merged(key)' = Merged(key)
      BY <3>1, Frame
    <3>3. KeyState' = KeyState
      BY <3>1, <3>2 DEF KeyState
    <3> QED  BY <2>2, <3>1, <3>3 DEF Contract!Next, Contract!Repeat
  <2>3. CASE \E key \in Keys \union {NoKey} : OtherLoads(key)
    BY <2>3, OthersShare DEF Contract!Next
  <2>4. CASE UNCHANGED vars
    <3>1. UNCHANGED <<table, others, erased, setting, phase>>
      BY <2>4 DEF vars, history
    <3>2. Upserts' = Upserts /\ \A key : Merged(key)' = Merged(key)
      BY <3>1, Frame
    <3>3. KeyState' = KeyState
      BY <3>1, <3>2 DEF KeyState
    <3> QED  BY <3>1, <3>3 DEF Contract!vars
  <2> QED  BY <2>1, <2>2, <2>3, <2>4 DEF Next
<1> QED  BY <1>1, <1>2, Invariance, PTL DEF Spec, ImplementsMergeContract, Contract!Spec
=============================================================================
