------------------------- MODULE TableLayout_proofs --------------------------
(***************************************************************************)
(* Theorems about TableLayout, for any columns and any lists of entries a  *)
(* user may write.                                                         *)
(***************************************************************************)
EXTENDS TableLayout, WellFoundedInduction, TLAPS

\* Loading again what created the table finds it as declared: what the server fills
\* in is where the declaration leaves something open.
LEMMA CreationMatches == stored = Established(Declared) => LayoutMatches
<1> DEFINE D == Declared
<1> SUFFICES ASSUME stored = Established(D) PROVE LayoutMatches
  OBVIOUS
<1> HIDE DEF D
<1>1. /\ stored.partition = D.partition
      /\ DOMAIN stored.sort = DOMAIN D.sort
      /\ \A i \in DOMAIN D.sort :
            stored.sort[i] =
                [column    |-> D.sort[i].column,
                 direction |-> IF D.sort[i].direction = "unset"
                               THEN Direction ELSE D.sort[i].direction,
                 nulls     |-> IF D.sort[i].nulls = "unset"
                               THEN Nulls ELSE D.sort[i].nulls]
  BY DEF Established
<1>2. \A i \in DOMAIN D.sort :
          /\ stored.sort[i].column = D.sort[i].column
          /\ D.sort[i].direction # "unset" => stored.sort[i].direction = D.sort[i].direction
          /\ D.sort[i].nulls # "unset" => stored.sort[i].nulls = D.sort[i].nulls
  <2> TAKE i \in DOMAIN D.sort
  <2> DEFINE key == D.sort[i]
  <2>1. stored.sort[i] =
           [column    |-> key.column,
            direction |-> IF key.direction = "unset" THEN Direction ELSE key.direction,
            nulls     |-> IF key.nulls = "unset" THEN Nulls ELSE key.nulls]
    BY <1>1
  <2> HIDE DEF key
  <2>2. /\ stored.sort[i].column = key.column
        /\ key.direction # "unset" => stored.sort[i].direction = key.direction
        /\ key.nulls # "unset" => stored.sort[i].nulls = key.nulls
    BY <2>1
  <2> QED
    BY <2>2 DEF key
<1>3. Declared = D
  BY DEF D
<1>4. /\ stored.partition = Declared.partition
      /\ DOMAIN stored.sort = DOMAIN Declared.sort
      /\ \A i \in DOMAIN Declared.sort :
            /\ stored.sort[i].column = Declared.sort[i].column
            /\ Declared.sort[i].direction # "unset" =>
                  stored.sort[i].direction = Declared.sort[i].direction
            /\ Declared.sort[i].nulls # "unset" =>
                  stored.sort[i].nulls = Declared.sort[i].nulls
  BY <1>1, <1>2, <1>3
<1> QED
  BY <1>4 DEF LayoutMatches

\* What LayoutMatches finds equal, field by field.
LEMMA MatchIsByField ==
    ASSUME LayoutMatches, NEW i \in DOMAIN stored.sort,
           NEW field \in {"column", "direction", "nulls"}
    PROVE  Declared.sort[i][field] \in {"unset", stored.sort[i][field]}
  BY DEF LayoutMatches

\* What the schema declares is a function of its hints.
LEMMA SameHints ==
    ASSUME UNCHANGED schema
    PROVE  Declared' = Declared /\ DeclaresLayout' = DeclaresLayout
<1>1. /\ partitionFlags' = partitionFlags /\ sortFlags' = sortFlags
      /\ partitionHint' = partitionHint /\ sortHint' = sortHint
  BY DEF schema
<1>2. PartitionOfFlags' = PartitionOfFlags
  BY <1>1 DEF PartitionOfFlags
<1>3. SortOfFlags' = SortOfFlags
  BY <1>1 DEF SortOfFlags
<1>4. Declared' = Declared
  BY <1>1, <1>2, <1>3 DEF Declared
<1> QED
  BY <1>4 DEF DeclaresLayout

\* A change of the declaration, or of the table, takes the last load's verdict back.
LEMMA VerdictsAreFresh ==
    ASSUME [Next]_vars, outcome' \in {"warned", "silent"}
    PROVE  \/ CompareLayout
           \/ UNCHANGED vars
  BY DEF Next, HintColumns, Adapt, EditSchema, RefuseLayout, CreateTable,
         ResumeElsewhere, CreateByJob, CompareRaises, Edited, vars

\* A load warns only of a table that its declaration would not have made (or that it
\* could not read), and is silent only over one that has all it declares
\* (_layout_already_matches, over any declarations and changes of them).
THEOREM WarningsAreJustified == Spec => []WarnsForCause
<1>1. Init => WarnsForCause
  BY DEF Init, WarnsForCause
<1>2. WarnsForCause /\ [Next]_vars => WarnsForCause'
  <2> SUFFICES ASSUME WarnsForCause, [Next]_vars PROVE WarnsForCause'
    OBVIOUS
  <2>1. CASE UNCHANGED vars
    <3>1. Declared' = Declared /\ DeclaresLayout' = DeclaresLayout
      BY <2>1, SameHints DEF vars
    <3> QED
      BY <2>1, <3>1 DEF WarnsForCause, Established, vars, table
  <2>2. CASE CompareLayout
    <3>1. Declared' = Declared /\ DeclaresLayout' = DeclaresLayout /\ stored' = stored
      BY <2>2, SameHints DEF CompareLayout, table
    <3>2. CASE outcome' = "warned"
      BY <2>2, <3>1, <3>2, CreationMatches DEF CompareLayout, WarnsForCause, Established
    <3>3. CASE outcome' = "silent" /\ DeclaresLayout
      <4>1. LayoutMatches
        BY <2>2, <3>3 DEF CompareLayout
      <4>2. /\ stored.partition = Declared.partition
            /\ DOMAIN stored.sort = DOMAIN Declared.sort
        BY <4>1 DEF LayoutMatches
      <4> QED
        BY <3>1, <3>3, <4>1, <4>2, MatchIsByField DEF WarnsForCause
    <3> QED
      BY <3>1, <3>2, <3>3 DEF WarnsForCause
  <2>3. CASE outcome' \notin {"warned", "silent"}
    BY <2>3 DEF WarnsForCause
  <2> QED
    BY <2>1, <2>2, <2>3, VerdictsAreFresh
<1> QED
  BY <1>1, <1>2, PTL DEF Spec

-----------------------------------------------------------------------------
(* The columns with a hint: the recursion of Flagged.                      *)

\* Every set of naturals has a least member.
LEMMA LeastNumber ==
    ASSUME NEW S \in SUBSET Nat, S # {}
    PROVE  \E x \in S : \A y \in S : x =< y
<1> DEFINE Less == {pair \in Nat \X Nat : pair[1] < pair[2]}
<1>1. IsWellFoundedOn(Less, Nat)
  BY NatLessThanWellFounded DEF OpToRel
<1>2. \A x, y \in Nat : <<y, x>> \notin Less => x =< y
  OBVIOUS
<1> HIDE DEF Less
<1>3. PICK x \in S : \A y \in S : <<y, x>> \notin Less
  BY <1>1, WFMin
<1>4. \A y \in S : x =< y
  BY <1>2, <1>3
<1> QED  BY <1>4

\* Induction up to N, for a set of numbers: the least number that is missing has its
\* predecessor in the set.
LEMMA UpTo ==
    ASSUME NEW N \in Nat, NEW S, 0 \in S, \A n \in 1..N : n - 1 \in S => n \in S
    PROVE  0..N \subseteq S
<1> DEFINE Missing == {n \in 0..N : n \notin S}
<1>1. SUFFICES ASSUME Missing # {} PROVE FALSE
  OBVIOUS
<1>2. PICK n \in Missing : \A k \in Missing : n =< k
  <2>1. Missing \in SUBSET Nat
    OBVIOUS
  <2> HIDE DEF Missing
  <2> QED  BY <1>1, <2>1, LeastNumber
<1>3. n \in 1..N /\ n - 1 \in 0..N /\ n - 1 \in S
  BY <1>2
<1> QED  BY <1>2, <1>3

\* g is the recursion over 0..N that starts at base and goes on by step.
Unfolds(g, N, base, step) ==
    /\ g[0] = base
    /\ \A n \in 1..N : g[n] = step[n][g[n - 1]]

\* Every recursion over 0..N has a function that satisfies it, so that the recursive
\* function in Flagged is what its definition says.
LEMMA Recursion ==
    ASSUME NEW N \in Nat, NEW T, NEW base \in T, NEW step \in [1..N -> [T -> T]]
    PROVE  \E g \in [0..N -> T] : Unfolds(g, N, base, step)
<1> DEFINE Reached(m) == \E g \in [0..m -> T] : Unfolds(g, m, base, step)
           S == {m \in 0..N : Reached(m)}
<1>1. Reached(0)
  <2> DEFINE g == [n \in 0..0 |-> base]
  <2>1. g \in [0..0 -> T] /\ g[0] = base
    OBVIOUS
  <2> HIDE DEF g
  <2> QED  BY <2>1 DEF Unfolds
<1>2. ASSUME NEW m \in 1..N, Reached(m - 1)
      PROVE  Reached(m)
  <2>1. PICK g \in [0..(m - 1) -> T] : Unfolds(g, m - 1, base, step)
    BY <1>2
  <2> DEFINE h == [n \in 0..m |-> IF n = m THEN step[m][g[m - 1]] ELSE g[n]]
  <2>2. g[m - 1] \in T /\ step[m][g[m - 1]] \in T
    OBVIOUS
  <2>3. h \in [0..m -> T] /\ h[0] = base
    BY <2>1, <2>2 DEF Unfolds
  <2>4. ASSUME NEW n \in 1..m
        PROVE  h[n] = step[n][h[n - 1]]
    <3>1. h[n - 1] = g[n - 1]
      OBVIOUS
    <3>2. CASE n = m
      <4>1. h[m] = step[m][g[m - 1]]
        OBVIOUS
      <4> HIDE DEF h
      <4> QED  BY <3>1, <3>2, <4>1
    <3>3. CASE n # m
      <4>1. n \in 1..(m - 1)
        BY <3>3
      <4>2. h[n] = g[n]
        BY <4>1
      <4>3. g[n] = step[n][g[n - 1]]
        BY <2>1, <4>1 DEF Unfolds
      <4> QED  BY <3>1, <4>2, <4>3
    <3> QED  BY <3>2, <3>3
  <2> HIDE DEF h
  <2> QED  BY <2>3, <2>4 DEF Unfolds
<1> HIDE DEF Reached
<1>3. 0 \in S /\ \A n \in 1..N : n - 1 \in S => n \in S
  BY <1>1, <1>2
<1>4. N \in S
  <2> HIDE DEF S
  <2>1. 0..N \subseteq S
    BY <1>3, UpTo
  <2>2. N \in 0..N
    OBVIOUS
  <2> QED  BY <2>1, <2>2
<1> QED  BY <1>4 DEF Reached

\* The stages of Flagged are the recursion they say they are.
LEMMA FlaggedUnfolds ==
    ASSUME NEW flags
    PROVE  \E g : /\ g[0] = <<>>
                  /\ \A n \in 1..Len(ColumnOrder) :
                         g[n] = IF ColumnOrder[n] \in flags
                                THEN Append(g[n - 1], ColumnOrder[n]) ELSE g[n - 1]
                  /\ Flagged(flags) = g[Len(ColumnOrder)]
<1> DEFINE N == Len(ColumnOrder)
           T == ToSet(ColumnOrder)
           chosen == CHOOSE g : g = [n \in 0..N |->
                         IF n = 0 THEN <<>>
                         ELSE IF ColumnOrder[n] \in flags THEN Append(g[n - 1], ColumnOrder[n])
                         ELSE g[n - 1]]
           step == [n \in 1..N |-> [q \in Seq(T) |->
                         IF ColumnOrder[n] \in flags THEN Append(q, ColumnOrder[n]) ELSE q]]
<1>1. ColumnOrder \in Seq(T)
  BY LayoutAssumption
<1>2. N \in Nat /\ <<>> \in Seq(T) /\ \A n \in 1..N : ColumnOrder[n] \in T
  BY <1>1
<1> HIDE DEF T
<1>3. step \in [1..N -> [Seq(T) -> Seq(T)]]
  <2>1. ASSUME NEW n \in 1..N, NEW q \in Seq(T)
        PROVE  (IF ColumnOrder[n] \in flags THEN Append(q, ColumnOrder[n]) ELSE q) \in Seq(T)
    <3>1. ColumnOrder[n] \in T
      BY <1>2
    <3> QED  BY <3>1
  <2> QED  BY <2>1
<1>4. \A n \in 1..N, q \in Seq(T) :
          step[n][q] = IF ColumnOrder[n] \in flags THEN Append(q, ColumnOrder[n]) ELSE q
  OBVIOUS
<1>5. Flagged(flags) = chosen[N]
  BY DEF Flagged
<1> HIDE DEF step, N
<1>6. PICK g \in [0..N -> Seq(T)] : Unfolds(g, N, <<>>, step)
  BY <1>2, <1>3, Recursion
<1>7. /\ \A n \in 1..N : n - 1 \in 0..N /\ g[n - 1] \in Seq(T)
      /\ \A n \in 0..N : n = 0 \/ n \in 1..N
      /\ 0 \in 0..N /\ \A n \in 1..N : n \in 0..N /\ n # 0
  BY <1>2
<1>8. \A n \in 0..N : g[n] = IF n = 0 THEN <<>>
                             ELSE IF ColumnOrder[n] \in flags THEN Append(g[n - 1], ColumnOrder[n])
                             ELSE g[n - 1]
  BY <1>4, <1>6, <1>7 DEF Unfolds
<1>9. g = [n \in 0..N |-> IF n = 0 THEN <<>>
                          ELSE IF ColumnOrder[n] \in flags THEN Append(g[n - 1], ColumnOrder[n])
                          ELSE g[n - 1]]
  <2>1. DOMAIN g = 0..N /\ g = [n \in DOMAIN g |-> g[n]]
    OBVIOUS
  <2> QED  BY <1>8, <2>1
<1>10. chosen = [n \in 0..N |-> IF n = 0 THEN <<>>
                               ELSE IF ColumnOrder[n] \in flags
                                    THEN Append(chosen[n - 1], ColumnOrder[n])
                               ELSE chosen[n - 1]]
  BY <1>9
<1> HIDE DEF chosen
<1>11. \A n \in 0..N : chosen[n] = IF n = 0 THEN <<>>
                                  ELSE IF ColumnOrder[n] \in flags
                                       THEN Append(chosen[n - 1], ColumnOrder[n])
                                  ELSE chosen[n - 1]
  BY <1>10
<1>12. chosen[0] = <<>> /\ \A n \in 1..N :
          chosen[n] = IF ColumnOrder[n] \in flags
                      THEN Append(chosen[n - 1], ColumnOrder[n]) ELSE chosen[n - 1]
  BY <1>7, <1>11
<1> QED  BY <1>5, <1>12 DEF N

\* A sequence has a row more in its set when one is appended.
LEMMA AppendedSet ==
    ASSUME NEW T, NEW s \in Seq(T), NEW x \in T
    PROVE  Append(s, x) \in Seq(T) /\ ToSet(Append(s, x)) = ToSet(s) \union {x}
<1> DEFINE t == Append(s, x)
<1>1. /\ t \in Seq(T) /\ DOMAIN s = 1..Len(s) /\ DOMAIN t = 1..(Len(s) + 1)
      /\ t[Len(s) + 1] = x /\ \A i \in 1..Len(s) : t[i] = s[i]
      /\ \A i \in 1..(Len(s) + 1) : i \in 1..Len(s) \/ i = Len(s) + 1
      /\ \A i \in 1..Len(s) : i \in 1..(Len(s) + 1)
      /\ Len(s) + 1 \in 1..(Len(s) + 1)
  OBVIOUS
<1> HIDE DEF t
<1>2. \A y : y \in ToSet(t) <=> y \in ToSet(s) \/ y = x
  BY <1>1 DEF ToSet
<1> QED  BY <1>1, <1>2 DEF t

\* Flagged lists the table's columns that have the hint.
LEMMA FlaggedColumns ==
    ASSUME NEW flags
    PROVE  /\ Flagged(flags) \in Seq(ToSet(ColumnOrder))
           /\ ToSet(Flagged(flags)) = ToSet(ColumnOrder) \cap flags
<1> DEFINE N == Len(ColumnOrder)
           T == ToSet(ColumnOrder)
<1>1. PICK g : /\ g[0] = <<>>
               /\ \A n \in 1..N : g[n] = IF ColumnOrder[n] \in flags
                                         THEN Append(g[n - 1], ColumnOrder[n]) ELSE g[n - 1]
               /\ Flagged(flags) = g[N]
  BY FlaggedUnfolds
<1>2. /\ N \in Nat /\ \A n \in 1..N : ColumnOrder[n] \in T
      /\ \A x : x \in T <=> \E k \in 1..N : x = ColumnOrder[k]
  <2>1. ColumnOrder \in Seq(T)
    BY LayoutAssumption
  <2>2. N \in Nat /\ DOMAIN ColumnOrder = 1..N
    BY <2>1
  <2> QED  BY <2>2 DEF ToSet
<1> HIDE DEF T, N
<1> DEFINE Listed(n) == /\ g[n] \in Seq(T)
                        /\ \A x : x \in ToSet(g[n]) <=>
                                      x \in flags /\ \E k \in 1..n : x = ColumnOrder[k]
           S == {n \in 0..N : Listed(n)}
<1>3. Listed(0)
  <2>1. g[0] = <<>> /\ 1..0 = {} /\ <<>> \in Seq(T)
    BY <1>1
  <2>2. ToSet(<<>>) = {}
    BY DEF ToSet
  <2> QED  BY <2>1, <2>2
<1>4. ASSUME NEW n \in 1..N, Listed(n - 1)
      PROVE  Listed(n)
  <2> DEFINE c == ColumnOrder[n]
             q == g[n - 1]
  <2>1. c \in T /\ q \in Seq(T) /\ \A k : k \in 1..n <=> k = n \/ k \in 1..(n - 1)
    BY <1>2, <1>4
  <2>2. g[n] = IF c \in flags THEN Append(q, c) ELSE q
    BY <1>1
  <2>3. Append(q, c) \in Seq(T) /\ ToSet(Append(q, c)) = ToSet(q) \union {c}
    BY <2>1, AppendedSet
  <2>4. g[n] \in Seq(T)
    BY <2>1, <2>2, <2>3
  <2>5. \A x : x \in ToSet(g[n]) <=> x \in ToSet(q) \/ (c \in flags /\ x = c)
    BY <2>2, <2>3
  <2>6. \A x : x \in ToSet(q) <=> x \in flags /\ \E k \in 1..(n - 1) : x = ColumnOrder[k]
    BY <1>4
  <2> QED  BY <2>1, <2>4, <2>5, <2>6
<1> HIDE DEF Listed
<1>5. N \in S
  <2>1. 0 \in S /\ \A n \in 1..N : n - 1 \in S => n \in S
    <3>1. 0 \in 0..N /\ \A n \in 1..N : n \in 0..N
      BY <1>2
    <3> QED  BY <1>3, <1>4, <3>1
  <2> HIDE DEF S
  <2>2. 0..N \subseteq S /\ N \in 0..N
    BY <1>2, <2>1, UpTo
  <2> QED  BY <2>2
<1>6. Listed(N)
  BY <1>5
<1>7. \A x : x \in ToSet(g[N]) <=> x \in T /\ x \in flags
  BY <1>2, <1>6 DEF Listed
<1> QED  BY <1>1, <1>6, <1>7 DEF Listed, T

-----------------------------------------------------------------------------
(* From the keys the user writes to the table.                             *)

\* Lists of entries and of keys have the same places.
LEMMA SamePlaces ==
    ASSUME NEW s, s \in Seq(ToSet(s)), NEW f, f = [i \in DOMAIN s |-> f[i]]
    PROVE  f \in Seq(ToSet(f)) /\ DOMAIN f = DOMAIN s /\ (f = <<>> <=> s = <<>>)
<1>1. DOMAIN s = 1..Len(s) /\ Len(s) \in Nat /\ (s = <<>> <=> Len(s) = 0)
  <2> DEFINE T == ToSet(s)
  <2>1. s \in Seq(T)
    OBVIOUS
  <2> HIDE DEF T
  <2> QED  BY <2>1
<1>2. DOMAIN f = 1..Len(s) /\ f = [i \in 1..Len(s) |-> f[i]]
  BY <1>1
<1>3. \A i \in 1..Len(s) : f[i] \in ToSet(f)
  BY <1>2 DEF ToSet
<1>4. f \in Seq(ToSet(f)) /\ Len(f) = Len(s)
  <2> DEFINE T == ToSet(f)
  <2>1. \A i \in 1..Len(s) : f[i] \in T
    BY <1>3
  <2> HIDE DEF T
  <2>2. f \in [1..Len(s) -> T]
    BY <1>2, <2>1
  <2>3. f \in Seq(T) /\ Len(f) = Len(s)
    BY <1>1, <2>2
  <2> QED  BY <2>3 DEF T
<1>5. f = <<>> <=> Len(f) = 0
  <2> DEFINE T == ToSet(f)
  <2>1. f \in Seq(T)
    BY <1>4
  <2> HIDE DEF T
  <2> QED  BY <2>1
<1> QED  BY <1>1, <1>2, <1>4, <1>5

\* What hotdata_adapter stores are the keys, through its mappings and back.
LEMMA Normalised ==
    ASSUME NEW partition, partition \in Seq(ToSet(partition)),
           NEW sort, sort \in Seq(ToSet(sort))
    PROVE  LET p == PartitionDicts(PartitionKeys(partition))
               s == SortDicts(SortKeys(sort))
           IN  /\ p \in Seq(ToSet(p)) /\ (p = <<>> <=> partition = <<>>)
               /\ s \in Seq(ToSet(s)) /\ (s = <<>> <=> sort = <<>>)
               /\ PartitionKeys(p) = PartitionKeys(partition)
               /\ SortKeys(s) = SortKeys(sort)
<1> DEFINE pk == PartitionKeys(partition)
           p  == PartitionDicts(pk)
           sk == SortKeys(sort)
           s  == SortDicts(sk)
<1>1. /\ DOMAIN pk = DOMAIN partition /\ DOMAIN p = DOMAIN partition
      /\ DOMAIN sk = DOMAIN sort /\ DOMAIN s = DOMAIN sort
  BY DEF PartitionKeys, PartitionDicts, SortKeys, SortDicts
<1>2. /\ p = [i \in DOMAIN partition |-> p[i]]
      /\ s = [i \in DOMAIN sort |-> s[i]]
  BY <1>1 DEF PartitionDicts, SortDicts
<1>3. /\ p \in Seq(ToSet(p)) /\ (p = <<>> <=> partition = <<>>)
      /\ s \in Seq(ToSet(s)) /\ (s = <<>> <=> sort = <<>>)
  <2> HIDE DEF p, s
  <2> QED  BY <1>2, SamePlaces
<1>4. PartitionKeys(p) = pk
  <2>1. ASSUME NEW i \in DOMAIN partition PROVE PartitionKey(p[i]) = pk[i]
    <3>1. pk[i] = PartitionKey(partition[i])
      BY DEF PartitionKeys
    <3>2. p[i] = [form |-> "mapping", column |-> pk[i].column, transform |-> pk[i].transform]
      BY <1>1 DEF PartitionDicts
    <3> HIDE DEF p, pk
    <3> DEFINE e == partition[i]
    <3> HIDE DEF e
    <3>3. pk[i] = [column |-> e.column,
                   transform |-> IF e.form = "name" \/ e.transform = "unset"
                                 THEN "identity" ELSE e.transform]
      BY <3>1 DEF PartitionKey, e
    <3>4. pk[i].transform # "unset" /\ pk[i] = [column |-> pk[i].column, transform |-> pk[i].transform]
      BY <3>3
    <3> QED  BY <3>2, <3>4 DEF PartitionKey
  <2>2. PartitionKeys(p) = [i \in DOMAIN partition |-> PartitionKey(p[i])]
    BY <1>1 DEF PartitionKeys
  <2>3. pk = [i \in DOMAIN partition |-> pk[i]]
    BY <1>1 DEF PartitionKeys
  <2> HIDE DEF p, pk
  <2> QED  BY <2>1, <2>2, <2>3
<1>5. SortKeys(s) = sk
  <2>1. ASSUME NEW i \in DOMAIN sort PROVE SortKey(s[i]) = sk[i]
    <3>1. sk[i] = SortKey(sort[i])
      BY DEF SortKeys
    <3>2. s[i] = [form |-> "mapping", column |-> sk[i].column,
                  direction |-> sk[i].direction, nulls |-> sk[i].nulls]
      BY <1>1 DEF SortDicts
    <3> HIDE DEF s, sk
    <3>3. sk[i] = [column |-> sk[i].column, direction |-> sk[i].direction, nulls |-> sk[i].nulls]
      BY <3>1 DEF SortKey
    <3> QED  BY <3>2, <3>3 DEF SortKey
  <2>2. SortKeys(s) = [i \in DOMAIN sort |-> SortKey(s[i])]
    BY <1>1 DEF SortKeys
  <2>3. sk = [i \in DOMAIN sort |-> sk[i]]
    BY <1>1 DEF SortKeys
  <2> HIDE DEF s, sk
  <2> QED  BY <2>1, <2>2, <2>3
<1> QED  BY <1>3, <1>4, <1>5

\* The hints hold the keys the user wrote last, whichever way they came in.
HintsOK ==
    /\ partitionFlags \in SUBSET ToSet(ColumnOrder)
    /\ sortFlags \in SUBSET ToSet(ColumnOrder)
    /\ partitionHint \in Seq(ToSet(partitionHint)) /\ sortHint \in Seq(ToSet(sortHint))
    /\ \A i \in DOMAIN partitionHint :
          partitionHint[i].transform \in Transforms \union {"unset", "unknown"}
    /\ wanted.partition = PartitionKeys(partitionHint)
    /\ wanted.sort = SortKeys(sortHint)

\* hotdata_adapter keeps the invariant, also where it is given one list only.
LEMMA AdaptOK ==
    ASSUME HintsOK, NEW partition \in PartitionLists, NEW sort \in SortLists, Adapt(partition, sort)
    PROVE  HintsOK'
<1> DEFINE p == PartitionDicts(PartitionKeys(partition))
           s == SortDicts(SortKeys(sort))
<1>1. partition \in Seq(ToSet(partition)) /\ sort \in Seq(ToSet(sort))
  BY LayoutAssumption
<1>2. /\ p \in Seq(ToSet(p)) /\ s \in Seq(ToSet(s))
      /\ PartitionKeys(p) = PartitionKeys(partition)
      /\ SortKeys(s) = SortKeys(sort)
  BY <1>1, Normalised
<1>3. partition # <<>> => \A i \in DOMAIN p : p[i].transform \in Transforms
  <2> SUFFICES ASSUME NEW i \in DOMAIN partition
               PROVE  p[i].transform \in Transforms
    BY DEF PartitionDicts, PartitionKeys
  <2>1. p[i].transform = PartitionKey(partition[i]).transform
    BY DEF PartitionDicts, PartitionKeys
  <2>2. partition[i] \in ToSet(partition)
    BY DEF ToSet
  <2>3. ~BadPartitionEntry(partition[i])
    BY <2>2 DEF Adapt, Rejected
  <2>4. partition[i].transform \in Transforms \union {"unset", "unknown"}
    BY <2>2, LayoutAssumption
  <2> DEFINE e == partition[i]
  <2> HIDE DEF e, p
  <2>5. /\ p[i].transform = IF e.form = "name" \/ e.transform = "unset" THEN "identity" ELSE e.transform
        /\ e.form = "name" \/ e.transform # "unknown"
        /\ e.transform \in Transforms \union {"unset", "unknown"}
    BY <2>1, <2>3, <2>4 DEF PartitionKey, BadPartitionEntry, e
  <2> QED  BY <2>5 DEF Transforms
<1> HIDE DEF p, s
<1>4. /\ partitionHint' = IF partition # <<>> THEN p ELSE partitionHint
      /\ sortHint' = IF sort # <<>> THEN s ELSE sortHint
      /\ wanted'.partition = IF partition # <<>> THEN PartitionKeys(partition) ELSE wanted.partition
      /\ wanted'.sort = IF sort # <<>> THEN SortKeys(sort) ELSE wanted.sort
      /\ partitionFlags' = partitionFlags /\ sortFlags' = sortFlags
  BY DEF Adapt, p, s
<1>5. /\ partitionHint' \in Seq(ToSet(partitionHint'))
      /\ wanted'.partition = PartitionKeys(partitionHint')
      /\ \A i \in DOMAIN partitionHint' :
            partitionHint'[i].transform \in Transforms \union {"unset", "unknown"}
  BY <1>2, <1>3, <1>4 DEF HintsOK
<1>6. sortHint' \in Seq(ToSet(sortHint')) /\ wanted'.sort = SortKeys(sortHint')
  BY <1>2, <1>4 DEF HintsOK
<1> QED  BY <1>4, <1>5, <1>6 DEF HintsOK

\* So does a schema edited by hand.
LEMMA EditSchemaOK ==
    ASSUME HintsOK, NEW partition \in PartitionLists, NEW sort \in SortLists,
           EditSchema(partition, sort)
    PROVE  HintsOK'
<1>1. partition \in Seq(ToSet(partition)) /\ sort \in Seq(ToSet(sort))
  BY LayoutAssumption
<1>2. \A i \in DOMAIN partition : partition[i].transform \in Transforms \union {"unset", "unknown"}
  BY LayoutAssumption DEF ToSet
<1>3. /\ partitionHint' = partition /\ sortHint' = sort
      /\ wanted'.partition = PartitionKeys(partition) /\ wanted'.sort = SortKeys(sort)
      /\ partitionFlags' = partitionFlags /\ sortFlags' = sortFlags
  BY DEF EditSchema
<1> QED  BY <1>1, <1>2, <1>3 DEF HintsOK

\* The hints hold the keys the user wrote last.
LEMMA HintsInvariance == Spec => []HintsOK
<1>1. Init => HintsOK
  <2> SUFFICES ASSUME Init PROVE HintsOK
    OBVIOUS
  <2>1. /\ partitionFlags = {} /\ sortFlags = {} /\ partitionHint = <<>> /\ sortHint = <<>>
        /\ wanted.partition = <<>> /\ wanted.sort = <<>>
    BY DEF Init, NoKeys
  <2>2. ToSet(<<>>) = {} /\ DOMAIN <<>> = {} /\ <<>> \in Seq({})
    BY DEF ToSet
  <2>3. PartitionKeys(<<>>) = <<>> /\ SortKeys(<<>>) = <<>>
    BY <2>2 DEF PartitionKeys, SortKeys
  <2> QED  BY <2>1, <2>2, <2>3 DEF HintsOK
<1>2. HintsOK /\ [Next]_vars => HintsOK'
  <2> SUFFICES ASSUME HintsOK, [Next]_vars PROVE HintsOK'
    OBVIOUS
  <2>1. ASSUME UNCHANGED <<partitionHint, sortHint, wanted>>,
               partitionFlags' \in SUBSET ToSet(ColumnOrder),
               sortFlags' \in SUBSET ToSet(ColumnOrder)
        PROVE  HintsOK'
    BY <2>1 DEF HintsOK
  <2>2. CASE HintColumns
    BY <2>1, <2>2 DEF HintColumns
  <2>3. CASE \E partition \in PartitionLists, sort \in SortLists :
                 Adapt(partition, sort) \/ EditSchema(partition, sort)
    BY <2>3, AdaptOK, EditSchemaOK
  <2>4. CASE \/ RefuseLayout \/ CreateTable \/ CompareLayout \/ CompareRaises
              \/ ResumeElsewhere \/ CreateByJob \/ UNCHANGED vars
    <3>1. UNCHANGED <<partitionFlags, sortFlags, partitionHint, sortHint, wanted>>
      BY <2>4 DEF RefuseLayout, CreateTable, CompareLayout, CompareRaises,
                  ResumeElsewhere, CreateByJob, vars, schema
    <3> QED  BY <2>1, <3>1 DEF HintsOK
  <2> QED  BY <2>2, <2>3, <2>4 DEF Next
<1> QED  BY <1>1, <1>2, PTL DEF Spec

\* The columns of what is declared by column hints are those with the hint.
LEMMA FlagsAreDeclared ==
    ASSUME HintsOK
    PROVE  /\ {key.column : key \in ToSet(PartitionOfFlags)} = partitionFlags
           /\ {key.column : key \in ToSet(SortOfFlags)} = sortFlags
<1> DEFINE pf == Flagged(partitionFlags)
           sf == Flagged(sortFlags)
<1>1. /\ \A x : x \in partitionFlags <=> \E i \in DOMAIN pf : x = pf[i]
      /\ \A x : x \in sortFlags <=> \E i \in DOMAIN sf : x = sf[i]
  <2>1. ToSet(pf) = partitionFlags /\ ToSet(sf) = sortFlags
    BY FlaggedColumns DEF HintsOK
  <2> HIDE DEF pf, sf
  <2> QED  BY <2>1 DEF ToSet
<1>2. /\ DOMAIN PartitionOfFlags = DOMAIN pf /\ DOMAIN SortOfFlags = DOMAIN sf
      /\ \A i \in DOMAIN pf : PartitionOfFlags[i].column = pf[i]
      /\ \A i \in DOMAIN sf : SortOfFlags[i].column = sf[i]
  BY DEF PartitionOfFlags, SortOfFlags, PartitionKeys, SortKeys, PartitionKey, SortKey
<1> HIDE DEF pf, sf
<1>3. {key.column : key \in ToSet(PartitionOfFlags)} = partitionFlags
  BY <1>1, <1>2 DEF ToSet
<1>4. {key.column : key \in ToSet(SortOfFlags)} = sortFlags
  BY <1>1, <1>2 DEF ToSet
<1> QED  BY <1>3, <1>4

\* Creating a table from hints that hold what the user wrote gives it that.
LEMMA CreateOK ==
    ASSUME HintsOK, CreateTable
    PROVE  /\ wanted.partition # <<>> => stored'.partition = wanted.partition
           /\ wanted.sort # <<>> => stored'.sort = Established(wanted).sort
           /\ wanted.partition = <<>> =>
                 {key.column : key \in ToSet(stored'.partition)} = partitionFlags
           /\ wanted.sort = <<>> => {key.column : key \in ToSet(stored'.sort)} = sortFlags
           /\ Keys(stored') \subseteq ToSet(ColumnOrder)
           /\ \A key \in ToSet(stored'.partition) : key.transform \in Transforms
<1> DEFINE D == Declared
<1>1. stored' = Established(D) /\ ~Rejected(partitionHint, sortHint) /\ MissingColumns = {}
  BY DEF CreateTable, VerifyFails
<1>2. /\ partitionHint = <<>> <=> wanted.partition = <<>>
      /\ sortHint = <<>> <=> wanted.sort = <<>>
  <2>1. /\ PartitionKeys(partitionHint) = [i \in DOMAIN partitionHint |-> PartitionKeys(partitionHint)[i]]
        /\ SortKeys(sortHint) = [i \in DOMAIN sortHint |-> SortKeys(sortHint)[i]]
    BY DEF PartitionKeys, SortKeys
  <2> DEFINE pk == PartitionKeys(partitionHint)
             sk == SortKeys(sortHint)
  <2> HIDE DEF pk, sk
  <2>2. (pk = <<>> <=> partitionHint = <<>>) /\ (sk = <<>> <=> sortHint = <<>>)
    BY <2>1, SamePlaces DEF HintsOK, pk, sk
  <2> QED  BY <2>2 DEF HintsOK, pk, sk
<1>3. /\ wanted.partition # <<>> => D.partition = wanted.partition
      /\ wanted.sort # <<>> => D.sort = wanted.sort
      /\ wanted.partition = <<>> => D.partition = PartitionOfFlags
      /\ wanted.sort = <<>> => D.sort = SortOfFlags
  BY <1>2 DEF HintsOK, Declared
<1>4. \A i \in DOMAIN D.partition : D.partition[i].transform \in Transforms
  <2>1. CASE partitionHint # <<>>
    <3> SUFFICES ASSUME NEW i \in DOMAIN partitionHint
                 PROVE  PartitionKey(partitionHint[i]).transform \in Transforms
      BY <2>1 DEF Declared, PartitionKeys
    <3> DEFINE e == partitionHint[i]
    <3>1. ~BadPartitionEntry(e) /\ e.transform \in Transforms \union {"unset", "unknown"}
      BY <1>1 DEF Rejected, HintsOK, ToSet
    <3> HIDE DEF e
    <3>2. PartitionKey(e).transform \in Transforms
      BY <3>1 DEF PartitionKey, BadPartitionEntry, Transforms
    <3> QED  BY <3>2 DEF e
  <2>2. CASE partitionHint = <<>>
    <3>1. D.partition = PartitionOfFlags
      BY <2>2 DEF Declared
    <3>2. \A i \in DOMAIN PartitionOfFlags : PartitionOfFlags[i].transform = "identity"
      BY DEF PartitionOfFlags, PartitionKeys, PartitionKey
    <3> QED  BY <3>1, <3>2 DEF Transforms
  <2> QED  BY <2>1, <2>2
<1>5. /\ {key.column : key \in ToSet(D.partition)} \subseteq ToSet(ColumnOrder)
      /\ {key.column : key \in ToSet(D.sort)} \subseteq ToSet(ColumnOrder)
  BY <1>1 DEF MissingColumns
<1>6. wanted.partition = <<>> => {key.column : key \in ToSet(D.partition)} = partitionFlags
  BY <1>3, FlagsAreDeclared
<1>7. wanted.sort = <<>> => {key.column : key \in ToSet(D.sort)} = sortFlags
  BY <1>3, FlagsAreDeclared
<1> HIDE DEF D
<1>8. /\ stored'.partition = D.partition
      /\ DOMAIN stored'.sort = DOMAIN D.sort
      /\ \A i \in DOMAIN D.sort : stored'.sort[i].column = D.sort[i].column
  BY <1>1 DEF Established
<1>9. {key.column : key \in ToSet(stored'.sort)} = {key.column : key \in ToSet(D.sort)}
  BY <1>8 DEF ToSet
<1>10. wanted.sort # <<>> => stored'.sort = Established(wanted).sort
  BY <1>1, <1>3 DEF Established
<1>11. Keys(stored') \subseteq ToSet(ColumnOrder)
  <2>1. Keys(stored') = {key.column : key \in ToSet(stored'.partition)}
                          \union {key.column : key \in ToSet(stored'.sort)}
    BY DEF Keys
  <2> QED  BY <1>5, <1>8, <1>9, <2>1
<1>12. \A key \in ToSet(stored'.partition) : key.transform \in Transforms
  BY <1>4, <1>8 DEF ToSet
<1> QED  BY <1>3, <1>6, <1>7, <1>8, <1>9, <1>10, <1>11, <1>12

\* What initialize_storage's creation of a table gives it: the keys the user wrote last,
\* through the stored hints and back, and the column hints where nothing was written, and
\* never a column or a transform there is not (hotdata_adapter, resolve_partition_by and
\* resolve_sorted_by, verify_schema, for any columns and entries).
THEOREM TablesAreCreatedAsWanted == Spec => CreatedAsWanted
<1>1. HintsOK /\ [Next]_vars =>
         [~exists /\ exists' /\ outcome' = "created" =>
             /\ wanted.partition # <<>> => stored'.partition = wanted.partition
             /\ wanted.sort # <<>> => stored'.sort = Established(wanted).sort
             /\ wanted.partition = <<>> =>
                   {key.column : key \in ToSet(stored'.partition)} = partitionFlags
             /\ wanted.sort = <<>> => {key.column : key \in ToSet(stored'.sort)} = sortFlags
             /\ Keys(stored') \subseteq ToSet(ColumnOrder)
             /\ \A key \in ToSet(stored'.partition) : key.transform \in Transforms]_vars
  <2> SUFFICES ASSUME HintsOK, [Next]_vars, ~exists, exists', outcome' = "created"
               PROVE  CreateTable
    BY CreateOK
  <2>1. UNCHANGED exists => FALSE
    OBVIOUS
  <2> QED
    BY <2>1 DEF Next, HintColumns, Adapt, EditSchema, RefuseLayout, CompareLayout, CompareRaises,
                  ResumeElsewhere, CreateByJob, Edited, vars, table
<1> QED
  BY <1>1, HintsInvariance, PTL DEF CreatedAsWanted, Spec
=============================================================================
