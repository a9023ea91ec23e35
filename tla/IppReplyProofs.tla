--------------------------- MODULE IppReplyProofs ---------------------------
(***************************************************************************)
(* Theorems about IppReply, for replies of any number of groups, any set   *)
(* of attributes, and any position of the key in its group.                *)
(***************************************************************************)
EXTENDS IppReply, FiniteSetTheorems, SequenceTheorems, WellFoundedInduction,
        TLAPS

(* What holds of no least number holds of none: how facts about all groups *)
(* of a reply are shown, one group after the other.                        *)
LEMMA LeastExists ==
    ASSUME NEW S \in SUBSET Nat, S # {}
    PROVE  \E m \in S : \A k \in S : m =< k
<1>1. \E m \in S : \A k \in S : <<k, m>> \notin OpToRel(<, Nat)
  BY NatLessThanWellFounded, WFMin
<1>2. ASSUME NEW k \in Nat, NEW m \in Nat, <<k, m>> \notin OpToRel(<, Nat)
      PROVE  m =< k
  BY <1>2 DEF OpToRel
<1> QED
  BY <1>1, <1>2

-----------------------------------------------------------------------------
(* The row of a reply, put together group by group.                        *)

Flattens(f, s, n) ==
    \A i \in 1..n : f[i] = IF i = 1 THEN s[i] ELSE f[i - 1] \o s[i]

LEMMA FlattenExists ==
    ASSUME NEW S, NEW N \in Nat, NEW s \in [1..N -> Seq(S)]
    PROVE  \A n \in 1..N : \E f \in [1..n -> Seq(S)] : Flattens(f, s, n)
<1> DEFINE Partial(n) == \E f \in [1..n -> Seq(S)] : Flattens(f, s, n)
           Bad == {n \in 1..N : ~Partial(n)}
<1>1. ASSUME NEW m \in Bad, \A k \in Bad : m =< k
      PROVE  FALSE
  <2>1. CASE m = 1
    <3>1. [i \in 1..1 |-> s[1]] \in [1..1 -> Seq(S)]
      BY <2>1
    <3>2. Flattens([i \in 1..1 |-> s[1]], s, 1)
      BY DEF Flattens
    <3> QED
      BY <2>1, <3>1, <3>2
  <2>2. CASE m # 1
    <3>0. m \in 1..N /\ m \in Nat
      OBVIOUS
    <3>1. m - 1 \in 1..N /\ m - 1 \notin Bad
      <4> HIDE DEF Bad
      <4> QED
        BY <1>1, <2>2, <3>0
    <3>2. PICK f \in [1..(m - 1) -> Seq(S)] : Flattens(f, s, m - 1)
      BY <3>1
    <3> DEFINE g == [i \in 1..m |-> IF i < m THEN f[i] ELSE f[m - 1] \o s[m]]
    <3>3. g \in [1..m -> Seq(S)]
      <4>1. f[m - 1] \o s[m] \in Seq(S)
        BY <2>2, ConcatProperties
      <4> QED
        BY <4>1
    <3>4. Flattens(g, s, m)
      <4> SUFFICES ASSUME NEW i \in 1..m
                   PROVE  g[i] = IF i = 1 THEN s[i] ELSE g[i - 1] \o s[i]
        BY DEF Flattens
      <4>1. CASE i < m
        <5>0. i \in 1..(m - 1)
          BY <3>0, <4>1
        <5>1. f[i] = IF i = 1 THEN s[i] ELSE f[i - 1] \o s[i]
          BY <3>2, <5>0 DEF Flattens
        <5>2. g[i] = f[i] /\ (i # 1 => g[i - 1] = f[i - 1])
          BY <3>0, <4>1
        <5> QED
          BY <5>1, <5>2
      <4>2. CASE i = m
        <5>1. g[m] = f[m - 1] \o s[m] /\ g[m - 1] = f[m - 1]
          BY <2>2, <3>0
        <5> QED
          BY <2>2, <4>2, <5>1
      <4> QED
        BY <4>1, <4>2
    <3> QED
      BY <3>3, <3>4
  <2> QED
    BY <2>1, <2>2
<1>2. Bad \in SUBSET Nat
  OBVIOUS
<1>3. Bad = {}
  <2> HIDE DEF Bad
  <2> QED
    BY <1>1, <1>2, LeastExists
<1> QED
  BY <1>3

LEMMA FlattenSteps ==
    ASSUME NEW S, NEW N \in Nat \ {0}, NEW s \in [1..N -> Seq(S)]
    PROVE  \E f \in [1..N -> Seq(S)] :
              Flattens(f, s, N) /\ FlattenSeq(s) = f[N]
<1> DEFINE Is(flatten) == flatten = [i \in 1..Len(s) |->
              IF i = 1 THEN s[i] ELSE flatten[i - 1] \o s[i]]
           flat == CHOOSE flatten : Is(flatten)
<1>1. s \in Seq(Seq(S)) /\ Len(s) = N
  OBVIOUS
<1>2. FlattenSeq(s) = flat[N]
  BY <1>1 DEF FlattenSeq
<1>3. PICK f \in [1..N -> Seq(S)] : Flattens(f, s, N)
  BY FlattenExists
<1>4. Is(f)
  BY <1>1, <1>3 DEF Flattens
<1>5. Is(flat)
  BY <1>4
<1> HIDE DEF flat
<1>6. /\ flat[1] = s[1]
      /\ \A i \in 1..N : i # 1 => flat[i] = flat[i - 1] \o s[i]
  <2>1. flat = [i \in 1..N |-> IF i = 1 THEN s[i] ELSE flat[i - 1] \o s[i]]
    BY <1>1, <1>5
  <2> DEFINE g == [i \in 1..N |-> IF i = 1 THEN s[i] ELSE flat[i - 1] \o s[i]]
  <2>2. \A i \in 1..N : g[i] = IF i = 1 THEN s[i] ELSE flat[i - 1] \o s[i]
    OBVIOUS
  <2>3. 1 \in 1..N
    OBVIOUS
  <2> HIDE DEF Is, g
  <2> QED
    BY <2>1, <2>2, <2>3 DEF g
<1> DEFINE Bad == {i \in 1..N : flat[i] # f[i]}
<1>7. ASSUME NEW m \in Bad, \A k \in Bad : m =< k
      PROVE  FALSE
  <2>1. CASE m = 1
    BY <1>3, <1>6, <1>7, <2>1 DEF Flattens
  <2>2. CASE m # 1
    <3>1. m - 1 \in 1..N /\ m - 1 \notin Bad
      BY <1>7, <2>2
    <3> QED
      BY <1>3, <1>6, <2>2, <3>1 DEF Flattens
  <2> QED
    BY <2>1, <2>2
<1>8. Bad = {}
  <2>1. Bad \in SUBSET Nat
    OBVIOUS
  <2> HIDE DEF Bad
  <2> QED
    BY <1>7, <2>1, LeastExists
<1>9. flat[N] = f[N]
  <2>1. N \in 1..N
    OBVIOUS
  <2> QED
    BY ONLY <1>8, <2>1
<1> HIDE DEF Bad
<1> QED
  BY <1>2, <1>3, <1>9

LEMMA SetToSeqLists ==
    ASSUME NEW S, IsFiniteSet(S)
    PROVE  LET s == SetToSeq(S) IN
           /\ s \in Seq(S)
           /\ \A i, j \in 1..Len(s) : s[i] = s[j] => i = j
           /\ \A x \in S : \E i \in 1..Len(s) : s[i] = x
<1> DEFINE C == Cardinality(S)
           s == SetToSeq(S)
<1>1. C \in Nat /\ ExistsBijection(1..C, S)
  BY FS_CardinalityType
<1>2. PICK f \in [1..C -> S] : IsInjective(f)
  BY <1>1 DEF ExistsBijection, Bijection, Injection, IsInjective
<1>3. s \in [1..C -> S] /\ IsInjective(s)
  BY <1>2 DEF SetToSeq
<1>4. Cardinality(1..C) = Cardinality(S)
  <2>1. Cardinality(1..C) = IF 1 > C THEN 0 ELSE C - 1 + 1
    BY <1>1, FS_Interval
  <2> HIDE DEF C
  <2>2. Cardinality(1..C) = C
    BY <1>1, <2>1
  <2> QED
    BY <2>2 DEF C
<1>5. s \in Injection(1..C, S)
  BY <1>3 DEF Injection, IsInjective
<1>6. s \in Surjection(1..C, S)
  BY <1>4, <1>5, FS_Injection
<1> HIDE DEF s, C
<1>7. s \in Seq(S) /\ Len(s) = C
  BY <1>1, <1>3
<1> QED
  BY <1>3, <1>6, <1>7 DEF s, IsInjective, Surjection

(* What the row of a reply consists of.                                    *)
Own1(n, a)  == [group |-> "own", name |-> a, value |-> n]
NamesOf(n)  == reply[n].fields \union (IF reply[n].key THEN {Key} ELSE {})
OwnAttrs(n) == {Own1(n, a) : a \in NamesOf(n)}
Separators  == {Other("attributes-charset"),
                Other("attributes-natural-language"), Other("separator")}

(* A row is the attributes of its group, each once.                        *)
Lists(row, n) ==
    /\ row \in Seq(OwnAttrs(n))
    /\ \A i, j \in 1..Len(row) : row[i] = row[j] => i = j
    /\ \A x \in OwnAttrs(n) : \E i \in 1..Len(row) : row[i] = x

LEMMA RowLists ==
    ASSUME NEW n, reply[n] \in Groups
    PROVE  Lists(RowOf(n), n)
<1> DEFINE F == reply[n].fields
           A == {Own1(n, f) : f \in F}
           fields == SetToSeq(A)
           key == IF reply[n].key THEN <<Own1(n, Key)>> ELSE <<>>
<1>1. IsFiniteSet(A)
  <2>1. F \in SUBSET Fields
    BY DEF Groups
  <2>2. IsFiniteSet(F)
    BY <2>1, FieldsAssumption, FS_Subset
  <2>3. [f \in F |-> Own1(n, f)] \in Surjection(F, A)
    BY DEF Surjection
  <2> HIDE DEF F, A
  <2> QED
    BY <2>2, <2>3, FS_Surjection
<1>2. /\ fields \in Seq(A)
      /\ \A i, j \in 1..Len(fields) : fields[i] = fields[j] => i = j
      /\ \A x \in A : \E i \in 1..Len(fields) : fields[i] = x
  <2> HIDE DEF A
  <2> QED
    BY <1>1, SetToSeqLists
<1>3. Own1(n, Key) \notin A
  BY FieldsAssumption DEF Own1, Groups
<1>4. OwnAttrs(n) = A \union (IF reply[n].key THEN {Own1(n, Key)} ELSE {})
  BY DEF OwnAttrs, NamesOf
<1>5. RowOf(n) = IF reply[n].last THEN fields \o key ELSE key \o fields
  BY DEF RowOf, Own1
<1> HIDE DEF A, fields
<1>6. CASE reply[n].key
  <2>1. key = <<Own1(n, Key)>> /\ key \in Seq(OwnAttrs(n)) /\ Len(key) = 1
        /\ key[1] = Own1(n, Key) /\ fields \in Seq(OwnAttrs(n))
    BY <1>2, <1>4, <1>6
  <2> HIDE DEF key
  <2> DEFINE L == Len(fields)
             r == fields \o key
             t == key \o fields
  <2>2. L \in Nat /\ \A i \in 1..L : fields[i] \in A
    BY <1>2
  <2>3. /\ r \in Seq(OwnAttrs(n)) /\ Len(r) = L + 1
        /\ \A i \in 1..L : r[i] = fields[i]
        /\ r[L + 1] = Own1(n, Key)
    BY <2>1, <2>2
  <2>4. /\ t \in Seq(OwnAttrs(n)) /\ Len(t) = L + 1
        /\ \A i \in 1..L : t[i + 1] = fields[i]
        /\ t[1] = Own1(n, Key)
    BY <2>1, <2>2
  <2>5. \A x \in OwnAttrs(n) : x # Own1(n, Key) => \E i \in 1..L : fields[i] = x
    BY <1>2, <1>4, <1>6
  <2>8. \A i, j \in 1..L : fields[i] = fields[j] => i = j
    BY <1>2
  <2> HIDE DEF r, t, L
  <2>6. Lists(r, n)
    <3>1. \A i \in 1..(L + 1) : i # L + 1 => i \in 1..L
      BY <2>2
    <3>2. \A i, j \in 1..(L + 1) : r[i] = r[j] => i = j
      <4> SUFFICES ASSUME NEW i \in 1..(L + 1), NEW j \in 1..(L + 1), r[i] = r[j]
                   PROVE  i = j
        OBVIOUS
      <4>1. CASE i = L + 1 \/ j = L + 1
        BY <1>3, <2>2, <2>3, <3>1, <4>1
      <4>2. CASE i # L + 1 /\ j # L + 1
        BY <2>3, <2>8, <3>1, <4>2
      <4> QED
        BY <4>1, <4>2
    <3>3. \A x \in OwnAttrs(n) : \E i \in 1..(L + 1) : r[i] = x
      BY <2>2, <2>3, <2>5
    <3> QED
      BY <2>3, <3>2, <3>3 DEF Lists
  <2>7. Lists(t, n)
    <3>1. \A i \in 1..(L + 1) : i # 1 => i - 1 \in 1..L /\ t[i] = fields[i - 1]
      BY <2>2, <2>4
    <3>2. \A i, j \in 1..(L + 1) : t[i] = t[j] => i = j
      <4> SUFFICES ASSUME NEW i \in 1..(L + 1), NEW j \in 1..(L + 1), t[i] = t[j]
                   PROVE  i = j
        OBVIOUS
      <4>1. CASE i = 1 \/ j = 1
        BY <1>3, <2>2, <2>4, <3>1, <4>1
      <4>2. CASE i # 1 /\ j # 1
        <5>1. i - 1 = j - 1
          BY <2>8, <3>1, <4>2
        <5> QED
          BY <2>2, <5>1
      <4> QED
        BY <4>1, <4>2
    <3>3. \A x \in OwnAttrs(n) : \E i \in 1..(L + 1) : t[i] = x
      <4> TAKE x \in OwnAttrs(n)
      <4>1. CASE x = Own1(n, Key)
        BY <2>2, <2>4, <4>1
      <4>2. CASE x # Own1(n, Key)
        <5>1. PICK i \in 1..L : fields[i] = x
          BY <2>5, <4>2
        <5> QED
          BY <2>2, <2>4, <5>1
      <4> QED
        BY <4>1, <4>2
    <3> QED
      BY <2>4, <3>2, <3>3 DEF Lists
  <2> QED
    BY <1>5, <2>6, <2>7 DEF r, t
<1>7. CASE ~reply[n].key
  <2>1. RowOf(n) = fields /\ A = OwnAttrs(n)
    BY <1>2, <1>4, <1>5, <1>7
  <2> QED
    BY <1>2, <2>1 DEF Lists
<1> QED
  BY <1>6, <1>7

-----------------------------------------------------------------------------
(* Where the groups are in the row of a reply: group n ends at E[n], and   *)
(* its row begins after Start(E, n).                                       *)

N        == Len(reply)
AllAttrs == Separators \union UNION {OwnAttrs(n) : n \in 1..N}
Start(E, n) == IF n = 1 THEN 2 ELSE E[n - 1] + 1

Placed(E) ==
    /\ E[0] = 2
    /\ Attrs \in Seq(AllAttrs) /\ Len(Attrs) = E[N]
    /\ Attrs[1].group = "other" /\ Attrs[2].group = "other"
    /\ \A n \in 1..N :
          /\ E[n] = Start(E, n) + Len(RowOf(n))
          /\ n > 1 => Attrs[E[n - 1] + 1].group = "other"
          /\ \A i \in 1..Len(RowOf(n)) : Attrs[Start(E, n) + i] = RowOf(n)[i]

Joins(r, s, t) ==
    /\ Len(s) \in Nat /\ Len(t) \in Nat /\ Len(r) = Len(s) + Len(t)
    /\ \A i \in 1..Len(s) : r[i] = s[i]
    /\ \A i \in 1..Len(t) : r[Len(s) + i] = t[i]

LEMMA ConcatIs ==
    ASSUME NEW S, NEW s \in Seq(S), NEW t \in Seq(S)
    PROVE  s \o t \in Seq(S) /\ Joins(s \o t, s, t)
BY DEF Joins

LEMMA JoinsBegins ==
    ASSUME NEW r, NEW s, NEW t, Joins(r, s, t)
    PROVE  /\ Len(s) =< Len(r)
           /\ \A i \in 1..Len(s) : r[i] = s[i] /\ i \in 1..Len(r)
BY DEF Joins

(* What is put together first stays the beginning of the row.              *)
Begins(f, n, m) ==
    /\ Len(f[n]) =< Len(f[m])
    /\ \A i \in 1..Len(f[n]) : f[m][i] = f[n][i]

LEMMA FlattenPrefix ==
    ASSUME NEW S, NEW M \in Nat, NEW s \in [1..M -> Seq(S)],
           NEW f \in [1..M -> Seq(S)], Flattens(f, s, M)
    PROVE  \A n \in 1..M : Begins(f, n, M)
<1> DEFINE Prefix(n) == Begins(f, n, M)
           Bad == {k \in 0..(M - 1) : ~Prefix(M - k)}
<1>1. ASSUME NEW m \in Bad, \A k \in Bad : m =< k
      PROVE  FALSE
  <2>0. m \in 0..(M - 1) /\ ~Prefix(M - m)
    OBVIOUS
  <2>1. m # 0
    <3>1. ASSUME m = 0 PROVE FALSE
      <4>1. M - m = M /\ M \in 1..M /\ f[M] \in Seq(S)
        BY <2>0, <3>1
      <4>2. Begins(f, M, M)
        BY <4>1, LenProperties DEF Begins
      <4> QED
        BY ONLY <2>0, <4>1, <4>2
    <3> QED
      BY <3>1
  <2>2. m - 1 \in 0..(M - 1) /\ m - 1 \notin Bad
    <3> HIDE DEF Bad
    <3> QED
      BY <1>1, <2>0, <2>1
  <2> DEFINE n == M - m
  <2>3. n \in 1..M /\ n + 1 \in 1..M /\ n + 1 # 1 /\ M - (m - 1) = n + 1
        /\ (n + 1) - 1 = n
    BY <2>0, <2>1
  <2>4. Prefix(n + 1)
    BY <2>2, <2>3
  <2>5. f[n + 1] = f[n] \o s[n + 1]
    BY <2>3 DEF Flattens
  <2>6. f[n] \in Seq(S) /\ f[n + 1] \in Seq(S) /\ s[n + 1] \in Seq(S)
        /\ f[M] \in Seq(S)
    BY <2>3
  <2> HIDE DEF n
  <2>7. /\ Len(f[n]) =< Len(f[n + 1])
        /\ \A i \in 1..Len(f[n]) : f[n + 1][i] = f[n][i] /\ i \in 1..Len(f[n + 1])
    <3>1. Joins(f[n + 1], f[n], s[n + 1])
      BY ONLY <2>5, <2>6, ConcatIs
    <3> QED
      BY ONLY <3>1, JoinsBegins
  <2>8. Prefix(n)
    <3>1. Len(f[n]) \in Nat /\ Len(f[n + 1]) \in Nat /\ Len(f[M]) \in Nat
      BY <2>6, LenProperties
    <3> QED
      BY ONLY <2>4, <2>7, <3>1 DEF Begins
  <2> QED
    BY <2>0, <2>8 DEF n
<1>2. Bad = {}
  <2>1. Bad \in SUBSET Nat
    OBVIOUS
  <2> HIDE DEF Bad
  <2> QED
    BY <1>1, <2>1, LeastExists
<1>3. \A n \in 1..M : M - n \in 0..(M - 1) /\ M - (M - n) = n
  OBVIOUS
<1>4. \A n \in 1..M : Prefix(n)
  BY <1>2, <1>3
<1> QED
  BY <1>4

LEMMA RowsArePlaced ==
    ASSUME reply \in Seq(Groups)
    PROVE  \E E \in [0..N -> Nat] : Placed(E)
<1> DEFINE head == <<Other("attributes-charset"),
                     Other("attributes-natural-language")>>
           sep(n) == IF n = 1 THEN <<>> ELSE <<Other("separator")>>
           s == [n \in 1..N |-> sep(n) \o RowOf(n)]
<1>0. N \in Nat /\ \A n \in 1..N : Lists(RowOf(n), n)
  BY RowLists DEF N
<1>1. Attrs = head \o FlattenSeq(s)
  BY DEF Attrs, N
<1>2. head \in Seq(AllAttrs) /\ Len(head) = 2 /\ \A i \in 1..2 : head[i].group = "other"
  BY DEF AllAttrs, Separators, Other
<1>3. \A n \in 1..N : /\ RowOf(n) \in Seq(AllAttrs) /\ Len(RowOf(n)) \in Nat
                      /\ sep(n) \in Seq(AllAttrs)
                      /\ Len(sep(n)) = IF n = 1 THEN 0 ELSE 1
                      /\ n # 1 => sep(n)[1].group = "other"
  <2> TAKE n \in 1..N
  <2>1. RowOf(n) \in Seq(OwnAttrs(n)) /\ OwnAttrs(n) \subseteq AllAttrs
    BY <1>0 DEF Lists, AllAttrs
  <2>2. Other("separator") \in AllAttrs /\ Other("separator").group = "other"
    BY DEF AllAttrs, Separators, Other
  <2> QED
    BY <2>1, <2>2
<1> HIDE DEF head, sep
<1>4. s \in [1..N -> Seq(AllAttrs)]
  BY <1>3, ConcatProperties
<1>5. CASE N = 0
  <2>1. FlattenSeq(s) = <<>>
    <3>1. s = <<>> /\ Len(s) = 0
      BY <1>5
    <3> HIDE DEF s
    <3> QED
      BY <3>1 DEF FlattenSeq
  <2>2. Attrs = head
    BY ONLY <1>1, <1>2, <2>1, ConcatEmptySeq
  <2> DEFINE E == [n \in 0..N |-> 2]
  <2>3. E \in [0..N -> Nat] /\ E[0] = 2 /\ E[N] = 2 /\ 1..N = {}
    BY <1>5
  <2> HIDE DEF E
  <2> QED
    <3>1. Attrs \in Seq(AllAttrs) /\ Len(Attrs) = E[N]
      BY ONLY <1>2, <2>2, <2>3
    <3>2. Attrs[1].group = "other" /\ Attrs[2].group = "other"
      BY ONLY <1>2, <2>2
    <3>3. Placed(E)
      BY ONLY <2>3, <3>1, <3>2, Zenon DEF Placed
    <3> QED
      BY ONLY <2>3, <3>3
<1>7. \A n \in 1..N : s[n] = sep(n) \o RowOf(n)
  OBVIOUS
<1> HIDE DEF s
<1>6. CASE N # 0
  <2>1. PICK f \in [1..N -> Seq(AllAttrs)] :
           Flattens(f, s, N) /\ FlattenSeq(s) = f[N]
    BY <1>0, <1>4, <1>6, FlattenSteps
  <2>2. \A n \in 1..N : /\ Len(f[n]) =< Len(f[N])
                        /\ \A i \in 1..Len(f[n]) : f[N][i] = f[n][i]
    <3>1. N \in Nat
      BY <1>0
    <3>2. \A n \in 1..N : Begins(f, n, N)
      BY ONLY <1>4, <2>1, <3>1, FlattenPrefix, Zenon
    <3> QED
      BY ONLY <3>2 DEF Begins
  <2> DEFINE E == [n \in 0..N |-> IF n = 0 THEN 2 ELSE 2 + Len(f[n])]
  <2>0. \A n \in 1..N : f[n] \in Seq(AllAttrs) /\ Len(f[n]) \in Nat
    BY <2>1, LenProperties
  <2>3. E \in [0..N -> Nat] /\ E[0] = 2 /\ \A n \in 1..N : E[n] = 2 + Len(f[n])
    BY <1>0, <2>0
  <2>4. /\ Attrs \in Seq(AllAttrs) /\ Len(Attrs) = 2 + Len(f[N])
        /\ \A i \in 1..2 : Attrs[i].group = "other"
        /\ \A i \in 1..Len(f[N]) : Attrs[2 + i] = f[N][i]
    <3>1. f[N] \in Seq(AllAttrs) /\ Attrs = head \o f[N]
      BY <1>0, <1>1, <1>6, <2>1
    <3>2. Attrs \in Seq(AllAttrs) /\ Joins(Attrs, head, f[N])
      BY ONLY <1>2, <3>1, ConcatIs
    <3> QED
      BY ONLY <1>2, <3>2 DEF Joins
  <2> HIDE DEF E
  <2>5. ASSUME NEW n \in 1..N
        PROVE  /\ E[n] = Start(E, n) + Len(RowOf(n))
               /\ n > 1 => Attrs[E[n - 1] + 1].group = "other"
               /\ \A i \in 1..Len(RowOf(n)) : Attrs[Start(E, n) + i] = RowOf(n)[i]
    <3> DEFINE before == IF n = 1 THEN 0 ELSE Len(f[n - 1])
               L == Len(RowOf(n))
               gap == Len(sep(n))
    <3>1. f[n] \in Seq(AllAttrs) /\ f[N] \in Seq(AllAttrs) /\ L \in Nat
          /\ before \in Nat /\ gap = IF n = 1 THEN 0 ELSE 1
      <4>1. n # 1 => n - 1 \in 1..N
        BY <1>0
      <4> QED
        BY <1>0, <1>3, <1>6, <2>0, <4>1
    <3>2. s[n] \in Seq(AllAttrs) /\ Len(s[n]) = gap + L
          /\ (\A i \in 1..gap : s[n][i] = sep(n)[i])
          /\ (\A i \in 1..L : s[n][gap + i] = RowOf(n)[i])
      <4>1. s[n] \in Seq(AllAttrs) /\ Joins(s[n], sep(n), RowOf(n))
        BY <1>3, <1>7, ConcatIs
      <4> QED
        BY ONLY <4>1 DEF Joins
    <3>3. Len(f[n]) = before + Len(s[n])
          /\ \A i \in 1..Len(s[n]) : f[n][before + i] = s[n][i]
      <4>1. CASE n = 1
        <5>1. f[1] = s[1] /\ before = 0
          BY <2>1, <4>1 DEF Flattens
        <5>2. Len(s[1]) \in Nat
          BY <3>2, <4>1, LenProperties
        <5> HIDE DEF before
        <5> QED
          BY ONLY <4>1, <5>1, <5>2
      <4>2. CASE n # 1
        <5>1. n - 1 \in 1..N /\ f[n] = f[n - 1] \o s[n]
          <6>1. n - 1 \in 1..N
            BY <1>0, <4>2
          <6> QED
            BY <2>1, <4>2, <6>1 DEF Flattens
        <5>2. f[n - 1] \in Seq(AllAttrs) /\ before = Len(f[n - 1])
          BY <2>1, <4>2, <5>1
        <5>3. Joins(f[n], f[n - 1], s[n])
          BY ONLY <3>2, <5>1, <5>2, ConcatIs
        <5> HIDE DEF before
        <5> QED
          BY ONLY <5>2, <5>3 DEF Joins
      <4> QED
        BY <4>1, <4>2
    <3>9. n # 1 => n - 1 \in 1..N
      BY <1>0
    <3>4. Start(E, n) = 2 + before + gap
      <4>1. CASE n = 1
        BY <4>1 DEF Start, sep
      <4>2. CASE n # 1
        <5>1. E[n - 1] = 2 + Len(f[n - 1]) /\ before = Len(f[n - 1]) /\ gap = 1
          BY <2>3, <3>1, <3>9, <4>2
        <5> HIDE DEF before, gap
        <5> QED
          BY <3>1, <4>2, <5>1 DEF Start
      <4> QED
        BY <4>1, <4>2
    <3> HIDE DEF before, gap, L
    <3>5. E[n] = Start(E, n) + L
      <4>1. E[n] = 2 + Len(f[n])
        BY <2>3
      <4>2. gap \in Nat
        BY <3>1
      <4> QED
        BY ONLY <3>1, <3>2, <3>3, <3>4, <4>1, <4>2
    <3>6. ASSUME NEW i \in 1..Len(s[n])
          PROVE  Attrs[2 + (before + i)] = s[n][i]
      <4>1. before + i \in 1..Len(f[n]) /\ before + i \in 1..Len(f[N])
        BY <2>2, <3>1, <3>2, <3>3
      <4> QED
        BY <2>2, <2>4, <3>3, <4>1
    <3>7. ASSUME NEW i \in 1..L
          PROVE  Attrs[Start(E, n) + i] = RowOf(n)[i]
      <4>1. gap + i \in 1..Len(s[n])
            /\ Start(E, n) + i = 2 + (before + (gap + i))
        BY <3>1, <3>2, <3>4
      <4> QED
        BY <3>2, <3>6, <4>1
    <3>8. ASSUME n > 1
          PROVE  Attrs[E[n - 1] + 1].group = "other"
      <4>0. n # 1 /\ n - 1 \in 1..N
        BY <3>8, <3>9
      <4>3. gap = 1 /\ E[n - 1] = 2 + before
        BY <2>3, <3>1, <4>0 DEF before
      <4>1. gap = 1 /\ 1 \in 1..Len(s[n]) /\ E[n - 1] + 1 = 2 + (before + 1)
        BY ONLY <3>1, <3>2, <4>3
      <4>2. Attrs[E[n - 1] + 1] = sep(n)[1]
        BY <3>2, <3>6, <4>1
      <4> QED
        BY <1>3, <3>8, <4>2
    <3> QED
      BY <3>5, <3>7, <3>8 DEF L
  <2> QED
    <3>1. N \in 1..N
      BY <1>0, <1>6
    <3>2. Len(Attrs) = E[N]
      BY ONLY <2>3, <2>4, <3>1
    <3>3. Attrs[1].group = "other" /\ Attrs[2].group = "other"
      BY ONLY <2>4
    <3> QED
      BY ONLY <2>3, <2>4, <2>5, <3>2, <3>3 DEF Placed
<1> QED
  BY <1>5, <1>6

-----------------------------------------------------------------------------
(* The shape of a row A for the groups R: what the readers rely on.  It is *)
(* stated of any A and R, so that the lemmas about it are free of states.  *)

OwnAt(A, p) == p \in 1..Len(A) /\ A[p].group = "own"
NamesIn(R, n) == R[n].fields \union (IF R[n].key THEN {Key} ELSE {})

Shape(A, R) ==
    /\ Len(A) \in Nat /\ Len(R) \in Nat
    /\ Len(A) >= 2 /\ ~OwnAt(A, 1) /\ ~OwnAt(A, 2)
    /\ \A p \in 1..Len(A) : ~OwnAt(A, p) => A[p].group = "other"
    /\ \A p \in 1..Len(A) : OwnAt(A, p) =>
          A[p].value \in 1..Len(R) /\ A[p].name \in NamesIn(R, A[p].value)
    /\ \A p, q \in 1..Len(A) : OwnAt(A, p) /\ OwnAt(A, q) /\ p < q =>
          A[p].value =< A[q].value
    /\ \A p, q, r \in 1..Len(A) :
          OwnAt(A, p) /\ OwnAt(A, q) /\ A[p].value = A[q].value
          /\ p < r /\ r < q => OwnAt(A, r)
    /\ \A p, q \in 1..Len(A) : OwnAt(A, p) /\ OwnAt(A, q) /\ q = p + 1 =>
          A[p].value = A[q].value
    /\ \A n \in 1..Len(R) : \A a \in NamesIn(R, n) :
          \E p \in 1..Len(A) : OwnAt(A, p) /\ A[p].value = n /\ A[p].name = a
    /\ \A p, q \in 1..Len(A) :
          OwnAt(A, p) /\ OwnAt(A, q) /\ A[p].value = A[q].value
          /\ A[p].name = A[q].name => p = q

(* The groups come in order in the row.                                    *)
LEMMA EndsInOrder ==
    ASSUME NEW E \in [0..N -> Nat], Placed(E), reply \in Seq(Groups)
    PROVE  /\ N \in Nat
           /\ \A n \in 1..N : Len(RowOf(n)) \in Nat /\ Start(E, n) \in Nat
           /\ \A n \in 1..N : Start(E, n) >= 2 /\ E[n] \in Nat /\ E[n] >= Start(E, n)
           /\ \A n, m \in 1..N : n < m => E[n] < Start(E, m)
<1>1. N \in Nat /\ \A n \in 1..N : Len(RowOf(n)) \in Nat
  <2>1. N \in Nat /\ \A n \in 1..N : reply[n] \in Groups
    BY DEF N
  <2>2. \A n \in 1..N : RowOf(n) \in Seq(OwnAttrs(n))
    BY <2>1, RowLists DEF Lists
  <2> QED
    BY <2>1, <2>2, LenProperties
<1>2. \A n \in 0..N : E[n] \in Nat
  OBVIOUS
<1>3. \A n \in 1..N : n # 1 => n - 1 \in 1..N /\ n - 1 \in 0..N
  BY <1>1
<1>4. ASSUME NEW n \in 1..N
      PROVE  /\ Start(E, n) \in Nat /\ E[n] \in Nat /\ E[n] >= Start(E, n)
             /\ n # 1 => Start(E, n) = E[n - 1] + 1 /\ E[n - 1] \in Nat
  <2>1. E[n] = Start(E, n) + Len(RowOf(n))
    BY DEF Placed
  <2>2. n \in 0..N
    BY <1>1
  <2>3. Start(E, n) \in Nat
    BY <1>2, <1>3 DEF Start
  <2>4. n # 1 => Start(E, n) = E[n - 1] + 1 /\ E[n - 1] \in Nat
    BY <1>2, <1>3 DEF Start
  <2> QED
    BY <1>1, <1>2, <2>1, <2>2, <2>3, <2>4
<1> DEFINE Good(m) == Start(E, m) >= 2 /\ \A n \in 1..N : n < m => E[n] < Start(E, m)
           Bad == {m \in 1..N : ~Good(m)}
<1>5. ASSUME NEW m \in Bad, \A k \in Bad : m =< k
      PROVE  FALSE
  <2>0. m \in 1..N /\ ~Good(m) /\ m \in Nat
    BY <1>1
  <2>1. CASE m = 1
    <3>1. Start(E, m) = 2 /\ \A n \in 1..N : ~(n < m)
      BY <1>1, <2>1 DEF Start
    <3> QED
      BY <2>0, <3>1
  <2>2. CASE m # 1
    <3>1. m - 1 \in 1..N /\ m - 1 \notin Bad
      <4> HIDE DEF Bad
      <4> QED
        BY <1>3, <1>5, <2>0, <2>2
    <3>2. Good(m - 1)
      BY <3>1
    <3>3. Start(E, m) = E[m - 1] + 1 /\ E[m - 1] >= Start(E, m - 1)
          /\ E[m - 1] \in Nat /\ Start(E, m - 1) \in Nat
      BY <1>4, <2>0, <2>2, <3>1
    <3>4. Start(E, m) >= 2
      BY <3>2, <3>3
    <3>5. ASSUME NEW n \in 1..N, n < m
          PROVE  E[n] < Start(E, m)
      <4>1. n = m - 1 \/ n < m - 1
        BY <1>1, <2>0, <3>5
      <4>2. n < m - 1 => E[n] < Start(E, m - 1)
        BY <3>2
      <4>3. E[n] \in Nat
        BY <1>4
      <4> QED
        BY <3>3, <4>1, <4>2, <4>3
    <3> QED
      BY <2>0, <3>4, <3>5
  <2> QED
    BY <2>1, <2>2
<1>6. Bad = {}
  <2>1. Bad \in SUBSET Nat
    BY <1>1
  <2> HIDE DEF Bad
  <2> QED
    BY <1>5, <2>1, LeastExists
<1>7. \A m \in 1..N : Good(m)
  BY <1>6
<1> QED
  BY <1>1, <1>4, <1>7

(* Position p is one of the group n.                                       *)
In(E, p, n) == n \in 1..N /\ Start(E, n) < p /\ p =< E[n]

LEMMA OwnIsInGroup ==
    ASSUME NEW E \in [0..N -> Nat], Placed(E), reply \in Seq(Groups),
           NEW p \in 1..Len(Attrs)
    PROVE  /\ \A n : In(E, p, n) =>
                 OwnAt(Attrs, p) /\ Attrs[p] \in OwnAttrs(n) /\ Attrs[p].value = n
           /\ OwnAt(Attrs, p) => \E n \in 1..N : In(E, p, n)
           /\ ~OwnAt(Attrs, p) => Attrs[p].group = "other"
<1>0. /\ N \in Nat
      /\ \A n \in 1..N : Len(RowOf(n)) \in Nat /\ Start(E, n) \in Nat
      /\ \A n \in 1..N : Start(E, n) >= 2 /\ E[n] \in Nat /\ E[n] >= Start(E, n)
      /\ \A n, m \in 1..N : n < m => E[n] < Start(E, m)
  BY EndsInOrder
<1>1. ASSUME NEW n, In(E, p, n)
      PROVE  OwnAt(Attrs, p) /\ Attrs[p] \in OwnAttrs(n) /\ Attrs[p].value = n
  <2>0. n \in 1..N /\ Start(E, n) < p /\ p =< E[n]
    BY <1>1 DEF In
  <2>1. E[n] = Start(E, n) + Len(RowOf(n))
        /\ \A i \in 1..Len(RowOf(n)) : Attrs[Start(E, n) + i] = RowOf(n)[i]
    BY <2>0 DEF Placed
  <2>2. p \in Nat /\ Start(E, n) \in Nat /\ Len(RowOf(n)) \in Nat
    BY <1>0, <2>0
  <2>3. p - Start(E, n) \in 1..Len(RowOf(n)) /\ Start(E, n) + (p - Start(E, n)) = p
    BY <2>0, <2>1, <2>2
  <2>4. Attrs[p] = RowOf(n)[p - Start(E, n)]
    BY <2>1, <2>3
  <2>5. RowOf(n) \in Seq(OwnAttrs(n))
    BY <2>0, RowLists DEF Lists, N
  <2>6. RowOf(n)[p - Start(E, n)] \in OwnAttrs(n)
    BY <2>3, <2>5, ElementOfSeq
  <2>7. \A x \in OwnAttrs(n) : x.group = "own" /\ x.value = n
    BY DEF OwnAttrs, Own1
  <2> QED
    BY <2>4, <2>6, <2>7 DEF OwnAt
<1>2. p =< 2 => Attrs[p].group = "other"
  BY DEF Placed
<1>3. ASSUME p > 2
      PROVE  (\E n \in 1..N : In(E, p, n)) \/ Attrs[p].group = "other"
  <2> DEFINE After == {m \in 1..N : p =< E[m]}
  <2>1. After \in SUBSET Nat
    BY <1>0
  <2>2. After # {}
    <3>1. Len(Attrs) = E[N] /\ E[0] = 2
      BY DEF Placed
    <3>2. N \in 1..N
      BY <1>0, <1>3, <3>1
    <3> QED
      BY <3>1, <3>2
  <2>3. PICK n \in After : \A k \in After : n =< k
    BY ONLY <2>1, <2>2, LeastExists
  <2>4. n \in 1..N /\ p =< E[n]
    OBVIOUS
  <2>5. CASE Start(E, n) < p
    BY <2>4, <2>5 DEF In
  <2>6. CASE ~(Start(E, n) < p)
    <3>1. n # 1 /\ n \in Nat /\ Start(E, n) \in Nat /\ p \in Nat
      BY <1>0, <1>3, <2>4, <2>6 DEF Start
    <3>2. n - 1 \in 1..N /\ n - 1 \notin After
      <4>1. n - 1 \in 1..N /\ ~(n =< n - 1)
        BY <1>0, <2>4, <3>1
      <4> HIDE DEF After
      <4> QED
        BY ONLY <2>3, <4>1
    <3>3. Start(E, n) = E[n - 1] + 1 /\ E[n - 1] \in Nat /\ ~(p =< E[n - 1])
      BY <1>0, <3>1, <3>2 DEF Start
    <3>4. p = E[n - 1] + 1
      BY <2>6, <3>1, <3>3
    <3>5. n > 1
      BY <1>0, <2>4, <3>1
    <3> QED
      BY <2>4, <3>4, <3>5 DEF Placed
  <2> QED
    BY <2>5, <2>6
<1>4. "own" # "other" /\ (p =< 2 \/ p > 2)
  OBVIOUS
<1>5. OwnAt(Attrs, p) <=> Attrs[p].group = "own"
  BY DEF OwnAt
<1> QED
  BY ONLY <1>1, <1>2, <1>3, <1>4, <1>5

LEMMA RowHasShape ==
    ASSUME reply \in Seq(Groups)
    PROVE  Shape(Attrs, reply)
<1>1. PICK E \in [0..N -> Nat] : Placed(E)
  BY RowsArePlaced
<1>0. /\ N \in Nat
      /\ \A n \in 1..N : Len(RowOf(n)) \in Nat /\ Start(E, n) \in Nat
      /\ \A n \in 1..N : Start(E, n) >= 2 /\ E[n] \in Nat /\ E[n] >= Start(E, n)
      /\ \A n, m \in 1..N : n < m => E[n] < Start(E, m)
  BY <1>1, EndsInOrder
<1> DEFINE A == Attrs
           L == Len(Attrs)
<1>2. L \in Nat /\ L >= 2 /\ ~OwnAt(A, 1) /\ ~OwnAt(A, 2) /\ N = Len(reply)
      /\ \A n \in 1..N : E[n] =< L
  <2>1. Attrs \in Seq(AllAttrs) /\ L = E[N] /\ E[0] = 2
    BY <1>1 DEF Placed
  <2>2. L \in Nat
    BY <2>1, LenProperties
  <2>3. E[N] >= 2
    <3>1. N = 0 \/ N \in 1..N
      BY <1>0
    <3>2. CASE N \in 1..N
      BY ONLY <1>0, <3>2
    <3> QED
      BY <2>1, <3>1, <3>2
  <2>4. ~OwnAt(A, 1) /\ ~OwnAt(A, 2)
    BY <1>1 DEF Placed, OwnAt
  <2>5. ASSUME NEW n \in 1..N PROVE E[n] =< E[N]
    <3>1. n = N \/ (N \in 1..N /\ n < N)
      BY <1>0
    <3>2. CASE n = N
      BY <1>0, <3>2
    <3>3. CASE N \in 1..N /\ n < N
      <4>1. E[n] < Start(E, N) /\ Start(E, N) =< E[N]
        BY <1>0, <3>3
      <4>2. E[n] \in Nat /\ E[N] \in Nat /\ Start(E, N) \in Nat
        BY <1>0, <3>3
      <4> QED
        BY ONLY <4>1, <4>2
    <3> QED
      BY <3>1, <3>2, <3>3
  <2> QED
    BY <2>1, <2>2, <2>3, <2>4, <2>5 DEF N
<1>3. \A p \in 1..L :
         /\ \A n : In(E, p, n) =>
               OwnAt(A, p) /\ A[p] \in OwnAttrs(n) /\ A[p].value = n
         /\ OwnAt(A, p) => \E n \in 1..N : In(E, p, n)
         /\ ~OwnAt(A, p) => A[p].group = "other"
  BY <1>1, OwnIsInGroup
<1>4. \A p \in 1..L : OwnAt(A, p) =>
         /\ A[p].value \in 1..N /\ In(E, p, A[p].value)
         /\ A[p] \in OwnAttrs(A[p].value)
  BY <1>3
<1>5. \A n : NamesIn(reply, n) = NamesOf(n)
  BY DEF NamesIn, NamesOf
<1>6. \A p \in 1..L : OwnAt(A, p) => A[p].name \in NamesOf(A[p].value)
  <2>1. \A n : \A x \in OwnAttrs(n) : x.name \in NamesOf(n)
    BY DEF OwnAttrs, Own1
  <2> QED
    BY <1>4, <2>1
<1>7. ASSUME NEW p \in 1..L, NEW q \in 1..L, NEW n, NEW m,
             In(E, p, n), In(E, q, m), p < q
      PROVE  n =< m
  <2>1. n \in 1..N /\ m \in 1..N /\ p =< E[n] /\ q =< E[m]
        /\ Start(E, n) < p /\ Start(E, m) < q
    BY <1>7 DEF In
  <2>2. m < n => E[m] < Start(E, n)
    BY <1>0, <2>1
  <2>3. E[m] \in Nat /\ Start(E, n) \in Nat /\ p \in Nat /\ q \in Nat
    BY <1>0, <2>1
  <2> QED
    BY <1>0, <1>7, <2>1, <2>2, <2>3
<1>8. ASSUME NEW p \in 1..L, NEW q \in 1..L, NEW r \in 1..L, NEW n,
             In(E, p, n), In(E, q, n), p < r, r < q
      PROVE  In(E, r, n)
  <2>1. n \in 1..N /\ Start(E, n) < p /\ q =< E[n]
    BY <1>8 DEF In
  <2>2. Start(E, n) \in Nat /\ E[n] \in Nat
    BY <1>0, <2>1
  <2> QED
    BY <1>8, <2>1, <2>2 DEF In
<1>9. ASSUME NEW p \in 1..L, NEW q \in 1..L, NEW n, NEW m,
             In(E, p, n), In(E, q, m), q = p + 1
      PROVE  n = m
  <2>1. n \in 1..N /\ m \in 1..N /\ p =< E[n] /\ Start(E, m) < q
    BY <1>9 DEF In
  <2>2. n =< m
    BY <1>7, <1>9
  <2>3. n < m => E[n] < Start(E, m)
    BY <1>0, <2>1
  <2>4. E[n] \in Nat /\ Start(E, m) \in Nat
    BY <1>0, <2>1
  <2> QED
    BY <1>0, <1>9, <2>1, <2>2, <2>3, <2>4
<1>10. ASSUME NEW n \in 1..N
       PROVE  /\ Lists(RowOf(n), n) /\ Len(RowOf(n)) \in Nat
              /\ E[n] = Start(E, n) + Len(RowOf(n)) /\ Start(E, n) \in Nat
              /\ \A i \in 1..Len(RowOf(n)) : A[Start(E, n) + i] = RowOf(n)[i]
  <2>1. reply[n] \in Groups
    BY DEF N
  <2>2. Lists(RowOf(n), n)
    BY <2>1, RowLists
  <2> QED
    BY <1>0, <1>1, <2>2 DEF Placed
<1>11. ASSUME NEW n \in 1..N, NEW a \in NamesOf(n)
       PROVE  \E p \in 1..L : OwnAt(A, p) /\ A[p].value = n /\ A[p].name = a
  <2>1. Own1(n, a) \in OwnAttrs(n)
    BY DEF OwnAttrs
  <2>2. PICK i \in 1..Len(RowOf(n)) : RowOf(n)[i] = Own1(n, a)
    BY <1>10, <2>1 DEF Lists
  <2> DEFINE p == Start(E, n) + i
  <2>3. In(E, p, n) /\ p \in 1..L
    <3>1. E[n] \in Nat /\ E[n] =< L
      BY <1>0, <1>2
    <3> QED
      BY <1>2, <1>10, <3>1 DEF In
  <2>4. A[p] = Own1(n, a)
    BY <1>10, <2>2
  <2>5. OwnAt(A, p) /\ A[p].value = n
    BY <1>3, <2>3
  <2> QED
    BY <2>3, <2>4, <2>5 DEF Own1
<1>12. ASSUME NEW p \in 1..L, NEW q \in 1..L, OwnAt(A, p), OwnAt(A, q),
              A[p].value = A[q].value, A[p].name = A[q].name
       PROVE  p = q
  <2> DEFINE n == A[p].value
  <2>1. n \in 1..N /\ In(E, p, n) /\ In(E, q, n)
        /\ A[p] \in OwnAttrs(n) /\ A[q] \in OwnAttrs(n)
    BY <1>4, <1>12
  <2>2. A[p] = A[q]
    BY <1>12, <2>1 DEF OwnAttrs, Own1
  <2> HIDE DEF n, A
  <2>3. /\ Lists(RowOf(n), n) /\ Len(RowOf(n)) \in Nat
        /\ E[n] = Start(E, n) + Len(RowOf(n)) /\ Start(E, n) \in Nat
        /\ \A i \in 1..Len(RowOf(n)) : A[Start(E, n) + i] = RowOf(n)[i]
    BY <1>10, <2>1
  <2> DEFINE i == p - Start(E, n)
             j == q - Start(E, n)
  <2>4. i \in 1..Len(RowOf(n)) /\ j \in 1..Len(RowOf(n))
        /\ p = Start(E, n) + i /\ q = Start(E, n) + j
    BY <2>1, <2>3 DEF In
  <2> HIDE DEF i, j
  <2>5. RowOf(n)[i] = RowOf(n)[j]
    BY <2>2, <2>3, <2>4
  <2>6. i = j
    BY <2>3, <2>4, <2>5 DEF Lists
  <2> QED
    BY <2>4, <2>6
<1> HIDE DEF A, L
<1>13. \A p, q \in 1..L : OwnAt(A, p) /\ OwnAt(A, q) /\ p < q =>
          A[p].value =< A[q].value
  BY <1>4, <1>7
<1>14. \A p, q, r \in 1..L :
          OwnAt(A, p) /\ OwnAt(A, q) /\ A[p].value = A[q].value
          /\ p < r /\ r < q => OwnAt(A, r)
  BY <1>3, <1>4, <1>8
<1>15. \A p, q \in 1..L : OwnAt(A, p) /\ OwnAt(A, q) /\ q = p + 1 =>
          A[p].value = A[q].value
  BY <1>4, <1>9
<1>16. L = Len(A)
  BY DEF A, L
<1> QED
  BY <1>0, <1>2, <1>3, <1>4, <1>5, <1>6, <1>11, <1>12, <1>13, <1>14, <1>15,
     <1>16 DEF Shape, A

-----------------------------------------------------------------------------
(* What the readers know of the part of the row they have passed: p is the *)
(* position they are at.                                                   *)

Is(A, p, n) == OwnAt(A, p) /\ A[p].value = n

Passed(A, p, n) == \E q \in 1..Len(A) : q < p /\ Is(A, q, n)

(* v is the value of the last attribute a before p, or 0 for none.         *)
Newest(A, p, a, v) ==
    /\ \A q \in 1..Len(A) :
          q < p /\ OwnAt(A, q) /\ A[q].name = a => A[q].value =< v
    /\ v # 0 => \E q \in 1..Len(A) : q < p /\ Is(A, q, v) /\ A[q].name = a

(* Group n has not been left: if it is begun, it is the one before p.      *)
NotLeft(A, p, n) == Passed(A, p, n) => Is(A, p - 1, n)

(* v is the value of attribute a in the group just before p, 0 if it has   *)
(* none or there is no group.                                              *)
OfRun(A, p, a, v) ==
    LET Has == \E q \in 1..Len(A) : q < p /\ OwnAt(A, p - 1)
                      /\ Is(A, q, A[p - 1].value) /\ A[q].name = a
    IN  /\ Has => v = A[p - 1].value
        /\ ~Has => v = 0

(* The same for a reader that goes backwards in group n.                   *)
OfJob(A, p, n, a, v) ==
    LET Has == \E q \in 1..Len(A) : q > p /\ Is(A, q, n) /\ A[q].name = a
    IN  /\ Has => v = n
        /\ ~Has => v = 0

(* The jobs that come after p: the newest c of the groups R; those from n  *)
(* on, of which n may also come before.                                    *)
Counted(A, R, p, c) ==
    \A q \in 1..Len(A) : OwnAt(A, q) => (q > p <=> A[q].value > Len(R) - c)

Parts(A, p, n) ==
    \A q \in 1..Len(A) : OwnAt(A, q) =>
        /\ q > p => A[q].value >= n
        /\ q =< p => A[q].value =< n

FieldsSeen(A, p) ==
    {f \in Fields : \E q \in 1..Len(A) : q < p /\ OwnAt(A, q) /\ A[q].name = f}

(* The group n of the groups R as a Ppd or a job.                          *)
OwnIn(R, n, store) ==
    [key |-> n, fields |-> [f \in Fields |->
        IF f \in R[n].fields \intersect store THEN n ELSE 0]]

-----------------------------------------------------------------------------
(* The inductive invariant: what the reply is, and for each kind of reader *)
(* how what it has put together follows from what it has passed.           *)

ReplyOK ==
    /\ reply \in Seq(Groups)
    /\ reader # "models" => \A n \in 1..Len(reply) : reply[n].key
    /\ reader = "models" =>
          \A n \in 1..Len(reply) : reply[n].key \/ reply[n].fields # {}
    /\ reader = "members" => Len(reply) =< 1
    /\ reader \in Readers /\ limit \in 0..MaxGroups
    /\ wanted \in 0..Len(reply) /\ (wanted # 0 => reader \in Finders)

Scalars ==
    /\ pos \in 1..Len(Attrs) + 1
    /\ reader = "jobs" => pos <= Len(Attrs)
    /\ pc \in {"outer", "group", "done"}
    /\ printer \in 0..Len(reply)
    /\ value \in [Fields -> 0..Len(reply)]
    /\ found \in BOOLEAN
    /\ count \in 0..Len(reply) + 1

Outside == Forwards /\ pc = "outer" => ~OwnAt(Attrs, pos - 1)

Seeks ==
    reader \in Finders /\ pc # "done" =>
        /\ ~found
        /\ Newest(Attrs, pos, Key, printer)
        /\ wanted # 0 => NotLeft(Attrs, pos, wanted)

Collects ==
    reader \in {"attribute", "status"} /\ pc # "done" =>
        \A f \in Fields : Newest(Attrs, pos, f, value[f])

KeysListed ==
    reader \in {"names", "makes"} =>
        /\ list \in Seq(Nat) /\ \A i \in 1..Len(list) : list[i] = i
        /\ Newest(Attrs, pos, Key, Len(list))
        /\ pc = "done" => pos > Len(Attrs)

MembersListed ==
    reader = "members" =>
        /\ list \in Seq({1})
        /\ IsFiniteSet(FieldsSeen(Attrs, pos))
        /\ Cardinality(FieldsSeen(Attrs, pos)) = Len(list)
        /\ pc = "done" => \A q \in 1..Len(Attrs) : OwnAt(Attrs, q) => q < pos

Gathers ==
    reader = "models" /\ pc = "group" =>
        /\ OfRun(Attrs, pos, Key, printer)
        /\ \A f \in Fields : OfRun(Attrs, pos, f, value[f])

ModelsListed ==
    reader = "models" =>
        /\ list \in Seq([key : Nat, fields : [Fields -> Nat]])
        /\ \A i \in 1..Len(list) :
              /\ list[i].key \in 1..Len(reply) /\ reply[list[i].key].key
              /\ Passed(Attrs, pos, list[i].key)
              /\ pc = "group" => ~Is(Attrs, pos - 1, list[i].key)
              /\ list[i] = OwnIn(reply, list[i].key, Fields)
              /\ i > 1 => list[i - 1].key < list[i].key
        /\ \A n \in 1..Len(reply) :
              /\ reply[n].key /\ Passed(Attrs, pos, n)
              /\ ~(pc = "group" /\ Is(Attrs, pos - 1, n))
              => \E i \in 1..Len(list) : list[i].key = n
        /\ pc = "done" => pos > Len(Attrs)

JobOuter ==
    reader = "jobs" /\ pc = "outer" =>
        /\ ~(OwnAt(Attrs, pos) /\ OwnAt(Attrs, pos + 1))
        /\ count =< Len(reply) /\ Len(list) = count
        /\ limit # 0 => count =< limit
        /\ Counted(Attrs, reply, pos, count)

JobGroup ==
    reader = "jobs" /\ pc = "group" =>
        LET n == Len(reply) + 1 - count
        IN  /\ count >= 1 /\ Len(list) = count - 1
            /\ limit # 0 => count =< limit
            /\ (n = 0 /\ pos = 1) \/ Is(Attrs, pos, n) \/ Is(Attrs, pos + 1, n)
            /\ Parts(Attrs, pos, n)
            /\ OfJob(Attrs, pos, n, Key, printer)
            /\ \A f \in Fields \ {UserName} :
                  OfJob(Attrs, pos, n, f, value[f])
            /\ value[UserName] = 0

JobsListed ==
    reader = "jobs" =>
        /\ list \in Seq([key : Nat, fields : [Fields -> Nat]])
        /\ \A i \in 1..Len(list) :
              list[i] = OwnIn(reply, Len(reply) + 1 - i, Fields \ {UserName})
        /\ pc = "done" => Len(list) = IF limit = 0 \/ limit > Len(reply)
                                      THEN Len(reply) ELSE limit

IInv ==
    /\ ReplyOK /\ Scalars /\ Outside /\ Seeks /\ Collects /\ FoundHasOwnValues
    /\ KeysListed /\ MembersListed /\ Gathers /\ ModelsListed
    /\ JobOuter /\ JobGroup /\ JobsListed

-----------------------------------------------------------------------------
(* A step along the row.                                                   *)

LEMMA ShapeTypes ==
    ASSUME NEW A, NEW R, Shape(A, R)
    PROVE  /\ Len(A) \in Nat /\ Len(R) \in Nat /\ Len(A) >= 2
           /\ \A p : OwnAt(A, p) =>
                 /\ p \in 1..Len(A) /\ p > 2 /\ A[p].value \in 1..Len(R)
                 /\ A[p].name \in NamesIn(R, A[p].value)
           /\ \A p, q : OwnAt(A, p) /\ OwnAt(A, q) /\ p < q =>
                 A[p].value =< A[q].value
<1>1. /\ Len(A) \in Nat /\ Len(R) \in Nat /\ Len(A) >= 2
      /\ ~OwnAt(A, 1) /\ ~OwnAt(A, 2)
  BY DEF Shape
<1>2. \A p : OwnAt(A, p) => p \in 1..Len(A)
  BY DEF OwnAt
<1>3. \A p \in 1..Len(A) : p > 2 \/ p = 1 \/ p = 2
  BY <1>1
<1>4. \A p \in 1..Len(A) : OwnAt(A, p) =>
          A[p].value \in 1..Len(R) /\ A[p].name \in NamesIn(R, A[p].value)
  BY DEF Shape
<1>5. \A p, q \in 1..Len(A) : OwnAt(A, p) /\ OwnAt(A, q) /\ p < q =>
          A[p].value =< A[q].value
  BY DEF Shape
<1> QED
  BY ONLY <1>1, <1>2, <1>3, <1>4, <1>5

LEMMA NewestBegins ==
    ASSUME NEW A, NEW R, Shape(A, R), NEW a
    PROVE  Newest(A, 1, a, 0)
BY ShapeTypes DEF Newest

LEMMA NewestSkips ==
    ASSUME NEW A, NEW R, Shape(A, R), NEW p \in Nat, ~OwnAt(A, p),
           NEW a, NEW v, Newest(A, p, a, v)
    PROVE  Newest(A, p + 1, a, v)
<1>1. \A q \in 1..Len(A) : q < p + 1 /\ OwnAt(A, q) => q < p
  BY ShapeTypes
<1>2. \A q \in 1..Len(A) : q < p => q < p + 1
  BY ShapeTypes
<1> QED
  BY ONLY <1>1, <1>2, Newest(A, p, a, v) DEF Newest

LEMMA NewestTakes ==
    ASSUME NEW A, NEW R, Shape(A, R), NEW p, OwnAt(A, p),
           NEW a, NEW v, v \in 0..Len(R), Newest(A, p, a, v)
    PROVE  Newest(A, p + 1, a, IF A[p].name = a THEN A[p].value ELSE v)
<1>0. p \in 1..Len(A) /\ p \in Nat /\ Len(A) \in Nat /\ Len(R) \in Nat
  BY ShapeTypes
<1>1. \A q \in 1..Len(A) : q < p + 1 => q < p \/ q = p
  BY <1>0
<1>2. \A q \in 1..Len(A) : q < p => q < p + 1
  BY <1>0
<1>3. CASE A[p].name = a
  <2>1. \A q \in 1..Len(A) : q < p + 1 /\ OwnAt(A, q) => A[q].value =< A[p].value
    BY <1>1, ShapeTypes
  <2>2. p < p + 1 /\ Is(A, p, A[p].value)
    BY <1>0 DEF Is
  <2>3. Newest(A, p + 1, a, A[p].value)
    BY ONLY <1>0, <1>3, <2>1, <2>2 DEF Newest
  <2> QED
    BY <1>3, <2>3
<1>4. CASE A[p].name # a
  <2>1. Newest(A, p + 1, a, v)
    BY ONLY <1>1, <1>2, <1>4, Newest(A, p, a, v) DEF Newest
  <2> QED
    BY <1>4, <2>1
<1> QED
  BY <1>3, <1>4

LEMMA NewestIsKnown ==
    ASSUME NEW A, NEW R, Shape(A, R), NEW p, NEW a, NEW v, Newest(A, p, a, v),
           NEW q, OwnAt(A, q), q < p, A[q].name = a
    PROVE  A[q].value =< v
BY ShapeTypes DEF Newest

LEMMA NotLeftSkips ==
    ASSUME NEW A, NEW R, Shape(A, R), NEW p \in Nat, ~OwnAt(A, p),
           NEW n, ~Passed(A, p, n)
    PROVE  NotLeft(A, p + 1, n)
<1>1. \A q \in 1..Len(A) : q < p + 1 /\ OwnAt(A, q) => q < p
  BY ShapeTypes
<1> QED
  BY ONLY <1>1, ~Passed(A, p, n) DEF NotLeft, Passed, Is

LEMMA NotLeftTakes ==
    ASSUME NEW A, NEW R, Shape(A, R), NEW p, OwnAt(A, p),
           NEW n, NotLeft(A, p, n)
    PROVE  NotLeft(A, p + 1, n)
<1>0. p \in 1..Len(A) /\ p \in Nat /\ Len(A) \in Nat /\ (p + 1) - 1 = p
      /\ (p - 1) + 1 = p
  BY ShapeTypes
<1>1. \A q \in 1..Len(A) : q < p + 1 => q < p \/ q = p
  BY <1>0
<1>2. Is(A, p - 1, n) => Is(A, p, n)
  <2>1. OwnAt(A, p - 1) => A[p - 1].value = A[p].value
    <3>1. OwnAt(A, p - 1) => p - 1 \in 1..Len(A)
      BY DEF OwnAt
    <3>2. \A x, y \in 1..Len(A) : OwnAt(A, x) /\ OwnAt(A, y) /\ y = x + 1 =>
             A[x].value = A[y].value
      BY DEF Shape
    <3> QED
      BY <1>0, <3>1, <3>2
  <2> QED
    BY <2>1 DEF Is
<1>3. Passed(A, p + 1, n) => Passed(A, p, n) \/ Is(A, p, n)
  BY <1>1 DEF Passed
<1> QED
  BY ONLY <1>0, <1>2, <1>3, NotLeft(A, p, n) DEF NotLeft

(* All of a group that ends before p has been passed.                      *)
LEMMA GroupEnds ==
    ASSUME NEW A, NEW R, Shape(A, R), NEW p \in Nat, ~OwnAt(A, p),
           NEW n, Is(A, p - 1, n), NEW q, OwnAt(A, q), A[q].value = n
    PROVE  q < p
<1>0. Len(A) \in Nat /\ p - 1 \in 1..Len(A) /\ q \in 1..Len(A) /\ OwnAt(A, p - 1)
      /\ A[p - 1].value = n
  BY ShapeTypes DEF Is
<1>1. ASSUME q > p
      PROVE  FALSE
  <2>1. p \in 1..Len(A) /\ p - 1 < p
    BY <1>0, <1>1
  <2>2. \A x, y, r \in 1..Len(A) :
           OwnAt(A, x) /\ OwnAt(A, y) /\ A[x].value = A[y].value
           /\ x < r /\ r < y => OwnAt(A, r)
    BY DEF Shape
  <2> QED
    BY <1>0, <1>1, <2>1, <2>2
<1>2. q # p /\ q \in Nat
  BY <1>0
<1> QED
  BY ONLY <1>1, <1>2, p \in Nat

(* The group looked for is not left unnoticed: at its end its key is the   *)
(* last key that was seen.                                                 *)
LEMMA WantedIsSeen ==
    ASSUME NEW A, NEW R, Shape(A, R), NEW p \in Nat, ~OwnAt(A, p),
           NEW n \in 1..Len(R), R[n].key, NEW v, v \in 0..Len(R),
           Newest(A, p, Key, v), NotLeft(A, p, n),
           Passed(A, p, n) \/ p > Len(A)
    PROVE  v = n
<1>1. Key \in NamesIn(R, n)
  BY DEF NamesIn
<1>2. PICK k \in 1..Len(A) : OwnAt(A, k) /\ A[k].value = n /\ A[k].name = Key
  BY <1>1 DEF Shape
<1>3. k < p
  <2>1. CASE p > Len(A)
    BY <2>1, ShapeTypes
  <2>2. CASE Passed(A, p, n)
    BY <1>2, <2>2, GroupEnds DEF NotLeft
  <2> QED
    BY <2>1, <2>2
<1>4. Is(A, p - 1, n)
  BY <1>2, <1>3 DEF NotLeft, Passed, Is
<1>5. n =< v /\ v \in Nat /\ n \in Nat /\ v # 0
  BY <1>2, <1>3, NewestIsKnown, ShapeTypes
<1>6. PICK q \in 1..Len(A) : q < p /\ Is(A, q, v) /\ A[q].name = Key
  BY <1>5 DEF Newest
<1>7. v =< n
  <2>1. q < p - 1 \/ q = p - 1
    BY <1>6, ShapeTypes
  <2> QED
    BY <1>4, <1>5, <1>6, <2>1, ShapeTypes DEF Is
<1> QED
  BY <1>5, <1>7

(* At the end of the group looked for, what is known of its attributes is  *)
(* its own.                                                                *)
LEMMA WantedIsFound ==
    ASSUME NEW A, NEW R, Shape(A, R), NEW p \in Nat, ~OwnAt(A, p),
           NEW n \in 1..Len(R), Newest(A, p, Key, n), NotLeft(A, p, n)
    PROVE  /\ \A q : OwnAt(A, q) /\ A[q].value = n => q < p
           /\ \A f \in R[n].fields, v \in 0..Len(R) : Newest(A, p, f, v) => v = n
<1>1. n # 0
  BY ShapeTypes
<1>2. Passed(A, p, n)
  BY <1>1 DEF Newest, Passed
<1>3. Is(A, p - 1, n)
  BY <1>2 DEF NotLeft
<1>4. \A q : OwnAt(A, q) /\ A[q].value = n => q < p
  BY <1>3, GroupEnds
<1>5. ASSUME NEW f \in R[n].fields, NEW v \in 0..Len(R), Newest(A, p, f, v)
      PROVE  v = n
  <2>1. f \in NamesIn(R, n)
    BY DEF NamesIn
  <2>2. PICK k \in 1..Len(A) : OwnAt(A, k) /\ A[k].value = n /\ A[k].name = f
    BY <2>1 DEF Shape
  <2>3. n =< v /\ v \in Nat /\ n \in Nat /\ v # 0
    BY <1>4, <1>5, <2>2, NewestIsKnown, ShapeTypes
  <2>4. PICK q \in 1..Len(A) : q < p /\ Is(A, q, v) /\ A[q].name = f
    BY <1>5, <2>3 DEF Newest
  <2>5. q < p - 1 \/ q = p - 1
    BY <2>4, ShapeTypes
  <2> QED
    <3>1. OwnAt(A, q) /\ A[q].value = v /\ OwnAt(A, p - 1) /\ A[p - 1].value = n
      BY <1>3, <2>4 DEF Is
    <3>2. v =< n
      BY <2>3, <2>5, <3>1, ShapeTypes
    <3> QED
      BY <2>3, <3>2
<1> QED
  BY <1>4, <1>5

(* When each group has a key, the keys are the numbers of the groups.      *)
LEMMA NextKey ==
    ASSUME NEW A, NEW R, Shape(A, R), \A n \in 1..Len(R) : R[n].key,
           NEW p, OwnAt(A, p), A[p].name = Key,
           NEW v \in 0..Len(R), Newest(A, p, Key, v)
    PROVE  A[p].value = v + 1
<1>0. p \in 1..Len(A) /\ Len(A) \in Nat /\ Len(R) \in Nat /\ v \in Nat
      /\ A[p].value \in 1..Len(R)
  BY ShapeTypes
<1>1. v < A[p].value
  <2>1. CASE v = 0
    BY <1>0, <2>1
  <2>2. CASE v # 0
    <3>1. PICK q \in 1..Len(A) : q < p /\ Is(A, q, v) /\ A[q].name = Key
      BY <2>2 DEF Newest
    <3>2. v =< A[p].value /\ OwnAt(A, q) /\ A[q].value = v
      BY <3>1, ShapeTypes DEF Is
    <3>3. v # A[p].value
      <4>1. \A x, y \in 1..Len(A) :
               OwnAt(A, x) /\ OwnAt(A, y) /\ A[x].value = A[y].value
               /\ A[x].name = A[y].name => x = y
        BY DEF Shape
      <4> QED
        BY <1>0, <3>1, <3>2, <4>1
    <3> QED
      BY <1>0, <3>2, <3>3
  <2> QED
    BY <2>1, <2>2
<1>2. ASSUME v + 1 < A[p].value
      PROVE  FALSE
  <2>1. v + 1 \in 1..Len(R)
    BY <1>0, <1>2
  <2>2. Key \in NamesIn(R, v + 1)
    BY <2>1 DEF NamesIn
  <2>3. PICK k \in 1..Len(A) :
           OwnAt(A, k) /\ A[k].value = v + 1 /\ A[k].name = Key
    BY <2>1, <2>2 DEF Shape
  <2>4. k < p
    <3>1. k # p
      BY <1>0, <1>2, <2>3
    <3>2. p < k => A[p].value =< v + 1
      BY <2>3, ShapeTypes
    <3> QED
      BY <1>0, <1>2, <3>1, <3>2
  <2>5. v + 1 =< v
    BY <2>3, <2>4, NewestIsKnown
  <2> QED
    BY <1>0, <2>5
<1> QED
  BY <1>0, <1>1, <1>2

(* In a reply of one group each attribute is seen once.                    *)
LEMMA FieldsSeenBegins ==
    ASSUME NEW A, NEW R, Shape(A, R)
    PROVE  IsFiniteSet(FieldsSeen(A, 1)) /\ Cardinality(FieldsSeen(A, 1)) = 0
<1>1. FieldsSeen(A, 1) = {}
  BY ShapeTypes DEF FieldsSeen
<1> QED
  BY <1>1, FS_EmptySet

LEMMA FieldsSeenSkips ==
    ASSUME NEW A, NEW R, Shape(A, R), NEW p \in Nat, ~OwnAt(A, p)
    PROVE  FieldsSeen(A, p + 1) = FieldsSeen(A, p)
<1>1. \A q \in 1..Len(A) : OwnAt(A, q) => (q < p + 1 <=> q < p)
  BY ShapeTypes
<1> QED
  BY ONLY <1>1 DEF FieldsSeen

LEMMA FieldsSeenTakes ==
    ASSUME NEW A, NEW R, Shape(A, R), Len(R) =< 1, NEW p, OwnAt(A, p),
           IsFiniteSet(FieldsSeen(A, p))
    PROVE  /\ IsFiniteSet(FieldsSeen(A, p + 1))
           /\ Cardinality(FieldsSeen(A, p + 1)) =
                 IF A[p].name \in Fields THEN Cardinality(FieldsSeen(A, p)) + 1
                                         ELSE Cardinality(FieldsSeen(A, p))
<1> DEFINE a == A[p].name
           S == FieldsSeen(A, p)
<1>0. p \in 1..Len(A) /\ Len(A) \in Nat /\ Len(R) \in Nat
  BY ShapeTypes
<1>1. \A q \in 1..Len(A) : OwnAt(A, q) => A[q].value = 1
  BY <1>0, ShapeTypes
<1>2. \A q \in 1..Len(A) : q < p /\ OwnAt(A, q) => A[q].name # a
  <2>1. \A x, y \in 1..Len(A) :
           OwnAt(A, x) /\ OwnAt(A, y) /\ A[x].value = A[y].value
           /\ A[x].name = A[y].name => x = y
    BY DEF Shape
  <2> QED
    BY <1>0, <1>1, <2>1
<1>3. \A q \in 1..Len(A) : q < p + 1 <=> q < p \/ q = p
  BY <1>0
<1>4. CASE a \in Fields
  <2>1. FieldsSeen(A, p + 1) = S \union {a}
    BY <1>0, <1>3, <1>4 DEF FieldsSeen
  <2>2. a \notin S
    BY <1>2 DEF FieldsSeen
  <2> HIDE DEF S, a
  <2>3. IsFiniteSet(S)
    BY DEF S
  <2>4. IsFiniteSet(S \union {a}) /\ Cardinality(S \union {a}) = Cardinality(S) + 1
    BY <2>2, <2>3, FS_AddElement
  <2> QED
    BY <1>4, <2>1, <2>4 DEF S, a
<1>5. CASE a \notin Fields
  <2>1. FieldsSeen(A, p + 1) = S
    BY <1>0, <1>3, <1>5 DEF FieldsSeen
  <2> QED
    BY <1>5, <2>1
<1> QED
  BY <1>4, <1>5

(* All attributes of the only group, when all of them have been passed.    *)
LEMMA FieldsSeenAll ==
    ASSUME NEW A, NEW R, Shape(A, R), Len(R) = 1, R[1] \in Groups,
           NEW p, \A q : OwnAt(A, q) => q < p
    PROVE  FieldsSeen(A, p) = R[1].fields
<1>1. ASSUME NEW f \in R[1].fields
      PROVE  f \in FieldsSeen(A, p)
  <2>1. f \in NamesIn(R, 1) /\ f \in Fields /\ 1 \in 1..Len(R)
    BY DEF NamesIn, Groups
  <2>2. PICK k \in 1..Len(A) : OwnAt(A, k) /\ A[k].value = 1 /\ A[k].name = f
    BY <2>1 DEF Shape
  <2> QED
    BY <2>1, <2>2 DEF FieldsSeen
<1>2. ASSUME NEW f \in FieldsSeen(A, p)
      PROVE  f \in R[1].fields
  <2>1. PICK q \in 1..Len(A) : OwnAt(A, q) /\ A[q].name = f /\ f \in Fields
    BY DEF FieldsSeen
  <2>2. f \in NamesIn(R, 1)
    <3>1. A[q].value = 1
      <4>1. A[q].value \in 1..Len(R)
        BY <2>1, ShapeTypes
      <4> QED
        BY ONLY <4>1, Len(R) = 1
    <3> QED
      BY <2>1, <3>1, ShapeTypes
  <2> QED
    BY <2>1, <2>2, FieldsAssumption DEF NamesIn
<1> QED
  BY <1>1, <1>2

(* The attributes of a group as they are gathered.                         *)
LEMMA OfRunBegins ==
    ASSUME NEW A, NEW p, ~OwnAt(A, p - 1), NEW a
    PROVE  OfRun(A, p, a, 0)
BY DEF OfRun

LEMMA NotPassedYet ==
    ASSUME NEW A, NEW R, Shape(A, R), NEW p \in Nat, ~OwnAt(A, p - 1),
           NEW q, OwnAt(A, q), NEW r, OwnAt(A, r), q < p, r >= p
    PROVE  A[q].value # A[r].value
<1>0. q \in 1..Len(A) /\ r \in 1..Len(A) /\ Len(A) \in Nat
  BY ShapeTypes
<1>1. q < p - 1
  BY <1>0
<1>2. p - 1 \in 1..Len(A) /\ p - 1 < r
  BY <1>0, <1>1
<1>3. \A x, y, z \in 1..Len(A) :
         OwnAt(A, x) /\ OwnAt(A, y) /\ A[x].value = A[y].value
         /\ x < z /\ z < y => OwnAt(A, z)
  BY DEF Shape
<1> QED
  BY <1>0, <1>1, <1>2, <1>3

LEMMA OfRunTakes ==
    ASSUME NEW A, NEW R, Shape(A, R), NEW p, OwnAt(A, p),
           NEW a, NEW v, OfRun(A, p, a, v)
    PROVE  OfRun(A, p + 1, a, IF A[p].name = a THEN A[p].value ELSE v)
<1>0. p \in 1..Len(A) /\ p \in Nat /\ Len(A) \in Nat /\ (p + 1) - 1 = p
      /\ (p - 1) + 1 = p
  BY ShapeTypes
<1> DEFINE c == A[p].value
           Has == \E q \in 1..Len(A) : q < p + 1 /\ OwnAt(A, p)
                         /\ Is(A, q, c) /\ A[q].name = a
           Had == \E q \in 1..Len(A) : q < p /\ OwnAt(A, p - 1)
                         /\ Is(A, q, A[p - 1].value) /\ A[q].name = a
<1>1. \A q \in 1..Len(A) : q < p + 1 <=> q < p \/ q = p
  BY <1>0
<1>2. Has <=> A[p].name = a \/ \E q \in 1..Len(A) : q < p /\ Is(A, q, c) /\ A[q].name = a
  BY <1>0, <1>1 DEF Is
<1>3. (\E q \in 1..Len(A) : q < p /\ Is(A, q, c) /\ A[q].name = a) <=> Had
  <2>1. CASE OwnAt(A, p - 1)
    <3>1. p - 1 \in 1..Len(A)
      BY <2>1 DEF OwnAt
    <3>2. \A x, y \in 1..Len(A) : OwnAt(A, x) /\ OwnAt(A, y) /\ y = x + 1 =>
             A[x].value = A[y].value
      BY DEF Shape
    <3>3. A[p - 1].value = c
      BY <1>0, <2>1, <3>1, <3>2
    <3> QED
      BY <2>1, <3>3
  <2>2. CASE ~OwnAt(A, p - 1)
    <3>1. \A q \in 1..Len(A) : q < p => ~Is(A, q, c)
      BY <1>0, <2>2, NotPassedYet DEF Is
    <3> QED
      BY <2>2, <3>1
  <2> QED
    BY <2>1, <2>2
<1>4. /\ Had => v = A[p - 1].value
      /\ ~Had => v = 0
  BY DEF OfRun
<1>5. Had => A[p - 1].value = c
  <2>1. Had => OwnAt(A, p - 1) /\ p - 1 \in 1..Len(A)
    BY DEF OwnAt
  <2>2. \A x, y \in 1..Len(A) : OwnAt(A, x) /\ OwnAt(A, y) /\ y = x + 1 =>
           A[x].value = A[y].value
    BY DEF Shape
  <2> QED
    BY <1>0, <2>1, <2>2
<1> DEFINE w == IF A[p].name = a THEN c ELSE v
<1>6. (Has => w = c) /\ (~Has => w = 0)
  <2> HIDE DEF Has, Had, c
  <2> QED
    BY ONLY <1>2, <1>3, <1>4, <1>5 DEF w
<1>7. OfRun(A, p + 1, a, w)
  <2> HIDE DEF w
  <2> QED
    BY ONLY <1>0, <1>6 DEF OfRun
<1> QED
  BY <1>7

(* At the end of a group what has been gathered is its own, all of it.     *)
LEMMA OfRunEnds ==
    ASSUME NEW A, NEW R, Shape(A, R), NEW p \in Nat, ~OwnAt(A, p),
           NEW n, Is(A, p - 1, n), NEW a, NEW v, OfRun(A, p, a, v)
    PROVE  v = IF a \in NamesIn(R, n) THEN n ELSE 0
<1>0. OwnAt(A, p - 1) /\ A[p - 1].value = n /\ n \in 1..Len(R)
  BY ShapeTypes DEF Is
<1>1. CASE a \in NamesIn(R, n)
  <2>1. PICK k \in 1..Len(A) : OwnAt(A, k) /\ A[k].value = n /\ A[k].name = a
    BY <1>0, <1>1 DEF Shape
  <2>2. k < p
    BY <2>1, GroupEnds
  <2> QED
    BY <1>0, <1>1, <2>1, <2>2 DEF OfRun, Is
<1>2. CASE a \notin NamesIn(R, n)
  <2>1. \A q \in 1..Len(A) : Is(A, q, n) => A[q].name # a
    BY <1>2, ShapeTypes DEF Is
  <2> QED
    BY <1>0, <1>2, <2>1 DEF OfRun
<1> QED
  BY <1>1, <1>2

LEMMA OfRunEndsEmpty ==
    ASSUME NEW A, NEW p, ~OwnAt(A, p - 1), NEW a, NEW v, OfRun(A, p, a, v)
    PROVE  v = 0
BY DEF OfRun

(* Which groups have been passed.                                          *)
LEMMA PassedSkips ==
    ASSUME NEW A, NEW R, Shape(A, R), NEW p \in Nat, ~OwnAt(A, p), NEW n
    PROVE  Passed(A, p + 1, n) <=> Passed(A, p, n)
<1>1. \A q \in 1..Len(A) : OwnAt(A, q) => (q < p + 1 <=> q < p)
  BY ShapeTypes
<1> QED
  BY ONLY <1>1 DEF Passed, Is

LEMMA PassedTakes ==
    ASSUME NEW A, NEW R, Shape(A, R), NEW p, OwnAt(A, p), NEW n
    PROVE  /\ (Passed(A, p + 1, n) /\ ~Is(A, p, n))
                 <=> (Passed(A, p, n) /\ ~Is(A, p - 1, n))
           /\ Passed(A, p, n) => Passed(A, p + 1, n)
<1>0. p \in 1..Len(A) /\ p \in Nat /\ Len(A) \in Nat
      /\ (p - 1) + 1 = p
  BY ShapeTypes
<1>1. \A q \in 1..Len(A) : q < p + 1 <=> q < p \/ q = p
  BY <1>0
<1>2. Passed(A, p + 1, n) <=> Passed(A, p, n) \/ Is(A, p, n)
  BY <1>0, <1>1 DEF Passed
<1>3. Is(A, p - 1, n) => Is(A, p, n)
  <2>1. OwnAt(A, p - 1) => p - 1 \in 1..Len(A)
    BY DEF OwnAt
  <2>2. \A x, y \in 1..Len(A) : OwnAt(A, x) /\ OwnAt(A, y) /\ y = x + 1 =>
           A[x].value = A[y].value
    BY DEF Shape
  <2> QED
    BY <1>0, <2>1, <2>2 DEF Is
<1>4. Passed(A, p, n) /\ Is(A, p, n) => Is(A, p - 1, n)
  <2> SUFFICES ASSUME Passed(A, p, n), Is(A, p, n), ~Is(A, p - 1, n)
               PROVE  FALSE
    OBVIOUS
  <2>1. PICK q \in 1..Len(A) : q < p /\ OwnAt(A, q) /\ A[q].value = n
    BY DEF Passed, Is
  <2>2. A[p].value = n
    BY DEF Is
  <2>3. OwnAt(A, p - 1)
    BY <1>0, <2>1, <2>2, NotPassedYet
  <2>4. p - 1 \in 1..Len(A)
    BY <2>3 DEF OwnAt
  <2>5. \A x, y \in 1..Len(A) : OwnAt(A, x) /\ OwnAt(A, y) /\ y = x + 1 =>
           A[x].value = A[y].value
    BY DEF Shape
  <2> QED
    BY <1>0, <2>2, <2>3, <2>4, <2>5 DEF Is
<1> QED
  BY <1>2, <1>3, <1>4

(* A group passed before comes before the one that is being read.          *)
LEMMA PassedIsLess ==
    ASSUME NEW A, NEW R, Shape(A, R), NEW p \in Nat, NEW n, NEW m,
           Passed(A, p, n), Is(A, p - 1, m), ~Is(A, p - 1, n)
    PROVE  n < m /\ n \in 1..Len(R) /\ m \in 1..Len(R)
<1>1. PICK q \in 1..Len(A) : q < p /\ OwnAt(A, q) /\ A[q].value = n
  BY DEF Passed, Is
<1>2. OwnAt(A, p - 1) /\ A[p - 1].value = m
  BY DEF Is
<1>3. n \in 1..Len(R) /\ m \in 1..Len(R) /\ Len(R) \in Nat
  BY <1>1, <1>2, ShapeTypes
<1>4. q # p - 1
  BY <1>1 DEF Is
<1>5. q < p - 1
  BY <1>1, <1>4, ShapeTypes
<1>6. n =< m
  BY <1>1, <1>2, <1>5, ShapeTypes
<1>7. n # m
  BY <1>2 DEF Is
<1> QED
  BY <1>3, <1>6, <1>7

-----------------------------------------------------------------------------
(* A step back along the row.                                              *)

LEMMA NextJob ==
    ASSUME NEW A, NEW R, Shape(A, R), \A n \in 1..Len(R) : R[n].key,
           NEW c \in Nat, c =< Len(R), NEW p, OwnAt(A, p), Counted(A, R, p, c)
    PROVE  /\ A[p].value = Len(R) - c /\ c < Len(R)
           /\ Parts(A, p, Len(R) - c)
           /\ \A a : OfJob(A, p, Len(R) - c, a, 0)
<1>0. p \in 1..Len(A) /\ Len(A) \in Nat /\ Len(R) \in Nat
      /\ A[p].value \in 1..Len(R)
  BY ShapeTypes
<1>1. A[p].value =< Len(R) - c
  BY <1>0 DEF Counted
<1>2. c < Len(R) /\ Len(R) - c \in 1..Len(R)
  BY <1>0, <1>1
<1>3. Key \in NamesIn(R, Len(R) - c)
  BY <1>2 DEF NamesIn
<1>4. PICK k \in 1..Len(A) :
         OwnAt(A, k) /\ A[k].value = Len(R) - c /\ A[k].name = Key
  <2>1. \A n \in 1..Len(R) : \A a \in NamesIn(R, n) :
           \E q \in 1..Len(A) : OwnAt(A, q) /\ A[q].value = n /\ A[q].name = a
    BY DEF Shape
  <2> QED
    BY ONLY <1>2, <1>3, <2>1, Zenon
<1>5. ~(k > p)
  <2>1. ~(A[k].value > Len(R) - c)
    BY <1>0, <1>2, <1>4
  <2> QED
    BY <1>4, <2>1 DEF Counted
<1>6. Len(R) - c =< A[p].value
  <2>1. k = p \/ k < p
    BY <1>0, <1>5
  <2>2. k < p => A[k].value =< A[p].value
    BY <1>4, ShapeTypes
  <2>3. k = p => A[p].value = Len(R) - c
    BY <1>4
  <2> QED
    BY <1>0, <1>2, <1>4, <2>1, <2>2, <2>3
<1>7. A[p].value = Len(R) - c
  BY <1>0, <1>1, <1>6
<1>8. \A q \in 1..Len(A) : OwnAt(A, q) => A[q].value \in Nat
  BY ShapeTypes
<1>9. Parts(A, p, Len(R) - c)
  BY <1>0, <1>8 DEF Counted, Parts
<1>10. \A a : OfJob(A, p, Len(R) - c, a, 0)
  <2>1. \A q \in 1..Len(A) : q > p => ~Is(A, q, Len(R) - c)
    BY <1>0 DEF Counted, Is
  <2> QED
    BY <2>1 DEF OfJob
<1> QED
  BY <1>2, <1>7, <1>9, <1>10

(* At the beginning of the row all jobs have been counted.                 *)
LEMMA AllCounted ==
    ASSUME NEW A, NEW R, Shape(A, R), \A n \in 1..Len(R) : R[n].key,
           NEW c \in Nat, c =< Len(R), Counted(A, R, 1, c)
    PROVE  /\ c = Len(R) /\ Parts(A, 1, 0) /\ \A a : OfJob(A, 1, 0, a, 0)
<1>0. Len(A) \in Nat /\ Len(R) \in Nat /\ ~OwnAt(A, 1)
      /\ \A q : OwnAt(A, q) => q \in 1..Len(A) /\ q > 2 /\ A[q].value \in 1..Len(R)
  BY ShapeTypes DEF Shape
<1>1. ASSUME c < Len(R)
      PROVE  FALSE
  <2>1. Len(R) - c \in 1..Len(R)
    BY <1>0, <1>1
  <2>2. Key \in NamesIn(R, Len(R) - c)
    BY <2>1 DEF NamesIn
  <2>3. PICK k \in 1..Len(A) :
           OwnAt(A, k) /\ A[k].value = Len(R) - c /\ A[k].name = Key
    BY <2>1, <2>2 DEF Shape
  <2>4. k > 1
    BY <1>0, <2>3
  <2> QED
    BY <1>0, <2>1, <2>3, <2>4 DEF Counted
<1>2. Parts(A, 1, 0)
  BY <1>0 DEF Parts
<1>3. \A a : OfJob(A, 1, 0, a, 0)
  BY <1>0 DEF OfJob, Is
<1> QED
  BY <1>0, <1>1, <1>2, <1>3

LEMMA JobTakes ==
    ASSUME NEW A, NEW R, Shape(A, R), NEW p, OwnAt(A, p), NEW n,
           Is(A, p, n) \/ Is(A, p + 1, n), Parts(A, p, n)
    PROVE  /\ Is(A, p, n) /\ Parts(A, p - 1, n)
           /\ \A a, v : OfJob(A, p, n, a, v) =>
                 OfJob(A, p - 1, n, a, IF A[p].name = a THEN A[p].value ELSE v)
<1>0. p \in 1..Len(A) /\ Len(A) \in Nat /\ p \in Nat
  BY ShapeTypes
<1>1. Is(A, p, n)
  <2>1. CASE Is(A, p + 1, n)
    <3>1. p + 1 \in 1..Len(A) /\ OwnAt(A, p + 1)
      BY <2>1 DEF Is, OwnAt
    <3>2. \A x, y \in 1..Len(A) : OwnAt(A, x) /\ OwnAt(A, y) /\ y = x + 1 =>
             A[x].value = A[y].value
      BY DEF Shape
    <3> QED
      BY <1>0, <2>1, <3>1, <3>2 DEF Is
  <2> QED
    BY <2>1
<1>2. \A q \in 1..Len(A) : /\ q > p - 1 <=> q > p \/ q = p
                           /\ q =< p - 1 => q =< p
  BY <1>0
<1>3. A[p].value = n /\ n \in Nat
  BY <1>1, ShapeTypes DEF Is
<1>4. Parts(A, p - 1, n)
  BY ONLY <1>2, <1>3, Parts(A, p, n) DEF Parts
<1>5. ASSUME NEW a, NEW v, OfJob(A, p, n, a, v)
      PROVE  OfJob(A, p - 1, n, a, IF A[p].name = a THEN A[p].value ELSE v)
  <2>1. (\E q \in 1..Len(A) : q > p - 1 /\ Is(A, q, n) /\ A[q].name = a)
          <=> A[p].name = a
              \/ \E q \in 1..Len(A) : q > p /\ Is(A, q, n) /\ A[q].name = a
    BY <1>0, <1>1, <1>2
  <2> QED
    BY ONLY <1>3, <1>5, <2>1 DEF OfJob
<1> QED
  BY <1>1, <1>4, <1>5

LEMMA JobEnds ==
    ASSUME NEW A, NEW R, Shape(A, R), NEW p \in Nat, ~OwnAt(A, p), NEW n,
           Is(A, p + 1, n), Parts(A, p, n)
    PROVE  /\ n \in 1..Len(R)
           /\ \A q \in 1..Len(A) : OwnAt(A, q) => (q > p <=> A[q].value > n - 1)
           /\ \A a, v : OfJob(A, p, n, a, v) =>
                 v = IF a \in NamesIn(R, n) THEN n ELSE 0
<1>0. OwnAt(A, p + 1) /\ A[p + 1].value = n /\ p + 1 \in 1..Len(A)
      /\ Len(A) \in Nat /\ n \in 1..Len(R) /\ Len(R) \in Nat
  BY ShapeTypes DEF Is
<1>1. ASSUME NEW q \in 1..Len(A), OwnAt(A, q), A[q].value = n
      PROVE  q > p
  <2>1. q # p
    BY <1>1
  <2>2. \A x, y, z \in 1..Len(A) :
           OwnAt(A, x) /\ OwnAt(A, y) /\ A[x].value = A[y].value
           /\ x < z /\ z < y => OwnAt(A, z)
    BY DEF Shape
  <2>3. ~(q < p)
    <3>1. q < p => p \in 1..Len(A) /\ p < p + 1
      BY <1>0
    <3> QED
      BY <1>0, <1>1, <2>2, <3>1
  <2> QED
    BY <2>1, <2>3
<1>2. ASSUME NEW q \in 1..Len(A), OwnAt(A, q)
      PROVE  q > p <=> A[q].value > n - 1
  <2>1. A[q].value \in Nat /\ n \in Nat
    BY <1>0, <1>2, ShapeTypes
  <2>2. /\ q > p => A[q].value >= n
        /\ q =< p => A[q].value =< n
    BY <1>2 DEF Parts
  <2> QED
    BY <1>1, <1>2, <2>1, <2>2
<1>3. ASSUME NEW a, NEW v, OfJob(A, p, n, a, v)
      PROVE  v = IF a \in NamesIn(R, n) THEN n ELSE 0
  <2>1. CASE a \in NamesIn(R, n)
    <3>1. PICK k \in 1..Len(A) : OwnAt(A, k) /\ A[k].value = n /\ A[k].name = a
      BY <1>0, <2>1 DEF Shape
    <3>2. k > p
      BY <1>1, <3>1
    <3> QED
      BY <1>3, <2>1, <3>1, <3>2 DEF OfJob, Is
  <2>2. CASE a \notin NamesIn(R, n)
    <3>1. \A q \in 1..Len(A) : Is(A, q, n) => A[q].name # a
      BY <2>2, ShapeTypes DEF Is
    <3> QED
      BY <1>3, <2>2, <3>1 DEF OfJob
  <2> QED
    BY <2>1, <2>2
<1> QED
  BY <1>0, <1>2, <1>3

-----------------------------------------------------------------------------
(* The invariant holds at the start.                                       *)

LEMMA InitInvariant == Init => IInv
<1> SUFFICES ASSUME Init PROVE IInv
  OBVIOUS
<1>1. reply \in Seq(Groups)
  BY BoundsAssumption DEF Init
<1>2. Shape(Attrs, reply)
  BY <1>1, RowHasShape
<1>3. Len(Attrs) \in Nat /\ Len(reply) \in Nat /\ Len(Attrs) >= 2
      /\ \A p : OwnAt(Attrs, p) =>
            p \in 1..Len(Attrs) /\ Attrs[p].value \in 1..Len(reply)
  BY <1>2, ShapeTypes
<1>4. ReplyOK
  <2>1. reader # "models" => \A n \in 1..Len(reply) : reply[n].key
    BY DEF Init
  <2>2. reader = "models" =>
           \A n \in 1..Len(reply) : reply[n].key \/ reply[n].fields # {}
    BY DEF Init
  <2>3. limit \in 0..MaxGroups
    BY BoundsAssumption DEF Init
  <2>4. wanted \in 0..Len(reply) /\ (wanted # 0 => reader \in Finders)
    BY <1>3 DEF Init
  <2>5. reader \in Readers /\ (reader = "members" => Len(reply) =< 1)
    BY DEF Init
  <2> QED
    BY <1>1, <2>1, <2>2, <2>3, <2>4, <2>5 DEF ReplyOK
<1>5. pc = "outer" /\ printer = 0 /\ value = [f \in Fields |-> 0]
      /\ found = FALSE /\ count = 0 /\ list = <<>>
      /\ pos = (IF reader = "jobs" THEN Len(Attrs) ELSE 1)
  BY DEF Init, Blank
<1>6. Scalars
  <2>1. 0 \in 0..Len(reply) /\ 0 \in 0..Len(reply) + 1
    BY <1>3
  <2>2. pos \in 1..Len(Attrs) + 1 /\ (reader = "jobs" => pos <= Len(Attrs))
    BY <1>3, <1>5
  <2>3. value \in [Fields -> 0..Len(reply)]
    BY <1>5, <2>1
  <2> QED
    BY <1>5, <2>1, <2>2, <2>3 DEF Scalars
<1>7. Outside
  BY <1>2, <1>3, <1>5 DEF Outside, Forwards
<1>8. \A a : Newest(Attrs, 1, a, 0)
  BY <1>2, NewestBegins
<1>9. Seeks /\ Collects
  <2>1. \A n : NotLeft(Attrs, 1, n)
    BY <1>3 DEF NotLeft, Passed
  <2>2. reader \in Finders => pos = 1
    BY <1>5 DEF Finders
  <2>3. reader \in {"attribute", "status"} => pos = 1
    BY <1>5
  <2> QED
    BY <1>5, <1>8, <2>1, <2>2, <2>3 DEF Seeks, Collects
<1>10. FoundHasOwnValues /\ Gathers /\ JobGroup
  BY <1>5 DEF FoundHasOwnValues, Gathers, JobGroup
<1>11. KeysListed
  <2>1. reader \in {"names", "makes"} => pos = 1
    BY <1>5
  <2>2. list \in Seq(Nat) /\ Len(list) = 0
    BY <1>5
  <2> QED
    BY <1>5, <1>8, <2>1, <2>2 DEF KeysListed
<1>12. MembersListed
  <2>1. reader = "members" => pos = 1
    BY <1>5
  <2>2. list \in Seq({1}) /\ Len(list) = 0
    BY <1>5
  <2> QED
    BY <1>2, <1>5, <2>1, <2>2, FieldsSeenBegins DEF MembersListed
<1>13. ModelsListed
  <2>1. reader = "models" => pos = 1
    BY <1>5
  <2>2. list \in Seq([key : Nat, fields : [Fields -> Nat]]) /\ Len(list) = 0
    BY <1>5
  <2>3. \A n : ~Passed(Attrs, 1, n)
    BY <1>3 DEF Passed
  <2> QED
    BY <1>5, <2>1, <2>2, <2>3 DEF ModelsListed
<1>14. JobOuter /\ JobsListed
  <2> SUFFICES ASSUME reader = "jobs" PROVE JobOuter /\ JobsListed
    BY DEF JobOuter, JobsListed
  <2>1. pos = Len(Attrs) /\ Len(list) = 0
        /\ list \in Seq([key : Nat, fields : [Fields -> Nat]])
    BY <1>5
  <2>2. ~OwnAt(Attrs, pos + 1)
    BY <1>3, <2>1
  <2>3. Counted(Attrs, reply, pos, 0)
    BY <1>3, <2>1 DEF Counted
  <2>4. limit # 0 => 0 =< limit
    BY <1>4 DEF ReplyOK
  <2> QED
    BY <1>3, <1>5, <2>1, <2>2, <2>3, <2>4 DEF JobOuter, JobsListed
<1> QED
  BY <1>4, <1>6, <1>7, <1>9, <1>10, <1>11, <1>12, <1>13, <1>14 DEF IInv

(* What every step leaves as it is, and what a reader sees where it is.    *)
LEMMA RowStays ==
    ASSUME [Next]_vars
    PROVE  /\ reader' = reader /\ wanted' = wanted /\ limit' = limit
           /\ reply' = reply /\ Attrs' = Attrs
<1>1. reader' = reader /\ wanted' = wanted /\ limit' = limit /\ reply' = reply
  BY DEF Next, vars, asked, SkipOther, EnterGroup, TakesNext, TakeAttribute,
     TakeStatus, TakeModel, TakeName, TakeMake, TakeMember, StopAtWanted, GoOn,
     BackOther, CountJob, TakeJob, ListJob
<1>2. Attrs' = Attrs
  BY <1>1 DEF Attrs, RowOf
<1> QED
  BY <1>1, <1>2

LEMMA HereIs ==
    ASSUME IInv
    PROVE  /\ Shape(Attrs, reply) /\ Len(Attrs) \in Nat /\ Len(reply) \in Nat
           /\ pos \in Nat /\ pos \in 1..Len(Attrs) + 1
           /\ pos =< Len(Attrs) => (Here.group = "own" <=> OwnAt(Attrs, pos))
           /\ pos =< Len(Attrs) => (Here.group = "other" <=> ~OwnAt(Attrs, pos))
           /\ pos > Len(Attrs) => ~OwnAt(Attrs, pos)
           /\ AtGroupEnd => ~OwnAt(Attrs, pos)
<1>1. Shape(Attrs, reply)
  BY RowHasShape DEF IInv, ReplyOK
<1>2. Len(Attrs) \in Nat /\ Len(reply) \in Nat
      /\ \A p \in 1..Len(Attrs) : ~OwnAt(Attrs, p) => Attrs[p].group = "other"
  BY <1>1 DEF Shape
<1>3. pos \in Nat /\ pos \in 1..Len(Attrs) + 1
  BY <1>2 DEF IInv, Scalars
<1>4. pos =< Len(Attrs) => pos \in 1..Len(Attrs)
  BY <1>2, <1>3
<1>5. \A p : OwnAt(Attrs, p) => Attrs[p].group = "own" /\ p \in 1..Len(Attrs)
  BY DEF OwnAt
<1>6. /\ pos =< Len(Attrs) => (Here.group = "own" <=> OwnAt(Attrs, pos))
      /\ pos =< Len(Attrs) => (Here.group = "other" <=> ~OwnAt(Attrs, pos))
      /\ pos > Len(Attrs) => ~OwnAt(Attrs, pos)
  BY <1>2, <1>3, <1>4, <1>5 DEF Here
<1>7. AtGroupEnd => ~OwnAt(Attrs, pos)
  BY <1>2, <1>3, <1>6 DEF AtGroupEnd
<1> QED
  BY <1>1, <1>2, <1>3, <1>6, <1>7

-----------------------------------------------------------------------------
(* The steps of the readers that walk forwards, as far as their invariants *)
(* tell them apart.                                                        *)

Skipped ==
    /\ pc = "outer" /\ ~OwnAt(Attrs, pos) /\ pos =< Len(Attrs)
    /\ pos' = pos + 1 /\ pc' = "outer"
    /\ printer' = printer /\ value' = value /\ found' = found
    /\ count' = count /\ list' = list

Entered ==
    /\ pc = "outer" /\ pos' = pos /\ pc' = "group"
    /\ found' = found /\ count' = count /\ list' = list
    /\ reader # "models" => printer' = printer /\ value' = value
    /\ reader = "models" => printer' = 0 /\ value' = Blank

Taken ==
    /\ pc = "group" /\ OwnAt(Attrs, pos) /\ pos' = pos + 1 /\ pc' = "group"
    /\ found' = found /\ count' = count
    /\ printer' \in 0..Len(reply) /\ value' \in [Fields -> 0..Len(reply)]
    /\ reader \in Finders \union {"models"} =>
          printer' = IF Attrs[pos].name = Key THEN Attrs[pos].value ELSE printer
    /\ reader \in {"attribute", "status", "models"} =>
          /\ \A f \in Fields :
                value'[f] = IF Attrs[pos].name = f THEN Attrs[pos].value
                                                   ELSE value[f]
          /\ list' = list
    /\ reader \in {"names", "makes"} =>
          list' = IF Attrs[pos].name = Key THEN Append(list, Attrs[pos].value)
                                           ELSE list
    /\ reader = "members" =>
          list' = IF Attrs[pos].name \in Fields
                  THEN Append(list, Attrs[pos].value) ELSE list

Stopped ==
    /\ pc = "group" /\ ~OwnAt(Attrs, pos) /\ reader \in Finders
    /\ printer # 0 /\ printer = wanted /\ found' = TRUE /\ pc' = "done"
    /\ pos' = pos /\ printer' = printer /\ value' = value
    /\ count' = count /\ list' = list

WentOn ==
    /\ pc = "group" /\ ~OwnAt(Attrs, pos)
    /\ ~(reader \in Finders /\ printer # 0 /\ printer = wanted)
    /\ list' = IF reader = "models" /\ printer # 0
               THEN Append(list, [key |-> printer, fields |-> value]) ELSE list
    /\ \/ /\ pos > Len(Attrs) /\ pc' = "done" /\ pos' = pos
          /\ value' = IF reader = "attribute" THEN Blank ELSE value
       \/ /\ pos =< Len(Attrs) /\ pc' = "outer" /\ pos' = pos + 1
          /\ value' = value
    /\ printer' = printer /\ found' = found /\ count' = count

LEMMA KeepTakes ==
    ASSUME IInv, OwnAt(Attrs, pos), NEW store \in SUBSET Fields, Keep(store)
    PROVE  /\ printer' \in 0..Len(reply) /\ value' \in [Fields -> 0..Len(reply)]
           /\ printer' = IF Attrs[pos].name = Key THEN Attrs[pos].value ELSE printer
           /\ \A f \in store :
                value'[f] = IF Attrs[pos].name = f THEN Attrs[pos].value
                                                   ELSE value[f]
           /\ \A f \in Fields \ store : value'[f] = value[f]
<1>1. Attrs[pos].value \in 0..Len(reply)
  <2>1. Attrs[pos].value \in 1..Len(reply) /\ Len(reply) \in Nat
    BY HereIs, ShapeTypes
  <2> QED
    BY ONLY <2>1
<1>2. printer \in 0..Len(reply) /\ value \in [Fields -> 0..Len(reply)]
  BY DEF IInv, Scalars
<1> QED
  BY <1>1, <1>2 DEF Keep, Here

LEMMA ForwardStep ==
    ASSUME IInv, Next, Forwards
    PROVE  Skipped \/ Entered \/ Taken \/ Stopped \/ WentOn
<1>1. /\ pos =< Len(Attrs) => (Here.group = "own" <=> OwnAt(Attrs, pos))
      /\ pos =< Len(Attrs) => (Here.group = "other" <=> ~OwnAt(Attrs, pos))
      /\ AtGroupEnd => ~OwnAt(Attrs, pos)
  BY HereIs
<1>2. printer \in 0..Len(reply) /\ value \in [Fields -> 0..Len(reply)]
  BY DEF IInv, Scalars
<1>3. CASE SkipOther
  BY <1>1, <1>3 DEF SkipOther, Skipped
<1>4. CASE EnterGroup
  BY <1>4 DEF EnterGroup, Entered
<1>5. ASSUME TakesNext
      PROVE  /\ pc = "group" /\ OwnAt(Attrs, pos) /\ pos' = pos + 1
             /\ pc' = "group" /\ found' = found /\ count' = count
  BY <1>1, <1>5 DEF TakesNext
<1>6. CASE TakeAttribute \/ TakeStatus \/ TakeModel
  <2>1. TakesNext /\ Keep(Fields) /\ list' = list
        /\ reader \in {"attribute", "status", "models"}
    BY <1>6 DEF TakeAttribute, TakeStatus, TakeModel
  <2>2. /\ printer' \in 0..Len(reply) /\ value' \in [Fields -> 0..Len(reply)]
        /\ printer' = IF Attrs[pos].name = Key THEN Attrs[pos].value ELSE printer
        /\ \A f \in Fields :
             value'[f] = IF Attrs[pos].name = f THEN Attrs[pos].value
                                                ELSE value[f]
    BY <1>5, <2>1, KeepTakes
  <2> QED
    BY <1>5, <2>1, <2>2 DEF Taken
<1>7. CASE TakeName \/ TakeMake
  <2>1. TakesNext /\ ListKey /\ reader \in {"names", "makes"}
    BY <1>7 DEF TakeName, TakeMake
  <2> QED
    BY <1>2, <1>5, <2>1 DEF ListKey, Here, Taken, Finders
<1>8. CASE TakeMember
  <2>1. TakesNext /\ reader = "members" /\ value' = value
        /\ list' = (IF Attrs[pos].name \in Fields
                    THEN Append(list, Attrs[pos].value) ELSE list)
        /\ printer' = (IF Attrs[pos].name = Key THEN Attrs[pos].value ELSE printer)
    BY <1>8 DEF TakeMember, Here
  <2>2. Attrs[pos].value \in 1..Len(reply) /\ Len(reply) \in Nat
    BY <1>5, <2>1, HereIs, ShapeTypes
  <2>3. printer' \in 0..Len(reply)
    BY <1>2, <2>1, <2>2
  <2> QED
    BY <1>2, <1>5, <2>1, <2>3 DEF Taken
<1>9. CASE StopAtWanted
  BY <1>1, <1>9 DEF StopAtWanted, AtGroupEnd, IsWanted, Stopped
<1>10. CASE GoOn
  BY <1>1, <1>10 DEF GoOn, AtGroupEnd, IsWanted, WentOn
<1>11. ~(BackOther \/ CountJob \/ TakeJob \/ ListJob)
  BY DEF Forwards, Backwards, BackOther, CountJob, TakeJob, ListJob
<1> QED
  BY <1>3, <1>4, <1>6, <1>7, <1>8, <1>9, <1>10, <1>11 DEF Next

LEMMA SeeksStep ==
    ASSUME IInv, Next
    PROVE  Seeks' /\ Collects' /\ FoundHasOwnValues'
<1>0. /\ reader' = reader /\ wanted' = wanted /\ reply' = reply /\ Attrs' = Attrs
  BY RowStays
<1>1. CASE reader \notin Finders
  BY <1>0, <1>1 DEF Seeks, Collects, FoundHasOwnValues, Finders
<1>2. CASE reader \in Finders
  <2>1. /\ Shape(Attrs, reply) /\ pos \in Nat /\ Len(reply) \in Nat
        /\ printer \in 0..Len(reply) /\ value \in [Fields -> 0..Len(reply)]
        /\ wanted \in 0..Len(reply)
        /\ \A n \in 1..Len(reply) : reply[n].key /\ reply[n] \in Groups
    BY <1>2, HereIs DEF IInv, Scalars, ReplyOK, Finders
  <2>2. Skipped \/ Entered \/ Taken \/ Stopped \/ WentOn
    BY <1>2, ForwardStep DEF Forwards, Finders
  <2>3. pc # "done" /\ reader # "models"
    BY <1>2, <2>2 DEF Skipped, Entered, Taken, Stopped, WentOn, Finders
  <2>4. /\ ~found /\ Newest(Attrs, pos, Key, printer)
        /\ wanted # 0 => NotLeft(Attrs, pos, wanted)
    BY <1>2, <2>3 DEF IInv, Seeks
  <2>5. reader \in {"attribute", "status"} =>
           \A f \in Fields : Newest(Attrs, pos, f, value[f])
    BY <2>3 DEF IInv, Collects
  <2>6. pc = "outer" => ~OwnAt(Attrs, pos - 1)
    BY <1>2 DEF IInv, Outside, Forwards, Finders
  <2> DEFINE Known ==
        /\ ~found' /\ Newest(Attrs, pos', Key, printer')
        /\ wanted # 0 => NotLeft(Attrs, pos', wanted)
        /\ reader \in {"attribute", "status"} =>
              \A f \in Fields : Newest(Attrs, pos', f, value'[f])
  <2>7. ASSUME pc' # "done", Known
        PROVE  Seeks' /\ Collects' /\ FoundHasOwnValues'
    BY <1>0, <2>7 DEF Seeks, Collects, FoundHasOwnValues
  <2>8. CASE Skipped
    <3>1. ~OwnAt(Attrs, pos) /\ pos' = pos + 1 /\ printer' = printer
          /\ value' = value /\ found' = found /\ pc = "outer" /\ pc' = "outer"
      BY <2>8 DEF Skipped
    <3>2. ~Passed(Attrs, pos, wanted) \/ wanted = 0
      BY <2>4, <2>6, <3>1 DEF NotLeft, Is
    <3>3. wanted # 0 => NotLeft(Attrs, pos + 1, wanted)
      BY <2>1, <3>1, <3>2, NotLeftSkips
    <3>4. Newest(Attrs, pos + 1, Key, printer)
      BY <2>1, <2>4, <3>1, NewestSkips
    <3>5. reader \in {"attribute", "status"} =>
             \A f \in Fields : Newest(Attrs, pos + 1, f, value[f])
      BY <2>1, <2>5, <3>1, NewestSkips
    <3> QED
      BY <2>4, <2>7, <3>1, <3>3, <3>4, <3>5
  <2>9. CASE Entered
    BY <2>3, <2>4, <2>5, <2>7, <2>9 DEF Entered
  <2>10. CASE Taken
    <3>1. OwnAt(Attrs, pos) /\ pos' = pos + 1 /\ found' = found /\ pc' = "group"
          /\ printer' = (IF Attrs[pos].name = Key THEN Attrs[pos].value ELSE printer)
      BY <1>2, <2>10 DEF Taken
    <3>2. wanted # 0 => NotLeft(Attrs, pos + 1, wanted)
      BY <2>1, <2>4, <3>1, NotLeftTakes
    <3>3. Newest(Attrs, pos + 1, Key, printer')
      BY <2>1, <2>4, <3>1, NewestTakes
    <3>4. ASSUME reader \in {"attribute", "status"}, NEW f \in Fields
          PROVE  Newest(Attrs, pos + 1, f, value'[f])
      <4>1. value'[f] = IF Attrs[pos].name = f THEN Attrs[pos].value ELSE value[f]
        BY <2>10, <3>4 DEF Taken
      <4>2. value[f] \in 0..Len(reply) /\ Newest(Attrs, pos, f, value[f])
        BY <2>1, <2>5, <3>4
      <4>3. Newest(Attrs, pos + 1, f,
                   IF Attrs[pos].name = f THEN Attrs[pos].value ELSE value[f])
        BY <2>1, <3>1, <4>2, NewestTakes
      <4> QED
        BY <4>1, <4>3
    <3> QED
      BY <2>4, <2>7, <3>1, <3>2, <3>3, <3>4
  <2>11. CASE Stopped
    <3>1. /\ ~OwnAt(Attrs, pos) /\ wanted # 0 /\ printer = wanted
          /\ found' = TRUE /\ pc' = "done" /\ value' = value
      BY <2>11 DEF Stopped
    <3>2. wanted \in 1..Len(reply)
      BY <2>1, <3>1
    <3>3. \A f \in reply[wanted].fields, v \in 0..Len(reply) :
             Newest(Attrs, pos, f, v) => v = wanted
      BY <2>1, <2>4, <3>1, <3>2, WantedIsFound
    <3>4. ASSUME reader \in {"attribute", "status"}, NEW f \in reply[wanted].fields
          PROVE  value[f] = wanted
      <4>1. f \in Fields
        BY <2>1, <3>2 DEF Groups
      <4> QED
        BY <2>1, <2>5, <3>3, <3>4, <4>1
    <3> QED
      BY <1>0, <3>1, <3>4 DEF Seeks, Collects, FoundHasOwnValues
  <2>12. CASE WentOn
    <3>1. /\ ~OwnAt(Attrs, pos) /\ printer' = printer /\ found' = found
          /\ ~(printer # 0 /\ printer = wanted)
      BY <1>2, <2>12 DEF WentOn
    <3>2. ASSUME wanted # 0
          PROVE  ~Passed(Attrs, pos, wanted) /\ pos =< Len(Attrs)
      <4>1. wanted \in 1..Len(reply) /\ reply[wanted].key
        BY <2>1, <3>2
      <4>2. Passed(Attrs, pos, wanted) \/ pos > Len(Attrs) => printer = wanted
        BY <2>1, <2>4, <3>1, <3>2, <4>1, WantedIsSeen
      <4>3. Len(Attrs) \in Nat
        BY HereIs
      <4> QED
        BY <2>1, <3>1, <3>2, <4>2, <4>3
    <3>3. CASE pc' = "done"
      <4>1. pos > Len(Attrs) /\ (reader = "attribute" => value' = Blank)
        BY <2>12, <3>3 DEF WentOn
      <4>2. wanted = 0
        BY <2>1, <3>2, <4>1, HereIs
      <4> QED
        BY <1>0, <2>4, <3>1, <3>3, <4>1, <4>2 DEF Seeks, Collects, FoundHasOwnValues
    <3>4. CASE pc' # "done"
      <4>1. pos' = pos + 1 /\ value' = value
        BY <2>12, <3>4 DEF WentOn
      <4>2. wanted # 0 => NotLeft(Attrs, pos + 1, wanted)
        BY <2>1, <3>1, <3>2, NotLeftSkips
      <4>3. Newest(Attrs, pos + 1, Key, printer)
        BY <2>1, <2>4, <3>1, NewestSkips
      <4>4. reader \in {"attribute", "status"} =>
               \A f \in Fields : Newest(Attrs, pos + 1, f, value[f])
        BY <2>1, <2>5, <3>1, NewestSkips
      <4> QED
        BY <2>4, <2>7, <3>1, <3>4, <4>1, <4>2, <4>3, <4>4
    <3> QED
      BY <3>3, <3>4
  <2> QED
    BY <2>2, <2>8, <2>9, <2>10, <2>11, <2>12
<1> QED
  BY <1>1, <1>2

LEMMA OutsideStep ==
    ASSUME IInv, Next, Forwards
    PROVE  Outside' /\ Scalars'
<1>0. /\ reader' = reader /\ reply' = reply /\ Attrs' = Attrs
  BY RowStays
<1>1. /\ Len(Attrs) \in Nat /\ Len(reply) \in Nat /\ pos \in Nat
      /\ pos \in 1..Len(Attrs) + 1 /\ pc \in {"outer", "group", "done"}
      /\ printer \in 0..Len(reply) /\ value \in [Fields -> 0..Len(reply)]
      /\ found \in BOOLEAN /\ count \in 0..Len(reply) + 1 /\ reader # "jobs"
  BY HereIs DEF IInv, Scalars, Forwards
<1>2. 0 \in 0..Len(reply) /\ Blank \in [Fields -> 0..Len(reply)]
  BY <1>1 DEF Blank
<1>3. Skipped \/ Entered \/ Taken \/ Stopped \/ WentOn
  BY ForwardStep
<1>4. /\ printer' \in 0..Len(reply) /\ value' \in [Fields -> 0..Len(reply)]
      /\ found' \in BOOLEAN /\ count' = count
      /\ pc' \in {"outer", "group", "done"}
  BY <1>1, <1>2, <1>3 DEF Skipped, Entered, Taken, Stopped, WentOn
<1>5. pos' = pos \/ (pos' = pos + 1 /\ pos =< Len(Attrs))
  <2>1. OwnAt(Attrs, pos) => pos =< Len(Attrs)
    BY <1>1 DEF OwnAt
  <2> QED
    BY <1>3, <2>1 DEF Skipped, Entered, Taken, Stopped, WentOn
<1>6. pos' \in 1..Len(Attrs) + 1
  BY ONLY <1>1, <1>5
<1>7. pc' = "outer" => pos' = pos + 1 /\ ~OwnAt(Attrs, pos)
  BY <1>3 DEF Skipped, Entered, Taken, Stopped, WentOn
<1>8. (pos + 1) - 1 = pos
  BY <1>1
<1> QED
  BY <1>0, <1>1, <1>4, <1>6, <1>7, <1>8 DEF Outside, Scalars, Forwards

LEMMA KeysListedStep ==
    ASSUME IInv, Next
    PROVE  KeysListed'
<1>0. /\ reader' = reader /\ reply' = reply /\ Attrs' = Attrs
  BY RowStays
<1>1. CASE reader \notin {"names", "makes"}
  BY <1>0, <1>1 DEF KeysListed
<1>2. CASE reader \in {"names", "makes"}
  <2>1. /\ Shape(Attrs, reply) /\ pos \in Nat /\ Len(reply) \in Nat
        /\ \A n \in 1..Len(reply) : reply[n].key
    BY <1>2, HereIs DEF IInv, ReplyOK
  <2>2. /\ list \in Seq(Nat) /\ \A i \in 1..Len(list) : list[i] = i
        /\ Newest(Attrs, pos, Key, Len(list)) /\ Len(list) \in Nat
    BY <1>2, LenProperties DEF IInv, KeysListed
  <2>3. Len(list) \in 0..Len(reply)
    <3>1. CASE Len(list) = 0
      BY <2>1, <3>1
    <3>2. CASE Len(list) # 0
      <4>1. PICK q \in 1..Len(Attrs) : Is(Attrs, q, Len(list))
        BY <2>2, <3>2 DEF Newest
      <4> QED
        BY <2>1, <2>2, <4>1, ShapeTypes DEF Is
    <3> QED
      BY <3>1, <3>2
  <2>4. Skipped \/ Entered \/ Taken \/ WentOn
    BY <1>2, ForwardStep DEF Forwards, Stopped, Finders
  <2>5. ASSUME list' = list, ~OwnAt(Attrs, pos), pos' = pos \/ pos' = pos + 1,
               pc' = "done" => pos' > Len(Attrs)
        PROVE  KeysListed'
    <3>1. Newest(Attrs, pos + 1, Key, Len(list))
      BY <2>1, <2>2, <2>5, NewestSkips
    <3> QED
      BY <1>0, <2>2, <2>5, <3>1 DEF KeysListed
  <2>6. CASE Skipped
    BY <2>5, <2>6 DEF Skipped
  <2>7. CASE Entered
    BY <1>0, <2>2, <2>7 DEF Entered, KeysListed
  <2>8. CASE WentOn
    BY <1>2, <2>5, <2>8 DEF WentOn
  <2>9. CASE Taken
    <3>1. OwnAt(Attrs, pos) /\ pos' = pos + 1 /\ pc' = "group"
          /\ list' = (IF Attrs[pos].name = Key THEN Append(list, Attrs[pos].value)
                                               ELSE list)
      BY <1>2, <2>9 DEF Taken
    <3>2. Newest(Attrs, pos + 1, Key,
                 IF Attrs[pos].name = Key THEN Attrs[pos].value ELSE Len(list))
      BY <2>1, <2>2, <2>3, <3>1, NewestTakes
    <3>3. CASE Attrs[pos].name # Key
      BY <1>0, <2>2, <3>1, <3>2, <3>3 DEF KeysListed
    <3>4. CASE Attrs[pos].name = Key
      <4>1. Attrs[pos].value = Len(list) + 1
        BY <2>1, <2>2, <2>3, <3>1, <3>4, NextKey
      <4>2. list' = Append(list, Len(list) + 1)
        BY <3>1, <3>4, <4>1
      <4>3. /\ list' \in Seq(Nat) /\ Len(list') = Len(list) + 1
            /\ \A i \in 1..Len(list') : list'[i] = i
        BY <2>2, <4>2
      <4> QED
        BY <1>0, <3>1, <3>2, <3>4, <4>1, <4>3 DEF KeysListed
    <3> QED
      BY <3>3, <3>4
  <2> QED
    BY <2>4, <2>6, <2>7, <2>8, <2>9
<1> QED
  BY <1>1, <1>2

LEMMA MembersListedStep ==
    ASSUME IInv, Next
    PROVE  MembersListed'
<1>0. /\ reader' = reader /\ reply' = reply /\ Attrs' = Attrs
  BY RowStays
<1>1. CASE reader # "members"
  BY <1>0, <1>1 DEF MembersListed
<1>2. CASE reader = "members"
  <2> DEFINE F == FieldsSeen(Attrs, pos)
             G == FieldsSeen(Attrs, pos + 1)
  <2>1. /\ Shape(Attrs, reply) /\ pos \in Nat /\ Len(reply) \in Nat
        /\ Len(reply) =< 1 /\ wanted \in 0..Len(reply)
    BY <1>2, HereIs DEF IInv, ReplyOK
  <2>2. /\ list \in Seq({1}) /\ IsFiniteSet(F) /\ Cardinality(F) = Len(list)
        /\ Len(list) \in Nat
    BY <1>2, LenProperties DEF IInv, MembersListed
  <2>3. Skipped \/ Entered \/ Taken \/ Stopped \/ WentOn
    BY <1>2, ForwardStep DEF Forwards
  <2>4. \A q : OwnAt(Attrs, q) => q \in 1..Len(Attrs) /\ Attrs[q].value = 1
    <3>1. \A q : OwnAt(Attrs, q) =>
             q \in 1..Len(Attrs) /\ Attrs[q].value \in 1..Len(reply)
      BY <2>1, ShapeTypes
    <3> QED
      BY <2>1, <3>1
  <2>5. ~OwnAt(Attrs, pos) => G = F
    BY <2>1, FieldsSeenSkips
  <2>6. ASSUME list' = list, ~OwnAt(Attrs, pos), pos' = pos \/ pos' = pos + 1,
               pc' = "done" => \A q \in 1..Len(Attrs) : OwnAt(Attrs, q) => q < pos'
        PROVE  MembersListed'
    <3>1. FieldsSeen(Attrs, pos') = F
      BY <2>5, <2>6
    <3> QED
      BY <1>0, <2>2, <2>6, <3>1 DEF MembersListed
  <2>7. CASE Skipped
    BY <2>6, <2>7 DEF Skipped
  <2>8. CASE Entered
    BY <1>0, <2>2, <2>8 DEF Entered, MembersListed
  <2>9. CASE WentOn
    <3>1. Len(Attrs) \in Nat
      BY HereIs
    <3>2. pos > Len(Attrs) => \A q \in 1..Len(Attrs) : q < pos
      BY <2>1, <3>1
    <3> QED
      BY <1>2, <2>6, <2>9, <3>2 DEF WentOn
  <2>10. CASE Stopped
    <3>1. wanted # 0 /\ printer = wanted /\ ~OwnAt(Attrs, pos) /\ pos' = pos
          /\ list' = list /\ pc = "group"
      BY <2>10 DEF Stopped
    <3>2. wanted \in 1..Len(reply) /\ wanted = 1
      BY <2>1, <3>1
    <3>3. Newest(Attrs, pos, Key, wanted) /\ NotLeft(Attrs, pos, wanted)
      BY <1>2, <3>1 DEF IInv, Seeks, Finders
    <3>4. \A q : OwnAt(Attrs, q) /\ Attrs[q].value = wanted => q < pos
      BY <2>1, <3>1, <3>2, <3>3, WantedIsFound
    <3> QED
      BY <2>4, <2>6, <3>1, <3>2, <3>4
  <2>11. CASE Taken
    <3>1. OwnAt(Attrs, pos) /\ pos' = pos + 1 /\ pc' = "group"
          /\ list' = (IF Attrs[pos].name \in Fields
                      THEN Append(list, Attrs[pos].value) ELSE list)
          /\ Attrs[pos].value = 1
      BY <1>2, <2>4, <2>11 DEF Taken
    <3>2. /\ IsFiniteSet(G)
          /\ Cardinality(G) = IF Attrs[pos].name \in Fields
                              THEN Cardinality(F) + 1 ELSE Cardinality(F)
      BY <2>1, <2>2, <3>1, FieldsSeenTakes
    <3>3. list' \in Seq({1})
          /\ Len(list') = IF Attrs[pos].name \in Fields
                          THEN Len(list) + 1 ELSE Len(list)
      BY <2>2, <3>1
    <3> QED
      BY <1>0, <2>2, <3>1, <3>2, <3>3 DEF MembersListed
  <2> QED
    BY <2>3, <2>7, <2>8, <2>9, <2>10, <2>11
<1> QED
  BY <1>1, <1>2

LEMMA GathersStep ==
    ASSUME IInv, Next
    PROVE  Gathers'
<1>0. /\ reader' = reader /\ reply' = reply /\ Attrs' = Attrs
  BY RowStays
<1>1. CASE reader # "models" \/ pc' # "group"
  BY <1>0, <1>1 DEF Gathers
<1>2. CASE reader = "models" /\ pc' = "group"
  <2>1. Shape(Attrs, reply) /\ pos \in Nat
    BY HereIs
  <2>2. Entered \/ Taken
    <3>1. Skipped \/ Entered \/ Taken \/ Stopped \/ WentOn
      BY <1>2, ForwardStep DEF Forwards
    <3>2. ~Skipped /\ ~Stopped /\ ~WentOn
      BY <1>2 DEF Skipped, Stopped, WentOn
    <3> QED
      BY <3>1, <3>2
  <2>3. CASE Entered
    <3>1. pos' = pos /\ printer' = 0 /\ value' = [f \in Fields |-> 0] /\ pc = "outer"
      BY <1>2, <2>3 DEF Entered, Blank
    <3>2. ~OwnAt(Attrs, pos - 1)
      BY <1>2, <3>1 DEF IInv, Outside, Forwards
    <3>3. \A a : OfRun(Attrs, pos, a, 0)
      BY <3>2, OfRunBegins
    <3>4. \A f \in Fields : value'[f] = 0
      BY <3>1
    <3>5. \A f \in Fields : OfRun(Attrs, pos, f, value'[f])
      BY <3>3, <3>4
    <3> QED
      BY <1>0, <3>1, <3>3, <3>5 DEF Gathers
  <2>4. CASE Taken
    <3>1. /\ pc = "group" /\ OwnAt(Attrs, pos) /\ pos' = pos + 1
          /\ printer' = (IF Attrs[pos].name = Key THEN Attrs[pos].value ELSE printer)
          /\ \A f \in Fields :
                value'[f] = IF Attrs[pos].name = f THEN Attrs[pos].value
                                                   ELSE value[f]
      BY <1>2, <2>4 DEF Taken
    <3>2. /\ OfRun(Attrs, pos, Key, printer)
          /\ \A f \in Fields : OfRun(Attrs, pos, f, value[f])
      BY <1>2, <3>1 DEF IInv, Gathers
    <3>3. OfRun(Attrs, pos + 1, Key, printer')
      BY <2>1, <3>1, <3>2, OfRunTakes
    <3>4. ASSUME NEW f \in Fields
          PROVE  OfRun(Attrs, pos + 1, f, value'[f])
      <4>1. value'[f] = IF Attrs[pos].name = f THEN Attrs[pos].value ELSE value[f]
        BY <3>1
      <4>2. OfRun(Attrs, pos + 1, f,
                  IF Attrs[pos].name = f THEN Attrs[pos].value ELSE value[f])
        BY <2>1, <3>1, <3>2, OfRunTakes
      <4> QED
        BY <4>1, <4>2
    <3> QED
      BY <1>0, <3>1, <3>3, <3>4 DEF Gathers
  <2> QED
    BY <2>2, <2>3, <2>4
<1> QED
  BY <1>1, <1>2

(* What a Ppd holds at the end of a group.                                 *)
LEMMA PpdIsOwn ==
    ASSUME IInv, reader = "models", pc = "group", ~OwnAt(Attrs, pos)
    PROVE  /\ \A n : Is(Attrs, pos - 1, n) => (reply[n].key <=> printer = n)
           /\ printer # 0 => /\ Is(Attrs, pos - 1, printer)
                             /\ [key |-> printer, fields |-> value]
                                   = OwnIn(reply, printer, Fields)
<1>1. /\ Shape(Attrs, reply) /\ pos \in Nat /\ Len(reply) \in Nat
      /\ printer \in 0..Len(reply) /\ value \in [Fields -> 0..Len(reply)]
      /\ \A n \in 1..Len(reply) : reply[n] \in Groups
  BY HereIs DEF IInv, Scalars, ReplyOK
<1>2. /\ OfRun(Attrs, pos, Key, printer)
      /\ \A f \in Fields : OfRun(Attrs, pos, f, value[f])
  BY DEF IInv, Gathers
<1>3. ASSUME NEW n, Is(Attrs, pos - 1, n)
      PROVE  /\ n \in 1..Len(reply) /\ n # 0
             /\ Key \in NamesIn(reply, n) <=> reply[n].key
             /\ printer = (IF Key \in NamesIn(reply, n) THEN n ELSE 0)
             /\ \A f \in Fields :
                   value[f] = IF f \in reply[n].fields THEN n ELSE 0
  <2>1. n \in 1..Len(reply)
    BY <1>1, <1>3, ShapeTypes DEF Is
  <2>2. reply[n].fields \subseteq Fields
    BY <1>1, <2>1 DEF Groups
  <2>3. Key \in NamesIn(reply, n) <=> reply[n].key
    BY <2>2, FieldsAssumption DEF NamesIn
  <2>4. \A f \in Fields : f \in NamesIn(reply, n) <=> f \in reply[n].fields
    BY FieldsAssumption DEF NamesIn
  <2>5. printer = (IF Key \in NamesIn(reply, n) THEN n ELSE 0)
    BY <1>1, <1>2, <1>3, OfRunEnds
  <2>6. \A f \in Fields : value[f] = IF f \in NamesIn(reply, n) THEN n ELSE 0
    BY <1>1, <1>2, <1>3, OfRunEnds
  <2> QED
    BY <1>1, <2>1, <2>3, <2>4, <2>5, <2>6
<1>4. ASSUME printer # 0
      PROVE  /\ Is(Attrs, pos - 1, printer)
             /\ [key |-> printer, fields |-> value] = OwnIn(reply, printer, Fields)
  <2>1. OwnAt(Attrs, pos - 1)
    BY <1>2, <1>4, OfRunEndsEmpty
  <2> DEFINE n == Attrs[pos - 1].value
  <2>2. Is(Attrs, pos - 1, n)
    BY <2>1 DEF Is
  <2> HIDE DEF n
  <2>3. printer = n
    BY <1>3, <1>4, <2>2
  <2>4. \A f \in Fields : value[f] = IF f \in reply[n].fields THEN n ELSE 0
    BY <1>3, <2>2
  <2>5. value = [f \in Fields |->
                   IF f \in reply[n].fields \intersect Fields THEN n ELSE 0]
    BY <1>1, <2>4
  <2> QED
    BY <2>2, <2>3, <2>5 DEF OwnIn
<1>5. ASSUME NEW n, Is(Attrs, pos - 1, n)
      PROVE  reply[n].key <=> printer = n
  BY <1>3, <1>5
<1> QED
  BY <1>4, <1>5

LEMMA ModelsListedStep ==
    ASSUME IInv, Next
    PROVE  ModelsListed'
<1>0. /\ reader' = reader /\ reply' = reply /\ Attrs' = Attrs
  BY RowStays
<1>1. CASE reader # "models"
  BY <1>0, <1>1 DEF ModelsListed
<1>2. CASE reader = "models"
  <2> DEFINE Entries == [key : Nat, fields : [Fields -> Nat]]
  <2>1. /\ Shape(Attrs, reply) /\ pos \in Nat /\ Len(reply) \in Nat
        /\ printer \in 0..Len(reply) /\ value \in [Fields -> 0..Len(reply)]
    BY HereIs DEF IInv, Scalars
  <2>2. list \in Seq(Entries) /\ Len(list) \in Nat
    BY <1>2, LenProperties DEF IInv, ModelsListed
  <2>3. \A i \in 1..Len(list) :
           /\ list[i].key \in 1..Len(reply) /\ reply[list[i].key].key
           /\ Passed(Attrs, pos, list[i].key)
           /\ pc = "group" => ~Is(Attrs, pos - 1, list[i].key)
           /\ list[i] = OwnIn(reply, list[i].key, Fields)
           /\ i > 1 => list[i - 1].key < list[i].key
    BY <1>2 DEF IInv, ModelsListed
  <2>4. \A n \in 1..Len(reply) :
           /\ reply[n].key /\ Passed(Attrs, pos, n)
           /\ ~(pc = "group" /\ Is(Attrs, pos - 1, n))
           => \E i \in 1..Len(list) : list[i].key = n
    BY <1>2 DEF IInv, ModelsListed
  <2> HIDE DEF Entries
  <2>5. ASSUME list' = list, pc' # "done",
               \A n : Passed(Attrs, pos, n) => Passed(Attrs, pos', n),
               \A n : (/\ Passed(Attrs, pos', n)
                       /\ ~(pc' = "group" /\ Is(Attrs, pos' - 1, n)))
                      <=> (/\ Passed(Attrs, pos, n)
                           /\ ~(pc = "group" /\ Is(Attrs, pos - 1, n)))
        PROVE  ModelsListed'
    <3>1. \A i \in 1..Len(list) :
             /\ Passed(Attrs, pos', list[i].key)
             /\ pc' = "group" => ~Is(Attrs, pos' - 1, list[i].key)
      BY <2>3, <2>5
    <3>2. \A n \in 1..Len(reply) :
             /\ reply[n].key /\ Passed(Attrs, pos', n)
             /\ ~(pc' = "group" /\ Is(Attrs, pos' - 1, n))
             => \E i \in 1..Len(list) : list[i].key = n
      BY <2>4, <2>5
    <3> QED
      BY ONLY <1>0, <2>2, <2>3, <2>5, <3>1, <3>2 DEF ModelsListed, Entries
  <2>6. CASE Skipped
    <3>1. list' = list /\ pc' = "outer" /\ pc = "outer" /\ pos' = pos + 1
          /\ ~OwnAt(Attrs, pos)
      BY <2>6 DEF Skipped
    <3>2. \A n : Passed(Attrs, pos + 1, n) <=> Passed(Attrs, pos, n)
      BY <2>1, <3>1, PassedSkips
    <3> QED
      BY <2>5, <3>1, <3>2
  <2>7. CASE Entered
    <3>1. list' = list /\ pc' = "group" /\ pc = "outer" /\ pos' = pos
      BY <2>7 DEF Entered
    <3>2. ~OwnAt(Attrs, pos - 1)
      BY <1>2, <3>1 DEF IInv, Outside, Forwards
    <3>3. \A n : ~Is(Attrs, pos - 1, n)
      BY <3>2 DEF Is
    <3> QED
      BY <2>5, <3>1, <3>3
  <2>8. CASE Taken
    <3>1. list' = list /\ pc' = "group" /\ pc = "group" /\ pos' = pos + 1
          /\ OwnAt(Attrs, pos) /\ (pos + 1) - 1 = pos
      BY <1>2, <2>1, <2>8 DEF Taken
    <3>2. \A n : /\ (Passed(Attrs, pos + 1, n) /\ ~Is(Attrs, pos, n))
                       <=> (Passed(Attrs, pos, n) /\ ~Is(Attrs, pos - 1, n))
                 /\ Passed(Attrs, pos, n) => Passed(Attrs, pos + 1, n)
      BY <2>1, <3>1, PassedTakes
    <3> QED
      BY <2>5, <3>1, <3>2
  <2>9. CASE WentOn
    <3>1. /\ pc = "group" /\ ~OwnAt(Attrs, pos) /\ pc' # "group"
          /\ pos' = pos \/ pos' = pos + 1
          /\ pc' = "done" => pos' > Len(Attrs)
          /\ list' = IF printer # 0
                     THEN Append(list, [key |-> printer, fields |-> value]) ELSE list
      BY <1>2, <2>9 DEF WentOn
    <3>2. \A n : Passed(Attrs, pos', n) <=> Passed(Attrs, pos, n)
      <4>1. \A n : Passed(Attrs, pos + 1, n) <=> Passed(Attrs, pos, n)
        BY <2>1, <3>1, PassedSkips
      <4> QED
        BY <3>1, <4>1
    <3>3. /\ \A n : Is(Attrs, pos - 1, n) => (reply[n].key <=> printer = n)
          /\ printer # 0 => /\ Is(Attrs, pos - 1, printer)
                            /\ [key |-> printer, fields |-> value]
                                  = OwnIn(reply, printer, Fields)
      BY <1>2, <3>1, PpdIsOwn
    <3>4. CASE printer = 0
      <4>1. list' = list
        BY <3>1, <3>4
      <4>2. \A n \in 1..Len(reply) : reply[n].key /\ Passed(Attrs, pos', n)
               => \E i \in 1..Len(list) : list[i].key = n
        <5>1. \A n \in 1..Len(reply) : n # 0
          OBVIOUS
        <5> QED
          BY <2>4, <3>2, <3>3, <3>4, <5>1
      <4> QED
        BY ONLY <1>0, <2>2, <2>3, <3>1, <3>2, <4>1, <4>2 DEF ModelsListed, Entries
    <3>5. CASE printer # 0
      <4> DEFINE e == [key |-> printer, fields |-> value]
                 L == Len(list)
      <4>1. /\ e \in Entries /\ e.key = printer /\ Is(Attrs, pos - 1, printer)
            /\ e = OwnIn(reply, printer, Fields) /\ list' = Append(list, e)
            /\ printer \in 1..Len(reply) /\ reply[printer].key
        <5>1. printer \in Nat /\ value \in [Fields -> Nat]
          BY <2>1
        <5>2. printer \in 1..Len(reply)
          BY <2>1, <3>5
        <5> QED
          BY <3>1, <3>3, <3>5, <5>1, <5>2 DEF Entries
      <4>2. Passed(Attrs, pos, printer)
        BY <2>1, <4>1, ShapeTypes DEF Is, Passed
      <4> HIDE DEF e
      <4>3. /\ list' \in Seq(Entries) /\ Len(list') = L + 1 /\ L \in Nat
            /\ \A i \in 1..L : list'[i] = list[i]
            /\ list'[L + 1] = e
        BY <2>2, <4>1
      <4>4. \A i \in 1..L : list[i].key < printer
        BY <2>1, <2>3, <3>1, <4>1, PassedIsLess
      <4> HIDE DEF L
      <4>5. \A i \in 1..(L + 1) : i \in 1..L \/ i = L + 1
        BY <4>3
      <4>6. ASSUME NEW i \in 1..Len(list')
            PROVE  /\ list'[i].key \in 1..Len(reply) /\ reply[list'[i].key].key
                   /\ Passed(Attrs, pos', list'[i].key)
                   /\ list'[i] = OwnIn(reply, list'[i].key, Fields)
                   /\ i > 1 => list'[i - 1].key < list'[i].key
        <5>1. CASE i \in 1..L
          <6>1. i > 1 => i - 1 \in 1..L
            BY <4>3, <5>1
          <6>2. list'[i] = list[i] /\ (i > 1 => list'[i - 1] = list[i - 1])
            BY <4>3, <5>1, <6>1
          <6> QED
            BY <2>3, <3>2, <5>1, <6>2 DEF L
        <5>2. CASE i = L + 1
          <6>1. list'[i] = e /\ (i > 1 => i - 1 \in 1..L)
            BY <4>3, <5>2
          <6>2. i > 1 => list'[i - 1].key < printer
            BY <4>3, <4>4, <6>1
          <6> QED
            BY <3>2, <4>1, <4>2, <6>1, <6>2
        <5> QED
          BY <4>3, <4>5, <5>1, <5>2
      <4>7. ASSUME NEW n \in 1..Len(reply), reply[n].key, Passed(Attrs, pos', n)
            PROVE  \E i \in 1..Len(list') : list'[i].key = n
        <5>1. CASE n = printer
          <6>1. L + 1 \in 1..Len(list')
            BY <4>3
          <6> QED
            BY <4>1, <4>3, <5>1, <6>1
        <5>2. CASE n # printer
          <6>1. ~Is(Attrs, pos - 1, n)
            BY <4>1, <5>2 DEF Is
          <6>2. PICK i \in 1..L : list[i].key = n
            BY <2>4, <3>2, <4>7, <6>1 DEF L
          <6>3. i \in 1..Len(list') /\ list'[i] = list[i]
            BY <4>3
          <6> QED
            BY <6>2, <6>3
        <5> QED
          BY <5>1, <5>2
      <4> QED
        BY ONLY <1>0, <3>1, <4>3, <4>6, <4>7 DEF ModelsListed, Entries
    <3> QED
      BY <3>4, <3>5
  <2> QED
    <3>1. Skipped \/ Entered \/ Taken \/ Stopped \/ WentOn
      BY <1>2, ForwardStep DEF Forwards
    <3>2. ~Stopped
      BY <1>2 DEF Stopped, Finders
    <3> QED
      BY <2>6, <2>7, <2>8, <2>9, <3>1, <3>2
<1> QED
  BY <1>1, <1>2

-----------------------------------------------------------------------------
(* The steps of the reader that walks backwards.                           *)

Jobs == JobOuter /\ JobGroup /\ JobsListed /\ Scalars

LEMMA JobsAt ==
    ASSUME IInv, reader = "jobs"
    PROVE  /\ Shape(Attrs, reply) /\ Len(reply) \in Nat /\ Len(Attrs) \in Nat
           /\ pos \in 1..Len(Attrs) /\ pos \in Nat /\ count \in Nat
           /\ limit \in Nat
           /\ Here.group = "own" <=> OwnAt(Attrs, pos)
           /\ AtBegin => ~OwnAt(Attrs, pos)
           /\ \A n \in 1..Len(reply) : reply[n].key
           /\ \A n \in 1..Len(reply) : reply[n] \in Groups
           /\ list \in Seq([key : Nat, fields : [Fields -> Nat]])
           /\ Len(list) \in Nat
           /\ printer \in 0..Len(reply) /\ value \in [Fields -> 0..Len(reply)]
           /\ found \in BOOLEAN /\ pc \in {"outer", "group", "done"}
<1>1. Shape(Attrs, reply) /\ Len(reply) \in Nat /\ Len(Attrs) \in Nat
      /\ pos \in Nat /\ pos \in 1..Len(Attrs) + 1 /\ pos =< Len(Attrs)
      /\ (pos =< Len(Attrs) => (Here.group = "own" <=> OwnAt(Attrs, pos)))
  BY HereIs DEF IInv, Scalars
<1>2. pos \in 1..Len(Attrs)
  BY <1>1
<1>3. count \in Nat
  <2>1. count \in 0..Len(reply) + 1
    BY DEF IInv, Scalars
  <2> QED
    BY <1>1, <2>1
<1>4. limit \in Nat
  <2>1. limit \in 0..MaxGroups
    BY DEF IInv, ReplyOK
  <2> QED
    BY <2>1, BoundsAssumption
<1>5. AtBegin => ~OwnAt(Attrs, pos)
  BY <1>1 DEF AtBegin, Shape
<1>6. list \in Seq([key : Nat, fields : [Fields -> Nat]]) /\ Len(list) \in Nat
  BY LenProperties DEF IInv, JobsListed
<1> QED
  BY <1>1, <1>2, <1>3, <1>4, <1>5, <1>6 DEF IInv, ReplyOK, Scalars

LEMMA BackOtherStep ==
    ASSUME IInv, Next, BackOther
    PROVE  Jobs'
<1>0. /\ reader' = reader /\ limit' = limit /\ reply' = reply /\ Attrs' = Attrs
      /\ reader = "jobs"
  BY RowStays DEF BackOther, Backwards
<1>1. /\ Shape(Attrs, reply) /\ Len(reply) \in Nat /\ Len(Attrs) \in Nat
      /\ pos \in 1..Len(Attrs) /\ count \in Nat
      /\ Here.group = "own" <=> OwnAt(Attrs, pos)
  BY <1>0, JobsAt
<1>2. /\ pc = "outer" /\ pc' = "outer" /\ pos # 1 /\ ~OwnAt(Attrs, pos)
      /\ pos' = pos - 1 /\ printer' = printer /\ value' = value
      /\ found' = found /\ count' = count /\ list' = list
  BY <1>1 DEF BackOther, AtBegin
<1>3. /\ count =< Len(reply) /\ Len(list) = count
      /\ limit # 0 => count =< limit
      /\ Counted(Attrs, reply, pos, count)
  BY <1>0, <1>2 DEF IInv, JobOuter
<1>4. pos' \in 1..Len(Attrs) /\ (pos - 1) + 1 = pos
  BY <1>1, <1>2
<1>5. Counted(Attrs, reply, pos - 1, count)
  <2>1. \A q \in 1..Len(Attrs) : OwnAt(Attrs, q) => (q > pos - 1 <=> q > pos)
    BY <1>1, <1>2
  <2> QED
    BY ONLY <1>3, <2>1 DEF Counted
<1>6. JobOuter'
  BY <1>0, <1>2, <1>3, <1>4, <1>5 DEF JobOuter
<1>7. JobGroup' /\ JobsListed'
  <2>1. JobsListed
    BY DEF IInv
  <2> QED
    BY <1>0, <1>2, <2>1 DEF JobGroup, JobsListed
<1>8. Scalars'
  <2>1. Scalars
    BY DEF IInv
  <2>2. pos' \in 1..Len(Attrs) + 1 /\ pos' =< Len(Attrs)
    BY <1>1, <1>4
  <2> QED
    BY <1>0, <1>2, <2>1, <2>2 DEF Scalars
<1> QED
  BY <1>6, <1>7, <1>8 DEF Jobs

LEMMA CountJobStep ==
    ASSUME IInv, Next, CountJob
    PROVE  Jobs'
<1>0. /\ reader' = reader /\ limit' = limit /\ reply' = reply /\ Attrs' = Attrs
      /\ reader = "jobs"
  BY RowStays DEF CountJob, Backwards
<1>1. /\ Shape(Attrs, reply) /\ Len(reply) \in Nat /\ Len(Attrs) \in Nat
      /\ pos \in 1..Len(Attrs) /\ pos \in Nat /\ count \in Nat /\ limit \in Nat
      /\ Here.group = "own" <=> OwnAt(Attrs, pos)
      /\ \A n \in 1..Len(reply) : reply[n].key
  BY <1>0, JobsAt
<1>2. /\ pc = "outer" /\ (pos = 1 \/ OwnAt(Attrs, pos))
      /\ pos' = pos /\ printer' = 0 /\ value' = [f \in Fields |-> 0]
      /\ found' = found /\ count' = count + 1 /\ list' = list
      /\ pc' = IF limit # 0 /\ count + 1 > limit THEN "done" ELSE "group"
  BY <1>1 DEF CountJob, AtBegin, Blank
<1>3. /\ count =< Len(reply) /\ Len(list) = count
      /\ limit # 0 => count =< limit
      /\ Counted(Attrs, reply, pos, count)
  BY <1>0, <1>2 DEF IInv, JobOuter
<1> DEFINE n == Len(reply) + 1 - count'
<1>4. n = Len(reply) - count /\ count' \in 0..Len(reply) + 1
      /\ count' >= 1 /\ Len(list) = count' - 1
  BY <1>1, <1>2, <1>3
<1> HIDE DEF n
<1>5. /\ (n = 0 /\ pos = 1) \/ Is(Attrs, pos, n)
      /\ Parts(Attrs, pos, n) /\ \A a : OfJob(Attrs, pos, n, a, 0)
  <2>1. CASE pos = 1
    <3>1. Counted(Attrs, reply, 1, count)
      BY <1>3, <2>1
    <3>2. count = Len(reply) /\ Parts(Attrs, 1, 0) /\ \A a : OfJob(Attrs, 1, 0, a, 0)
      BY <1>1, <1>3, <3>1, AllCounted
    <3>3. n = 0
      BY <1>1, <1>4, <3>2
    <3> QED
      BY <2>1, <3>2, <3>3
  <2>2. CASE OwnAt(Attrs, pos)
    <3>1. /\ Attrs[pos].value = Len(reply) - count
          /\ Parts(Attrs, pos, Len(reply) - count)
          /\ \A a : OfJob(Attrs, pos, Len(reply) - count, a, 0)
      BY <1>1, <1>3, <2>2, NextJob
    <3> QED
      BY <1>4, <2>2, <3>1 DEF Is
  <2> QED
    BY <1>2, <2>1, <2>2
<1>6. JobGroup'
  <2> SUFFICES ASSUME pc' = "group" PROVE JobGroup'
    BY DEF JobGroup
  <2>1. limit # 0 => count' =< limit
    BY <1>1, <1>2
  <2>2. \A f \in Fields : value'[f] = 0
    BY <1>2
  <2>3. \A f \in Fields \ {UserName} : OfJob(Attrs, pos, n, f, value'[f])
    BY <1>5, <2>2
  <2>4. value'[UserName] = 0
    BY <2>2, FieldsAssumption
  <2> QED
    BY <1>0, <1>2, <1>4, <1>5, <2>1, <2>3, <2>4 DEF JobGroup, n
<1>7. JobOuter' /\ JobsListed'
  <2>1. JobsListed
    BY DEF IInv
  <2>2. pc' = "done" => Len(list) = IF limit = 0 \/ limit > Len(reply)
                                    THEN Len(reply) ELSE limit
    BY <1>1, <1>2, <1>3
  <2>3. pc' # "outer"
    BY <1>2
  <2> QED
    BY <1>0, <1>2, <2>1, <2>2, <2>3 DEF JobOuter, JobsListed
<1>8. Scalars'
  <2>1. Scalars
    BY DEF IInv
  <2>2. 0 \in 0..Len(reply)
    BY <1>1
  <2>3. value' \in [Fields -> 0..Len(reply)]
    BY <1>2, <2>2
  <2>4. pc' \in {"outer", "group", "done"}
    BY <1>2
  <2> QED
    BY <1>0, <1>2, <1>4, <2>1, <2>2, <2>3, <2>4 DEF Scalars
<1> QED
  BY <1>6, <1>7, <1>8 DEF Jobs

LEMMA TakeJobStep ==
    ASSUME IInv, Next, TakeJob
    PROVE  Jobs'
<1>0. /\ reader' = reader /\ limit' = limit /\ reply' = reply /\ Attrs' = Attrs
      /\ reader = "jobs"
  BY RowStays DEF TakeJob, Backwards
<1>1. /\ Shape(Attrs, reply) /\ Len(reply) \in Nat /\ Len(Attrs) \in Nat
      /\ pos \in 1..Len(Attrs) /\ pos \in Nat /\ count \in Nat
      /\ Here.group = "own" <=> OwnAt(Attrs, pos)
      /\ AtBegin => ~OwnAt(Attrs, pos)
  BY <1>0, JobsAt
<1>2. /\ pc = "group" /\ OwnAt(Attrs, pos) /\ Keep(Fields \ {UserName})
      /\ pos' = pos - 1 /\ pc' = pc
      /\ found' = found /\ count' = count /\ list' = list
  BY <1>1 DEF TakeJob
<1> DEFINE n == Len(reply) + 1 - count
<1>3. /\ count >= 1 /\ Len(list) = count - 1
      /\ limit # 0 => count =< limit
      /\ (n = 0 /\ pos = 1) \/ Is(Attrs, pos, n) \/ Is(Attrs, pos + 1, n)
      /\ Parts(Attrs, pos, n)
      /\ OfJob(Attrs, pos, n, Key, printer)
      /\ \A f \in Fields \ {UserName} : OfJob(Attrs, pos, n, f, value[f])
      /\ value[UserName] = 0
  BY <1>0, <1>2 DEF IInv, JobGroup
<1> HIDE DEF n
<1>4. pos # 1
  BY <1>1, <1>2 DEF AtBegin
<1>5. /\ printer' \in 0..Len(reply) /\ value' \in [Fields -> 0..Len(reply)]
      /\ printer' = (IF Attrs[pos].name = Key THEN Attrs[pos].value ELSE printer)
      /\ \A f \in Fields \ {UserName} :
            value'[f] = IF Attrs[pos].name = f THEN Attrs[pos].value ELSE value[f]
      /\ value'[UserName] = value[UserName]
  <2>1. Fields \ {UserName} \in SUBSET Fields
        /\ UserName \in Fields \ (Fields \ {UserName})
    BY FieldsAssumption
  <2> QED
    BY <1>2, <2>1, KeepTakes
<1>6. /\ Is(Attrs, pos, n) /\ Parts(Attrs, pos - 1, n)
      /\ \A a, v : OfJob(Attrs, pos, n, a, v) =>
            OfJob(Attrs, pos - 1, n, a,
                  IF Attrs[pos].name = a THEN Attrs[pos].value ELSE v)
  BY <1>1, <1>2, <1>3, <1>4, JobTakes
<1>7. OfJob(Attrs, pos - 1, n, Key, printer')
  BY <1>3, <1>5, <1>6
<1>8. ASSUME NEW f \in Fields \ {UserName}
      PROVE  OfJob(Attrs, pos - 1, n, f, value'[f])
  <2>1. value'[f] = IF Attrs[pos].name = f THEN Attrs[pos].value ELSE value[f]
    BY <1>5
  <2>2. OfJob(Attrs, pos, n, f, value[f])
    BY <1>3
  <2> QED
    BY <1>6, <2>1, <2>2
<1>9. (pos - 1) + 1 = pos /\ pos - 1 \in 1..Len(Attrs)
  BY <1>1, <1>4
<1>10. JobGroup'
  BY <1>0, <1>2, <1>3, <1>5, <1>6, <1>7, <1>8, <1>9 DEF JobGroup, n
<1>11. JobOuter' /\ JobsListed'
  <2>1. JobsListed
    BY DEF IInv
  <2> QED
    BY <1>0, <1>2, <2>1 DEF JobOuter, JobsListed
<1>12. Scalars'
  <2>1. Scalars
    BY DEF IInv
  <2>2. pos' \in 1..Len(Attrs) + 1 /\ pos' =< Len(Attrs)
    BY <1>1, <1>2, <1>9
  <2> QED
    BY <1>0, <1>2, <1>5, <2>1, <2>2 DEF Scalars
<1> QED
  BY <1>10, <1>11, <1>12 DEF Jobs

LEMMA ListJobStep ==
    ASSUME IInv, Next, ListJob
    PROVE  Jobs'
<1>0. /\ reader' = reader /\ limit' = limit /\ reply' = reply /\ Attrs' = Attrs
      /\ reader = "jobs"
  BY RowStays DEF ListJob, Backwards
<1>1. /\ Shape(Attrs, reply) /\ Len(reply) \in Nat /\ Len(Attrs) \in Nat
      /\ pos \in 1..Len(Attrs) /\ pos \in Nat /\ count \in Nat /\ limit \in Nat
      /\ Here.group = "own" <=> OwnAt(Attrs, pos)
      /\ AtBegin => ~OwnAt(Attrs, pos)
      /\ \A m \in 1..Len(reply) : reply[m].key
      /\ \A m \in 1..Len(reply) : reply[m] \in Groups
      /\ list \in Seq([key : Nat, fields : [Fields -> Nat]])
      /\ value \in [Fields -> 0..Len(reply)]
  BY <1>0, JobsAt
<1>2. /\ pc = "group" /\ ~OwnAt(Attrs, pos)
      /\ list' = (IF printer # 0
                  THEN Append(list, [key |-> printer, fields |-> value]) ELSE list)
      /\ pc' = (IF pos = 1 THEN "done" ELSE "outer")
      /\ pos' = pos /\ printer' = printer /\ value' = value
      /\ found' = found /\ count' = count
  BY <1>1 DEF ListJob, AtBegin
<1> DEFINE n == Len(reply) + 1 - count
<1>3. /\ count >= 1 /\ Len(list) = count - 1
      /\ limit # 0 => count =< limit
      /\ (n = 0 /\ pos = 1) \/ Is(Attrs, pos, n) \/ Is(Attrs, pos + 1, n)
      /\ Parts(Attrs, pos, n)
      /\ OfJob(Attrs, pos, n, Key, printer)
      /\ \A f \in Fields \ {UserName} : OfJob(Attrs, pos, n, f, value[f])
      /\ value[UserName] = 0
  BY <1>0, <1>2 DEF IInv, JobGroup
<1>4. \A i \in 1..Len(list) :
         list[i] = OwnIn(reply, Len(reply) + 1 - i, Fields \ {UserName})
  BY <1>0 DEF IInv, JobsListed
<1>5. Scalars'
  <2>1. Scalars
    BY DEF IInv
  <2> QED
    BY <1>0, <1>2, <2>1 DEF Scalars
<1>6. CASE n = 0 /\ pos = 1
  <2>1. count = Len(reply) + 1
    BY <1>1, <1>6
  <2>2. printer = 0
    <3>1. \A q \in 1..Len(Attrs) : ~Is(Attrs, q, 0)
      <4>1. \A q : OwnAt(Attrs, q) => Attrs[q].value \in 1..Len(reply)
        BY <1>1, ShapeTypes
      <4> QED
        BY <1>1, <4>1 DEF Is
    <3>2. OfJob(Attrs, pos, 0, Key, printer)
      BY <1>3, <1>6
    <3> QED
      BY <3>1, <3>2 DEF OfJob
  <2>3. list' = list /\ pc' = "done"
    BY <1>2, <1>6, <2>2
  <2>4. Len(list) = IF limit = 0 \/ limit > Len(reply) THEN Len(reply) ELSE limit
    BY <1>1, <1>3, <2>1
  <2>5. JobsListed'
    BY <1>0, <1>1, <1>4, <2>3, <2>4 DEF JobsListed
  <2> QED
    BY <1>5, <2>3, <2>5 DEF Jobs, JobOuter, JobGroup
<1>7. CASE Is(Attrs, pos + 1, n)
  <2>1. /\ n \in 1..Len(reply)
        /\ \A q \in 1..Len(Attrs) :
              OwnAt(Attrs, q) => (q > pos <=> Attrs[q].value > n - 1)
        /\ \A a, v : OfJob(Attrs, pos, n, a, v) =>
              v = IF a \in NamesIn(reply, n) THEN n ELSE 0
    BY <1>1, <1>2, <1>3, <1>7, JobEnds
  <2>2. pos # 1
    <3>1. pos = 1 => pos + 1 = 2
      OBVIOUS
    <3>2. ~OwnAt(Attrs, 2) /\ OwnAt(Attrs, pos + 1)
      BY <1>1, <1>7 DEF Shape, Is
    <3> QED
      BY <3>1, <3>2
  <2>3. count =< Len(reply) /\ n - 1 = Len(reply) - count
    BY <1>1, <2>1
  <2>4. n = Len(reply) + 1 - count
    OBVIOUS
  <2> HIDE DEF n
  <2>5. reply[n].key /\ reply[n].fields \subseteq Fields
    BY <1>1, <2>1 DEF Groups
  <2>6. printer = n /\ n # 0
    <3>1. Key \in NamesIn(reply, n)
      BY <2>5 DEF NamesIn
    <3> QED
      BY <1>3, <2>1, <3>1
  <2> DEFINE e == [key |-> printer, fields |-> value]
             store == Fields \ {UserName}
  <2>7. e = OwnIn(reply, n, store)
    <3>1. ASSUME NEW f \in Fields
          PROVE  value[f] = IF f \in reply[n].fields \intersect store THEN n ELSE 0
      <4>1. CASE f = UserName
        BY <1>3, <4>1
      <4>2. CASE f # UserName
        <5>1. f \in NamesIn(reply, n) <=> f \in reply[n].fields
          BY FieldsAssumption DEF NamesIn
        <5>2. value[f] = IF f \in NamesIn(reply, n) THEN n ELSE 0
          BY <1>3, <2>1, <4>2
        <5> QED
          BY <4>2, <5>1, <5>2
      <4> QED
        BY <4>1, <4>2
    <3>2. value = [f \in Fields |->
                     IF f \in reply[n].fields \intersect store THEN n ELSE 0]
      BY <1>1, <3>1
    <3> QED
      BY <2>6, <3>2 DEF OwnIn
  <2>8. e \in [key : Nat, fields : [Fields -> Nat]]
    BY <1>1, <2>1, <2>6
  <2>9. list' = Append(list, e) /\ pc' = "outer"
    BY <1>2, <2>2, <2>6
  <2> HIDE DEF e, store
  <2>10. /\ list' \in Seq([key : Nat, fields : [Fields -> Nat]])
         /\ Len(list') = count
         /\ \A i \in 1..Len(list) : list'[i] = list[i]
         /\ list'[count] = e
    BY <1>1, <1>3, <2>8, <2>9
  <2>11. ASSUME NEW i \in 1..Len(list')
         PROVE  list'[i] = OwnIn(reply, Len(reply) + 1 - i, store)
    <3>1. i \in 1..Len(list) \/ i = count
      BY <1>1, <1>3, <2>10
    <3>2. CASE i \in 1..Len(list)
      BY <1>4, <2>10, <3>2 DEF store
    <3>3. CASE i = count
      BY <2>4, <2>7, <2>10, <3>3
    <3> QED
      BY <3>1, <3>2, <3>3
  <2>12. Counted(Attrs, reply, pos, count)
    BY <2>1, <2>3 DEF Counted
  <2>13. JobOuter'
    BY <1>0, <1>2, <1>3, <2>3, <2>10, <2>12 DEF JobOuter
  <2>14. JobGroup' /\ JobsListed'
    BY <1>0, <2>9, <2>10, <2>11 DEF JobGroup, JobsListed, store
  <2> QED
    BY <1>5, <2>13, <2>14 DEF Jobs
<1>8. ~Is(Attrs, pos, n)
  BY <1>2 DEF Is
<1> QED
  BY <1>3, <1>6, <1>7, <1>8

-----------------------------------------------------------------------------
LEMMA StepInvariant ==
    ASSUME IInv, Next
    PROVE  IInv'
<1>0. /\ reader' = reader /\ wanted' = wanted /\ limit' = limit
      /\ reply' = reply /\ Attrs' = Attrs
  BY RowStays
<1>1. ReplyOK'
  <2>1. ReplyOK
    BY DEF IInv
  <2> QED
    BY <1>0, <2>1 DEF ReplyOK
<1>2. Seeks' /\ Collects' /\ FoundHasOwnValues'
  BY SeeksStep
<1>3. KeysListed' /\ MembersListed' /\ Gathers' /\ ModelsListed'
  BY KeysListedStep, MembersListedStep, GathersStep, ModelsListedStep
<1>4. CASE Forwards
  <2>1. Outside' /\ Scalars'
    BY <1>4, OutsideStep
  <2>2. JobOuter' /\ JobGroup' /\ JobsListed'
    BY <1>0, <1>4 DEF JobOuter, JobGroup, JobsListed, Forwards
  <2> QED
    BY <1>1, <1>2, <1>3, <2>1, <2>2 DEF IInv
<1>5. CASE ~Forwards
  <2>1. BackOther \/ CountJob \/ TakeJob \/ ListJob
    <3>1. reader = "jobs"
      BY <1>5 DEF Forwards
    <3>2. ~SkipOther /\ ~EnterGroup /\ ~TakesNext /\ ~AtGroupEnd
      BY <1>5 DEF SkipOther, EnterGroup, TakesNext, AtGroupEnd
    <3> QED
      BY <3>2 DEF Next, TakeAttribute, TakeStatus, TakeModel, TakeName,
         TakeMake, TakeMember, StopAtWanted, GoOn
  <2>2. Jobs'
    BY <2>1, BackOtherStep, CountJobStep, TakeJobStep, ListJobStep
  <2>3. Outside'
    BY <1>0, <1>5 DEF Outside, Forwards
  <2> QED
    BY <1>1, <1>2, <1>3, <2>2, <2>3 DEF IInv, Jobs
<1> QED
  BY <1>4, <1>5

LEMMA Stutter ==
    ASSUME IInv, UNCHANGED vars
    PROVE  IInv'
<1>1. /\ reader' = reader /\ wanted' = wanted /\ limit' = limit
      /\ reply' = reply /\ Attrs' = Attrs
  BY RowStays
<1>2. /\ pos' = pos /\ pc' = pc /\ printer' = printer /\ value' = value
      /\ found' = found /\ count' = count /\ list' = list
  BY DEF vars
<1>3. (ReplyOK /\ Scalars /\ Outside)'
  BY <1>1, <1>2 DEF IInv, ReplyOK, Scalars, Outside, Forwards
<1>4. (Seeks /\ Collects /\ FoundHasOwnValues)'
  BY <1>1, <1>2 DEF IInv, Seeks, Collects, FoundHasOwnValues
<1>5. (KeysListed /\ MembersListed /\ Gathers)'
  BY <1>1, <1>2 DEF IInv, KeysListed, MembersListed, Gathers
<1>6. ModelsListed'
  <2>1. ModelsListed
    BY DEF IInv
  <2> QED
    BY <1>1, <1>2, <2>1 DEF ModelsListed
<1>7. (JobOuter /\ JobGroup /\ JobsListed)'
  BY <1>1, <1>2 DEF IInv, JobOuter, JobGroup, JobsListed
<1> QED
  BY <1>3, <1>4, <1>5, <1>6, <1>7 DEF IInv

(* The invariant holds of every state of every scan.                       *)
THEOREM Invariant == Spec => []IInv
<1>1. IInv /\ [Next]_vars => IInv'
  BY StepInvariant, Stutter
<1> QED
  BY InitInvariant, <1>1, PTL DEF Spec

(* No reader leaves the reply at either end, whatever the groups are and   *)
(* wherever the reply ends.                                                *)
THEOREM TypeCorrect == Spec => []TypeOK
<1>1. IInv => TypeOK
  BY DEF IInv, ReplyOK, Scalars, TypeOK
<1> QED
  BY Invariant, <1>1, PTL

(* A printer that is in the reply is found, whichever come before it, and  *)
(* each attribute it has is returned with its own value.                   *)
THEOREM FoundIsItsOwn == Spec => []FoundHasOwnValues
<1>1. IInv => FoundHasOwnValues
  BY DEF IInv
<1> QED
  BY Invariant, <1>1, PTL

LEMMA KeysAreListed ==
    ASSUME IInv, pc = "done", reader \in {"names", "makes"}
    PROVE  list = [n \in 1..Len(reply) |-> n]
<1>1. /\ Shape(Attrs, reply) /\ Len(reply) \in Nat /\ Len(Attrs) \in Nat
      /\ pos \in Nat /\ \A n \in 1..Len(reply) : reply[n].key
  BY HereIs DEF IInv, ReplyOK
<1>2. /\ list \in Seq(Nat) /\ \A i \in 1..Len(list) : list[i] = i
      /\ Newest(Attrs, pos, Key, Len(list)) /\ pos > Len(Attrs)
      /\ Len(list) \in Nat
  BY LenProperties DEF IInv, KeysListed
<1>3. Len(reply) =< Len(list)
  <2>1. CASE Len(reply) = 0
    BY <1>2, <2>1
  <2>2. CASE Len(reply) # 0
    <3> DEFINE N1 == Len(reply)
    <3>1. N1 \in 1..Len(reply)
      BY <1>1, <2>2
    <3>2. Key \in NamesIn(reply, N1)
      BY <1>1, <3>1 DEF NamesIn
    <3> HIDE DEF N1
    <3>3. PICK k \in 1..Len(Attrs) :
             OwnAt(Attrs, k) /\ Attrs[k].value = N1 /\ Attrs[k].name = Key
      BY <1>1, <3>1, <3>2 DEF Shape
    <3>4. k < pos
      BY <1>1, <1>2
    <3>5. N1 =< Len(list)
      BY <1>1, <1>2, <3>3, <3>4, NewestIsKnown
    <3> QED
      BY <3>5 DEF N1
  <2> QED
    BY <2>1, <2>2
<1>4. Len(list) =< Len(reply)
  <2>1. CASE Len(list) = 0
    BY <1>1, <2>1
  <2>2. CASE Len(list) # 0
    <3>1. PICK q \in 1..Len(Attrs) : Is(Attrs, q, Len(list))
      BY <1>2, <2>2 DEF Newest
    <3> QED
      BY <1>1, <3>1, ShapeTypes DEF Is
  <2> QED
    BY <2>1, <2>2
<1>5. Len(list) = Len(reply)
  BY <1>1, <1>2, <1>3, <1>4
<1>6. list = [i \in 1..Len(list) |-> list[i]]
  BY <1>2
<1> QED
  BY <1>2, <1>5, <1>6

LEMMA MembersAreListed ==
    ASSUME IInv, pc = "done", reader = "members", reply # <<>>
    PROVE  list = [i \in 1..Cardinality(reply[1].fields) |-> 1]
<1>1. /\ Shape(Attrs, reply) /\ Len(reply) =< 1 /\ reply \in Seq(Groups)
  BY HereIs DEF IInv, ReplyOK
<1>2. Len(reply) = 1 /\ reply[1] \in Groups
  <2>1. Len(reply) \in Nat /\ Len(reply) # 0
    BY <1>1, EmptySeq, LenProperties
  <2>2. Len(reply) =< 1
    BY <1>1
  <2>3. Len(reply) = 1
    <3>1. \A n \in Nat : n # 0 /\ n =< 1 => n = 1
      OBVIOUS
    <3> QED
      BY ONLY <2>1, <2>2, <3>1, Zenon
  <2>4. 1 \in 1..Len(reply)
    BY <2>3
  <2> QED
    BY ONLY <1>1, <2>3, <2>4, ElementOfSeq
<1>3. /\ list \in Seq({1}) /\ Cardinality(FieldsSeen(Attrs, pos)) = Len(list)
      /\ \A q \in 1..Len(Attrs) : OwnAt(Attrs, q) => q < pos
  BY DEF IInv, MembersListed
<1>4. \A q : OwnAt(Attrs, q) => q < pos
  BY <1>3 DEF OwnAt
<1>5. FieldsSeen(Attrs, pos) = reply[1].fields
  BY <1>1, <1>2, <1>4, FieldsSeenAll
<1>6. Len(list) = Cardinality(reply[1].fields)
  BY <1>3, <1>5
<1>7. list = [i \in 1..Len(list) |-> 1]
  BY <1>3
<1> QED
  BY <1>6, <1>7

LEMMA ModelsAreListed ==
    ASSUME IInv, pc = "done", reader = "models"
    PROVE  /\ {list[i].key : i \in 1..Len(list)}
                  = {n \in 1..Len(reply) : reply[n].key}
           /\ \A i \in 1..Len(list) :
                 /\ list[i] = Own(list[i].key, Fields)
                 /\ i > 1 => list[i - 1].key < list[i].key
<1>1. Shape(Attrs, reply) /\ pos \in Nat /\ Len(Attrs) \in Nat
  BY HereIs
<1>2. /\ pos > Len(Attrs)
      /\ \A i \in 1..Len(list) :
            /\ list[i].key \in 1..Len(reply) /\ reply[list[i].key].key
            /\ list[i] = OwnIn(reply, list[i].key, Fields)
            /\ i > 1 => list[i - 1].key < list[i].key
      /\ \A n \in 1..Len(reply) : reply[n].key /\ Passed(Attrs, pos, n)
            => \E i \in 1..Len(list) : list[i].key = n
  BY DEF IInv, ModelsListed
<1>3. ASSUME NEW n \in 1..Len(reply), reply[n].key
      PROVE  Passed(Attrs, pos, n)
  <2>1. Key \in NamesIn(reply, n)
    BY <1>3 DEF NamesIn
  <2>2. PICK k \in 1..Len(Attrs) : OwnAt(Attrs, k) /\ Attrs[k].value = n
    BY <1>1, <2>1 DEF Shape
  <2>3. k < pos
    BY <1>1, <1>2
  <2> QED
    BY <2>2, <2>3 DEF Passed, Is
<1>4. \A n : Own(n, Fields) = OwnIn(reply, n, Fields)
  BY DEF Own, OwnIn
<1> QED
  BY <1>2, <1>3, <1>4

(* What is listed is the reply: each printer, make and member once, each   *)
(* named Ppd with its own attributes, in the reply's order.                *)
THEOREM ListsAreWhole == Spec => []ListsAreTheReply
<1>1. IInv => ListsAreTheReply
  <2> SUFFICES ASSUME IInv, pc = "done"
               PROVE  /\ reader \in {"names", "makes"} =>
                            list = [n \in 1..Len(reply) |-> n]
                      /\ reader = "members" /\ reply # <<>> =>
                            list = [i \in 1..Cardinality(reply[1].fields) |-> 1]
                      /\ reader = "models" =>
                            /\ {list[i].key : i \in 1..Len(list)}
                                   = {n \in 1..Len(reply) : reply[n].key}
                            /\ \A i \in 1..Len(list) :
                                  /\ list[i] = Own(list[i].key, Fields)
                                  /\ i > 1 => list[i - 1].key < list[i].key
    BY DEF ListsAreTheReply
  <2> QED
    BY KeysAreListed, MembersAreListed, ModelsAreListed
<1> QED
  BY Invariant, <1>1, PTL

(* getJobList() lists the newest jobs, newest first, as many as were asked *)
(* for and not one of another's attributes in any of them.                 *)
THEOREM JobsAreNewest == Spec => []ListsNewestJobs
<1>1. IInv => ListsNewestJobs
  <2> SUFFICES ASSUME IInv, pc = "done", reader = "jobs"
               PROVE  ListsNewestJobs
    BY DEF ListsNewestJobs
  <2>1. /\ list \in Seq([key : Nat, fields : [Fields -> Nat]])
        /\ \A i \in 1..Len(list) :
              list[i] = OwnIn(reply, Len(reply) + 1 - i, Fields \ {UserName})
        /\ Len(list) = IF limit = 0 \/ limit > Len(reply)
                       THEN Len(reply) ELSE limit
    BY DEF IInv, JobsListed
  <2>2. list = [i \in 1..Len(list) |-> list[i]]
    BY <2>1
  <2>3. \A m : Own(m, Fields \ {UserName}) = OwnIn(reply, m, Fields \ {UserName})
    BY DEF Own, OwnIn
  <2>4. list = [i \in 1..Len(list) |->
                  Own(Len(reply) + 1 - i, Fields \ {UserName})]
    <3>1. \A i \in 1..Len(list) :
             list[i] = Own(Len(reply) + 1 - i, Fields \ {UserName})
      BY <2>1, <2>3
    <3> QED
      BY ONLY <2>2, <3>1
  <2> QED
    BY ONLY <2>1, <2>4, pc = "done", reader = "jobs" DEF ListsNewestJobs
<1> QED
  BY Invariant, <1>1, PTL

=============================================================================
