-------------------------- MODULE CupsdConfProofs ---------------------------
(***************************************************************************)
(* Theorems about CupsdConf, for files of any length, any paths and keys,  *)
(* and any number of calls, programs and edits.                            *)
(*                                                                         *)
(* In this order: reading a line keeps a good tree; the ancestors and the  *)
(* path of a container; what setDirective() changes; what write() leaves   *)
(* is a file; the nesting of lines and the containers read of them; what   *)
(* is written reads as it was; the invariants and the theorems.            *)
(***************************************************************************)
EXTENDS CupsdConf, FiniteSetTheorems, SequenceTheorems, WellFoundedInduction,
        TLAPS

(* What holds of no least number holds of none.                            *)
LEMMA LeastExists ==
    ASSUME NEW S \in SUBSET Nat, S # {}
    PROVE  \E m \in S : \A k \in S : m =< k
<1>1. \E m \in S : \A k \in S : <<k, m>> \notin OpToRel(<, Nat)
  BY NatLessThanWellFounded, WFMin
<1>2. ASSUME NEW k \in Nat, NEW m \in Nat, <<k, m>> \notin OpToRel(<, Nat)
      PROVE  m =< k
  BY <1>2 DEF OpToRel
<1> QED
  BY <1>1, <1>2

(* What holds at 0 and stays from each number to the next holds up to N.   *)
LEMMA UpTo ==
    ASSUME NEW N \in Nat, NEW P, 0 \in P,
           \A n \in 1..N : n - 1 \in P => n \in P
    PROVE  \A n \in 0..N : n \in P
<1> DEFINE Bad == {n \in 0..N : n \notin P}
<1>1. ASSUME NEW m \in Bad, \A k \in Bad : m =< k
      PROVE  FALSE
  <2>1. m \in 1..N /\ m - 1 \in 0..N
    OBVIOUS
  <2>2. m - 1 \notin Bad
    <3> HIDE DEF Bad
    <3> QED
      BY <1>1, <2>1
  <2> QED
    BY <2>1, <2>2
<1>2. Bad \in SUBSET Nat
  OBVIOUS
<1>3. Bad = {}
  <2> HIDE DEF Bad
  <2> QED
    BY <1>1, <1>2, LeastExists
<1> QED
  BY <1>3

(* Of numbers up to n there is a greatest.                                 *)
LEMMA GreatestExists ==
    ASSUME NEW n \in Nat, NEW S \in SUBSET (1..n), S # {}
    PROVE  \E m \in S : \A k \in S : k =< m
<1> DEFINE T == {k \in Nat : n - k \in S}
<1>0. PICK s \in S : TRUE
  OBVIOUS
<1>1. T \in SUBSET Nat /\ T # {}
  <2>1. n - s \in Nat /\ n - (n - s) = s
    BY <1>0
  <2> QED
    BY <1>0, <2>1
<1>2. PICK l \in T : \A k \in T : l =< k
  BY <1>1, LeastExists
<1>3. n - l \in S /\ l \in Nat
  BY <1>2
<1>4. ASSUME NEW k \in S PROVE k =< n - l
  <2>1. n - k \in Nat /\ n - (n - k) = k
    OBVIOUS
  <2>2. l =< n - k
    BY <1>2, <2>1
  <2> QED
    BY <1>3, <2>2
<1> QED
  BY <1>3, <1>4

(* The greatest of some positions.                                         *)
LEMMA MaxIsGreatest ==
    ASSUME NEW n \in Nat, NEW S \in SUBSET (1..n), S # {}
    PROVE  Max(S) \in S /\ \A k \in S : k =< Max(S)
<1>1. \E m \in S : \A k \in S : m >= k
  BY GreatestExists
<1> QED
  BY <1>1 DEF Max

LEMMA MaxIs ==
    ASSUME NEW n \in Nat, NEW S \in SUBSET (1..n),
           NEW m \in S, \A k \in S : k =< m
    PROVE  Max(S) = m
<1>1. Max(S) \in S /\ m =< Max(S)
  BY MaxIsGreatest
<1>2. Max(S) =< m /\ Max(S) \in 1..n /\ m \in 1..n
  BY <1>1
<1> QED
  BY <1>1, <1>2

-----------------------------------------------------------------------------
(* Directives: a map from finitely many keys.                              *)
DirMaps == {d \in UNION {[D -> Words] : D \in SUBSET Words} :
               IsFiniteSet(DOMAIN d)}

LEMMA PutIs ==
    ASSUME NEW d \in DirMaps, NEW key \in Words, NEW v \in Words
    PROVE  /\ Put(d, key, v) \in DirMaps
           /\ DOMAIN Put(d, key, v) = DOMAIN d \union {key}
           /\ Put(d, key, v)[key] = v
           /\ \A k \in DOMAIN d : k # key => Put(d, key, v)[k] = d[k]
<1> DEFINE D == DOMAIN d  E == D \union {key}
<1>1. D \in SUBSET Words /\ d \in [D -> Words] /\ IsFiniteSet(D)
  BY DEF DirMaps
<1>2. Put(d, key, v) = [x \in E |-> IF x = key THEN v ELSE d[x]]
  BY DEF Put
<1>3. IsFiniteSet(E)
  BY <1>1, FS_AddElement
<1>4. Put(d, key, v) \in [E -> Words] /\ E \in SUBSET Words
  BY <1>1, <1>2
<1>5. DOMAIN Put(d, key, v) = E
  BY <1>2
<1>6. Put(d, key, v) \in DirMaps
  BY <1>3, <1>4, <1>5 DEF DirMaps
<1> QED
  BY <1>2, <1>5, <1>6

LEMMA NoDirectives == <<>> \in DirMaps
<1>1. <<>> \in [{} -> Words] /\ DOMAIN <<>> = {} /\ IsFiniteSet({})
  BY FS_EmptySet
<1> QED
  BY <1>1 DEF DirMaps

Containers == [depth : Nat, tag : TagSet, directives : DirMaps]

LEMMA Tags == /\ Root \in TagSet
              /\ \A tag \in TagSet : ReadTag(tag) \in TagSet \ {Root}
<1>1. Root \in TagSet
  BY WordsAssumption DEF Root, Tag, TagSet
<1>2. ASSUME NEW tag \in TagSet PROVE ReadTag(tag) \in TagSet \ {Root}
  BY DEF Root, Tag, TagSet, ReadTag
<1> QED
  BY <1>1, <1>2

-----------------------------------------------------------------------------
(* Reading a file.  The shape of a tree: each container is at most one     *)
(* deeper than the one before it, and those at depth 0 are the roots.      *)
Shaped(t) ==
    \A i \in 1..Len(t) :
        /\ t[i].depth =< IF i = 1 THEN 0 ELSE t[i - 1].depth + 1
        /\ t[i].depth = 0 <=> t[i].tag = Root

OneRoot(t) == Len(t) >= 1 /\ \A i \in 1..Len(t) : t[i].depth = 0 <=> i = 1

(* The containers that are open are fewer than the last one is deep, and   *)
(* itself.                                                                 *)
States == [cont : Seq(Containers), open : Seq(Nat), over : BOOLEAN]

ReadOK(s) ==
    /\ s \in States
    /\ Shaped(s.cont) /\ OneRoot(s.cont)
    /\ Len(s.open) >= 1 /\ Len(s.open) =< s.cont[Len(s.cont)].depth + 1
    /\ \A i \in 1..Len(s.open) : s.open[i] \in 1..Len(s.cont)

LEMMA UnreadOK == ReadOK(Unread)
<1> DEFINE c == Container(0, Root)
<1>1. c \in Containers /\ c.depth = 0 /\ c.tag = Root
  BY Tags, NoDirectives DEF Container, Containers
<1> HIDE DEF c
<1>2. Unread = [cont |-> <<c>>, open |-> <<1>>, over |-> FALSE]
  BY DEF Unread, c
<1>3. <<c>> \in Seq(Containers) /\ Len(<<c>>) = 1 /\ <<c>>[1] = c
  BY <1>1
<1>4. Unread \in States
  BY <1>2, <1>3 DEF States
<1>5. Shaped(<<c>>) /\ OneRoot(<<c>>)
  BY <1>1, <1>3 DEF Shaped, OneRoot
<1> QED
  BY <1>1, <1>2, <1>3, <1>4, <1>5 DEF ReadOK

(* A begin tag adds a container in those that are open.                    *)
LEMMA BeginOK ==
    ASSUME NEW s, ReadOK(s), NEW tag \in TagSet
    PROVE  ReadOK([s EXCEPT
                       !.cont = Append(@, Container(Len(s.open), ReadTag(tag))),
                       !.open = Append(@, Len(s.cont) + 1)])
<1> DEFINE c == Container(Len(s.open), ReadTag(tag))
           n == Len(s.cont)
           r == [s EXCEPT !.cont = Append(@, c), !.open = Append(@, n + 1)]
<1>1. /\ s \in States /\ s.cont \in Seq(Containers) /\ n \in Nat
      /\ s.open \in Seq(Nat) /\ Len(s.open) \in Nat
      /\ Shaped(s.cont) /\ OneRoot(s.cont)
      /\ Len(s.open) >= 1 /\ Len(s.open) =< s.cont[n].depth + 1
      /\ \A i \in 1..Len(s.open) : s.open[i] \in 1..n
  BY DEF ReadOK, States
<1>2. /\ c \in Containers /\ c.depth = Len(s.open)
      /\ c.tag # Root
  BY <1>1, Tags, NoDirectives DEF Container, Containers
<1> HIDE DEF c
<1>3. /\ r \in States /\ r.cont = Append(s.cont, c)
      /\ r.open = Append(s.open, n + 1)
  <2>1. Append(s.cont, c) \in Seq(Containers) /\ Append(s.open, n + 1) \in Seq(Nat)
    BY <1>1, <1>2
  <2> HIDE DEF n
  <2> QED
    BY <1>1, <2>1 DEF States
<1> HIDE DEF r, n
<1>4. /\ r.cont \in Seq(Containers) /\ Len(r.cont) = n + 1
      /\ \A i \in 1..n : r.cont[i] = s.cont[i]
      /\ r.cont[n + 1] = c
  BY <1>1, <1>2, <1>3 DEF n
<1>5. /\ Len(r.open) = Len(s.open) + 1
      /\ \A i \in 1..Len(s.open) : r.open[i] = s.open[i]
      /\ r.open[Len(s.open) + 1] = n + 1
  BY <1>1, <1>3
<1>6. n >= 1
  BY <1>1 DEF OneRoot, n
<1>7. Shaped(r.cont)
  <2> SUFFICES ASSUME NEW i \in 1..(n + 1)
               PROVE  /\ r.cont[i].depth =< IF i = 1 THEN 0 ELSE r.cont[i - 1].depth + 1
                      /\ r.cont[i].depth = 0 <=> r.cont[i].tag = Root
    BY <1>4 DEF Shaped
  <2>1. CASE i \in 1..n
    <3>1. i # 1 => i - 1 \in 1..n
      BY <2>1, <1>1
    <3> QED
      BY <1>1, <1>4, <2>1, <3>1 DEF Shaped, n
  <2>2. CASE i = n + 1
    BY <1>1, <1>2, <1>4, <1>6, <2>2
  <2> QED
    BY <2>1, <2>2, <1>1
<1>8. OneRoot(r.cont)
  <2> SUFFICES ASSUME NEW i \in 1..(n + 1)
               PROVE  r.cont[i].depth = 0 <=> i = 1
    BY <1>1, <1>4 DEF OneRoot
  <2>1. CASE i \in 1..n
    BY <1>1, <1>4, <2>1 DEF OneRoot, n
  <2>2. CASE i = n + 1
    BY <1>1, <1>2, <1>4, <1>6, <2>2
  <2> QED
    BY <2>1, <2>2, <1>1
<1>9. \A i \in 1..Len(r.open) : r.open[i] \in 1..Len(r.cont)
  <2> SUFFICES ASSUME NEW i \in 1..(Len(s.open) + 1)
               PROVE  r.open[i] \in 1..(n + 1)
    BY <1>4, <1>5
  <2>1. CASE i \in 1..Len(s.open)
    <3>1. r.open[i] \in 1..n
      BY <1>1, <1>5, <2>1
    <3> QED
      BY <1>1, <3>1
  <2>2. CASE i = Len(s.open) + 1
    BY <1>1, <1>5, <2>2
  <2> QED
    BY <2>1, <2>2, <1>1
<1>10. ReadOK(r)
  BY <1>1, <1>2, <1>3, <1>4, <1>5, <1>7, <1>8, <1>9 DEF ReadOK
<1> QED
  BY <1>10 DEF r, c, n

(* A directive changes those of one container and no shape.                *)
LEMMA SetOneKeepsShape ==
    ASSUME NEW t \in Seq(Containers), NEW k \in 1..Len(t),
           NEW key \in Words, NEW v \in Words
    PROVE  LET u == [t EXCEPT ![k].directives = Put(@, key, v)] IN
           /\ u \in Seq(Containers) /\ Len(u) = Len(t)
           /\ \A i \in 1..Len(t) : u[i].depth = t[i].depth /\ u[i].tag = t[i].tag
<1> DEFINE u == [t EXCEPT ![k].directives = Put(@, key, v)]
           c == [t[k] EXCEPT !.directives = Put(@, key, v)]
<1>1. t[k] \in Containers /\ Put(t[k].directives, key, v) \in DirMaps
  <2>1. t[k] \in Containers
    OBVIOUS
  <2>2. t[k].directives \in DirMaps
    BY <2>1 DEF Containers
  <2> QED
    BY <2>1, <2>2, PutIs
<1>2. c \in Containers /\ c.depth = t[k].depth /\ c.tag = t[k].tag
  BY <1>1 DEF Containers
<1>3. u = [t EXCEPT ![k] = c]
  OBVIOUS
<1> HIDE DEF u, c
<1> QED
  BY <1>2, <1>3 DEF u

LEMMA DirectiveOK ==
    ASSUME NEW s, ReadOK(s), NEW key \in Words, NEW v \in Words
    PROVE  ReadOK([s EXCEPT !.cont[Last(s.open)].directives = Put(@, key, v)])
<1> DEFINE k == Last(s.open)
           u == [s.cont EXCEPT ![k].directives = Put(@, key, v)]
           r == [s EXCEPT !.cont[k].directives = Put(@, key, v)]
<1>1. /\ s \in States /\ s.cont \in Seq(Containers)
      /\ s.open \in Seq(Nat) /\ Len(s.open) \in Nat
      /\ Shaped(s.cont) /\ OneRoot(s.cont)
      /\ Len(s.open) >= 1 /\ Len(s.open) =< s.cont[Len(s.cont)].depth + 1
      /\ \A i \in 1..Len(s.open) : s.open[i] \in 1..Len(s.cont)
  BY DEF ReadOK, States
<1>2. k \in 1..Len(s.cont)
  BY <1>1 DEF Last
<1>3. r = [s EXCEPT !.cont = u]
  OBVIOUS
<1> HIDE DEF k
<1>4. /\ u \in Seq(Containers) /\ Len(u) = Len(s.cont)
      /\ \A i \in 1..Len(u) : u[i].depth = s.cont[i].depth /\ u[i].tag = s.cont[i].tag
  BY <1>1, <1>2, SetOneKeepsShape
<1> HIDE DEF u, r
<1>5. r \in States /\ r.cont = u /\ r.open = s.open
  BY <1>1, <1>3, <1>4 DEF States
<1>6. Shaped(u) /\ OneRoot(u)
  <2> SUFFICES ASSUME NEW i \in 1..Len(u)
               PROVE  /\ u[i].depth =< IF i = 1 THEN 0 ELSE u[i - 1].depth + 1
                      /\ u[i].depth = 0 <=> u[i].tag = Root
                      /\ u[i].depth = 0 <=> i = 1
    BY <1>1, <1>4 DEF Shaped, OneRoot
  <2>1. i # 1 => i - 1 \in 1..Len(u)
    BY <1>4
  <2> QED
    BY <1>1, <1>4, <2>1 DEF Shaped, OneRoot
<1>7. Len(u) \in 1..Len(u)
  BY <1>4, <1>6 DEF OneRoot
<1>8. ReadOK(r)
  BY <1>1, <1>4, <1>5, <1>6, <1>7 DEF ReadOK
<1> QED
  BY <1>8 DEF r, k

LEMMA EndOK ==
    ASSUME NEW s, ReadOK(s)
    PROVE  /\ ReadOK([s EXCEPT !.over = TRUE])
           /\ Len(s.open) # 1 => ReadOK([s EXCEPT !.open = Front(@)])
<1>1. /\ s \in States /\ s.cont \in Seq(Containers) /\ Len(s.cont) \in Nat
      /\ s.open \in Seq(Nat) /\ Len(s.open) \in Nat
      /\ Shaped(s.cont) /\ OneRoot(s.cont)
      /\ Len(s.open) >= 1 /\ Len(s.open) =< s.cont[Len(s.cont)].depth + 1
      /\ \A i \in 1..Len(s.open) : s.open[i] \in 1..Len(s.cont)
  BY DEF ReadOK, States
<1>2. ReadOK([s EXCEPT !.over = TRUE])
  BY <1>1 DEF ReadOK, States
<1>3. ASSUME Len(s.open) # 1 PROVE ReadOK([s EXCEPT !.open = Front(@)])
  <2> DEFINE f == Front(s.open)
  <2>1. /\ f \in Seq(Nat) /\ Len(f) = Len(s.open) - 1
        /\ \A i \in 1..Len(f) : f[i] = s.open[i]
    BY <1>1, <1>3 DEF Front
  <2> HIDE DEF f
  <2>2. [s EXCEPT !.open = f] \in States
    BY <1>1, <2>1 DEF States
  <2>3. Len(f) >= 1 /\ Len(f) =< s.cont[Len(s.cont)].depth + 1
    <3> DEFINE d == s.cont[Len(s.cont)].depth  n == Len(s.open)
    <3>1. s.cont[Len(s.cont)] \in Containers
      BY <1>1 DEF OneRoot
    <3>2. d \in Nat
      BY <3>1 DEF Containers
    <3>3. n \in Nat /\ n >= 1 /\ n # 1 /\ n =< d + 1 /\ Len(f) = n - 1
      BY <1>1, <1>3, <2>1
    <3> HIDE DEF d, n
    <3>4. Len(f) >= 1 /\ Len(f) =< d + 1
      BY <3>2, <3>3
    <3> QED
      BY <3>4 DEF d
  <2>4. \A i \in 1..Len(f) : f[i] \in 1..Len(s.cont)
    <3> SUFFICES ASSUME NEW i \in 1..Len(f) PROVE f[i] \in 1..Len(s.cont)
      OBVIOUS
    <3>1. i \in 1..Len(s.open)
      BY <1>1, <2>1
    <3> QED
      BY <1>1, <2>1, <3>1
  <2>5. ReadOK([s EXCEPT !.open = f])
    BY <1>1, <2>2, <2>3, <2>4 DEF ReadOK, States
  <2> QED
    BY <2>5 DEF f
<1> QED
  BY <1>2, <1>3

LEMMA ReadLineOK ==
    ASSUME NEW s, ReadOK(s), NEW l \in LineSet
    PROVE  ReadOK(ReadLine(s, l))
<1>1. CASE l.kind = "comment"
  BY <1>1 DEF ReadLine
<1>2. CASE l.kind = "begin"
  <2>1. l.tag \in TagSet
    BY <1>2 DEF LineSet
  <2> QED
    BY <1>2, <2>1, BeginOK DEF ReadLine
<1>3. CASE l.kind = "end"
  BY <1>3, EndOK DEF ReadLine
<1>4. CASE l.kind \in {"directive", "word"}
  <2>1. l.key \in Words /\ ValueOf(l) \in Words
    BY <1>4 DEF LineSet, ValueOf
  <2> QED
    BY <1>4, <2>1, DirectiveOK DEF ReadLine
<1> QED
  BY <1>1, <1>2, <1>3, <1>4 DEF LineSet

(* From state s the lines ls lead through states st.                       *)
Steps(s, ls, st) ==
    st[0] = s /\ \A n \in 1..Len(ls) : st[n] = ReadLine(st[n - 1], ls[n])

(* There are such states, and they are as read() wants them.               *)
LEMMA StepsExist ==
    ASSUME NEW ls \in Seq(LineSet), NEW s
    PROVE  \E st : Steps(s, ls, st)
<1> DEFINE N == Len(ls)
           Partial(n) == \E f : /\ f[0] = s
                                /\ \A i \in 1..n : f[i] = ReadLine(f[i - 1], ls[i])
           P == {n \in 0..N : Partial(n)}
<1>0. N \in Nat
  OBVIOUS
<1>1. 0 \in P
  <2> DEFINE g == [i \in {0} |-> s]
  <2>1. g[0] = s /\ \A i \in 1..0 : g[i] = ReadLine(g[i - 1], ls[i])
    OBVIOUS
  <2>2. Partial(0)
    <3> HIDE DEF g
    <3> QED
      BY <2>1
  <2> QED
    BY <1>0, <2>2
<1>2. ASSUME NEW n \in 1..N, n - 1 \in P PROVE n \in P
  <2>1. PICK f : /\ f[0] = s
                 /\ \A i \in 1..(n - 1) : f[i] = ReadLine(f[i - 1], ls[i])
    BY <1>2
  <2> DEFINE g == [i \in 0..n |-> IF i < n THEN f[i] ELSE ReadLine(f[n - 1], ls[n])]
  <2>2. g[0] = s
    BY <2>1
  <2>3. ASSUME NEW i \in 1..n PROVE g[i] = ReadLine(g[i - 1], ls[i])
    <3>1. CASE i < n
      <4>1. i \in 1..(n - 1) /\ i - 1 \in 0..n /\ i - 1 < n /\ i \in 0..n
        BY <1>0, <3>1
      <4>2. g[i] = f[i] /\ g[i - 1] = f[i - 1]
        BY <3>1, <4>1
      <4> QED
        BY <2>1, <4>1, <4>2
    <3>2. CASE i = n
      <4>1. n - 1 \in 0..n /\ n - 1 < n /\ n \in 0..n /\ ~(n < n)
        BY <1>0
      <4>2. g[n] = ReadLine(f[n - 1], ls[n]) /\ g[n - 1] = f[n - 1]
        BY <4>1
      <4> QED
        BY <3>2, <4>2
    <3> QED
      BY <1>0, <3>1, <3>2
  <2>4. Partial(n)
    <3> HIDE DEF g
    <3> QED
      BY <2>2, <2>3
  <2> QED
    BY <2>4
<1>3. Partial(N)
  <2>1. N \in 0..N
    BY <1>0
  <2> HIDE DEF P
  <2>2. \A n \in 0..N : n \in P
    BY <1>0, <1>1, <1>2, UpTo
  <2>3. N \in P
    BY <2>1, <2>2
  <2> QED
    BY <2>3 DEF P
<1> HIDE DEF N
<1> QED
  BY <1>3 DEF Steps, N

LEMMA StepsOK ==
    ASSUME NEW ls \in Seq(LineSet), NEW s, ReadOK(s), NEW st, Steps(s, ls, st)
    PROVE  \A n \in 0..Len(ls) : ReadOK(st[n])
<1> DEFINE P == {n \in 0..Len(ls) : ReadOK(st[n])}
<1>0. Len(ls) \in Nat
  OBVIOUS
<1>1. 0 \in P
  BY <1>0 DEF Steps
<1>2. ASSUME NEW n \in 1..Len(ls), n - 1 \in P PROVE n \in P
  <2>1. n \in 0..Len(ls) /\ ls[n] \in LineSet /\ st[n] = ReadLine(st[n - 1], ls[n])
    BY <1>0 DEF Steps
  <2>2. ReadOK(st[n - 1])
    BY <1>2
  <2>3. ReadOK(st[n])
    BY <2>1, <2>2, ReadLineOK
  <2> QED
    BY <2>1, <2>3
<1>3. \A n \in 0..Len(ls) : n \in P
  <2> HIDE DEF P
  <2> QED
    BY <1>0, <1>1, <1>2, UpTo
<1> QED
  BY <1>3

(* The states in which read() is after each line of f.                     *)
ReadThrough(f, st) ==
    /\ st[0] = Unread
    /\ \A n \in 1..Len(f) : st[n] = ReadLine(st[n - 1], f[n])
    /\ \A n \in 0..Len(f) : ReadOK(st[n])

(* ReadFile() gives the last of them, from nothing read.                   *)
LEMMA ReadStates ==
    ASSUME NEW lines \in Seq(LineSet), NEW st, Steps(Unread, lines, st)
    PROVE  ReadThrough(lines, st) /\ ReadFile(lines) = st[Len(lines)].cont
<1> DEFINE N == Len(lines)
           Is(state) == state = [n \in 0..N |->
              IF n = 0 THEN Unread ELSE ReadLine(state[n - 1], lines[n])]
           all == CHOOSE state : Is(state)
           h == [n \in 0..N |-> st[n]]
<1>0. N \in Nat
  OBVIOUS
<1>1. ReadFile(lines) = all[N].cont
  BY DEF ReadFile
<1>2. st[0] = Unread /\ \A n \in 1..N : st[n] = ReadLine(st[n - 1], lines[n])
  BY DEF Steps
<1>3. Is(h)
  <2> DEFINE g == [n \in 0..N |->
                IF n = 0 THEN Unread ELSE ReadLine(h[n - 1], lines[n])]
  <2>1. ASSUME NEW n \in 0..N PROVE h[n] = g[n]
    <3>1. CASE n = 0
      BY <1>2, <3>1
    <3>2. CASE n # 0
      <4>1. n \in 1..N /\ n - 1 \in 0..N
        BY <3>2
      <4> QED
        BY <1>2, <3>2, <4>1
    <3> QED
      BY <3>1, <3>2
  <2>2. h = g
    BY <2>1
  <2> HIDE DEF h
  <2> QED
    BY <2>2
<1>4. Is(all)
  <2> HIDE DEF h
  <2> QED
    BY <1>3
<1> HIDE DEF all
<1>5. /\ all[0] = Unread
      /\ \A n \in 1..N : all[n] = ReadLine(all[n - 1], lines[n])
  <2> DEFINE g == [n \in 0..N |->
                IF n = 0 THEN Unread ELSE ReadLine(all[n - 1], lines[n])]
  <2>1. all = g
    BY <1>4
  <2>2. /\ g[0] = Unread
        /\ \A n \in 1..N : g[n] = ReadLine(all[n - 1], lines[n])
    BY <1>0
  <2> HIDE DEF g, Is
  <2> QED
    BY <2>1, <2>2
<1> HIDE DEF Is
<1> DEFINE P == {n \in 0..N : all[n] = st[n]}
<1>6. 0 \in P
  BY <1>0, <1>2, <1>5
<1>7. ASSUME NEW n \in 1..N, n - 1 \in P PROVE n \in P
  BY <1>2, <1>5, <1>7
<1>8. \A n \in 0..N : n \in P
  <2> HIDE DEF P
  <2> QED
    BY <1>0, <1>6, <1>7, UpTo
<1>9. N \in 0..N
  BY <1>0
<1>10. all[N] = st[N]
  BY <1>8, <1>9
<1>11. ReadThrough(lines, st)
  <2>1. \A n \in 0..N : ReadOK(st[n])
    BY UnreadOK, StepsOK
  <2> QED
    BY <1>2, <2>1 DEF ReadThrough
<1> QED
  BY <1>1, <1>10, <1>11

(* The tree of a file: one root, and containers in it.                     *)
LEMMA ReadFileOK ==
    ASSUME NEW lines \in Seq(LineSet)
    PROVE  LET t == ReadFile(lines) IN
           t \in Seq(Containers) /\ Shaped(t) /\ OneRoot(t)
<1>1. PICK st : Steps(Unread, lines, st)
  BY StepsExist
<1>2. ReadThrough(lines, st) /\ ReadFile(lines) = st[Len(lines)].cont
  BY <1>1, ReadStates
<1>3. ReadOK(st[Len(lines)])
  <2>1. Len(lines) \in 0..Len(lines)
    OBVIOUS
  <2> QED
    BY <1>2, <2>1 DEF ReadThrough
<1> QED
  BY <1>2, <1>3 DEF ReadOK, States

-----------------------------------------------------------------------------
(* The way to a container.                                                 *)
GoodTree(t) == t \in Seq(Containers) /\ Shaped(t)

Anc(t, i, d) == Max({j \in 1..i : t[j].depth = d})

LEMMA Depths ==
    ASSUME NEW t, GoodTree(t)
    PROVE  /\ Len(t) \in Nat /\ DOMAIN t = 1..Len(t)
           /\ t = [i \in 1..Len(t) |-> t[i]]
           /\ \A i \in 1..Len(t) : t[i] \in Containers
           /\ \A i \in 1..Len(t) : t[i].depth \in Nat /\ t[i].tag \in TagSet
           /\ Len(t) >= 1 => t[1].depth = 0
           /\ \A i \in 1..Len(t) : i # 1 => t[i].depth =< t[i - 1].depth + 1
<1>1. t \in Seq(Containers) /\ Shaped(t)
  BY DEF GoodTree
<1>2. /\ Len(t) \in Nat /\ DOMAIN t = 1..Len(t)
      /\ t = [i \in 1..Len(t) |-> t[i]]
      /\ \A i \in 1..Len(t) : t[i] \in Containers
  BY <1>1
<1>3. \A i \in 1..Len(t) : t[i].depth \in Nat /\ t[i].tag \in TagSet
  BY <1>2 DEF Containers
<1>4. ASSUME Len(t) >= 1 PROVE t[1].depth = 0
  <2>1. 1 \in 1..Len(t)
    BY <1>2, <1>4
  <2>2. t[1].depth =< 0 /\ t[1].depth \in Nat
    BY <1>1, <1>3, <2>1 DEF Shaped
  <2> QED
    BY <2>2
<1>5. \A i \in 1..Len(t) : i # 1 => t[i].depth =< t[i - 1].depth + 1
  BY <1>1 DEF Shaped
<1> QED
  BY <1>2, <1>3, <1>4, <1>5

(* Depths grow by one at most: between a container and a deeper one there  *)
(* is one of each depth.                                                   *)
LEMMA DepthIsPassed ==
    ASSUME NEW t, GoodTree(t), NEW i \in 1..Len(t), NEW j \in 1..i, NEW d \in Nat,
           t[j].depth =< d, d =< t[i].depth
    PROVE  \E k \in j..i : t[k].depth = d
<1> DEFINE Deep == {k \in j..i : t[k].depth >= d}
<1>1. Deep \in SUBSET Nat /\ i \in Deep
  BY Depths
<1>2. PICK k \in Deep : \A l \in Deep : k =< l
  <2> HIDE DEF Deep
  <2> QED
    BY <1>1, LeastExists
<1>3. /\ k \in j..i /\ k \in 1..Len(t) /\ t[k].depth >= d
      /\ t[k].depth \in Nat /\ Len(t) \in Nat
  BY <1>2, Depths
<1>4. CASE k = j
  BY <1>3, <1>4
<1>5. CASE k # j
  <2>1. k - 1 \in j..i /\ k - 1 \in 1..Len(t) /\ k # 1
    BY <1>3, <1>5
  <2>2. k - 1 \notin Deep
    <3> HIDE DEF Deep
    <3> QED
      BY <1>2, <1>3
  <2>3. t[k - 1].depth < d
    BY <2>1, <2>2, Depths
  <2>4. t[k].depth =< t[k - 1].depth + 1 /\ t[k - 1].depth \in Nat
    BY <1>3, <2>1, Depths
  <2> QED
    BY <1>3, <2>3, <2>4
<1> QED
  BY <1>4, <1>5

LEMMA AncestorIs ==
    ASSUME NEW t, GoodTree(t), NEW i \in 1..Len(t), NEW d \in 0..t[i].depth
    PROVE  /\ Anc(t, i, d) \in 1..i /\ t[Anc(t, i, d)].depth = d
           /\ \A k \in 1..i : Anc(t, i, d) < k => t[k].depth > d
<1> DEFINE A == {j \in 1..i : t[j].depth = d}
           a == Anc(t, i, d)
<1>0. i \in Nat /\ d \in Nat /\ d =< t[i].depth /\ t[i].depth \in Nat
      /\ Len(t) \in Nat /\ Len(t) >= 1 /\ 1 \in 1..i
  BY Depths
<1>1. A # {}
  <2>1. t[1].depth =< d
    BY <1>0, Depths
  <2>2. \E k \in 1..i : t[k].depth = d
    BY <1>0, <2>1, DepthIsPassed
  <2> QED
    BY <2>2
<1>2. a \in A /\ \A k \in A : k =< a
  <2>1. A \in SUBSET (1..i)
    OBVIOUS
  <2>2. a = Max(A)
    BY DEF Anc
  <2> HIDE DEF A, a
  <2> QED
    BY <1>0, <1>1, <2>1, <2>2, MaxIsGreatest
<1> HIDE DEF a
<1>3. ASSUME NEW k \in 1..i, a < k PROVE t[k].depth > d
  <2>1. k \in 1..Len(t) /\ t[k].depth \in Nat
    BY <1>0, Depths
  <2>2. CASE t[k].depth =< d
    <3>1. PICK l \in k..i : t[l].depth = d
      BY <1>0, <2>1, <2>2, DepthIsPassed
    <3>2. l \in A
      BY <1>0, <3>1
    <3>3. l =< a
      BY <1>2, <3>2
    <3> QED
      BY <1>0, <1>2, <1>3, <3>1, <3>3
  <2> QED
    BY <1>0, <2>1, <2>2
<1> QED
  BY <1>2, <1>3 DEF a

(* What is behind the last container at depth d changes nothing.           *)
LEMMA SameAncestor ==
    ASSUME NEW t, NEW j \in Nat, NEW i \in 1..j, NEW d \in Nat,
           \A k \in 1..j : i < k => t[k].depth # d
    PROVE  Anc(t, j, d) = Anc(t, i, d)
<1>1. {k \in 1..j : t[k].depth = d} = {k \in 1..i : t[k].depth = d}
  OBVIOUS
<1> QED
  BY <1>1 DEF Anc

LEMMA PathIs ==
    ASSUME NEW t, GoodTree(t), NEW i \in 1..Len(t)
    PROVE  /\ PathOf(t, i) \in Seq(TagSet)
           /\ Len(PathOf(t, i)) = t[i].depth + 1
           /\ \A d \in 1..(t[i].depth + 1) : PathOf(t, i)[d] = t[Anc(t, i, d - 1)].tag
           /\ PathOf(t, i)[t[i].depth + 1] = t[i].tag
<1> DEFINE n == t[i].depth
           p == PathOf(t, i)
<1>0. n \in Nat /\ i \in 1..i /\ i \in Nat /\ Len(t) \in Nat
  BY Depths
<1>1. p = [d \in 1..(n + 1) |-> t[Anc(t, i, d - 1)].tag]
  BY DEF PathOf, Anc
<1>2. ASSUME NEW d \in 1..(n + 1) PROVE t[Anc(t, i, d - 1)].tag \in TagSet
  <2>1. d - 1 \in 0..n
    BY <1>0
  <2>2. Anc(t, i, d - 1) \in 1..i
    BY <2>1, AncestorIs
  <2>3. Anc(t, i, d - 1) \in 1..Len(t)
    BY <1>0, <2>2
  <2> QED
    BY <2>3, Depths
<1>3. Anc(t, i, n) = i
  <2> DEFINE A == {j \in 1..i : t[j].depth = n}
  <2>1. A \in SUBSET (1..i) /\ i \in A /\ \A k \in A : k =< i
    BY <1>0
  <2>2. Anc(t, i, n) = Max(A)
    BY DEF Anc
  <2> HIDE DEF A
  <2> QED
    BY <1>0, <2>1, <2>2, MaxIs
<1> HIDE DEF n, p
<1>4. p \in [1..(n + 1) -> TagSet]
  BY <1>1, <1>2
<1>5. p \in Seq(TagSet) /\ Len(p) = n + 1
  BY <1>0, <1>4
<1>6. p[n + 1] = t[i].tag
  <2>1. n + 1 \in 1..(n + 1) /\ (n + 1) - 1 = n
    BY <1>0
  <2> QED
    BY <1>1, <1>3, <2>1
<1> QED
  BY <1>1, <1>5, <1>6 DEF n, p

(* The path of a container begins with those of the containers it is in.   *)
LEMMA PathOfAncestor ==
    ASSUME NEW t, GoodTree(t), NEW i \in 1..Len(t), NEW d \in 0..t[i].depth
    PROVE  PathOf(t, Anc(t, i, d)) = SubSeq(PathOf(t, i), 1, d + 1)
<1> DEFINE a == Anc(t, i, d)
<1>0. /\ a \in 1..i /\ t[a].depth = d /\ a \in 1..Len(t) /\ i \in Nat
      /\ d \in Nat /\ t[i].depth \in Nat /\ d =< t[i].depth
  BY AncestorIs, Depths
<1>1. \A k \in 1..i : a < k => t[k].depth > d
  BY AncestorIs
<1> HIDE DEF a
<1>2. /\ PathOf(t, a) \in Seq(TagSet) /\ Len(PathOf(t, a)) = d + 1
      /\ \A e \in 1..(d + 1) : PathOf(t, a)[e] = t[Anc(t, a, e - 1)].tag
  BY <1>0, PathIs
<1>3. /\ PathOf(t, i) \in Seq(TagSet) /\ Len(PathOf(t, i)) = t[i].depth + 1
      /\ \A e \in 1..(t[i].depth + 1) : PathOf(t, i)[e] = t[Anc(t, i, e - 1)].tag
  BY PathIs
<1>4. ASSUME NEW e \in 1..(d + 1)
      PROVE  PathOf(t, a)[e] = PathOf(t, i)[e]
  <2>1. e - 1 \in Nat /\ e - 1 =< d /\ e \in 1..(t[i].depth + 1)
    BY <1>0
  <2>2. \A k \in 1..i : a < k => t[k].depth # e - 1
    <3> SUFFICES ASSUME NEW k \in 1..i, a < k PROVE t[k].depth # e - 1
      OBVIOUS
    <3>1. t[k].depth > d /\ t[k].depth \in Nat
      BY <1>0, <1>1, Depths
    <3> QED
      BY <1>0, <2>1, <3>1
  <2>3. Anc(t, i, e - 1) = Anc(t, a, e - 1)
    BY <1>0, <2>1, <2>2, SameAncestor
  <2> QED
    BY <1>2, <1>3, <2>1, <2>3
<1> DEFINE s == SubSeq(PathOf(t, i), 1, d + 1)
<1>5. s \in Seq(TagSet) /\ Len(s) = d + 1 /\ \A e \in 1..(d + 1) : s[e] = PathOf(t, i)[e]
  BY <1>0, <1>3
<1> HIDE DEF s
<1>6. PathOf(t, a) = s
  BY <1>0, <1>2, <1>4, <1>5
<1> QED
  BY <1>6 DEF s, a

(* Where a walk does not throw, it comes to a container.                   *)
LEMMA WalkArrives ==
    ASSUME NEW t, GoodTree(t), NEW path \in Seq(TagSet), path # <<>>,
           ~Throws(t, path)
    PROVE  At(t, path) # {}
<1> DEFINE N == Len(path)
           Sub(n) == SubSeq(path, 1, n)
           Come == {n \in 1..N : At(t, Sub(n)) # {}}
<1>0. N \in Nat /\ N >= 1 /\ Len(t) \in Nat /\ DOMAIN t = 1..Len(t)
  BY Depths
<1>1. 1 \in Come
  <2>1. At(t, SubSeq(path, 1, 1)) # {}
    BY DEF Throws
  <2> QED
    BY <1>0, <2>1
<1>2. PICK m \in Come : \A k \in Come : k =< m
  <2>1. Come \in SUBSET (1..N)
    OBVIOUS
  <2> HIDE DEF Come
  <2> QED
    BY <1>0, <1>1, <2>1, GreatestExists
<1>3. m \in 1..N /\ At(t, Sub(m)) # {}
  OBVIOUS
<1>4. CASE m = N
  <2>1. Sub(m) = path
    BY <1>0, <1>4
  <2> QED
    BY <1>3, <2>1
<1>5. CASE m # N
  <2>1. PICK i \in 1..Len(t) : PathOf(t, i) = Sub(m)
    BY <1>0, <1>3 DEF At
  <2>2. /\ Sub(m) \in Seq(TagSet) /\ Len(Sub(m)) = m
        /\ \A e \in 1..m : Sub(m)[e] = path[e]
    BY <1>0, <1>3
  <2>3. t[i].depth + 1 = m /\ t[i].depth \in Nat
    BY <2>1, <2>2, PathIs, Depths
  <2>4. IsStrictPrefix(PathOf(t, i), path)
    <3>1. SubSeq(Sub(m), 1, m) = Sub(m)
      BY <1>0, <1>3, <2>2
    <3>2. Sub(m) # path
      BY <1>5, <2>2
    <3> QED
      BY <1>0, <1>3, <2>1, <2>2, <3>1, <3>2 DEF IsStrictPrefix, IsPrefix
  <2>5. i \notin DeadEnds(t, path)
    BY DEF Throws
  <2>6. PICK j \in 1..Len(t) :
              /\ j > i /\ \A k \in (i + 1)..j : t[k].depth > t[i].depth
              /\ t[j].depth = t[i].depth + 1
              /\ t[j].tag = path[t[j].depth + 1]
    BY <1>0, <2>4, <2>5 DEF DeadEnds
  <2>7. Anc(t, j, m - 1) = i
    <3> DEFINE A == {k \in 1..j : t[k].depth = m - 1}
    <3>1. i \in A
      BY <1>0, <2>3, <2>6
    <3>2. ASSUME NEW k \in A PROVE k =< i
      <4>1. k \in 1..j /\ t[k].depth = t[i].depth
        BY <1>0, <1>3, <2>3
      <4>2. k \notin (i + 1)..j
        BY <2>3, <2>6, <4>1
      <4> QED
        BY <1>0, <4>1, <4>2
    <3>3. A \in SUBSET (1..j) /\ j \in Nat
      BY <1>0
    <3>4. Anc(t, j, m - 1) = Max(A)
      BY DEF Anc
    <3> HIDE DEF A
    <3> QED
      BY <3>1, <3>2, <3>3, <3>4, MaxIs
  <2>8. /\ PathOf(t, j) \in Seq(TagSet) /\ Len(PathOf(t, j)) = m + 1
        /\ PathOf(t, j)[m + 1] = t[j].tag
    <3>1. t[j].depth + 1 = m + 1
      BY <2>3, <2>6
    <3> QED
      BY <3>1, PathIs
  <2>9. SubSeq(PathOf(t, j), 1, m) = Sub(m)
    <3>1. m - 1 \in 0..t[j].depth /\ (m - 1) + 1 = m
      BY <1>0, <1>3, <2>3, <2>6
    <3> QED
      BY <2>1, <2>7, <3>1, PathOfAncestor
  <2>10. PathOf(t, j) = Sub(m + 1)
    <3> DEFINE p == PathOf(t, j)  q == Sub(m + 1)
    <3>0. m + 1 \in 1..N /\ m \in Nat
      BY <1>0, <1>3, <1>5
    <3>1. q \in Seq(TagSet) /\ Len(q) = m + 1 /\ \A e \in 1..(m + 1) : q[e] = path[e]
      BY <1>0, <3>0
    <3>2. \A e \in 1..m : p[e] = SubSeq(p, 1, m)[e]
      BY <2>8, <3>0
    <3>3. p[m + 1] = path[m + 1]
      <4>1. t[j].depth + 1 = m + 1
        BY <2>3, <2>6
      <4> QED
        BY <2>6, <2>8, <4>1
    <3>4. \A e \in 1..m : p[e] = path[e]
      BY <2>2, <2>9, <3>2
    <3> HIDE DEF p, q
    <3>5. \A e \in 1..(m + 1) : p[e] = q[e]
      BY <3>0, <3>1, <3>3, <3>4
    <3>6. p \in Seq(TagSet) /\ Len(p) = m + 1
      BY <2>8 DEF p
    <3>7. p = q
      BY <3>0, <3>1, <3>5, <3>6
    <3> QED
      BY <3>7 DEF p, q
  <2>11. m + 1 \in Come
    <3>1. m + 1 \in 1..N
      BY <1>0, <1>3, <1>5
    <3>2. j \in At(t, Sub(m + 1))
      BY <1>0, <2>10 DEF At
    <3> QED
      BY <3>1, <3>2
  <2>12. m + 1 =< m
    BY <1>2, <2>11
  <2> QED
    BY <1>3, <2>12
<1> QED
  BY <1>4, <1>5

-----------------------------------------------------------------------------
(* setDirective().  Where two trees differ in directives only, the same    *)
(* walks come to the same ends.                                            *)
SameShape(t, u) ==
    /\ u \in Seq(Containers) /\ Len(u) = Len(t)
    /\ \A i \in 1..Len(t) : u[i].depth = t[i].depth /\ u[i].tag = t[i].tag

LEMMA SameShapeSameWalks ==
    ASSUME NEW t, GoodTree(t), NEW u, SameShape(t, u)
    PROVE  /\ GoodTree(u)
           /\ \A i \in 1..Len(t) : PathOf(u, i) = PathOf(t, i)
           /\ \A path : /\ At(u, path) = At(t, path)
                        /\ Throws(u, path) = Throws(t, path)
<1>0. /\ Len(t) \in Nat /\ DOMAIN t = 1..Len(t) /\ DOMAIN u = 1..Len(t)
      /\ u \in Seq(Containers) /\ Len(u) = Len(t)
      /\ \A i \in 1..Len(t) : u[i].depth = t[i].depth /\ u[i].tag = t[i].tag
  BY Depths DEF SameShape
<1>1. GoodTree(u)
  <2> SUFFICES ASSUME NEW i \in 1..Len(t)
               PROVE  /\ u[i].depth =< IF i = 1 THEN 0 ELSE u[i - 1].depth + 1
                      /\ u[i].depth = 0 <=> u[i].tag = Root
    BY <1>0 DEF GoodTree, Shaped
  <2>1. i # 1 => i - 1 \in 1..Len(t)
    BY <1>0
  <2> QED
    BY <1>0, <2>1 DEF GoodTree, Shaped
<1>2. ASSUME NEW i \in 1..Len(t), NEW d \in 0..t[i].depth
      PROVE  Anc(u, i, d) = Anc(t, i, d)
  <2>1. {j \in 1..i : u[j].depth = d} = {j \in 1..i : t[j].depth = d}
    BY <1>0
  <2> QED
    BY <2>1 DEF Anc
<1>3. ASSUME NEW i \in 1..Len(t) PROVE PathOf(u, i) = PathOf(t, i)
  <2> DEFINE p == PathOf(t, i)  q == PathOf(u, i)  n == t[i].depth + 1
  <2>1. /\ p \in Seq(TagSet) /\ Len(p) = n
        /\ \A d \in 1..n : p[d] = t[Anc(t, i, d - 1)].tag
    BY PathIs
  <2>2. /\ q \in Seq(TagSet) /\ Len(q) = n
        /\ \A d \in 1..n : q[d] = u[Anc(u, i, d - 1)].tag
    <3>1. u[i].depth + 1 = n /\ i \in 1..Len(u)
      BY <1>0
    <3> QED
      BY <1>1, <3>1, PathIs
  <2>3. ASSUME NEW d \in 1..n PROVE q[d] = p[d]
    <3>1. d - 1 \in 0..t[i].depth
      BY Depths
    <3>2. Anc(u, i, d - 1) = Anc(t, i, d - 1) /\ Anc(t, i, d - 1) \in 1..Len(t)
      BY <1>0, <1>2, <3>1, AncestorIs
    <3> QED
      BY <1>0, <2>1, <2>2, <3>2
  <2>4. n \in Nat
    BY Depths
  <2> HIDE DEF p, q, n
  <2> QED
    BY <2>1, <2>2, <2>3, <2>4 DEF p, q
<1>4. ASSUME NEW path PROVE At(u, path) = At(t, path)
  BY <1>0, <1>3 DEF At
<1>5. ASSUME NEW path PROVE DeadEnds(u, path) = DeadEnds(t, path)
  <2> DEFINE Ends1(x, i) == \E j \in 1..Len(t) :
              /\ j > i /\ \A k \in (i + 1)..j : x[k].depth > x[i].depth
              /\ x[j].depth = x[i].depth + 1
              /\ x[j].tag = path[x[j].depth + 1]
  <2>1. ASSUME NEW i \in 1..Len(t) PROVE Ends1(u, i) <=> Ends1(t, i)
    <3>1. ASSUME NEW j \in 1..Len(t)
          PROVE  (\A k \in (i + 1)..j : u[k].depth > u[i].depth)
                    <=> \A k \in (i + 1)..j : t[k].depth > t[i].depth
      <4>1. \A k \in (i + 1)..j : k \in 1..Len(t)
        BY <1>0
      <4> QED
        BY <1>0, <4>1
    <3> QED
      BY <1>0, <3>1
  <2>2. /\ DeadEnds(u, path) = {i \in 1..Len(t) :
              IsStrictPrefix(PathOf(u, i), path) /\ ~Ends1(u, i)}
        /\ DeadEnds(t, path) = {i \in 1..Len(t) :
              IsStrictPrefix(PathOf(t, i), path) /\ ~Ends1(t, i)}
    BY <1>0 DEF DeadEnds
  <2> HIDE DEF Ends1
  <2> QED
    BY <1>3, <2>1, <2>2
<1>6. ASSUME NEW path PROVE Throws(u, path) = Throws(t, path)
  BY <1>4, <1>5 DEF Throws
<1> QED
  BY <1>1, <1>3, <1>4, <1>6

Reached(t, path) == {i \in At(t, path) : \A j \in DeadEnds(t, path) : i < j}

LEMMA SetInIs ==
    ASSUME NEW t, GoodTree(t), NEW path, NEW key \in Words, NEW v \in Words
    PROVE  LET u == SetIn(t, path, key, v) IN
           /\ SameShape(t, u)
           /\ \A i \in 1..Len(t) : u[i].directives =
                 IF i \in Reached(t, path) THEN Put(t[i].directives, key, v)
                 ELSE t[i].directives
           /\ Reached(t, path) = {} => u = t
<1> DEFINE R == Reached(t, path)
           u == SetIn(t, path, key, v)
           c(i) == [t[i] EXCEPT !.directives = Put(@, key, v)]
<1>0. /\ Len(t) \in Nat /\ DOMAIN t = 1..Len(t)
      /\ t = [i \in 1..Len(t) |-> t[i]]
      /\ \A i \in 1..Len(t) : t[i] \in Containers
  BY Depths
<1>1. u = [i \in 1..Len(t) |-> IF i \in R THEN c(i) ELSE t[i]]
  BY <1>0 DEF SetIn, Reached
<1>2. ASSUME NEW i \in 1..Len(t)
      PROVE  /\ c(i) \in Containers /\ c(i).depth = t[i].depth
             /\ c(i).tag = t[i].tag
             /\ c(i).directives = Put(t[i].directives, key, v)
  <2>1. t[i] \in Containers
    BY <1>0
  <2>2. t[i].directives \in DirMaps
    BY <2>1 DEF Containers
  <2>3. Put(t[i].directives, key, v) \in DirMaps
    BY <2>2, PutIs
  <2> QED
    BY <2>1, <2>3 DEF Containers
<1> HIDE DEF R, u, c
<1>3. u \in [1..Len(t) -> Containers]
  BY <1>0, <1>1, <1>2
<1>4. SameShape(t, u)
  BY <1>0, <1>1, <1>2, <1>3 DEF SameShape
<1>5. \A i \in 1..Len(t) : u[i].directives =
         IF i \in R THEN Put(t[i].directives, key, v) ELSE t[i].directives
  BY <1>1, <1>2
<1>6. ASSUME R = {} PROVE u = t
  <2>1. u = [i \in 1..Len(t) |-> t[i]]
    BY <1>1, <1>6
  <2> QED
    BY <1>0, <2>1
<1> QED
  BY <1>4, <1>5, <1>6 DEF u, R

(* A walk that throws has come to a container only if another one has the  *)
(* path of one it went through.                                            *)
LEMMA HalfSet ==
    ASSUME NEW t, GoodTree(t), NEW path \in Seq(TagSet), path # <<>>,
           Throws(t, path), Reached(t, path) # {}
    PROVE  \E i, j \in DOMAIN t : i # j /\ PathOf(t, i) = PathOf(t, j)
<1>0. Len(t) \in Nat /\ DOMAIN t = 1..Len(t) /\ Len(path) \in Nat
  BY Depths
<1>1. PICK i \in 1..Len(t) :
        PathOf(t, i) = path /\ \A j \in DeadEnds(t, path) : i < j
  BY <1>0 DEF Reached, At
<1>2. Len(path) = t[i].depth + 1 /\ t[i].depth \in Nat
  BY <1>1, PathIs, Depths
<1>3. At(t, SubSeq(path, 1, 1)) # {}
  <2>1. 0 \in 0..t[i].depth
    BY <1>2
  <2>2. PathOf(t, Anc(t, i, 0)) = SubSeq(path, 1, 0 + 1)
    BY <1>1, <2>1, PathOfAncestor
  <2>3. Anc(t, i, 0) \in 1..Len(t)
    BY <1>0, <2>1, AncestorIs
  <2> QED
    BY <1>0, <2>2, <2>3 DEF At
<1>4. PICK k \in 1..Len(t) :
        k \in DeadEnds(t, path) /\ IsStrictPrefix(PathOf(t, k), path)
  BY <1>0, <1>3 DEF Throws, DeadEnds
<1> DEFINE d == t[k].depth
           p == PathOf(t, k)
           a == Anc(t, i, d)
<1>5. d \in Nat /\ p \in Seq(TagSet) /\ Len(p) = d + 1
  BY PathIs, Depths
<1>6. SubSeq(p, 1, Len(p)) = p
  <2> HIDE DEF p, d
  <2> QED
    BY <1>5
<1>7. Len(p) =< Len(path) /\ p = SubSeq(path, 1, Len(p)) /\ p # path
  BY <1>4, <1>6 DEF IsStrictPrefix, IsPrefix
<1>8. d \in 0..t[i].depth
  BY <1>2, <1>5, <1>7
<1>9. PathOf(t, a) = SubSeq(path, 1, d + 1)
  BY <1>1, <1>8, PathOfAncestor
<1>10. PathOf(t, a) = p
  BY <1>5, <1>7, <1>9
<1>11. a \in 1..i
  BY <1>8, AncestorIs
<1>12. i < k
  BY <1>1, <1>4
<1> HIDE DEF a, p, d
<1>13. a # k /\ a \in DOMAIN t /\ k \in DOMAIN t
  BY <1>0, <1>11, <1>12
<1> QED
  BY <1>10, <1>13 DEF p

-----------------------------------------------------------------------------
(* Writing the tree.                                                       *)
(* N sequences of S one behind the other: all[i] are the first i of them.  *)
Joined(S, N, s, all) ==
    /\ all[1] = s[1]
    /\ \A i \in 1..N : i # 1 => all[i] = all[i - 1] \o s[i]
    /\ \A i \in 1..N : all[i] \in Seq(S)
    /\ FlattenSeq(s) = all[N]

LEMMA FlattenIs ==
    ASSUME NEW S, NEW N \in Nat, N # 0, NEW s \in [1..N -> Seq(S)]
    PROVE  \E all : Joined(S, N, s, all)
<1>0. s \in Seq(Seq(S)) /\ Len(s) = N
  OBVIOUS
<1> DEFINE Flat(f, n) == \A i \in 1..n :
              f[i] = IF i = 1 THEN s[i] ELSE f[i - 1] \o s[i]
           Partial(n) == \E f : f = [i \in 1..n |-> f[i]] /\ Flat(f, n)
           Bad == {n \in 1..N : ~Partial(n)}
           Is(f) == f = [i \in 1..N |->
                            IF i = 1 THEN s[i] ELSE f[i - 1] \o s[i]]
           all == CHOOSE f : Is(f)
<1>1. ASSUME NEW m \in Bad, \A k \in Bad : m =< k
      PROVE  FALSE
  <2>0. m \in 1..N
    OBVIOUS
  <2>1. CASE m = 1
    <3> DEFINE g == [i \in 1..1 |-> s[1]]
    <3>1. g = [i \in 1..1 |-> g[i]] /\ Flat(g, 1)
      OBVIOUS
    <3>2. Partial(1)
      <4> HIDE DEF g, Flat
      <4> QED
        BY <3>1
    <3> QED
      BY <2>1, <3>2
  <2>2. CASE m # 1
    <3>1. m - 1 \in 1..N /\ m - 1 \notin Bad
      <4> HIDE DEF Bad
      <4> QED
        BY <1>1, <2>0, <2>2
    <3>2. PICK f : f = [i \in 1..(m - 1) |-> f[i]] /\ Flat(f, m - 1)
      BY <3>1
    <3> DEFINE g == [i \in 1..m |-> IF i < m THEN f[i] ELSE f[m - 1] \o s[m]]
    <3>3. g = [i \in 1..m |-> g[i]]
      OBVIOUS
    <3>4. Flat(g, m)
      <4> SUFFICES ASSUME NEW i \in 1..m
                   PROVE  g[i] = IF i = 1 THEN s[i] ELSE g[i - 1] \o s[i]
        OBVIOUS
      <4>1. CASE i < m
        <5>0. i \in 1..(m - 1)
          BY <2>0, <4>1
        <5>1. f[i] = IF i = 1 THEN s[i] ELSE f[i - 1] \o s[i]
          BY <3>2, <5>0
        <5>2. g[i] = f[i] /\ (i # 1 => g[i - 1] = f[i - 1])
          BY <2>0, <4>1
        <5> QED
          BY <5>1, <5>2
      <4>2. CASE i = m
        <5>1. g[m] = f[m - 1] \o s[m] /\ g[m - 1] = f[m - 1]
          BY <2>0, <2>2
        <5> QED
          BY <2>2, <4>2, <5>1
      <4> QED
        BY <2>0, <4>1, <4>2
    <3>5. Partial(m)
      <4> HIDE DEF g, Flat
      <4> QED
        BY <3>3, <3>4
    <3> QED
      BY <3>5
  <2> QED
    BY <2>1, <2>2
<1>2. Bad = {}
  <2>1. Bad \in SUBSET Nat
    OBVIOUS
  <2> HIDE DEF Bad
  <2> QED
    BY <1>1, <2>1, LeastExists
<1>3. PICK f : f = [i \in 1..N |-> f[i]] /\ Flat(f, N)
  <2>1. N \in 1..N
    OBVIOUS
  <2> QED
    BY <1>2, <2>1
<1>4. Is(f)
  <2> DEFINE g == [i \in 1..N |-> IF i = 1 THEN s[i] ELSE f[i - 1] \o s[i]]
             h == [i \in 1..N |-> f[i]]
  <2>1. \A i \in 1..N : h[i] = g[i]
    BY <1>3
  <2>2. h = g
    BY <2>1
  <2> HIDE DEF g
  <2> QED
    BY <1>3, <2>2 DEF g
<1>5. Is(all)
  BY <1>4
<1>6. FlattenSeq(s) = all[N]
  BY <1>0 DEF FlattenSeq
<1> HIDE DEF all
<1>7. all[1] = s[1] /\ \A i \in 1..N : i # 1 => all[i] = all[i - 1] \o s[i]
  <2> DEFINE g == [i \in 1..N |-> IF i = 1 THEN s[i] ELSE all[i - 1] \o s[i]]
  <2>1. all = g
    BY <1>5
  <2>2. \A i \in 1..N : g[i] = IF i = 1 THEN s[i] ELSE all[i - 1] \o s[i]
    OBVIOUS
  <2>3. 1 \in 1..N
    OBVIOUS
  <2> HIDE DEF Is, g
  <2> QED
    BY <2>1, <2>2, <2>3
<1> DEFINE Odd == {i \in 1..N : all[i] \notin Seq(S)}
<1>8. ASSUME NEW m \in Odd, \A k \in Odd : m =< k
      PROVE  FALSE
  <2>1. CASE m = 1
    BY <1>7, <2>1
  <2>2. CASE m # 1
    <3>0. m \in 1..N
      OBVIOUS
    <3>1. m - 1 \in 1..N /\ m - 1 \notin Odd
      <4> HIDE DEF Odd
      <4> QED
        BY <1>8, <2>2, <3>0
    <3>2. all[m - 1] \in Seq(S) /\ s[m] \in Seq(S)
      BY <3>0, <3>1
    <3>3. all[m - 1] \o s[m] \in Seq(S)
      BY <3>2, ConcatProperties
    <3> QED
      BY <1>7, <2>2, <3>0, <3>3
  <2> QED
    BY <2>1, <2>2
<1>9. Odd = {}
  <2>1. Odd \in SUBSET Nat
    OBVIOUS
  <2> HIDE DEF Odd
  <2> QED
    BY <1>8, <2>1, LeastExists
<1> HIDE DEF Odd
<1>10. \A i \in 1..N : all[i] \in Seq(S)
  BY <1>9 DEF Odd
<1> QED
  BY <1>6, <1>7, <1>10 DEF Joined

LEMMA FlattenIsSeq ==
    ASSUME NEW S, NEW N \in Nat, NEW s \in [1..N -> Seq(S)]
    PROVE  FlattenSeq(s) \in Seq(S)
<1>0. s \in Seq(Seq(S)) /\ Len(s) = N
  OBVIOUS
<1>1. CASE N = 0
  <2>1. FlattenSeq(s) = s /\ s = <<>>
    BY <1>0, <1>1 DEF FlattenSeq
  <2> QED
    BY <2>1
<1>2. CASE N # 0
  <2>1. PICK all : Joined(S, N, s, all)
    BY <1>2, FlattenIs
  <2>2. N \in 1..N
    BY <1>2
  <2> QED
    BY <2>1, <2>2 DEF Joined
<1> QED
  BY <1>1, <1>2

LEMMA SetToSeqIsSeq ==
    ASSUME NEW S, IsFiniteSet(S)
    PROVE  LET s == SetToSeq(S) IN
           Len(s) \in Nat /\ s \in [1..Len(s) -> S] /\ DOMAIN s = 1..Len(s)
<1> DEFINE C == Cardinality(S)
           s == SetToSeq(S)
<1>1. C \in Nat /\ ExistsBijection(1..C, S)
  BY FS_CardinalityType
<1>2. PICK f \in [1..C -> S] : IsInjective(f)
  BY <1>1 DEF ExistsBijection, Bijection, Injection, IsInjective
<1>3. s \in [1..C -> S]
  BY <1>2 DEF SetToSeq
<1> HIDE DEF s, C
<1> QED
  BY <1>1, <1>3 DEF s

LEMMA SetToSeqIsOnto ==
    ASSUME NEW S, IsFiniteSet(S)
    PROVE  \A x \in S : \E k \in 1..Len(SetToSeq(S)) : SetToSeq(S)[k] = x
<1> DEFINE C == Cardinality(S)
           s == SetToSeq(S)
<1>1. C \in Nat /\ ExistsBijection(1..C, S)
  BY FS_CardinalityType
<1>2. PICK f \in [1..C -> S] : IsInjective(f)
  BY <1>1 DEF ExistsBijection, Bijection, Injection, IsInjective
<1>3. s \in [1..C -> S] /\ IsInjective(s)
  BY <1>2 DEF SetToSeq
<1> HIDE DEF s
<1>4. s \in Injection(1..C, S)
  BY <1>3 DEF Injection, IsInjective
<1>5. Cardinality(1..C) = Cardinality(S)
  BY <1>1, FS_Interval
<1>6. s \in Surjection(1..C, S)
  <2> HIDE DEF C
  <2> QED
    BY <1>4, <1>5, FS_Injection
<1>7. Len(s) = C
  BY <1>1, <1>3
<1> QED
  BY <1>6, <1>7 DEF Surjection, s

LEMMA LinesAreLines ==
    ASSUME NEW t, GoodTree(t), NEW i \in 1..Len(t)
    PROVE  Lines(t, i) \in Seq(LineSet)
<1> DEFINE d    == t[i].directives
           keys == SetToSeq(DOMAIN d)
           begin == IF t[i].depth = 0 THEN <<>> ELSE <<Begin(t[i].tag)>>
           middle == [k \in DOMAIN keys |-> Dir(keys[k], d[keys[k]])]
<1>0. t[i] \in Containers /\ t[i].tag \in TagSet /\ t[i].depth \in Nat
  BY Depths
<1>1. d \in DirMaps /\ IsFiniteSet(DOMAIN d) /\ DOMAIN d \subseteq Words
      /\ \A k \in DOMAIN d : d[k] \in Words
  BY <1>0 DEF Containers, DirMaps
<1>2. begin \in Seq(LineSet)
  <2>1. Begin(t[i].tag) \in LineSet
    BY <1>0 DEF Begin, LineSet
  <2> QED
    BY <2>1
<1>3. middle \in Seq(LineSet)
  <2>1. Len(keys) \in Nat /\ keys \in [1..Len(keys) -> DOMAIN d]
        /\ DOMAIN keys = 1..Len(keys)
    BY <1>1, SetToSeqIsSeq
  <2> HIDE DEF keys, d
  <2>2. ASSUME NEW k \in 1..Len(keys) PROVE Dir(keys[k], d[keys[k]]) \in LineSet
    BY <1>1, <2>1, <2>2 DEF Dir, LineSet
  <2>3. middle \in [1..Len(keys) -> LineSet]
    BY <2>1, <2>2
  <2> QED
    BY <2>1, <2>3
<1>4. Ends(t, i) \in Seq(LineSet)
  <2> DEFINE n == t[i].depth - DepthAfter(t, i) + 1
  <2>1. DepthAfter(t, i) \in Int
    <3>1. CASE i < Len(t)
      <4>1. t[i + 1].depth \in Nat
        BY <3>1, Depths
      <4> DEFINE x == t[i + 1].depth
                 S == {1, x}
      <4>2. \E m \in S : \A k \in S : m >= k
        BY <4>1
      <4>3. Max(S) \in S
        BY <4>2 DEF Max
      <4> QED
        BY <3>1, <4>1, <4>3 DEF DepthAfter
    <3>2. CASE ~(i < Len(t))
      BY <3>2 DEF DepthAfter
    <3> QED
      BY <3>1, <3>2
  <2>2. n \in Int
    BY <1>0, <2>1
  <2>3. End \in LineSet
    BY DEF End, LineSet
  <2>4. Ends(t, i) = [j \in 1..n |-> End]
    BY DEF Ends
  <2> HIDE DEF n
  <2>5. CASE n >= 0
    BY <2>2, <2>3, <2>4, <2>5
  <2>6. CASE n < 0
    <3>1. 1..n = 1..0
      BY <2>2, <2>6
    <3>2. Ends(t, i) = [j \in 1..0 |-> End]
      BY <2>4, <3>1
    <3> QED
      BY <2>3, <3>2
  <2> QED
    BY <2>2, <2>5, <2>6
<1>5. Lines(t, i) = begin \o (middle \o Ends(t, i))
  BY DEF Lines
<1> HIDE DEF begin, middle
<1>6. middle \o Ends(t, i) \in Seq(LineSet)
  BY <1>3, <1>4, ConcatProperties
<1> QED
  BY <1>2, <1>5, <1>6, ConcatProperties

LEMMA WrittenIsFile ==
    ASSUME NEW t, GoodTree(t)
    PROVE  Written(t) \in Seq(LineSet)
<1> DEFINE s == [i \in 1..Len(t) |-> Lines(t, i)]
<1>1. s \in [1..Len(t) -> Seq(LineSet)] /\ Len(t) \in Nat
  BY LinesAreLines, Depths
<1>2. Written(t) = FlattenSeq(s)
  BY Depths DEF Written
<1> HIDE DEF s
<1> QED
  BY <1>1, <1>2, FlattenIsSeq

-----------------------------------------------------------------------------
(* The nesting of the lines of a file.                                     *)
Begins(f, i) == {j \in 1..(i - 1) : f[j].kind = "begin"}
EndsTo(f, i) == {j \in 1..(i - 1) : f[j].kind = "end"}

(* Counting one line more.                                                 *)
LEMMA OneLineMore ==
    ASSUME NEW i \in Nat \ {0}, NEW S, NEW T, IsFiniteSet(S), i \notin S,
           T = S \/ T = S \union {i}
    PROVE  Cardinality(T) = IF i \in T THEN Cardinality(S) + 1 ELSE Cardinality(S)
  BY FS_AddElement

(* A begin tag nests what follows one deeper, an end tag one less deep,    *)
(* any other line leaves it where it is.                                   *)
LEMMA NestedStep ==
    ASSUME NEW f, NEW i \in Nat \ {0}
    PROVE  /\ Nested(f, 1) = 0
           /\ Nested(f, i) \in Int
           /\ f[i].kind = "begin" => Nested(f, i + 1) = Nested(f, i) + 1
           /\ f[i].kind = "end" => Nested(f, i + 1) = Nested(f, i) - 1
           /\ f[i].kind \notin {"begin", "end"} => Nested(f, i + 1) = Nested(f, i)
<1>1. \A k : Nested(f, k) = Cardinality(Begins(f, k)) - Cardinality(EndsTo(f, k))
  BY DEF Nested, Begins, EndsTo
<1>2. /\ IsFiniteSet(Begins(f, i)) /\ IsFiniteSet(EndsTo(f, i))
      /\ Cardinality(Begins(f, i)) \in Nat /\ Cardinality(EndsTo(f, i)) \in Nat
  <2>1. IsFiniteSet(1..(i - 1))
    BY FS_Interval
  <2>2. IsFiniteSet(Begins(f, i))
    BY <2>1, FS_Subset DEF Begins
  <2>3. IsFiniteSet(EndsTo(f, i))
    BY <2>1, FS_Subset DEF EndsTo
  <2> QED
    BY <2>2, <2>3, FS_CardinalityType
<1>3. Nested(f, 1) = 0
  <2>1. Begins(f, 1) = {} /\ EndsTo(f, 1) = {}
    BY DEF Begins, EndsTo
  <2> QED
    BY <1>1, <2>1, FS_EmptySet
<1>4. /\ i \notin Begins(f, i) /\ i \notin EndsTo(f, i)
      /\ i \in Begins(f, i + 1) <=> f[i].kind = "begin"
      /\ i \in EndsTo(f, i + 1) <=> f[i].kind = "end"
  BY DEF Begins, EndsTo
<1>5. /\ Begins(f, i + 1) = Begins(f, i) \/ Begins(f, i + 1) = Begins(f, i) \union {i}
      /\ EndsTo(f, i + 1) = EndsTo(f, i) \/ EndsTo(f, i + 1) = EndsTo(f, i) \union {i}
  BY DEF Begins, EndsTo
<1>6. Cardinality(Begins(f, i + 1)) =
        IF f[i].kind = "begin" THEN Cardinality(Begins(f, i)) + 1
        ELSE Cardinality(Begins(f, i))
  BY <1>2, <1>4, <1>5, OneLineMore
<1>7. Cardinality(EndsTo(f, i + 1)) =
        IF f[i].kind = "end" THEN Cardinality(EndsTo(f, i)) + 1
        ELSE Cardinality(EndsTo(f, i))
  BY <1>2, <1>4, <1>5, OneLineMore
<1> QED
  BY <1>1, <1>2, <1>3, <1>6, <1>7

(* The opener at depth d is the last begin tag at depth d - 1.             *)
LEMMA OpenerStep ==
    ASSUME NEW f, NEW i \in Nat \ {0}, NEW d \in Int
    PROVE  Opener(f, i + 1, d) = IF f[i].kind = "begin" /\ Nested(f, i) = d - 1
                                 THEN i ELSE Opener(f, i, d)
<1> DEFINE O(k) == {j \in 1..(k - 1) : f[j].kind = "begin" /\ Nested(f, j) = d - 1}
<1>1. \A k : Opener(f, k, d) = Max(O(k))
  BY DEF Opener
<1>2. CASE f[i].kind = "begin" /\ Nested(f, i) = d - 1
  <2>1. O(i + 1) \in SUBSET (1..i) /\ i \in O(i + 1) /\ \A k \in O(i + 1) : k =< i
    BY <1>2
  <2> HIDE DEF O
  <2>2. Max(O(i + 1)) = i
    BY <2>1, MaxIs
  <2> QED
    BY <1>1, <1>2, <2>2
<1>3. CASE ~(f[i].kind = "begin" /\ Nested(f, i) = d - 1)
  <2>1. O(i + 1) = O(i)
    BY <1>3
  <2> QED
    BY <1>1, <1>3, <2>1
<1> QED
  BY <1>2, <1>3

-----------------------------------------------------------------------------
(* What one line does to what was read.                                    *)
LEMMA NoLine ==
    ASSUME NEW s, NEW l, s.over \/ l.kind = "comment"
    PROVE  ReadLine(s, l) = s
  BY DEF ReadLine

(* A begin tag adds a container at the end and opens it.                   *)
LEMMA BeginLine ==
    ASSUME NEW s, ReadOK(s), ~s.over, NEW l, l.kind = "begin"
    PROVE  LET r == ReadLine(s, l)  n == Len(s.cont)  m == Len(s.open) IN
           /\ ~r.over
           /\ Len(r.cont) = n + 1 /\ \A i \in 1..n : r.cont[i] = s.cont[i]
           /\ r.cont[n + 1] = Container(m, ReadTag(l.tag))
           /\ Len(r.open) = m + 1 /\ \A i \in 1..m : r.open[i] = s.open[i]
           /\ r.open[m + 1] = n + 1
<1> DEFINE c == Container(Len(s.open), ReadTag(l.tag))
           r == [s EXCEPT !.cont = Append(@, c), !.open = Append(@, Len(s.cont) + 1)]
<1>1. s \in States /\ s.cont \in Seq(Containers) /\ s.open \in Seq(Nat)
      /\ Len(s.cont) \in Nat /\ Len(s.open) \in Nat
  BY DEF ReadOK, States
<1>2. ReadLine(s, l) = r
  BY DEF ReadLine
<1> HIDE DEF c
<1>3. r.cont = Append(s.cont, c) /\ r.open = Append(s.open, Len(s.cont) + 1)
      /\ r.over = s.over
  BY <1>1 DEF States
<1> HIDE DEF r
<1>4. /\ Len(r.cont) = Len(s.cont) + 1
      /\ \A i \in 1..Len(s.cont) : r.cont[i] = s.cont[i]
      /\ r.cont[Len(s.cont) + 1] = c
  BY <1>1, <1>3
<1>5. /\ Len(r.open) = Len(s.open) + 1
      /\ \A i \in 1..Len(s.open) : r.open[i] = s.open[i]
      /\ r.open[Len(s.open) + 1] = Len(s.cont) + 1
  BY <1>1, <1>3
<1> QED
  BY <1>2, <1>3, <1>4, <1>5 DEF c

(* An end tag closes the last open container, or the reading when that is  *)
(* the root.                                                               *)
LEMMA EndLine ==
    ASSUME NEW s, ReadOK(s), ~s.over, NEW l, l.kind = "end"
    PROVE  LET r == ReadLine(s, l) IN
           /\ r.cont = s.cont
           /\ Len(s.open) = 1 => r.over /\ r.open = s.open
           /\ Len(s.open) # 1 => /\ ~r.over /\ Len(r.open) = Len(s.open) - 1
                                 /\ \A i \in 1..Len(r.open) : r.open[i] = s.open[i]
<1>1. s \in States /\ s.open \in Seq(Nat) /\ Len(s.open) \in Nat /\ Len(s.open) >= 1
  BY DEF ReadOK, States
<1>2. CASE Len(s.open) = 1
  BY <1>1, <1>2 DEF ReadLine, States
<1>3. CASE Len(s.open) # 1
  <2> DEFINE g == Front(s.open)
  <2>1. Len(g) = Len(s.open) - 1 /\ \A i \in 1..Len(g) : g[i] = s.open[i]
    BY <1>1, <1>3 DEF Front
  <2> HIDE DEF g
  <2>2. ReadLine(s, l) = [s EXCEPT !.open = g]
    BY <1>3 DEF ReadLine, g
  <2>3. /\ [s EXCEPT !.open = g].open = g /\ [s EXCEPT !.open = g].cont = s.cont
        /\ [s EXCEPT !.open = g].over = s.over
    BY <1>1 DEF States
  <2> QED
    BY <1>3, <2>1, <2>2, <2>3
<1> QED
  BY <1>2, <1>3

(* A directive is put into the last open container.                        *)
LEMMA SettingLine ==
    ASSUME NEW s, ReadOK(s), ~s.over, NEW l \in LineSet, l.kind \in {"directive", "word"}
    PROVE  LET r == ReadLine(s, l)  c == Last(s.open) IN
           /\ ~r.over /\ r.open = s.open /\ SameShape(s.cont, r.cont)
           /\ c \in 1..Len(s.cont)
           /\ r.cont[c].directives = Put(s.cont[c].directives, l.key, ValueOf(l))
           /\ \A i \in 1..Len(s.cont) : i # c => r.cont[i] = s.cont[i]
<1> DEFINE c == Last(s.open)
           v == ValueOf(l)
           u == [s.cont EXCEPT ![c].directives = Put(@, l.key, v)]
           r == [s EXCEPT !.cont[c].directives = Put(@, l.key, v)]
<1>1. /\ s \in States /\ s.cont \in Seq(Containers) /\ s.open \in Seq(Nat)
      /\ Len(s.open) \in Nat /\ Len(s.open) >= 1 /\ Len(s.cont) \in Nat
      /\ \A i \in 1..Len(s.open) : s.open[i] \in 1..Len(s.cont)
  BY DEF ReadOK, States
<1>2. c \in 1..Len(s.cont)
  BY <1>1 DEF Last
<1>3. l.key \in Words /\ v \in Words
  BY DEF LineSet, ValueOf
<1>4. ReadLine(s, l) = r
  BY DEF ReadLine
<1>5. r = [s EXCEPT !.cont = u]
  OBVIOUS
<1> HIDE DEF c, v, r
<1>6. /\ u \in Seq(Containers) /\ Len(u) = Len(s.cont)
      /\ \A i \in 1..Len(s.cont) : u[i].depth = s.cont[i].depth /\ u[i].tag = s.cont[i].tag
  <2>1. PICK key \in Words, t \in Seq(Containers) : key = l.key /\ t = s.cont
    BY <1>1, <1>3
  <2> DEFINE w == [t EXCEPT ![c].directives = Put(@, key, v)]
  <2>2. /\ w \in Seq(Containers) /\ Len(w) = Len(t)
        /\ \A i \in 1..Len(t) : w[i].depth = t[i].depth /\ w[i].tag = t[i].tag
    BY <1>2, <1>3, <2>1, SetOneKeepsShape
  <2>3. w = u
    BY <2>1
  <2> HIDE DEF w, u
  <2> QED
    BY <2>1, <2>2, <2>3
<1>7. \A i \in 1..Len(s.cont) : i # c => u[i] = s.cont[i]
  BY <1>1
<1>8. u[c].directives = Put(s.cont[c].directives, l.key, v)
  <2>1. s.cont[c] \in Containers
    BY <1>1, <1>2
  <2>2. u[c] = [s.cont[c] EXCEPT !.directives = Put(@, l.key, v)]
    BY <1>1, <1>2
  <2> QED
    BY <2>1, <2>2 DEF Containers
<1> HIDE DEF u
<1>9. r.cont = u /\ r.open = s.open /\ r.over = s.over
  BY <1>1, <1>5 DEF States
<1>10. SameShape(s.cont, u)
  BY <1>6 DEF SameShape
<1> QED
  BY <1>2, <1>4, <1>7, <1>8, <1>9, <1>10 DEF c, v

(* A later tree begins with an earlier one but for the directives.         *)
Extends(t, u) ==
    /\ Len(t) =< Len(u)
    /\ \A i \in 1..Len(t) : u[i].depth = t[i].depth /\ u[i].tag = t[i].tag

(* No line changes the depth or the tag of a container, and none takes one *)
(* away.                                                                   *)
LEMMA LineExtends ==
    ASSUME NEW s, ReadOK(s), NEW l \in LineSet
    PROVE  Extends(s.cont, ReadLine(s, l).cont)
<1>0. Len(s.cont) \in Nat
  BY DEF ReadOK, States
<1>1. CASE s.over \/ l.kind = "comment"
  BY <1>0, <1>1, NoLine DEF Extends
<1>2. CASE ~s.over /\ l.kind = "begin"
  BY <1>0, <1>2, BeginLine DEF Extends
<1>3. CASE ~s.over /\ l.kind = "end"
  BY <1>0, <1>3, EndLine DEF Extends
<1>4. CASE ~s.over /\ l.kind \in {"directive", "word"}
  BY <1>0, <1>4, SettingLine DEF Extends, SameShape
<1> QED
  BY <1>1, <1>2, <1>3, <1>4 DEF LineSet

LEMMA ExtendsTransitive ==
    ASSUME NEW t, NEW u, NEW v, Len(t) \in Nat, Len(u) \in Nat, Len(v) \in Nat,
           Extends(t, u), Extends(u, v)
    PROVE  Extends(t, v)
<1>1. Len(t) =< Len(v)
  BY DEF Extends
<1>2. \A i \in 1..Len(t) : i \in 1..Len(u)
  BY DEF Extends
<1> QED
  BY <1>1, <1>2 DEF Extends

(* What a later proof needs of ReadOK, in one place.                       *)
LEMMA ReadOKIs ==
    ASSUME NEW s, ReadOK(s)
    PROVE  /\ s.cont \in Seq(Containers) /\ s.open \in Seq(Nat) /\ s.over \in BOOLEAN
           /\ Len(s.cont) \in Nat /\ Len(s.cont) >= 1
           /\ Len(s.open) \in Nat /\ Len(s.open) >= 1
           /\ Len(s.open) =< s.cont[Len(s.cont)].depth + 1
           /\ \A i \in 1..Len(s.open) : s.open[i] \in 1..Len(s.cont)
           /\ GoodTree(s.cont)
  BY DEF ReadOK, States, OneRoot, GoodTree

(* What has been read after n lines extends what had been after m of them. *)
LEMMA LaterExtends ==
    ASSUME NEW f \in Seq(LineSet), NEW st, ReadThrough(f, st),
           NEW n \in 0..Len(f), NEW m \in 0..n
    PROVE  Extends(st[m].cont, st[n].cont)
<1> DEFINE P == {k \in 0..Len(f) : \A j \in 0..k : Extends(st[j].cont, st[k].cont)}
<1>0. Len(f) \in Nat /\ \A k \in 0..Len(f) : Len(st[k].cont) \in Nat /\ ReadOK(st[k])
  <2>1. \A k \in 0..Len(f) : ReadOK(st[k])
    BY DEF ReadThrough
  <2>2. \A k \in 0..Len(f) : Len(st[k].cont) \in Nat
    BY <2>1, ReadOKIs
  <2> QED
    BY <2>1, <2>2
<1>1. 0 \in P
  BY <1>0 DEF Extends
<1>2. ASSUME NEW k \in 1..Len(f), k - 1 \in P PROVE k \in P
  <2>0. k - 1 \in 0..Len(f) /\ f[k] \in LineSet
    BY <1>0
  <2>1. Extends(st[k - 1].cont, st[k].cont)
    BY <1>0, <2>0, LineExtends DEF ReadThrough
  <2>2. ASSUME NEW j \in 0..k PROVE Extends(st[j].cont, st[k].cont)
    <3>1. CASE j = k
      BY <1>0, <3>1 DEF Extends
    <3>2. CASE j # k
      <4>1. j \in 0..(k - 1) /\ j \in 0..Len(f)
        BY <1>0, <3>2
      <4>2. Extends(st[j].cont, st[k - 1].cont)
        BY <1>2, <4>1
      <4>3. /\ Len(st[j].cont) \in Nat /\ Len(st[k - 1].cont) \in Nat
            /\ Len(st[k].cont) \in Nat
        BY <1>0, <2>0, <4>1
      <4> QED
        BY <2>1, <4>2, <4>3, ExtendsTransitive
    <3> QED
      BY <3>1, <3>2
  <2> QED
    BY <1>0, <2>2
<1>3. \A k \in 0..Len(f) : k \in P
  <2> HIDE DEF P
  <2> QED
    BY <1>0, <1>1, <1>2, UpTo
<1> QED
  BY <1>3

-----------------------------------------------------------------------------
(* The containers that are open are those that the last one is in, and it. *)
OnWay(s) ==
    \A d \in 0..(Len(s.open) - 1) : s.open[d + 1] = Anc(s.cont, Len(s.cont), d)

(* One line keeps them so,                                                 *)
LEMMA ReadLineOnWay ==
    ASSUME NEW s, ReadOK(s), OnWay(s), NEW l \in LineSet
    PROVE  OnWay(ReadLine(s, l))
<1> DEFINE r == ReadLine(s, l)  n == Len(s.cont)  m == Len(s.open)
<1>0. n \in Nat /\ n >= 1 /\ m \in Nat /\ m >= 1
  BY ReadOKIs
<1>1. CASE s.over \/ l.kind = "comment"
  BY <1>1, NoLine
<1>2. CASE ~s.over /\ l.kind = "begin"
  <2>0. Container(m, ReadTag(l.tag)).depth = m
    BY DEF Container
  <2>1. /\ Len(r.cont) = n + 1 /\ \A i \in 1..n : r.cont[i] = s.cont[i]
        /\ r.cont[n + 1].depth = m
        /\ Len(r.open) = m + 1 /\ \A i \in 1..m : r.open[i] = s.open[i]
        /\ r.open[m + 1] = n + 1
    BY <1>2, <2>0, BeginLine
  <2> HIDE DEF r
  <2>2. ASSUME NEW d \in 0..m
        PROVE  r.open[d + 1] = Anc(r.cont, n + 1, d)
    <3>1. CASE d = m
      <4> DEFINE S == {j \in 1..(n + 1) : r.cont[j].depth = m}
      <4>1. S \in SUBSET (1..(n + 1)) /\ n + 1 \in S /\ \A k \in S : k =< n + 1
        BY <1>0, <2>1
      <4> HIDE DEF S
      <4>2. Max(S) = n + 1
        <5>1. n + 1 \in Nat
          BY <1>0
        <5> HIDE DEF n
        <5> QED
          BY <4>1, <5>1, MaxIs
      <4> QED
        BY <2>1, <3>1, <4>2 DEF Anc, S
    <3>2. CASE d # m
      <4>1. d \in 0..(m - 1) /\ d \in Nat /\ d + 1 \in 1..m
        BY <1>0, <3>2
      <4>2. \A k \in 1..(n + 1) : n < k => r.cont[k].depth # d
        BY <1>0, <2>1, <3>2
      <4>3. n + 1 \in Nat /\ n \in 1..(n + 1)
        BY <1>0
      <4>4. Anc(r.cont, n + 1, d) = Anc(r.cont, n, d)
        BY <4>1, <4>2, <4>3, SameAncestor
      <4>5. {j \in 1..n : r.cont[j].depth = d} = {j \in 1..n : s.cont[j].depth = d}
        BY <2>1
      <4>6. Anc(r.cont, n, d) = Anc(s.cont, n, d)
        BY <4>5 DEF Anc
      <4> QED
        BY <2>1, <4>1, <4>4, <4>6 DEF OnWay
    <3> QED
      BY <3>1, <3>2
  <2>3. OnWay(r)
    BY <1>0, <2>1, <2>2 DEF OnWay
  <2> QED
    BY <2>3 DEF r
<1>3. CASE ~s.over /\ l.kind = "end"
  <2>1. /\ r.cont = s.cont
        /\ r.open = s.open \/ /\ Len(r.open) = m - 1
                              /\ \A i \in 1..Len(r.open) : r.open[i] = s.open[i]
    BY <1>3, EndLine
  <2> HIDE DEF r
  <2>2. OnWay(r)
    BY <1>0, <2>1 DEF OnWay
  <2> QED
    BY <2>2 DEF r
<1>4. CASE ~s.over /\ l.kind \in {"directive", "word"}
  <2>1. r.open = s.open /\ SameShape(s.cont, r.cont)
    BY <1>4, SettingLine
  <2> HIDE DEF r
  <2>2. Len(r.cont) = n /\ \A i \in 1..n : r.cont[i].depth = s.cont[i].depth
    BY <2>1 DEF SameShape
  <2>3. ASSUME NEW d PROVE Anc(r.cont, n, d) = Anc(s.cont, n, d)
    <3>1. {j \in 1..n : r.cont[j].depth = d} = {j \in 1..n : s.cont[j].depth = d}
      BY <2>2
    <3> QED
      BY <3>1 DEF Anc
  <2>4. OnWay(r)
    BY <2>1, <2>2, <2>3 DEF OnWay
  <2> QED
    BY <2>4 DEF r
<1> QED
  BY <1>1, <1>2, <1>3, <1>4 DEF LineSet

(* and so they are after any line of a file.                               *)
LEMMA OpenAreOnWay ==
    ASSUME NEW f \in Seq(LineSet), NEW st, ReadThrough(f, st), NEW n \in 0..Len(f)
    PROVE  OnWay(st[n])
<1> DEFINE P == {k \in 0..Len(f) : OnWay(st[k])}
<1>1. 0 \in P
  <2>1. Unread.open = <<1>> /\ Len(Unread.cont) = 1 /\ Unread.cont[1].depth = 0
    BY DEF Unread, Container
  <2>2. Len(Unread.open) = 1 /\ Unread.open[1] = 1
    BY <2>1
  <2>3. Anc(Unread.cont, 1, 0) = 1
    <3> DEFINE S == {j \in 1..1 : Unread.cont[j].depth = 0}
    <3>1. S \in SUBSET (1..1) /\ 1 \in S /\ \A k \in S : k =< 1
      BY <2>1
    <3> HIDE DEF S
    <3>2. Max(S) = 1
      BY <3>1, MaxIs
    <3> QED
      BY <3>2 DEF Anc, S
  <2>4. OnWay(Unread)
    BY <2>1, <2>2, <2>3 DEF OnWay
  <2> QED
    BY <2>4 DEF ReadThrough
<1>2. ASSUME NEW k \in 1..Len(f), k - 1 \in P PROVE k \in P
  <2>1. k - 1 \in 0..Len(f) /\ k \in 0..Len(f) /\ f[k] \in LineSet
    OBVIOUS
  <2>2. ReadOK(st[k - 1]) /\ st[k] = ReadLine(st[k - 1], f[k])
    BY <2>1 DEF ReadThrough
  <2>3. OnWay(st[k])
    BY <1>2, <2>1, <2>2, ReadLineOnWay
  <2> QED
    BY <2>1, <2>3
<1>3. \A k \in 0..Len(f) : k \in P
  <2>1. Len(f) \in Nat
    OBVIOUS
  <2> HIDE DEF P
  <2> QED
    BY <1>1, <1>2, <2>1, UpTo
<1> QED
  BY <1>3

(* What comes after a container changes nothing of its way.                *)
LEMMA ExtendedWay ==
    ASSUME NEW t, NEW u, Len(t) \in Nat, Extends(t, u), NEW i \in 1..Len(t), NEW d
    PROVE  Anc(u, i, d) = Anc(t, i, d)
<1>1. {j \in 1..i : u[j].depth = d} = {j \in 1..i : t[j].depth = d}
  BY DEF Extends
<1> QED
  BY <1>1 DEF Anc

(* The lines after which read() has had one container more.                *)
Opens(f, st, j) == j \in 1..Len(f) /\ f[j].kind = "begin" /\ ~st[j - 1].over

Alive(f, n) == \A j \in 1..n : f[j].kind = "end" => Nested(f, j) > 0

Stacked(f, st, n) ==
    /\ st[n].over <=> ~Alive(f, n)
    /\ ~st[n].over => /\ Len(st[n].open) = Nested(f, n + 1) + 1
                      /\ \A d \in 1..Nested(f, n + 1) :
                            LET j == Opener(f, n + 1, d) IN
                            /\ j =< n /\ Opens(f, st, j)
                            /\ Len(st[j].cont) = st[n].open[d + 1]

(* The step of the induction over the lines, for StackIsAround.            *)
LEMMA StackedStep ==
    ASSUME NEW f \in Seq(LineSet), NEW st, ReadThrough(f, st),
           NEW n \in 1..Len(f), Stacked(f, st, n - 1)
    PROVE  Stacked(f, st, n)
<1> DEFINE s == st[n - 1]  r == st[n]  l == f[n]
           k == Nested(f, n)
<1>0. /\ n \in Nat \ {0} /\ (n - 1) + 1 = n /\ l \in LineSet /\ ReadOK(s)
      /\ r = ReadLine(s, l) /\ n - 1 \in 0..Len(f) /\ Len(f) \in Nat
  BY DEF ReadThrough
<1>1. /\ Nested(f, n) \in Int
      /\ f[n].kind = "begin" => Nested(f, n + 1) = Nested(f, n) + 1
      /\ f[n].kind = "end" => Nested(f, n + 1) = Nested(f, n) - 1
      /\ f[n].kind \notin {"begin", "end"} => Nested(f, n + 1) = Nested(f, n)
  BY <1>0, NestedStep
<1>2. Alive(f, n) <=> Alive(f, n - 1) /\ (l.kind = "end" => k > 0)
  <2>1. \A j : j \in 1..n <=> j \in 1..(n - 1) \/ j = n
    BY <1>0
  <2> QED
    BY <2>1 DEF Alive
<1>3. s.over <=> ~Alive(f, n - 1)
  BY <1>0 DEF Stacked
<1>4. ~s.over => /\ Len(s.open) = k + 1
                 /\ \A d \in 1..k : LET j == Opener(f, n, d) IN
                       /\ j =< n - 1 /\ Opens(f, st, j)
                       /\ Len(st[j].cont) = s.open[d + 1]
  BY <1>0 DEF Stacked
<1>5. Len(s.open) \in Nat /\ Len(s.open) >= 1 /\ Len(s.cont) \in Nat /\ s.over \in BOOLEAN
  BY <1>0, ReadOKIs
<1>6. \A d \in Int : Opener(f, n + 1, d) = IF f[n].kind = "begin" /\ Nested(f, n) = d - 1
                                 THEN n ELSE Opener(f, n, d)
  BY <1>0, OpenerStep
<1>7. CASE s.over
  <2>1. r = s /\ ~Alive(f, n)
    BY <1>0, <1>2, <1>3, <1>7, NoLine
  <2> QED
    BY <1>7, <2>1 DEF Stacked
<1>8. CASE ~s.over /\ l.kind = "begin"
  <2>1. /\ ~r.over /\ Len(r.cont) = Len(s.cont) + 1
        /\ Len(r.open) = Len(s.open) + 1
        /\ \A i \in 1..Len(s.open) : r.open[i] = s.open[i]
        /\ r.open[Len(s.open) + 1] = Len(s.cont) + 1
    <3> HIDE DEF s, r, l, k
    <3> QED
      BY <1>0, <1>8, BeginLine
  <2>2. Opens(f, st, n)
    BY <1>8 DEF Opens
  <2> HIDE DEF s, r, l, k
  <2>3. Nested(f, n + 1) = k + 1 /\ k \in Nat
    BY <1>1, <1>4, <1>5, <1>8 DEF l, k
  <2>4. ASSUME NEW d \in 1..(k + 1)
        PROVE  LET j == Opener(f, n + 1, d) IN
               /\ j =< n /\ Opens(f, st, j) /\ Len(st[j].cont) = r.open[d + 1]
    <3>1. CASE d = k + 1
      <4>1. Opener(f, n + 1, d) = n
        BY <1>6, <1>8, <2>3, <3>1 DEF k, l
      <4>2. st[n] = r /\ r.open[d + 1] = Len(s.cont) + 1
        BY <1>4, <1>8, <2>1, <3>1 DEF r
      <4>3. n =< n
        BY <1>0
      <4> QED
        BY <2>1, <2>2, <4>1, <4>2, <4>3
    <3>2. CASE d # k + 1
      <4>1. d \in 1..k /\ d + 1 \in 1..Len(s.open)
        BY <1>4, <1>8, <2>3, <3>2
      <4>2. Opener(f, n + 1, d) = Opener(f, n, d)
        BY <1>6, <2>3, <3>2 DEF k
      <4>3. LET j == Opener(f, n, d) IN
               j =< n - 1 /\ Opens(f, st, j) /\ Len(st[j].cont) = s.open[d + 1]
        BY <1>4, <1>8, <4>1
      <4>4. Opener(f, n, d) \in Int
        BY <4>3 DEF Opens
      <4> QED
        BY <1>0, <2>1, <4>1, <4>2, <4>3, <4>4
    <3> QED
      BY <3>1, <3>2
  <2>5. Alive(f, n)
    BY <1>2, <1>3, <1>8
  <2> QED
    BY <1>4, <1>8, <2>1, <2>3, <2>4, <2>5 DEF Stacked, r
<1>9. CASE ~s.over /\ l.kind = "end"
  <2>1. /\ Len(s.open) = 1 => r.over
        /\ Len(s.open) # 1 => /\ ~r.over /\ Len(r.open) = Len(s.open) - 1
                              /\ \A i \in 1..Len(r.open) : r.open[i] = s.open[i]
    <3> HIDE DEF s, r, l, k
    <3> QED
      BY <1>0, <1>9, EndLine
  <2> HIDE DEF s, r, l
  <2>2. k \in Nat /\ Nested(f, n + 1) = k - 1 /\ Len(s.open) = k + 1
    BY <1>1, <1>4, <1>5, <1>9 DEF l
  <2>3. Alive(f, n) <=> k > 0
    BY <1>2, <1>3, <1>9
  <2> HIDE DEF k
  <2>4. r.over <=> k = 0
    BY <2>1, <2>2
  <2>5. ASSUME k # 0, NEW d \in 1..(k - 1)
        PROVE  LET j == Opener(f, n + 1, d) IN
               /\ j =< n /\ Opens(f, st, j) /\ Len(st[j].cont) = r.open[d + 1]
    <3>1. d \in 1..k /\ d + 1 \in 1..Len(r.open)
      BY <2>1, <2>2, <2>5
    <3>2. Opener(f, n + 1, d) = Opener(f, n, d)
      BY <1>6, <1>9 DEF l
    <3>3. LET j == Opener(f, n, d) IN
             j =< n - 1 /\ Opens(f, st, j) /\ Len(st[j].cont) = s.open[d + 1]
      BY <1>4, <1>9, <3>1
    <3>4. Opener(f, n, d) \in Int
      BY <3>3 DEF Opens
    <3> QED
      BY <1>0, <2>1, <2>2, <2>5, <3>1, <3>2, <3>3, <3>4
  <2> QED
    BY <2>1, <2>2, <2>3, <2>4, <2>5 DEF Stacked, r
<1>10. CASE ~s.over /\ l.kind \notin {"begin", "end"}
  <2>1. ~r.over /\ r.open = s.open
    <3>1. CASE l.kind = "comment"
      BY <1>0, <1>10, <3>1, NoLine
    <3>2. CASE l.kind # "comment"
      <4>1. l.kind \in {"directive", "word"}
        BY <1>0, <1>10, <3>2 DEF LineSet
      <4>2. r = ReadLine(s, l) /\ ReadOK(s) /\ ~s.over /\ l \in LineSet
        BY <1>0, <1>10
      <4> HIDE DEF s, r, l, k
      <4>3. ~ReadLine(s, l).over /\ ReadLine(s, l).open = s.open
        BY <4>1, <4>2, SettingLine
      <4> QED
        BY <1>10, <4>2, <4>3
    <3> QED
      BY <3>1, <3>2
  <2> HIDE DEF s, r, l
  <2>2. Nested(f, n + 1) = k /\ Len(s.open) = k + 1
    BY <1>1, <1>4, <1>10 DEF l
  <2>3. Alive(f, n)
    BY <1>2, <1>3, <1>10
  <2>4. ASSUME NEW d \in 1..k
        PROVE  LET j == Opener(f, n + 1, d) IN
               /\ j =< n /\ Opens(f, st, j) /\ Len(st[j].cont) = s.open[d + 1]
    <3>2. Opener(f, n + 1, d) = Opener(f, n, d)
      BY <1>6, <1>10 DEF l
    <3>3. LET j == Opener(f, n, d) IN
             j =< n - 1 /\ Opens(f, st, j) /\ Len(st[j].cont) = s.open[d + 1]
      BY <1>4, <1>10
    <3>4. Opener(f, n, d) \in Int
      BY <3>3 DEF Opens
    <3> QED
      BY <1>0, <3>2, <3>3, <3>4
  <2> QED
    BY <1>10, <2>1, <2>2, <2>3, <2>4 DEF Stacked, r
<1> QED
  BY <1>7, <1>8, <1>9, <1>10

(* read() keeps the containers open that counting tags gives: one for each *)
(* opener around the next line, until an end tag too many.                 *)
LEMMA StackIsAround ==
    ASSUME NEW f \in Seq(LineSet), NEW st, ReadThrough(f, st), NEW n \in 0..Len(f)
    PROVE  Stacked(f, st, n)
<1> DEFINE P == {k \in 0..Len(f) : Stacked(f, st, k)}
<1>1. 0 \in P
  <2>1. Nested(f, 1) = 0
    BY NestedStep
  <2>2. Len(Unread.open) = 1 /\ ~Unread.over
    BY DEF Unread
  <2>3. Alive(f, 0)
    BY DEF Alive
  <2>4. st[0] = Unread
    BY DEF ReadThrough
  <2>5. Stacked(f, st, 0)
    <3>1. Nested(f, 0 + 1) = 0 /\ \A d \in 1..Nested(f, 0 + 1) : FALSE
      BY <2>1
    <3>2. ~st[0].over /\ Len(st[0].open) = 1
      BY <2>2, <2>4
    <3>3. Len(st[0].open) = Nested(f, 0 + 1) + 1
      BY <3>1, <3>2
    <3> QED
      BY <2>3, <3>1, <3>2, <3>3, Zenon DEF Stacked
  <2> QED
    BY <2>5
<1>2. ASSUME NEW k \in 1..Len(f), k - 1 \in P PROVE k \in P
  BY <1>2, StackedStep
<1>3. \A k \in 0..Len(f) : k \in P
  <2>1. Len(f) \in Nat
    OBVIOUS
  <2> HIDE DEF P
  <2> QED
    BY <1>1, <1>2, <2>1, UpTo
<1> QED
  BY <1>3

(* The container that a line of f is read into, and the line that began a  *)
(* container.                                                              *)
Where(st, i) == Last(st[i - 1].open)

Began(f, st, c) == CHOOSE j : Opens(f, st, j) /\ Len(st[j].cont) = c

AroundOf(f, st, t, c) ==
    [d \in 1..t[c].depth |-> Began(f, st, Anc(t, c, d))]

(* A line that begins a container: its place, and its tag.                 *)
LEMMA OpensIs ==
    ASSUME NEW f \in Seq(LineSet), NEW st, ReadThrough(f, st), NEW j, Opens(f, st, j)
    PROVE  /\ j \in 1..Len(f) /\ Len(st[j - 1].cont) \in Nat
           /\ Len(st[j].cont) = Len(st[j - 1].cont) + 1
           /\ st[j].cont[Len(st[j].cont)].tag = ReadTag(f[j].tag)
<1>1. j \in 1..Len(f) /\ f[j].kind = "begin" /\ ~st[j - 1].over
  BY DEF Opens
<1>2. j - 1 \in 0..Len(f)
  BY <1>1
<1>3. ReadOK(st[j - 1]) /\ st[j] = ReadLine(st[j - 1], f[j])
  BY <1>1, <1>2 DEF ReadThrough
<1> DEFINE s == st[j - 1]  r == st[j]  l == f[j]
<1>4. ReadOK(s) /\ ~s.over /\ l.kind = "begin" /\ r = ReadLine(s, l)
  BY <1>1, <1>3
<1> HIDE DEF s, r, l
<1>5. Len(s.cont) \in Nat
  BY <1>4, ReadOKIs
<1>6. /\ Len(r.cont) = Len(s.cont) + 1
      /\ r.cont[Len(s.cont) + 1] = Container(Len(s.open), ReadTag(l.tag))
  BY <1>4, BeginLine
<1>7. r.cont[Len(r.cont)].tag = ReadTag(l.tag)
  BY <1>6 DEF Container
<1> QED
  BY <1>1, <1>5, <1>6, <1>7 DEF s, r, l

(* No other line began the container that j began.                         *)
LEMMA OpensOnce ==
    ASSUME NEW f \in Seq(LineSet), NEW st, ReadThrough(f, st),
           NEW j, Opens(f, st, j)
    PROVE  Began(f, st, Len(st[j].cont)) = j
<1>1. ASSUME NEW a, NEW b, Opens(f, st, a), Opens(f, st, b), a < b
      PROVE  Len(st[a].cont) # Len(st[b].cont)
  <2>1. a \in 1..Len(f) /\ b \in 1..Len(f)
    BY <1>1 DEF Opens
  <2>2. b - 1 \in 0..Len(f) /\ a \in 0..(b - 1) /\ a \in 0..Len(f)
    BY <1>1, <2>1
  <2>3. Extends(st[a].cont, st[b - 1].cont)
    BY <2>2, LaterExtends
  <2>4. Len(st[b].cont) = Len(st[b - 1].cont) + 1 /\ Len(st[b - 1].cont) \in Nat
    BY <1>1, OpensIs
  <2>5. Len(st[a].cont) \in Nat
    <3>1. ReadOK(st[a])
      BY <2>2 DEF ReadThrough
    <3> QED
      BY <3>1, ReadOKIs
  <2> QED
    BY <2>3, <2>4, <2>5 DEF Extends
<1> DEFINE b == Began(f, st, Len(st[j].cont))
<1>2. Opens(f, st, b) /\ Len(st[b].cont) = Len(st[j].cont)
  BY DEF Began
<1> HIDE DEF b
<1>3. b \in 1..Len(f) /\ j \in 1..Len(f)
  BY <1>2 DEF Opens
<1>4. ~(b < j) /\ ~(j < b)
  BY <1>1, <1>2
<1>5. b = j
  BY <1>3, <1>4
<1> QED
  BY <1>5 DEF b

(* Only a begin tag adds a container, and only one.                        *)
LEMMA LineLengthens ==
    ASSUME NEW s, ReadOK(s), NEW l \in LineSet
    PROVE  LET r == ReadLine(s, l) IN
           \/ Len(r.cont) = Len(s.cont)
           \/ ~s.over /\ l.kind = "begin" /\ Len(r.cont) = Len(s.cont) + 1
<1>1. CASE s.over \/ l.kind = "comment"
  BY <1>1, NoLine
<1>2. CASE ~s.over /\ l.kind = "begin"
  BY <1>2, BeginLine
<1>3. CASE ~s.over /\ l.kind = "end"
  BY <1>3, EndLine
<1>4. CASE ~s.over /\ l.kind \in {"directive", "word"}
  <2>1. SameShape(s.cont, ReadLine(s, l).cont)
    BY <1>4, SettingLine
  <2> QED
    BY <2>1 DEF SameShape
<1> QED
  BY <1>1, <1>2, <1>3, <1>4 DEF LineSet

(* Every container but the root was begun by a line, whose tag it has.     *)
LEMMA BeganIs ==
    ASSUME NEW f \in Seq(LineSet), NEW st, ReadThrough(f, st),
           NEW c \in 2..Len(st[Len(f)].cont)
    PROVE  /\ Opens(f, st, Began(f, st, c)) /\ Len(st[Began(f, st, c)].cont) = c
           /\ f[Began(f, st, c)].tag \in TagSet
           /\ st[Len(f)].cont[c].tag = ReadTag(f[Began(f, st, c)].tag)
<1> DEFINE N == Len(f)
           P == {n \in 0..N : \A k \in 2..Len(st[n].cont) :
                                 \E j : Opens(f, st, j) /\ Len(st[j].cont) = k}
<1>0. N \in Nat /\ \A n \in 0..N : Len(st[n].cont) \in Nat /\ ReadOK(st[n])
  <2>1. \A n \in 0..N : ReadOK(st[n])
    BY DEF ReadThrough
  <2> QED
    BY <2>1, ReadOKIs
<1>1. 0 \in P
  <2>1. Len(Unread.cont) = 1
    BY DEF Unread
  <2>2. st[0] = Unread
    BY DEF ReadThrough
  <2>3. Len(st[0].cont) = 1
    BY <2>1, <2>2, Zenon
  <2>4. \A k \in 2..Len(st[0].cont) : FALSE
    BY <2>3
  <2> QED
    BY <1>0, <2>4
<1>2. ASSUME NEW n \in 1..N, n - 1 \in P PROVE n \in P
  <2>1. /\ n - 1 \in 0..N /\ n \in 0..N /\ f[n] \in LineSet
        /\ st[n] = ReadLine(st[n - 1], f[n])
    BY <1>0 DEF ReadThrough
  <2>2. \/ Len(st[n].cont) = Len(st[n - 1].cont)
        \/ Opens(f, st, n) /\ Len(st[n].cont) = Len(st[n - 1].cont) + 1
    BY <1>0, <2>1, LineLengthens DEF Opens
  <2>3. \A k \in 2..Len(st[n - 1].cont) :
            \E j : Opens(f, st, j) /\ Len(st[j].cont) = k
    BY <1>2
  <2>4. Len(st[n - 1].cont) \in Nat
    BY <1>0, <2>1
  <2>5. ASSUME NEW k \in 2..Len(st[n].cont)
        PROVE  \E j : Opens(f, st, j) /\ Len(st[j].cont) = k
    <3>1. CASE k \in 2..Len(st[n - 1].cont)
      BY <2>3, <3>1
    <3>2. CASE k \notin 2..Len(st[n - 1].cont)
      <4>1. Opens(f, st, n) /\ Len(st[n].cont) = k
        BY <2>2, <2>4, <3>2
      <4> QED
        BY <4>1
    <3> QED
      BY <3>1, <3>2
  <2> QED
    BY <2>1, <2>5
<1>3. N \in P
  <2>1. N \in 0..N
    BY <1>0
  <2> HIDE DEF P
  <2>2. \A n \in 0..N : n \in P
    BY <1>0, <1>1, <1>2, UpTo
  <2> QED
    BY <2>1, <2>2
<1>4. \E j : Opens(f, st, j) /\ Len(st[j].cont) = c
  BY <1>3
<1> DEFINE j == Began(f, st, c)
<1>5. Opens(f, st, j) /\ Len(st[j].cont) = c
  BY <1>4 DEF Began
<1> HIDE DEF j, P, N
<1>6. j \in 1..Len(f) /\ st[j].cont[c].tag = ReadTag(f[j].tag)
  BY <1>5, OpensIs
<1>7. Extends(st[j].cont, st[Len(f)].cont)
  <2>1. Len(f) \in 0..Len(f) /\ j \in 0..Len(f)
    BY <1>6
  <2> QED
    BY <2>1, LaterExtends
<1>8. st[Len(f)].cont[c].tag = st[j].cont[c].tag
  BY <1>5, <1>7 DEF Extends
<1>9. f[j].tag \in TagSet
  <2>1. f[j] \in LineSet /\ f[j].kind = "begin"
    BY <1>5, <1>6 DEF Opens
  <2> QED
    BY <2>1 DEF LineSet
<1> QED
  BY <1>5, <1>6, <1>8, <1>9 DEF j

(* The lines that count are those that come before the reading is over.    *)
LEMMA SaysIs ==
    ASSUME NEW f \in Seq(LineSet), NEW st, ReadThrough(f, st), NEW i
    PROVE  i \in Says(f) <=> /\ i \in 1..Len(f) /\ ~st[i - 1].over
                             /\ f[i].kind \in {"directive", "word"}
<1>1. DOMAIN f = 1..Len(f) /\ Len(f) \in Nat
  OBVIOUS
<1>2. ASSUME NEW k \in 1..Len(f), f[k].kind \in {"directive", "word"}
      PROVE  k \in Live(f) <=> ~st[k - 1].over
  <2>1. k - 1 \in 0..Len(f)
    BY <1>1
  <2>2. st[k - 1].over <=> ~Alive(f, k - 1)
    BY <2>1, StackIsAround DEF Stacked
  <2>3. \A j : j \in 1..k <=> j \in 1..(k - 1) \/ j = k
    BY <1>1
  <2>4. k \in Live(f) <=> Alive(f, k - 1)
    BY <1>1, <1>2, <2>3 DEF Live, Alive
  <2> QED
    BY <2>2, <2>4
<1>3. i \in Says(f) => i \in 1..Len(f)
  BY <1>1 DEF Says, Live
<1> QED
  BY <1>2, <1>3 DEF Says

(* What is around a line is what is around the container it is read into.  *)
LEMMA AroundIs ==
    ASSUME NEW f \in Seq(LineSet), NEW st, ReadThrough(f, st), NEW i \in Says(f)
    PROVE  LET t == st[Len(f)].cont  c == Where(st, i) IN
           /\ c \in 1..Len(t) /\ c \in 1..Len(st[i - 1].cont)
           /\ t[c].depth = Nested(f, i)
           /\ \A d \in 1..Nested(f, i) : Opener(f, i, d) = Began(f, st, Anc(t, c, d))
<1> DEFINE N == Len(f)  t == st[N].cont  c == Where(st, i)
           s == st[i - 1]  k == Nested(f, i)  m == Len(s.cont)
<1>0. /\ N \in Nat /\ i \in 1..N /\ i - 1 \in 0..N /\ (i - 1) + 1 = i
      /\ ~s.over /\ N \in 0..N /\ i - 1 \in 0..N
  BY SaysIs
<1>1. ReadOK(s) /\ Extends(s.cont, t)
  <2>1. ReadOK(s)
    BY <1>0 DEF ReadThrough
  <2>2. Extends(s.cont, t)
    BY <1>0, LaterExtends
  <2> QED
    BY <2>1, <2>2
<1>2. /\ Len(s.open) = k + 1
      /\ \A d \in 1..k : LET j == Opener(f, i, d) IN
            Opens(f, st, j) /\ Len(st[j].cont) = s.open[d + 1]
  BY <1>0, StackIsAround DEF Stacked
<1>3. \A d \in 0..(Len(s.open) - 1) : s.open[d + 1] = Anc(s.cont, m, d)
  BY <1>0, OpenAreOnWay DEF OnWay
<1>4. /\ m \in Nat /\ m >= 1 /\ Len(s.open) \in Nat /\ Len(s.open) >= 1
      /\ Len(s.open) =< s.cont[m].depth + 1
      /\ GoodTree(s.cont) /\ s.open \in Seq(Nat)
      /\ \A e \in 1..Len(s.open) : s.open[e] \in 1..Len(s.cont)
  BY <1>1, ReadOKIs
<1>5. c = s.open[Len(s.open)]
  BY <1>4 DEF Where, Last
<1> HIDE DEF c, s, t, N, m
<1>6. k \in Nat /\ k \in 0..s.cont[m].depth /\ m \in 1..Len(s.cont)
  <2>1. m \in 1..Len(s.cont)
    BY <1>4 DEF m
  <2>2. s.cont[m].depth \in Nat /\ k + 1 = Len(s.open)
    BY <1>2, <1>4, <2>1, Depths
  <2>3. k \in Int
    BY <1>0, NestedStep
  <2> HIDE DEF k
  <2> QED
    BY <1>4, <2>1, <2>2, <2>3
<1> HIDE DEF k
<1>7. c = Anc(s.cont, m, k)
  <2>1. k \in 0..(Len(s.open) - 1)
    BY <1>2, <1>6
  <2> QED
    BY <1>2, <1>3, <1>5, <2>1
<1>8. c \in 1..m /\ s.cont[c].depth = k /\ \A e \in 1..m : c < e => s.cont[e].depth > k
  BY <1>4, <1>6, <1>7, AncestorIs
<1>9. c \in 1..Len(t) /\ t[c].depth = k /\ c \in 1..Len(s.cont)
  <2>1. c \in 1..Len(s.cont) /\ m = Len(s.cont)
    BY <1>6, <1>8 DEF m
  <2>2. Len(s.cont) =< Len(t) /\ Len(s.cont) \in Nat /\ Len(t) \in Nat
    <3>1. ReadOK(st[N])
      BY <1>0 DEF ReadThrough, N
    <3> QED
      BY <1>1, <1>4, <2>1, <3>1, ReadOKIs DEF Extends, t
  <2> QED
    BY <1>1, <1>8, <2>1, <2>2 DEF Extends
<1>10. ASSUME NEW d \in 1..k
       PROVE  Opener(f, i, d) = Began(f, st, Anc(t, c, d))
  <2>1. d \in 0..(Len(s.open) - 1) /\ d \in Nat
    BY <1>2, <1>6
  <2>2. Anc(t, c, d) = Anc(s.cont, c, d)
    BY <1>1, <1>4, <1>9, ExtendedWay DEF m
  <2>3. Anc(s.cont, m, d) = Anc(s.cont, c, d)
    <3>1. \A e \in 1..m : c < e => s.cont[e].depth # d
      <4>1. \A e \in 1..m : s.cont[e].depth \in Nat
        BY <1>4, Depths DEF m
      <4> QED
        BY <1>6, <1>8, <2>1, <4>1
    <3> QED
      BY <1>4, <1>8, <2>1, <3>1, SameAncestor
  <2>4. s.open[d + 1] = Anc(t, c, d)
    BY <1>3, <2>1, <2>2, <2>3
  <2> DEFINE j == Opener(f, i, d)
  <2>5. Opens(f, st, j) /\ Len(st[j].cont) = Anc(t, c, d)
    BY <1>2, <2>4
  <2> HIDE DEF j
  <2>6. Began(f, st, Len(st[j].cont)) = j
    BY <2>5, OpensOnce
  <2> QED
    BY <2>5, <2>6 DEF j
<1> QED
  BY <1>9, <1>10 DEF t, N, c, k, s

(* A line that sets nothing leaves the directives, and a container that is *)
(* begun has none.                                                         *)
LEMMA LineLeaves ==
    ASSUME NEW s, ReadOK(s), NEW l \in LineSet,
           s.over \/ l.kind \notin {"directive", "word"}
    PROVE  LET r == ReadLine(s, l) IN
           /\ \A c \in 1..Len(s.cont) : r.cont[c].directives = s.cont[c].directives
           /\ \A c \in 1..Len(r.cont) : c \notin 1..Len(s.cont) =>
                                           DOMAIN r.cont[c].directives = {}
<1> DEFINE r == ReadLine(s, l)
<1>0. Len(s.cont) \in Nat
  BY ReadOKIs
<1>1. CASE s.over \/ l.kind = "comment"
  BY <1>1, NoLine
<1>2. CASE ~s.over /\ l.kind = "begin"
  <2>1. /\ Len(r.cont) = Len(s.cont) + 1
        /\ \A i \in 1..Len(s.cont) : r.cont[i] = s.cont[i]
        /\ r.cont[Len(s.cont) + 1] = Container(Len(s.open), ReadTag(l.tag))
    BY <1>2, BeginLine
  <2>2. DOMAIN Container(Len(s.open), ReadTag(l.tag)).directives = {}
    BY DEF Container
  <2> HIDE DEF r
  <2>3. \A c \in 1..Len(r.cont) : c \notin 1..Len(s.cont) => c = Len(s.cont) + 1
    BY <1>0, <2>1
  <2>4. \A c \in 1..Len(r.cont) : c \notin 1..Len(s.cont) =>
                                     DOMAIN r.cont[c].directives = {}
    BY <2>1, <2>2, <2>3
  <2> QED
    BY <2>1, <2>4 DEF r
<1>3. CASE ~s.over /\ l.kind = "end"
  BY <1>3, EndLine
<1> QED
  BY <1>1, <1>2, <1>3 DEF LineSet

(* What the lines up to n say is in the containers they are read into, the *)
(* last of those for one key having the say.                               *)
Filled(f, st, n) ==
    \A c \in 1..Len(st[n].cont) :
        /\ \A key : key \in DOMAIN st[n].cont[c].directives <=>
               \E i \in Says(f) : i =< n /\ Where(st, i) = c /\ f[i].key = key
        /\ \A i \in Says(f) :
               /\ i =< n /\ Where(st, i) = c
               /\ \A j \in Says(f) :
                     i < j /\ j =< n /\ f[j].key = f[i].key => Where(st, j) # c
               => st[n].cont[c].directives[f[i].key] = ValueOf(f[i])

(* The step of the induction over the lines, for FilledThrough.            *)
LEMMA FilledStep ==
    ASSUME NEW f \in Seq(LineSet), NEW st, ReadThrough(f, st),
           NEW n \in 1..Len(f), Filled(f, st, n - 1)
    PROVE  Filled(f, st, n)
<1> DEFINE s == st[n - 1]  r == st[n]  l == f[n]  N == Len(f)
<1>0. /\ N \in Nat /\ n - 1 \in 0..N /\ l \in LineSet /\ ReadOK(s)
      /\ r = ReadLine(s, l) /\ Len(s.cont) \in Nat
  <2>1. Len(f) \in Nat /\ n - 1 \in 0..Len(f) /\ f[n] \in LineSet
    OBVIOUS
  <2>2. ReadOK(st[n - 1]) /\ st[n] = ReadLine(st[n - 1], f[n])
    BY <2>1 DEF ReadThrough
  <2> QED
    BY <2>1, <2>2, ReadOKIs
<1>1. \A i \in Says(f) : i \in 1..N
  BY SaysIs
<1>2. ASSUME NEW i \in Says(f), i =< n PROVE Where(st, i) \in 1..Len(s.cont)
  <2>1. i \in 1..N /\ i - 1 \in 0..(n - 1)
    BY <1>0, <1>1, <1>2
  <2>2. Extends(st[i - 1].cont, s.cont)
    BY <1>0, <2>1, LaterExtends
  <2>3. Where(st, i) \in 1..Len(st[i - 1].cont)
    BY AroundIs
  <2>4. ReadOK(st[i - 1])
    <3>1. i - 1 \in 0..N
      BY <1>0, <2>1
    <3> QED
      BY <3>1 DEF ReadThrough
  <2>5. Len(st[i - 1].cont) \in Nat
    BY <2>4, ReadOKIs
  <2>6. Len(st[i - 1].cont) =< Len(s.cont)
    BY <2>2 DEF Extends
  <2> HIDE DEF s
  <2> QED
    BY <1>0, <2>3, <2>5, <2>6
<1>3. CASE n \notin Says(f)
  <2>1. s.over \/ l.kind \notin {"directive", "word"}
    BY <1>3, SaysIs
  <2>2. /\ \A c \in 1..Len(s.cont) : r.cont[c].directives = s.cont[c].directives
        /\ \A c \in 1..Len(r.cont) : c \notin 1..Len(s.cont) =>
                                        DOMAIN r.cont[c].directives = {}
    <3>1. PICK ll \in LineSet : ll = l
      BY <1>0
    <3>2. ReadOK(s) /\ (s.over \/ ll.kind \notin {"directive", "word"})
          /\ r = ReadLine(s, ll)
      BY <1>0, <2>1, <3>1
    <3> HIDE DEF s, r, l
    <3> QED
      BY <3>2, LineLeaves
  <2>3. \A i \in Says(f) : i =< n <=> i =< n - 1
    BY <1>0, <1>1, <1>3
  <2> SUFFICES ASSUME NEW c \in 1..Len(r.cont)
               PROVE  /\ \A key : key \in DOMAIN r.cont[c].directives <=>
                            \E i \in Says(f) : i =< n /\ Where(st, i) = c /\ f[i].key = key
                      /\ \A i \in Says(f) :
                            /\ i =< n /\ Where(st, i) = c
                            /\ \A j \in Says(f) :
                                  i < j /\ j =< n /\ f[j].key = f[i].key => Where(st, j) # c
                            => r.cont[c].directives[f[i].key] = ValueOf(f[i])
    BY DEF Filled
  <2>4. CASE c \in 1..Len(s.cont)
    <3>1. /\ \A key : key \in DOMAIN s.cont[c].directives <=>
                \E i \in Says(f) : i =< n - 1 /\ Where(st, i) = c /\ f[i].key = key
          /\ \A i \in Says(f) :
                /\ i =< n - 1 /\ Where(st, i) = c
                /\ \A j \in Says(f) :
                      i < j /\ j =< n - 1 /\ f[j].key = f[i].key => Where(st, j) # c
                => s.cont[c].directives[f[i].key] = ValueOf(f[i])
      BY <2>4 DEF Filled
    <3>2. r.cont[c].directives = s.cont[c].directives
      BY <2>2, <2>4
    <3> HIDE DEF s, r
    <3> QED
      BY <2>3, <3>1, <3>2
  <2>5. CASE c \notin 1..Len(s.cont)
    <3>1. DOMAIN r.cont[c].directives = {}
      BY <2>2, <2>5
    <3>2. ~\E i \in Says(f) : i =< n /\ Where(st, i) = c
      BY <1>2, <2>5
    <3> HIDE DEF s, r
    <3> QED
      BY <3>1, <3>2
  <2> QED
    BY <2>4, <2>5
<1>4. CASE n \in Says(f)
  <2> DEFINE a == Last(s.open)  v == ValueOf(l)
  <2>1. ~s.over /\ l.kind \in {"directive", "word"}
    BY <1>4, SaysIs
  <2>2. /\ SameShape(s.cont, r.cont) /\ a \in 1..Len(s.cont)
        /\ r.cont[a].directives = Put(s.cont[a].directives, l.key, v)
        /\ \A i \in 1..Len(s.cont) : i # a => r.cont[i] = s.cont[i]
    <3>1. PICK ll \in LineSet : ll = l
      BY <1>0
    <3>2. ReadOK(s) /\ ~s.over /\ ll.kind \in {"directive", "word"}
          /\ r = ReadLine(s, ll)
      BY <1>0, <2>1, <3>1
    <3> HIDE DEF s, r, l
    <3>3. /\ SameShape(s.cont, r.cont) /\ a \in 1..Len(s.cont)
          /\ r.cont[a].directives = Put(s.cont[a].directives, ll.key, ValueOf(ll))
          /\ \A i \in 1..Len(s.cont) : i # a => r.cont[i] = s.cont[i]
      BY <3>2, SettingLine
    <3> QED
      BY <3>1, <3>3
  <2>3. Where(st, n) = a
    BY DEF Where
  <2>4. l.key \in Words /\ v \in Words
    BY <1>0, <2>1 DEF LineSet, ValueOf
  <2>5. s.cont[a].directives \in DirMaps
    <3>1. GoodTree(s.cont)
      BY <1>0, ReadOKIs
    <3>2. s.cont[a] \in Containers
      BY <2>2, <3>1, Depths
    <3> QED
      BY <3>2 DEF Containers
  <2> HIDE DEF a, v
  <2>6. PICK d \in DirMaps, key0 \in Words : d = s.cont[a].directives /\ key0 = l.key
    BY <2>4, <2>5
  <2>7. /\ DOMAIN Put(d, key0, v) = DOMAIN d \union {key0}
        /\ Put(d, key0, v)[key0] = v
        /\ \A k \in DOMAIN d : k # key0 => Put(d, key0, v)[k] = d[k]
    BY <2>4, PutIs
  <2>8. /\ r.cont[a].directives = Put(d, key0, v) /\ f[n].key = key0
        /\ ValueOf(f[n]) = v
    BY <2>2, <2>6 DEF v
  <2>9. \A i \in Says(f) : i =< n <=> i =< n - 1 \/ i = n
    BY <1>0, <1>1
  <2>10. ASSUME NEW c \in 1..Len(s.cont)
         PROVE  /\ \A key : key \in DOMAIN s.cont[c].directives <=>
                    \E i \in Says(f) : i =< n - 1 /\ Where(st, i) = c /\ f[i].key = key
                /\ \A i \in Says(f) :
                    /\ i =< n - 1 /\ Where(st, i) = c
                    /\ \A j \in Says(f) :
                          i < j /\ j =< n - 1 /\ f[j].key = f[i].key => Where(st, j) # c
                    => s.cont[c].directives[f[i].key] = ValueOf(f[i])
    BY DEF Filled
  <2>11. Len(r.cont) = Len(s.cont)
    BY <2>2 DEF SameShape
  <2> SUFFICES ASSUME NEW c \in 1..Len(s.cont)
               PROVE  /\ \A key : key \in DOMAIN r.cont[c].directives <=>
                            \E i \in Says(f) : i =< n /\ Where(st, i) = c /\ f[i].key = key
                      /\ \A i \in Says(f) :
                            /\ i =< n /\ Where(st, i) = c
                            /\ \A j \in Says(f) :
                                  i < j /\ j =< n /\ f[j].key = f[i].key => Where(st, j) # c
                            => r.cont[c].directives[f[i].key] = ValueOf(f[i])
    BY <2>11 DEF Filled
  <2> HIDE DEF s, r, l
  <2>12. n =< n /\ \A i \in Says(f) : i =< n - 1 => i < n /\ i =< n
    BY <1>0, <1>1
  <2>13. CASE c # a
    <3>1. r.cont[c].directives = s.cont[c].directives
      BY <2>2, <2>13
    <3>2. \A i \in Says(f) : Where(st, i) = c => (i =< n <=> i =< n - 1)
      BY <2>3, <2>9, <2>13
    <3>3. ASSUME NEW key
          PROVE  key \in DOMAIN r.cont[c].directives <=>
                   \E i \in Says(f) : i =< n /\ Where(st, i) = c /\ f[i].key = key
      BY <2>10, <3>1, <3>2
    <3>4. ASSUME NEW i \in Says(f), i =< n, Where(st, i) = c,
                 \A j \in Says(f) :
                    i < j /\ j =< n /\ f[j].key = f[i].key => Where(st, j) # c
          PROVE  r.cont[c].directives[f[i].key] = ValueOf(f[i])
      <4>1. i =< n - 1
        BY <3>2, <3>4
      <4>2. \A j \in Says(f) :
                i < j /\ j =< n - 1 /\ f[j].key = f[i].key => Where(st, j) # c
        BY <2>12, <3>4
      <4> QED
        BY <2>10, <3>1, <3>4, <4>1, <4>2
    <3> QED
      BY <3>3, <3>4
  <2>14. CASE c = a
    <3>3. ASSUME NEW key
          PROVE  key \in DOMAIN r.cont[c].directives <=>
                   \E i \in Says(f) : i =< n /\ Where(st, i) = c /\ f[i].key = key
      <4>1. key \in DOMAIN r.cont[c].directives <=> key \in DOMAIN d \/ key = key0
        BY <2>7, <2>8, <2>14
      <4>2. key \in DOMAIN d <=>
               \E i \in Says(f) : i =< n - 1 /\ Where(st, i) = c /\ f[i].key = key
        BY <2>6, <2>10, <2>14
      <4> QED
        BY <1>4, <2>3, <2>8, <2>9, <2>14, <4>1, <4>2
    <3>4. ASSUME NEW i \in Says(f), i =< n, Where(st, i) = c,
                 \A j \in Says(f) :
                    i < j /\ j =< n /\ f[j].key = f[i].key => Where(st, j) # c
          PROVE  r.cont[c].directives[f[i].key] = ValueOf(f[i])
      <4>1. CASE i = n
        BY <2>7, <2>8, <2>14, <4>1
      <4>2. CASE i # n
        <5>1. i =< n - 1 /\ i < n
          BY <2>9, <2>12, <3>4, <4>2
        <5>2. f[i].key # key0
          BY <1>4, <2>3, <2>8, <2>12, <2>14, <3>4, <5>1
        <5>3. \A j \in Says(f) :
                 i < j /\ j =< n - 1 /\ f[j].key = f[i].key => Where(st, j) # c
          BY <2>12, <3>4
        <5>4. d[f[i].key] = ValueOf(f[i])
          BY <2>6, <2>10, <2>14, <3>4, <5>1, <5>3
        <5>5. f[i].key \in DOMAIN d
          BY <2>6, <2>10, <2>14, <3>4, <5>1
        <5> QED
          BY <2>7, <2>8, <2>14, <5>2, <5>4, <5>5
      <4> QED
        BY <4>1, <4>2
    <3> QED
      BY <3>3, <3>4
  <2> QED
    BY <2>13, <2>14
<1> QED
  BY <1>3, <1>4

(* So it is at the end of the file.                                        *)
LEMMA FilledThrough ==
    ASSUME NEW f \in Seq(LineSet), NEW st, ReadThrough(f, st)
    PROVE  Filled(f, st, Len(f))
<1> DEFINE P == {k \in 0..Len(f) : Filled(f, st, k)}
<1>1. 0 \in P
  <2>1. st[0] = Unread
    BY DEF ReadThrough
  <2>2. Len(Unread.cont) = 1 /\ DOMAIN Unread.cont[1].directives = {}
    BY DEF Unread, Container
  <2>3. \A i \in Says(f) : i \in 1..Len(f)
    BY SaysIs
  <2>4. \A i \in Says(f) : ~(i =< 0)
    BY <2>3
  <2>5. Len(st[0].cont) = 1 /\ DOMAIN st[0].cont[1].directives = {}
    BY <2>1, <2>2, Zenon
  <2>6. Filled(f, st, 0)
    BY <2>4, <2>5 DEF Filled
  <2> QED
    BY <2>6
<1>2. ASSUME NEW k \in 1..Len(f), k - 1 \in P PROVE k \in P
  BY <1>2, FilledStep
<1>3. \A k \in 0..Len(f) : k \in P
  <2>1. Len(f) \in Nat
    OBVIOUS
  <2> HIDE DEF P
  <2> QED
    BY <1>1, <1>2, <2>1, UpTo
<1>4. Len(f) \in 0..Len(f)
  OBVIOUS
<1> QED
  BY <1>3, <1>4

(* The lines around a container, as a sequence.                            *)
LEMMA AroundOfIsSeq ==
    ASSUME NEW f, NEW st, NEW t, NEW c, t[c].depth \in Nat
    PROVE  /\ Len(AroundOf(f, st, t, c)) = t[c].depth
           /\ DOMAIN AroundOf(f, st, t, c) = 1..t[c].depth
           /\ \A d \in 1..t[c].depth :
                 AroundOf(f, st, t, c)[d] = Began(f, st, Anc(t, c, d))
  BY DEF AroundOf

LEMMA AncestorOfItself ==
    ASSUME NEW t, NEW c \in Nat \ {0}
    PROVE  Anc(t, c, t[c].depth) = c
<1> DEFINE S == {j \in 1..c : t[j].depth = t[c].depth}
<1>1. S \in SUBSET (1..c) /\ c \in S /\ \A k \in S : k =< c
  OBVIOUS
<1> HIDE DEF S
<1>2. Max(S) = c
  BY <1>1, MaxIs
<1> QED
  BY <1>2 DEF Anc, S

(* The root aside, the depths in what is read are not 0.                   *)
LEMMA ReadDepths ==
    ASSUME NEW f \in Seq(LineSet), NEW st, ReadThrough(f, st)
    PROVE  LET t == st[Len(f)].cont IN
           /\ GoodTree(t) /\ OneRoot(t) /\ Len(t) \in Nat
           /\ \A c \in 1..Len(t) : t[c].depth \in Nat
           /\ \A c \in 1..Len(t) : \A d \in 1..t[c].depth :
                 Anc(t, c, d) \in 2..Len(t)
<1> DEFINE t == st[Len(f)].cont
<1>1. ReadOK(st[Len(f)])
  <2>1. Len(f) \in 0..Len(f)
    OBVIOUS
  <2> QED
    BY <2>1 DEF ReadThrough
<1>2. GoodTree(t) /\ OneRoot(t) /\ Len(t) \in Nat
  BY <1>1, ReadOKIs DEF ReadOK
<1> HIDE DEF t
<1>3. ASSUME NEW c \in 1..Len(t), NEW d \in 1..t[c].depth
      PROVE  Anc(t, c, d) \in 2..Len(t)
  <2>1. t[c].depth \in Nat /\ d \in 0..t[c].depth /\ d # 0
    BY <1>2, Depths
  <2>2. Anc(t, c, d) \in 1..c /\ t[Anc(t, c, d)].depth = d
    BY <1>2, <2>1, AncestorIs
  <2>3. Anc(t, c, d) # 1
    BY <1>2, <2>1, <2>2 DEF OneRoot
  <2> QED
    BY <1>2, <2>2, <2>3
<1> QED
  BY <1>2, <1>3, Depths DEF t

(* Nothing else than a container itself has around it what it has.         *)
LEMMA AroundOfOnce ==
    ASSUME NEW f \in Seq(LineSet), NEW st, ReadThrough(f, st),
           NEW b \in 1..Len(st[Len(f)].cont), NEW c \in 1..Len(st[Len(f)].cont),
           AroundOf(f, st, st[Len(f)].cont, b) = AroundOf(f, st, st[Len(f)].cont, c)
    PROVE  b = c
<1> DEFINE t == st[Len(f)].cont
<1>0. /\ OneRoot(t) /\ Len(t) \in Nat
      /\ \A e \in 1..Len(t) : t[e].depth \in Nat
  BY ReadDepths
<1>1. ASSUME NEW e \in 2..Len(t) PROVE Len(st[Began(f, st, e)].cont) = e
  BY BeganIs
<1> HIDE DEF t
<1>2. AroundOf(f, st, t, b) = AroundOf(f, st, t, c) /\ b \in 1..Len(t) /\ c \in 1..Len(t)
  BY DEF t
<1>3. t[b].depth = t[c].depth
  <2>1. t[b].depth \in Nat /\ t[c].depth \in Nat
    BY <1>0, <1>2
  <2>2. Len(AroundOf(f, st, t, b)) = t[b].depth
    BY <2>1, AroundOfIsSeq
  <2>3. Len(AroundOf(f, st, t, c)) = t[c].depth
    BY <2>1, AroundOfIsSeq
  <2> QED
    BY <1>2, <2>2, <2>3
<1>4. CASE t[b].depth = 0
  BY <1>0, <1>2, <1>3, <1>4 DEF OneRoot
<1>5. CASE t[b].depth # 0
  <2>1. b \in 2..Len(t) /\ c \in 2..Len(t) /\ b \in Nat \ {0} /\ c \in Nat \ {0}
    BY <1>0, <1>2, <1>3, <1>5 DEF OneRoot
  <2>2. AroundOf(f, st, t, b)[t[b].depth] = Began(f, st, b)
    <3>1. t[b].depth \in Nat /\ t[b].depth \in 1..t[b].depth
      BY <1>0, <1>2, <1>5
    <3>2. Anc(t, b, t[b].depth) = b
      BY <2>1, AncestorOfItself
    <3> QED
      BY <3>1, <3>2, AroundOfIsSeq
  <2>3. AroundOf(f, st, t, c)[t[c].depth] = Began(f, st, c)
    <3>1. t[c].depth \in Nat /\ t[c].depth \in 1..t[c].depth
      BY <1>0, <1>2, <1>3, <1>5
    <3>2. Anc(t, c, t[c].depth) = c
      BY <2>1, AncestorOfItself
    <3> QED
      BY <3>1, <3>2, AroundOfIsSeq
  <2>4. Began(f, st, b) = Began(f, st, c)
    BY <1>2, <1>3, <2>2, <2>3
  <2> QED
    BY <1>1, <2>1, <2>4
<1> QED
  BY <1>4, <1>5

(* Line i says what is in container c of the tree that is read.            *)
SaidIn(f, st, i, c) ==
    LET t == st[Len(f)].cont IN
    /\ c \in 1..Len(t) /\ f[i].key \in DOMAIN t[c].directives
    /\ t[c].directives[f[i].key] = ValueOf(f[i])
    /\ Nested(f, i) = t[c].depth
    /\ \A d \in 1..t[c].depth : Opener(f, i, d) = Began(f, st, Anc(t, c, d))

(* The lines that are kept are the directives of the tree, one for one.    *)
LEMMA KeptAre ==
    ASSUME NEW f \in Seq(LineSet), NEW st, ReadThrough(f, st)
    PROVE  LET t == st[Len(f)].cont IN
           /\ \A i \in Kept(f) : \E c \in 1..Len(t) : SaidIn(f, st, i, c)
           /\ \A c \in 1..Len(t) : \A key \in DOMAIN t[c].directives :
                 \E i \in Kept(f) : f[i].key = key /\ SaidIn(f, st, i, c)
<1> DEFINE N == Len(f)  t == st[N].cont
           A(c) == AroundOf(f, st, t, c)
<1>0. N \in Nat /\ \A i \in Says(f) : i \in 1..N /\ i =< N /\ i \in Nat
  <2>1. \A i \in Says(f) : i \in 1..N
    BY SaysIs
  <2> QED
    BY <2>1
<1>1. ASSUME NEW i \in Says(f)
      PROVE  LET c == Where(st, i) IN
             /\ c \in 1..Len(t) /\ t[c].depth = Nested(f, i)
             /\ \A d \in 1..t[c].depth : Opener(f, i, d) = Began(f, st, Anc(t, c, d))
             /\ Around(f, i) = A(c)
  <2>1. LET c == Where(st, i) IN
           /\ c \in 1..Len(t)
           /\ t[c].depth = Nested(f, i)
           /\ \A d \in 1..Nested(f, i) : Opener(f, i, d) = Began(f, st, Anc(t, c, d))
    BY AroundIs
  <2> HIDE DEF t
  <2> QED
    BY <2>1 DEF Around, AroundOf
<1>2. ASSUME NEW i \in Says(f), NEW j \in Says(f)
      PROVE  Around(f, i) = Around(f, j) <=> Where(st, i) = Where(st, j)
  <2>1. Where(st, i) \in 1..Len(t) /\ Where(st, j) \in 1..Len(t)
    BY <1>1
  <2>2. A(Where(st, i)) = A(Where(st, j)) => Where(st, i) = Where(st, j)
    BY <2>1, AroundOfOnce
  <2> HIDE DEF A, t
  <2> QED
    BY <1>1, <2>2
<1>3. ASSUME NEW c \in 1..Len(t)
      PROVE  /\ \A key : key \in DOMAIN t[c].directives <=>
                   \E i \in Says(f) : i =< N /\ Where(st, i) = c /\ f[i].key = key
             /\ \A i \in Says(f) :
                   /\ i =< N /\ Where(st, i) = c
                   /\ \A j \in Says(f) :
                         i < j /\ j =< N /\ f[j].key = f[i].key => Where(st, j) # c
                   => t[c].directives[f[i].key] = ValueOf(f[i])
  BY FilledThrough DEF Filled
<1>4. ASSUME NEW i, NEW c
      PROVE  SaidIn(f, st, i, c) <=>
                /\ c \in 1..Len(t) /\ f[i].key \in DOMAIN t[c].directives
                /\ t[c].directives[f[i].key] = ValueOf(f[i])
                /\ Nested(f, i) = t[c].depth
                /\ \A d \in 1..t[c].depth : Opener(f, i, d) = Began(f, st, Anc(t, c, d))
  BY DEF SaidIn
<1> HIDE DEF N, t, A
<1>5. ASSUME NEW i \in Kept(f)
      PROVE  SaidIn(f, st, i, Where(st, i))
  <2>1. /\ i \in Says(f)
        /\ \A j \in Says(f) : j > i /\ f[j].key = f[i].key => Around(f, j) # Around(f, i)
    BY DEF Kept
  <2>2. i =< N /\ Where(st, i) \in 1..Len(t)
    BY <1>0, <1>1, <2>1
  <2>3. f[i].key \in DOMAIN t[Where(st, i)].directives
    BY <1>3, <2>1, <2>2
  <2>4. \A j \in Says(f) : i < j => j > i
    BY <1>0, <2>1
  <2>5. \A j \in Says(f) :
            i < j /\ j =< N /\ f[j].key = f[i].key => Where(st, j) # Where(st, i)
    BY <1>2, <2>1, <2>4
  <2>6. t[Where(st, i)].directives[f[i].key] = ValueOf(f[i])
    BY <1>3, <2>1, <2>2, <2>5
  <2> QED
    BY <1>1, <1>4, <2>1, <2>2, <2>3, <2>6
<1>6. ASSUME NEW c \in 1..Len(t), NEW key, key \in DOMAIN t[c].directives
      PROVE  \E i \in Kept(f) : Where(st, i) = c /\ f[i].key = key
  <2> DEFINE S == {i \in Says(f) : Where(st, i) = c /\ f[i].key = key}
  <2>1. S \in SUBSET (1..N) /\ S # {}
    BY <1>0, <1>3, <1>6
  <2>2. PICK m \in S : \A i \in S : i =< m
    <3> HIDE DEF S
    <3> QED
      BY <1>0, <2>1, GreatestExists
  <2>3. m \in Says(f) /\ Where(st, m) = c /\ f[m].key = key /\ m \in Nat
    BY <1>0, <2>2
  <2>4. ASSUME NEW j \in Says(f), j > m, f[j].key = f[m].key, Around(f, j) = Around(f, m)
        PROVE  FALSE
    <3>1. j \in S
      BY <1>2, <2>3, <2>4
    <3>2. j =< m /\ j \in Nat
      BY <1>0, <2>2, <3>1
    <3> QED
      BY <2>3, <2>4, <3>2
  <2>5. m \in Kept(f)
    BY <2>3, <2>4 DEF Kept
  <2> QED
    BY <2>3, <2>5
<1>7. \A i \in Kept(f) : \E c \in 1..Len(t) : SaidIn(f, st, i, c)
  BY <1>4, <1>5
<1>8. \A c \in 1..Len(t) : \A key \in DOMAIN t[c].directives :
         \E i \in Kept(f) : f[i].key = key /\ SaidIn(f, st, i, c)
  BY <1>5, <1>6
<1> QED
  BY <1>7, <1>8 DEF t, N

-----------------------------------------------------------------------------
(* Writing a tree and reading it.                                          *)
(* From state s the lines ls lead to state r.                              *)
Leads(s, ls, r) == \E st : Steps(s, ls, st) /\ st[Len(ls)] = r

(* No line, one line, and lines behind lines.                              *)
LEMMA LeadsNowhere == \A s : Leads(s, <<>>, s)
<1>1. ASSUME NEW s PROVE Leads(s, <<>>, s)
  <2> DEFINE st == [n \in {0} |-> s]
  <2>1. st[0] = s /\ st[Len(<<>>)] = s /\ \A n \in 1..Len(<<>>) : FALSE
    OBVIOUS
  <2> HIDE DEF st
  <2> QED
    BY <2>1 DEF Leads, Steps
<1> QED
  BY <1>1

LEMMA LeadsOne == \A s, l : Leads(s, <<l>>, ReadLine(s, l))
<1>1. ASSUME NEW s, NEW l PROVE Leads(s, <<l>>, ReadLine(s, l))
  <2> DEFINE st == [n \in 0..1 |-> IF n = 0 THEN s ELSE ReadLine(s, l)]
  <2>1. st[0] = s /\ st[1] = ReadLine(s, l)
    OBVIOUS
  <2>2. Len(<<l>>) = 1 /\ <<l>>[1] = l
    OBVIOUS
  <2> HIDE DEF st
  <2>3. \A n \in 1..Len(<<l>>) : n = 1
    BY <2>2
  <2> QED
    BY <2>1, <2>2, <2>3 DEF Leads, Steps
<1> QED
  BY <1>1

LEMMA LeadsOn ==
    ASSUME NEW a \in Seq(LineSet), NEW b \in Seq(LineSet), NEW s, NEW q, NEW r,
           Leads(s, a, q), Leads(q, b, r)
    PROVE  Leads(s, a \o b, r)
<1> DEFINE x == Len(a)  y == Len(b)  c == a \o b
<1>0. /\ x \in Nat /\ y \in Nat /\ Len(c) = x + y
      /\ \A n \in 1..x : c[n] = a[n]
      /\ \A n \in 1..y : c[x + n] = b[n]
  OBVIOUS
<1>1. PICK u : Steps(s, a, u) /\ u[x] = q
  BY DEF Leads
<1>2. PICK v : Steps(q, b, v) /\ v[y] = r
  BY DEF Leads
<1> HIDE DEF x, y, c
<1> DEFINE st == [n \in 0..(x + y) |-> IF n =< x THEN u[n] ELSE v[n - x]]
<1>3. /\ u[0] = s /\ \A n \in 1..x : u[n] = ReadLine(u[n - 1], a[n])
      /\ v[0] = q /\ \A n \in 1..y : v[n] = ReadLine(v[n - 1], b[n])
  BY <1>1, <1>2 DEF Steps, x, y
<1>4. /\ \A n \in 0..x : st[n] = u[n]
      /\ \A n \in 0..y : st[x + n] = v[n]
  <2>1. \A n \in 0..x : st[n] = u[n]
    BY <1>0
  <2>2. ASSUME NEW n \in 0..y PROVE st[x + n] = v[n]
    <3>1. CASE n = 0
      BY <1>0, <1>1, <1>3, <3>1
    <3>2. CASE n # 0
      <4>1. x + n \in 0..(x + y) /\ ~(x + n =< x) /\ (x + n) - x = n
        BY <1>0, <3>2
      <4> QED
        BY <4>1
    <3> QED
      BY <3>1, <3>2
  <2> QED
    BY <2>1, <2>2
<1> HIDE DEF st
<1>5. ASSUME NEW n \in 1..(x + y) PROVE st[n] = ReadLine(st[n - 1], c[n])
  <2>1. CASE n =< x
    <3>1. n \in 1..x /\ n \in 0..x /\ n - 1 \in 0..x
      BY <1>0, <2>1
    <3> QED
      BY <1>0, <1>3, <1>4, <3>1
  <2>2. CASE ~(n =< x)
    <3>1. PICK m \in 1..y : n = x + m
      <4>1. n - x \in 1..y /\ n = x + (n - x)
        BY <1>0, <2>2
      <4> QED
        BY <4>1
    <3>2. m \in 0..y /\ m - 1 \in 0..y /\ n - 1 = x + (m - 1)
      BY <1>0, <3>1
    <3> QED
      BY <1>0, <1>3, <1>4, <3>1, <3>2
  <2> QED
    BY <2>1, <2>2
<1>6. st[0] = s /\ st[x + y] = r
  <2>1. 0 \in 0..x /\ y \in 0..y
    BY <1>0
  <2> QED
    BY <1>2, <1>3, <1>4, <2>1
<1>7. Steps(s, c, st) /\ st[Len(c)] = r
  BY <1>0, <1>5, <1>6 DEF Steps
<1> QED
  BY <1>7 DEF Leads, c

(* After a container as many stay open as the next one is deep.            *)
LEMMA DepthAfterIs ==
    ASSUME NEW t, GoodTree(t), OneRoot(t), NEW i \in 1..Len(t)
    PROVE  /\ DepthAfter(t, i) \in Nat /\ DepthAfter(t, i) >= 1
           /\ DepthAfter(t, i) =< t[i].depth + 1
           /\ i < Len(t) => DepthAfter(t, i) = t[i + 1].depth
<1>0. Len(t) \in Nat /\ t[i].depth \in Nat
  BY Depths
<1>1. CASE i < Len(t)
  <2>1. i + 1 \in 1..Len(t) /\ i + 1 # 1 /\ (i + 1) - 1 = i
    BY <1>0, <1>1
  <2>2. /\ t[i + 1].depth \in Nat /\ t[i + 1].depth # 0
        /\ t[i + 1].depth =< t[i].depth + 1
    BY <1>0, <2>1, Depths DEF OneRoot
  <2> DEFINE x == t[i + 1].depth
             S == {1, x}
  <2>3. S \in SUBSET (1..x) /\ x \in S /\ \A k \in S : k =< x
    BY <2>2
  <2> HIDE DEF S
  <2>4. Max(S) = x
    BY <2>2, <2>3, MaxIs
  <2> QED
    BY <1>1, <2>2, <2>4 DEF DepthAfter, S
<1>2. CASE ~(i < Len(t))
  BY <1>0, <1>2 DEF DepthAfter
<1> QED
  BY <1>1, <1>2

(* What has been read of the first i containers that were written.         *)
Same(t, k, c) ==
    /\ c.depth = t[k].depth /\ c.directives = t[k].directives
    /\ k # 1 => c.tag = ReadTag(t[k].tag)

SoFar(t, i, r) ==
    /\ ReadOK(r) /\ ~r.over
    /\ Len(r.cont) = i /\ \A k \in 1..i : Same(t, k, r.cont[k])
    /\ Len(r.open) = DepthAfter(t, i)

(* As far as that and into container i, of whose directives those of the   *)
(* keys in D have been read.                                               *)
Into(t, i, D, r) ==
    /\ ReadOK(r) /\ ~r.over
    /\ Len(r.cont) = i /\ \A k \in 1..(i - 1) : Same(t, k, r.cont[k])
    /\ r.cont[i].depth = t[i].depth
    /\ i # 1 => r.cont[i].tag = ReadTag(t[i].tag)
    /\ DOMAIN r.cont[i].directives = D
    /\ \A key \in D : r.cont[i].directives[key] = t[i].directives[key]
    /\ Len(r.open) = t[i].depth + 1 /\ r.open[Len(r.open)] = i

(* Before any line the reading is in the root.                             *)
LEMMA IntoRoot ==
    ASSUME NEW t, GoodTree(t), OneRoot(t)
    PROVE  Into(t, 1, {}, Unread)
<1>1. t[1].depth = 0
  BY DEF OneRoot
<1>2. /\ ~Unread.over /\ Len(Unread.cont) = 1 /\ Unread.cont[1].depth = 0
      /\ DOMAIN Unread.cont[1].directives = {}
      /\ Len(Unread.open) = 1 /\ Unread.open[1] = 1
  BY DEF Unread, Container
<1>3. \A k \in 1..(1 - 1) : FALSE
  OBVIOUS
<1> QED
  BY <1>1, <1>2, <1>3, UnreadOK DEF Into

(* The begin tag of the next container leads into it.                      *)
LEMMA IntoNext ==
    ASSUME NEW t, GoodTree(t), OneRoot(t), NEW i \in 2..Len(t),
           NEW s, SoFar(t, i - 1, s)
    PROVE  Into(t, i, {}, ReadLine(s, Begin(t[i].tag)))
<1> DEFINE l == Begin(t[i].tag)  r == ReadLine(s, l)  m == Len(s.open)
<1>0. Len(t) \in Nat /\ i \in 1..Len(t) /\ i - 1 \in 1..Len(t) /\ i - 1 < Len(t)
      /\ (i - 1) + 1 = i /\ t[i].depth \in Nat /\ t[i].tag \in TagSet
  <2>1. Len(t) \in Nat
    BY Depths
  <2>2. i \in 1..Len(t)
    BY <2>1
  <2>3. t[i].depth \in Nat /\ t[i].tag \in TagSet
    BY <2>2, Depths
  <2> QED
    BY <2>1, <2>2, <2>3
<1>1. m = t[i].depth
  BY <1>0, DepthAfterIs DEF SoFar
<1>2. l \in LineSet /\ l.kind = "begin" /\ l.tag = t[i].tag
  BY <1>0 DEF Begin, LineSet
<1>3. ReadOK(s) /\ ~s.over /\ Len(s.cont) = i - 1
      /\ \A k \in 1..(i - 1) : Same(t, k, s.cont[k])
  BY DEF SoFar
<1> HIDE DEF l
<1>4. /\ ~r.over
      /\ Len(r.cont) = i /\ \A k \in 1..(i - 1) : r.cont[k] = s.cont[k]
      /\ r.cont[i] = Container(m, ReadTag(t[i].tag))
      /\ Len(r.open) = m + 1 /\ r.open[m + 1] = i
  BY <1>0, <1>2, <1>3, BeginLine
<1>5. ReadOK(r)
  BY <1>2, <1>3, ReadLineOK
<1>6. /\ Container(m, ReadTag(t[i].tag)).depth = m
      /\ Container(m, ReadTag(t[i].tag)).tag = ReadTag(t[i].tag)
      /\ DOMAIN Container(m, ReadTag(t[i].tag)).directives = {}
  BY DEF Container
<1> HIDE DEF r, m
<1>7. Into(t, i, {}, r)
  BY <1>1, <1>3, <1>4, <1>5, <1>6 DEF Into
<1> QED
  BY <1>7 DEF r, l

(* One directive more.                                                     *)
LEMMA IntoMore ==
    ASSUME NEW t, GoodTree(t), NEW i \in 1..Len(t), NEW D, NEW s, Into(t, i, D, s),
           NEW key \in DOMAIN t[i].directives
    PROVE  Into(t, i, D \union {key}, ReadLine(s, Dir(key, t[i].directives[key])))
<1> DEFINE v == t[i].directives[key]  l == Dir(key, v)  r == ReadLine(s, l)
<1>0. key \in Words /\ v \in Words
  <2>1. t[i] \in Containers
    BY Depths
  <2>2. t[i].directives \in DirMaps
    BY <2>1 DEF Containers
  <2> QED
    BY <2>2 DEF DirMaps
<1> HIDE DEF v
<1>1. l \in LineSet /\ l.kind = "directive" /\ l.key = key /\ ValueOf(l) = v
  BY <1>0 DEF Dir, LineSet, ValueOf
<1>2. ReadOK(s) /\ ~s.over /\ Len(s.cont) = i /\ s.open[Len(s.open)] = i
  BY DEF Into
<1>3. Last(s.open) = i
  BY <1>2 DEF Last
<1> HIDE DEF l
<1>4. /\ ~r.over /\ r.open = s.open /\ SameShape(s.cont, r.cont)
      /\ r.cont[i].directives = Put(s.cont[i].directives, key, v)
      /\ \A k \in 1..Len(s.cont) : k # i => r.cont[k] = s.cont[k]
  BY <1>1, <1>2, <1>3, SettingLine
<1>5. ReadOK(r)
  BY <1>1, <1>2, ReadLineOK
<1> HIDE DEF r
<1>6. s.cont[i].directives \in DirMaps
  <2>1. GoodTree(s.cont)
    BY <1>2, ReadOKIs
  <2>2. s.cont[i] \in Containers
    BY <1>2, <2>1, Depths
  <2> QED
    BY <2>2 DEF Containers
<1>7. /\ DOMAIN r.cont[i].directives = DOMAIN s.cont[i].directives \union {key}
      /\ r.cont[i].directives[key] = v
      /\ \A k \in DOMAIN s.cont[i].directives : k # key =>
            r.cont[i].directives[k] = s.cont[i].directives[k]
  <2>1. PICK d \in DirMaps : d = s.cont[i].directives
    BY <1>6
  <2>2. /\ DOMAIN Put(d, key, v) = DOMAIN d \union {key}
        /\ Put(d, key, v)[key] = v
        /\ \A k \in DOMAIN d : k # key => Put(d, key, v)[k] = d[k]
    BY <1>0, PutIs
  <2> QED
    BY <1>4, <2>1, <2>2
<1>8. /\ DOMAIN s.cont[i].directives = D
      /\ \A k \in D : s.cont[i].directives[k] = t[i].directives[k]
      /\ \A k \in 1..(i - 1) : Same(t, k, s.cont[k])
      /\ s.cont[i].depth = t[i].depth
      /\ i # 1 => s.cont[i].tag = ReadTag(t[i].tag)
      /\ Len(s.open) = t[i].depth + 1
  BY DEF Into
<1>9. /\ Len(r.cont) = i /\ r.cont[i].depth = s.cont[i].depth
      /\ r.cont[i].tag = s.cont[i].tag
  BY <1>2, <1>4 DEF SameShape
<1>10. \A k \in 1..(i - 1) : k \in 1..Len(s.cont) /\ k # i
  BY <1>2
<1>11. \A k \in 1..(i - 1) : Same(t, k, r.cont[k])
  BY <1>4, <1>8, <1>10
<1>12. \A k \in D \union {key} : r.cont[i].directives[k] = t[i].directives[k]
  BY <1>7, <1>8 DEF v
<1>13. Into(t, i, D \union {key}, r)
  BY <1>2, <1>4, <1>5, <1>7, <1>8, <1>9, <1>11, <1>12 DEF Into
<1> QED
  BY <1>13 DEF r, l, v

(* All directives of a container.                                          *)
LEMMA IntoAll ==
    ASSUME NEW t, GoodTree(t), NEW i \in 1..Len(t), NEW s, Into(t, i, {}, s),
           NEW keys \in Seq(DOMAIN t[i].directives), NEW ls \in Seq(LineSet),
           Len(ls) = Len(keys),
           \A k \in 1..Len(keys) : ls[k] = Dir(keys[k], t[i].directives[keys[k]])
    PROVE  \E r : Leads(s, ls, r) /\ Into(t, i, {keys[k] : k \in 1..Len(keys)}, r)
<1> DEFINE N == Len(keys)
           D(n) == {keys[k] : k \in 1..n}
<1>0. N \in Nat /\ N = Len(ls)
  OBVIOUS
<1>1. PICK st : Steps(s, ls, st)
  BY StepsExist
<1>2. st[0] = s /\ \A n \in 1..N : st[n] = ReadLine(st[n - 1], ls[n])
  BY <1>1 DEF Steps
<1> DEFINE P == {n \in 0..N : Into(t, i, D(n), st[n])}
<1>3. 0 \in P
  <2>1. D(0) = {}
    OBVIOUS
  <2>2. 0 \in 0..N
    BY <1>0
  <2> HIDE DEF D, N
  <2>3. Into(t, i, D(0), st[0])
    BY <1>2, <2>1
  <2> QED
    BY <2>2, <2>3
<1>4. ASSUME NEW n \in 1..N, n - 1 \in P PROVE n \in P
  <2>1. Into(t, i, D(n - 1), st[n - 1])
    BY <1>4
  <2>2. keys[n] \in DOMAIN t[i].directives
    OBVIOUS
  <2>3. st[n] = ReadLine(st[n - 1], Dir(keys[n], t[i].directives[keys[n]]))
    BY <1>2
  <2>4. D(n) = D(n - 1) \union {keys[n]}
    <3>1. \A k : k \in 1..n <=> k \in 1..(n - 1) \/ k = n
      BY <1>0
    <3> HIDE DEF N
    <3> QED
      BY <3>1
  <2>7. n \in 0..N
    BY <1>0
  <2> HIDE DEF D, N
  <2>5. PICK key \in DOMAIN t[i].directives : key = keys[n]
    BY <2>2
  <2>6. Into(t, i, D(n - 1) \union {key}, ReadLine(st[n - 1], Dir(key, t[i].directives[key])))
    BY <2>1, IntoMore
  <2>8. Into(t, i, D(n), st[n])
    BY <2>3, <2>4, <2>5, <2>6
  <2> QED
    BY <2>7, <2>8
<1>5. \A n \in 0..N : n \in P
  <2> HIDE DEF P, N
  <2> QED
    BY <1>0, <1>3, <1>4, UpTo
<1>6. Into(t, i, D(N), st[N])
  <2>1. N \in 0..N
    BY <1>0
  <2> HIDE DEF D, N
  <2> QED
    BY <1>5, <2>1
<1>7. Leads(s, ls, st[N])
  BY <1>0, <1>1 DEF Leads
<1> QED
  BY <1>6, <1>7

(* The end tags behind it.                                                 *)
LEMMA EndsLead ==
    ASSUME NEW n \in Nat, NEW ls \in Seq(LineSet), Len(ls) = n,
           \A k \in 1..n : ls[k].kind = "end",
           NEW s, ReadOK(s), ~s.over, Len(s.open) > n
    PROVE  \E r : /\ Leads(s, ls, r) /\ ReadOK(r) /\ ~r.over
                  /\ r.cont = s.cont /\ Len(r.open) = Len(s.open) - n
<1>0. Len(s.open) \in Nat
  BY ReadOKIs
<1>1. PICK st : Steps(s, ls, st)
  BY StepsExist
<1>2. st[0] = s /\ \A k \in 1..n : st[k] = ReadLine(st[k - 1], ls[k])
  BY <1>1 DEF Steps
<1>3. \A k \in 0..n : ReadOK(st[k])
  BY <1>1, StepsOK
<1> DEFINE P == {k \in 0..n : /\ ~st[k].over /\ st[k].cont = s.cont
                              /\ Len(st[k].open) = Len(s.open) - k}
<1>4. 0 \in P
  BY <1>0, <1>2
<1>5. ASSUME NEW k \in 1..n, k - 1 \in P PROVE k \in P
  <2>1. /\ ~st[k - 1].over /\ st[k - 1].cont = s.cont
        /\ Len(st[k - 1].open) = Len(s.open) - (k - 1) /\ k - 1 \in 0..n
    BY <1>5
  <2>2. Len(st[k - 1].open) # 1
    BY <1>0, <2>1
  <2> DEFINE q == st[k - 1]  l == ls[k]
  <2>3. ReadOK(q) /\ ~q.over /\ l.kind = "end" /\ Len(q.open) # 1
        /\ st[k] = ReadLine(q, l)
    BY <1>2, <1>3, <2>1, <2>2
  <2> HIDE DEF q, l
  <2>4. ~st[k].over /\ st[k].cont = q.cont /\ Len(st[k].open) = Len(q.open) - 1
    BY <2>3, EndLine
  <2>5. ~st[k].over /\ st[k].cont = s.cont
    BY <2>1, <2>4 DEF q
  <2>6. Len(st[k].open) = (Len(s.open) - (k - 1)) - 1
    BY <2>1, <2>4 DEF q
  <2>7. (Len(s.open) - (k - 1)) - 1 = Len(s.open) - k /\ k \in 0..n
    BY <1>0
  <2> QED
    BY <2>5, <2>6, <2>7
<1>6. \A k \in 0..n : k \in P
  <2> HIDE DEF P
  <2> QED
    BY <1>4, <1>5, UpTo
<1>7. n \in P /\ n \in 0..n
  <2> HIDE DEF P
  <2> QED
    BY <1>6
<1>8. Leads(s, ls, st[n])
  BY <1>1 DEF Leads
<1> QED
  BY <1>3, <1>7, <1>8

(* One container: from where the ones before it lead to.                   *)
LEMMA BlockLeads ==
    ASSUME NEW t, GoodTree(t), OneRoot(t), NEW i \in 1..Len(t), NEW s,
           IF i = 1 THEN s = Unread ELSE SoFar(t, i - 1, s)
    PROVE  \E r : Leads(s, Lines(t, i), r) /\ SoFar(t, i, r)
<1> DEFINE d    == t[i].directives
           keys == SetToSeq(DOMAIN d)
           begin == IF t[i].depth = 0 THEN <<>> ELSE <<Begin(t[i].tag)>>
           middle == [k \in DOMAIN keys |-> Dir(keys[k], d[keys[k]])]
           n == t[i].depth - DepthAfter(t, i) + 1
<1>0. /\ Len(t) \in Nat /\ t[i].depth \in Nat /\ t[i].tag \in TagSet /\ t[i] \in Containers
      /\ t[i].depth = 0 <=> i = 1
  BY Depths DEF OneRoot
<1>1. /\ d \in DirMaps /\ IsFiniteSet(DOMAIN d) /\ DOMAIN d \subseteq Words
      /\ \A k \in DOMAIN d : d[k] \in Words
  BY <1>0 DEF Containers, DirMaps
<1>2. Lines(t, i) = begin \o (middle \o Ends(t, i))
  BY DEF Lines
<1>3. /\ Len(keys) \in Nat /\ keys \in [1..Len(keys) -> DOMAIN d]
      /\ DOMAIN keys = 1..Len(keys)
      /\ \A x \in DOMAIN d : \E k \in 1..Len(keys) : keys[k] = x
  BY <1>1, SetToSeqIsSeq, SetToSeqIsOnto
<1> HIDE DEF keys
<1>4. keys \in Seq(DOMAIN d) /\ {keys[k] : k \in 1..Len(keys)} = DOMAIN d
  BY <1>3
<1>5. /\ middle \in Seq(LineSet) /\ Len(middle) = Len(keys)
      /\ \A k \in 1..Len(keys) : middle[k] = Dir(keys[k], d[keys[k]])
  <2> HIDE DEF d
  <2>1. ASSUME NEW k \in 1..Len(keys) PROVE Dir(keys[k], d[keys[k]]) \in LineSet
    BY <1>1, <1>3 DEF Dir, LineSet
  <2>2. middle \in [1..Len(keys) -> LineSet]
    BY <1>3, <2>1
  <2> QED
    BY <1>3, <2>2
<1>6. /\ n \in Nat /\ Ends(t, i) \in Seq(LineSet) /\ Len(Ends(t, i)) = n
      /\ \A k \in 1..n : Ends(t, i)[k].kind = "end"
      /\ t[i].depth + 1 > n /\ (t[i].depth + 1) - n = DepthAfter(t, i)
  <2>1. /\ DepthAfter(t, i) \in Nat /\ DepthAfter(t, i) >= 1
        /\ DepthAfter(t, i) =< t[i].depth + 1
    BY DepthAfterIs
  <2>2. /\ n \in Nat /\ t[i].depth + 1 > n /\ (t[i].depth + 1) - n = DepthAfter(t, i)
    <3> DEFINE x == t[i].depth  y == DepthAfter(t, i)
    <3>1. x \in Nat /\ y \in Nat /\ y >= 1 /\ y =< x + 1
      BY <1>0, <2>1
    <3> HIDE DEF x, y
    <3>2. x - y + 1 \in Nat /\ x + 1 > x - y + 1 /\ (x + 1) - (x - y + 1) = y
      BY <3>1
    <3> QED
      BY <3>2 DEF x, y
  <2>3. Ends(t, i) = [j \in 1..n |-> End]
    BY DEF Ends
  <2>4. End \in LineSet /\ End.kind = "end"
    BY DEF End, LineSet
  <2> HIDE DEF n
  <2>5. Ends(t, i) \in [1..n -> LineSet] /\ \A k \in 1..n : Ends(t, i)[k] = End
    BY <2>3, <2>4
  <2> QED
    BY <2>2, <2>4, <2>5
<1> HIDE DEF middle, n
<1>7. PICK q : Leads(s, begin, q) /\ Into(t, i, {}, q)
  <2>1. CASE i = 1
    <3>1. begin = <<>>
      BY <1>0, <2>1
    <3>2. Leads(s, <<>>, s) /\ Into(t, i, {}, s)
      BY <2>1, LeadsNowhere, IntoRoot
    <3> HIDE DEF begin
    <3> QED
      BY <3>1, <3>2
  <2>2. CASE i # 1
    <3>1. begin = <<Begin(t[i].tag)>> /\ i \in 2..Len(t)
      BY <1>0, <2>2
    <3>2. Into(t, i, {}, ReadLine(s, Begin(t[i].tag)))
      BY <2>2, <3>1, IntoNext
    <3>3. Leads(s, <<Begin(t[i].tag)>>, ReadLine(s, Begin(t[i].tag)))
      BY LeadsOne
    <3> HIDE DEF begin
    <3> QED
      BY <3>1, <3>2, <3>3
  <2> QED
    BY <2>1, <2>2
<1>8. begin \in Seq(LineSet)
  <2>1. Begin(t[i].tag) \in LineSet
    BY <1>0 DEF Begin, LineSet
  <2> QED
    BY <2>1
<1> HIDE DEF begin
<1>9. PICK r : Leads(q, middle, r) /\ Into(t, i, DOMAIN d, r)
  <2>1. PICK ks \in Seq(DOMAIN t[i].directives) : ks = keys
    BY <1>4
  <2>2. PICK ls \in Seq(LineSet) : ls = middle
    BY <1>5
  <2>3. Len(ls) = Len(ks) /\ \A k \in 1..Len(ks) : ls[k] = Dir(ks[k], t[i].directives[ks[k]])
    BY <1>5, <2>1, <2>2
  <2>4. \E r : Leads(q, ls, r) /\ Into(t, i, {ks[k] : k \in 1..Len(ks)}, r)
    BY <1>7, <2>3, IntoAll
  <2> QED
    BY <1>4, <2>1, <2>2, <2>4
<1>10. /\ ReadOK(r) /\ ~r.over /\ Len(r.open) = t[i].depth + 1
       /\ Len(r.cont) = i /\ \A k \in 1..(i - 1) : Same(t, k, r.cont[k])
       /\ r.cont[i].depth = t[i].depth
       /\ i # 1 => r.cont[i].tag = ReadTag(t[i].tag)
       /\ DOMAIN r.cont[i].directives = DOMAIN d
       /\ \A key \in DOMAIN d : r.cont[i].directives[key] = d[key]
  BY <1>9 DEF Into
<1>11. r.cont[i].directives = d
  <2>1. GoodTree(r.cont)
    BY <1>10, ReadOKIs
  <2>2. r.cont[i] \in Containers
    BY <1>10, <2>1, Depths
  <2>3. r.cont[i].directives \in DirMaps
    BY <2>2 DEF Containers
  <2>4. PICK e \in DirMaps : e = r.cont[i].directives
    BY <2>3
  <2>5. PICK c \in DirMaps : c = d
    BY <1>1
  <2>6. DOMAIN e = DOMAIN c /\ \A key \in DOMAIN c : e[key] = c[key]
    BY <1>10, <2>4, <2>5
  <2>7. e = [key \in DOMAIN e |-> e[key]] /\ c = [key \in DOMAIN c |-> c[key]]
    BY DEF DirMaps
  <2>8. e = c
    BY <2>6, <2>7
  <2> QED
    BY <2>4, <2>5, <2>8
<1>12. \A k \in 1..i : Same(t, k, r.cont[k])
  <2>1. Same(t, i, r.cont[i])
    BY <1>10, <1>11 DEF Same
  <2>2. \A k \in 1..i : k \in 1..(i - 1) \/ k = i
    OBVIOUS
  <2> QED
    BY <1>10, <2>1, <2>2
<1>13. PICK z : /\ Leads(r, Ends(t, i), z) /\ ReadOK(z) /\ ~z.over
                /\ z.cont = r.cont /\ Len(z.open) = Len(r.open) - n
  <2>1. Len(r.open) > n
    BY <1>6, <1>10
  <2>2. PICK ls \in Seq(LineSet) : ls = Ends(t, i)
    BY <1>6
  <2>3. Len(ls) = n /\ \A k \in 1..n : ls[k].kind = "end"
    BY <1>6, <2>2
  <2>4. \E z : /\ Leads(r, ls, z) /\ ReadOK(z) /\ ~z.over
               /\ z.cont = r.cont /\ Len(z.open) = Len(r.open) - n
    BY <1>6, <1>10, <2>1, <2>3, EndsLead
  <2> QED
    BY <2>2, <2>4
<1>14. SoFar(t, i, z)
  <2>1. Len(z.open) = DepthAfter(t, i)
    BY <1>6, <1>10, <1>13
  <2>2. Len(z.cont) = i /\ \A k \in 1..i : Same(t, k, z.cont[k])
    BY <1>10, <1>12, <1>13
  <2> QED
    BY <1>13, <2>1, <2>2 DEF SoFar
<1>15. Leads(s, Lines(t, i), z)
  <2>1. Leads(q, middle \o Ends(t, i), z)
    BY <1>5, <1>6, <1>9, <1>13, LeadsOn
  <2>2. middle \o Ends(t, i) \in Seq(LineSet)
    BY <1>5, <1>6, ConcatProperties
  <2>3. Leads(s, begin \o (middle \o Ends(t, i)), z)
    BY <1>7, <1>8, <2>1, <2>2, LeadsOn
  <2> QED
    BY <1>2, <2>3
<1> QED
  BY <1>14, <1>15

(* What is written reads as what it was written from, but for a '>' that   *)
(* is added to every tag without a parameter.                              *)
LEMMA WrittenLeads ==
    ASSUME NEW t, GoodTree(t), OneRoot(t)
    PROVE  \E r : Leads(Unread, Written(t), r) /\ SoFar(t, Len(t), r)
<1> DEFINE N == Len(t)  s == [i \in 1..N |-> Lines(t, i)]
<1>0. N \in Nat /\ N # 0 /\ 1 \in 1..N /\ s \in [1..N -> Seq(LineSet)]
  BY LinesAreLines, Depths DEF OneRoot
<1>1. Written(t) = FlattenSeq(s)
  BY Depths DEF Written
<1>2. \A i \in 1..N : s[i] = Lines(t, i) /\ s[i] \in Seq(LineSet)
  BY <1>0
<1> HIDE DEF s
<1>3. PICK all : Joined(LineSet, N, s, all)
  BY <1>0, FlattenIs
<1>4. /\ all[1] = s[1] /\ \A i \in 1..N : i # 1 => all[i] = all[i - 1] \o s[i]
      /\ \A i \in 1..N : all[i] \in Seq(LineSet)
      /\ Written(t) = all[N]
  BY <1>1, <1>3 DEF Joined
<1> DEFINE Come(i) == \E r : Leads(Unread, all[i], r) /\ SoFar(t, i, r)
           P == {i \in 0..N : i # 0 => Come(i)}
<1>5. 0 \in P
  BY <1>0
<1>6. ASSUME NEW i \in 1..N, i - 1 \in P PROVE i \in P
  <2>1. CASE i = 1
    <3>1. \E r : Leads(Unread, Lines(t, 1), r) /\ SoFar(t, 1, r)
      BY <1>0, BlockLeads
    <3>2. Come(i)
      BY <1>0, <1>2, <1>4, <2>1, <3>1
    <3> HIDE DEF Come
    <3> QED
      BY <1>0, <3>2
  <2>2. CASE i # 1
    <3>1. i - 1 \in 1..N /\ i - 1 # 0 /\ i \in 0..N
      BY <1>0, <2>2
    <3>2. PICK q : Leads(Unread, all[i - 1], q) /\ SoFar(t, i - 1, q)
      BY <1>6, <3>1
    <3>3. PICK r : Leads(q, Lines(t, i), r) /\ SoFar(t, i, r)
      BY <2>2, <3>2, BlockLeads
    <3>4. all[i - 1] \in Seq(LineSet) /\ Lines(t, i) \in Seq(LineSet)
          /\ all[i] = all[i - 1] \o Lines(t, i)
      BY <1>2, <1>4, <2>2, <3>1
    <3>5. Leads(Unread, all[i], r)
      BY <3>2, <3>3, <3>4, LeadsOn
    <3>6. Come(i)
      BY <3>3, <3>5
    <3> HIDE DEF Come
    <3> QED
      BY <3>1, <3>6
  <2> QED
    BY <2>1, <2>2
<1>7. \A i \in 0..N : i \in P
  <2> HIDE DEF P
  <2> QED
    BY <1>0, <1>5, <1>6, UpTo
<1>8. Come(N)
  <2>1. N \in P
    <3> HIDE DEF P
    <3> QED
      BY <1>0, <1>7
  <2> QED
    BY <1>0, <2>1
<1> QED
  BY <1>4, <1>8

(* The path of a container, the tags of those it is in behind the root's.  *)
LEMMA WayIs ==
    ASSUME NEW t, GoodTree(t), NEW c \in 1..Len(t)
    PROVE  PathOf(t, c) = <<Root>> \o [d \in 1..t[c].depth |-> t[Anc(t, c, d)].tag]
<1> DEFINE n == t[c].depth
           q == [d \in 1..n |-> t[Anc(t, c, d)].tag]
           p == PathOf(t, c)
           w == <<Root>> \o q
<1>1. n \in Nat /\ p \in Seq(TagSet) /\ Len(p) = n + 1
      /\ \A d \in 1..(n + 1) : p[d] = t[Anc(t, c, d - 1)].tag
  BY PathIs, Depths
<1>2. p[1] = Root
  <2>1. 1 \in 1..(n + 1) /\ 1 - 1 = 0 /\ 0 \in 0..n
    BY <1>1
  <2>2. Anc(t, c, 0) \in 1..c /\ t[Anc(t, c, 0)].depth = 0
    BY <2>1, AncestorIs
  <2>3. Anc(t, c, 0) \in 1..Len(t)
    BY <2>2, Depths
  <2>4. t[Anc(t, c, 0)].tag = Root
    BY <2>2, <2>3 DEF GoodTree, Shaped
  <2> QED
    BY <1>1, <2>1, <2>4
<1>3. ASSUME NEW d \in 1..n PROVE p[d + 1] = q[d]
  <2>1. d + 1 \in 1..(n + 1) /\ (d + 1) - 1 = d
    BY <1>1
  <2> QED
    BY <1>1, <2>1
<1> HIDE DEF n, p
<1>4. q \in Seq(TagSet) /\ Len(q) = n
  <2>1. \A d \in 1..n : q[d] \in TagSet
    <3> SUFFICES ASSUME NEW d \in 1..n PROVE q[d] \in TagSet
      OBVIOUS
    <3>1. d + 1 \in 1..Len(p)
      BY <1>1
    <3>2. p[d + 1] \in TagSet
      BY <1>1, <3>1
    <3> QED
      BY <1>3, <3>2
  <2>2. q \in [1..n -> TagSet]
    BY <2>1
  <2> HIDE DEF q
  <2> QED
    BY <1>1, <2>2
<1> HIDE DEF q
<1>5. w \in Seq(TagSet) /\ Len(w) = n + 1 /\ w[1] = Root
      /\ \A d \in 1..n : w[d + 1] = q[d]
  BY <1>1, <1>4, Tags
<1> HIDE DEF w
<1>6. ASSUME NEW d \in 1..(n + 1) PROVE w[d] = p[d]
  <2>1. CASE d = 1
    BY <1>2, <1>5, <2>1
  <2>2. CASE d # 1
    <3>1. d - 1 \in 1..n /\ (d - 1) + 1 = d
      BY <1>1, <2>2
    <3> QED
      BY <1>3, <1>5, <3>1
  <2> QED
    BY <2>1, <2>2
<1>7. w = p
  BY <1>1, <1>5, <1>6
<1> QED
  BY <1>7 DEF w, q, p, n

(* What is in a tree: the value of each key at the path of its container.  *)
TreeEntries(t) ==
    UNION {{<<PathOf(t, c), key, t[c].directives[key]>> : key \in DOMAIN t[c].directives}
              : c \in DOMAIN t}

(* What a file says where way has the path at each line.                   *)
SaidBy(f, way) == {<<way[i], f[i].key, ValueOf(f[i])>> : i \in Kept(f)}

(* When the lines that are kept are the directives of a tree, what they    *)
(* say at the paths of its containers is what is in it.                    *)
LEMMA SaidAreEntries ==
    ASSUME NEW f \in Seq(LineSet), NEW st, ReadThrough(f, st), NEW t, GoodTree(t),
           Len(t) = Len(st[Len(f)].cont),
           \A c \in 1..Len(t) : t[c].directives = st[Len(f)].cont[c].directives,
           NEW way,
           \A i \in Kept(f), c \in 1..Len(t) : SaidIn(f, st, i, c) => way[i] = PathOf(t, c)
    PROVE  TreeEntries(t) = SaidBy(f, way)
<1> DEFINE u == st[Len(f)].cont
<1>1. DOMAIN t = 1..Len(t)
  BY Depths
<1>2. /\ \A i \in Kept(f) : \E c \in 1..Len(u) : SaidIn(f, st, i, c)
      /\ \A c \in 1..Len(u) : \A key \in DOMAIN u[c].directives :
            \E i \in Kept(f) : f[i].key = key /\ SaidIn(f, st, i, c)
  BY KeptAre
<1>3. ASSUME NEW i \in Kept(f), NEW c, SaidIn(f, st, i, c)
      PROVE  /\ c \in 1..Len(u) /\ f[i].key \in DOMAIN u[c].directives
             /\ u[c].directives[f[i].key] = ValueOf(f[i])
  BY <1>3 DEF SaidIn
<1>4. Len(u) = Len(t) /\ \A c \in 1..Len(t) : t[c].directives = u[c].directives
  OBVIOUS
<1> HIDE DEF u
<1>5. ASSUME NEW e PROVE e \in TreeEntries(t) <=> e \in SaidBy(f, way)
  <2>1. e \in TreeEntries(t) <=>
          \E c \in 1..Len(t) : \E key \in DOMAIN t[c].directives :
             e = <<PathOf(t, c), key, t[c].directives[key]>>
    BY <1>1 DEF TreeEntries
  <2>2. ASSUME NEW c \in 1..Len(t), NEW key \in DOMAIN t[c].directives,
               e = <<PathOf(t, c), key, t[c].directives[key]>>
        PROVE  \E i \in Kept(f) : e = <<way[i], f[i].key, ValueOf(f[i])>>
    <3>1. PICK i \in Kept(f) : f[i].key = key /\ SaidIn(f, st, i, c)
      BY <1>2, <1>4
    <3>2. way[i] = PathOf(t, c) /\ t[c].directives[key] = ValueOf(f[i])
      BY <1>3, <1>4, <3>1
    <3> QED
      BY <2>2, <3>1, <3>2
  <2>3. ASSUME NEW i \in Kept(f), e = <<way[i], f[i].key, ValueOf(f[i])>>
        PROVE  \E c \in 1..Len(t) : \E key \in DOMAIN t[c].directives :
                  e = <<PathOf(t, c), key, t[c].directives[key]>>
    <3>1. PICK c \in 1..Len(t) : SaidIn(f, st, i, c)
      BY <1>2, <1>4
    <3>2. /\ way[i] = PathOf(t, c) /\ f[i].key \in DOMAIN t[c].directives
          /\ t[c].directives[f[i].key] = ValueOf(f[i])
      BY <1>3, <1>4, <3>1
    <3> QED
      BY <2>3, <3>1, <3>2
  <2> QED
    BY <2>1, <2>2, <2>3 DEF SaidBy
<1> QED
  BY <1>5

(* read() puts into the tree what the file says.                           *)
LEMMA ReadKeeps ==
    ASSUME NEW f \in Seq(LineSet)
    PROVE  TreeEntries(ReadFile(f)) = Entries(f, ReadTag)
<1>0. PICK st : Steps(Unread, f, st)
  BY StepsExist
<1> DEFINE t == st[Len(f)].cont
           path(i) == <<Root>> \o [d \in 1..Nested(f, i) |-> ReadTag(f[Opener(f, i, d)].tag)]
           way == [i \in Kept(f) |-> path(i)]
<1>1. ReadThrough(f, st) /\ ReadFile(f) = t
  BY <1>0, ReadStates
<1>2. Entries(f, ReadTag) = SaidBy(f, way)
  BY DEF Entries, SaidBy
<1>3. GoodTree(t) /\ \A c \in 1..Len(t) : \A d \in 1..t[c].depth : Anc(t, c, d) \in 2..Len(t)
  BY <1>1, ReadDepths
<1>4. \A c \in 2..Len(t) : t[c].tag = ReadTag(f[Began(f, st, c)].tag)
  BY <1>1, BeganIs
<1>5. ASSUME NEW i \in Kept(f), NEW c \in 1..Len(t), SaidIn(f, st, i, c)
      PROVE  way[i] = PathOf(t, c)
  <2>1. /\ Nested(f, i) = t[c].depth
        /\ \A d \in 1..t[c].depth : Opener(f, i, d) = Began(f, st, Anc(t, c, d))
    BY <1>5 DEF SaidIn
  <2> HIDE DEF t
  <2>2. \A d \in 1..t[c].depth : ReadTag(f[Opener(f, i, d)].tag) = t[Anc(t, c, d)].tag
    BY <1>3, <1>4, <2>1
  <2>3. [d \in 1..Nested(f, i) |-> ReadTag(f[Opener(f, i, d)].tag)]
           = [d \in 1..t[c].depth |-> t[Anc(t, c, d)].tag]
    BY <2>1, <2>2
  <2>4. PathOf(t, c) = <<Root>> \o [d \in 1..t[c].depth |-> t[Anc(t, c, d)].tag]
    BY <1>3, WayIs
  <2>5. path(i) = PathOf(t, c)
    BY <2>3, <2>4
  <2> QED
    BY <2>5
<1> HIDE DEF way
<1>6. /\ Len(t) = Len(st[Len(f)].cont)
      /\ \A c \in 1..Len(t) : t[c].directives = st[Len(f)].cont[c].directives
      /\ \A i \in Kept(f), c \in 1..Len(t) : SaidIn(f, st, i, c) => way[i] = PathOf(t, c)
  BY <1>5
<1> HIDE DEF t
<1>7. TreeEntries(t) = SaidBy(f, way)
  BY <1>1, <1>3, <1>6, SaidAreEntries
<1> QED
  BY <1>1, <1>2, <1>7

(* What read() adds to a tag makes no two tags the same.                   *)
LEMMA TagsAreTold ==
    ASSUME NEW a \in TagSet, NEW b \in TagSet, ReadTag(a) = ReadTag(b)
    PROVE  a = b
<1>1. /\ a = [type |-> a.type, param |-> a.param, junk |-> a.junk]
      /\ b = [type |-> b.type, param |-> b.param, junk |-> b.junk]
      /\ a.junk \in Nat /\ b.junk \in Nat
  BY DEF TagSet
<1>2. ASSUME NEW x \in TagSet
      PROVE  /\ ReadTag(x).type = x.type /\ ReadTag(x).param = x.param
             /\ ReadTag(x).junk = IF x.param = NoParam THEN x.junk + 1 ELSE x.junk
  <2> HIDE DEF NoParam
  <2> QED
    BY DEF ReadTag, TagSet
<1>3. a.type = b.type /\ a.param = b.param
  BY <1>2
<1>4. a.junk = b.junk
  <2>1. /\ ReadTag(a).junk = IF a.param = NoParam THEN a.junk + 1 ELSE a.junk
        /\ ReadTag(b).junk = IF b.param = NoParam THEN b.junk + 1 ELSE b.junk
    BY <1>2
  <2> HIDE DEF NoParam
  <2> QED
    BY <1>1, <1>3, <2>1
<1> QED
  BY <1>1, <1>3, <1>4

(* write() says what is in the tree.                                       *)
LEMMA WriteKeeps ==
    ASSUME NEW t, GoodTree(t), OneRoot(t)
    PROVE  TreeEntries(t) = Entries(Written(t), LAMBDA x : x)
<1> DEFINE f == Written(t)
<1>0. f \in Seq(LineSet)
  BY WrittenIsFile
<1>1. PICK r : Leads(Unread, f, r) /\ SoFar(t, Len(t), r)
  BY WrittenLeads
<1> HIDE DEF f
<1>2. PICK st : Steps(Unread, f, st) /\ st[Len(f)] = r
  BY <1>1 DEF Leads
<1>3. ReadThrough(f, st)
  BY <1>0, <1>2, ReadStates
<1> DEFINE u == st[Len(f)].cont
<1>4. Len(u) = Len(t) /\ \A c \in 1..Len(t) : Same(t, c, u[c])
  BY <1>1, <1>2 DEF SoFar
<1>5. ASSUME NEW c \in 2..Len(u)
      PROVE  f[Began(f, st, c)].tag \in TagSet /\ u[c].tag = ReadTag(f[Began(f, st, c)].tag)
  BY <1>0, <1>3, BeganIs
<1>6. \A c \in 1..Len(u) : \A d \in 1..u[c].depth : Anc(u, c, d) \in 2..Len(u)
  BY <1>0, <1>3, ReadDepths
<1>7. ASSUME NEW i, NEW c, SaidIn(f, st, i, c)
      PROVE  /\ Nested(f, i) = u[c].depth
             /\ \A d \in 1..u[c].depth : Opener(f, i, d) = Began(f, st, Anc(u, c, d))
  BY <1>7 DEF SaidIn
<1> DEFINE path(i) == <<Root>> \o [d \in 1..Nested(f, i) |-> f[Opener(f, i, d)].tag]
           way == [i \in Kept(f) |-> path(i)]
<1>8. Entries(f, LAMBDA x : x) = SaidBy(f, way)
  BY DEF Entries, SaidBy
<1>9. Len(t) = Len(st[Len(f)].cont)
      /\ \A c \in 1..Len(t) : t[c].directives = st[Len(f)].cont[c].directives
  BY <1>4 DEF Same
<1> HIDE DEF u
<1>10. ASSUME NEW c \in 2..Len(u) PROVE f[Began(f, st, c)].tag = t[c].tag
  <2>1. Len(t) \in Nat /\ c \in 1..Len(t) /\ c # 1
    BY <1>4, Depths
  <2>2. t[c].tag \in TagSet /\ u[c].tag = ReadTag(t[c].tag)
    BY <1>4, <2>1, Depths DEF Same
  <2> QED
    BY <1>5, <2>2, TagsAreTold
<1>11. ASSUME NEW i \in Kept(f), NEW c \in 1..Len(t), SaidIn(f, st, i, c)
       PROVE  way[i] = PathOf(t, c)
  <2>1. /\ Nested(f, i) = u[c].depth
        /\ \A d \in 1..u[c].depth : Opener(f, i, d) = Began(f, st, Anc(u, c, d))
    BY <1>7, <1>11
  <2>2. u[c].depth = t[c].depth /\ c \in 1..Len(u)
    BY <1>4 DEF Same
  <2>3. ASSUME NEW d PROVE Anc(u, c, d) = Anc(t, c, d)
    <3>1. \A k \in 1..c : u[k].depth = t[k].depth
      BY <1>4, Depths DEF Same
    <3>2. {j \in 1..c : u[j].depth = d} = {j \in 1..c : t[j].depth = d}
      BY <3>1
    <3> QED
      BY <3>2 DEF Anc
  <2>4. \A d \in 1..t[c].depth : f[Opener(f, i, d)].tag = t[Anc(t, c, d)].tag
    BY <1>6, <1>10, <2>1, <2>2, <2>3
  <2>5. [d \in 1..Nested(f, i) |-> f[Opener(f, i, d)].tag]
           = [d \in 1..t[c].depth |-> t[Anc(t, c, d)].tag]
    BY <2>1, <2>2, <2>4
  <2>6. PathOf(t, c) = <<Root>> \o [d \in 1..t[c].depth |-> t[Anc(t, c, d)].tag]
    BY WayIs
  <2>7. path(i) = PathOf(t, c)
    BY <2>5, <2>6
  <2> QED
    BY <2>7
<1> HIDE DEF way
<1>12. \A i \in Kept(f), c \in 1..Len(t) : SaidIn(f, st, i, c) => way[i] = PathOf(t, c)
  BY <1>11
<1>13. TreeEntries(t) = SaidBy(f, way)
  BY <1>0, <1>3, <1>9, <1>12, SaidAreEntries
<1> QED
  BY <1>8, <1>13 DEF f

(* A setDirective() that does not throw sets its key at its path, and      *)
(* nothing else.                                                           *)
LEMMA SettingEntries ==
    ASSUME NEW t, GoodTree(t), NEW path \in Seq(TagSet), path # <<>>,
           NEW key \in Words, NEW v \in Words, ~Throws(t, path)
    PROVE  TreeEntries(SetIn(t, path, key, v)) =
              {e \in TreeEntries(t) : e[1] # path \/ e[2] # key}
                 \union {<<path, key, v>>}
<1> DEFINE u == SetIn(t, path, key, v)
           R == Reached(t, path)
<1>1. /\ SameShape(t, u)
      /\ \A i \in 1..Len(t) : u[i].directives =
            IF i \in R THEN Put(t[i].directives, key, v) ELSE t[i].directives
  BY SetInIs
<1> HIDE DEF u
<1>2. /\ DOMAIN t = 1..Len(t) /\ DOMAIN u = 1..Len(t) /\ Len(u) = Len(t)
      /\ \A i \in 1..Len(t) : PathOf(u, i) = PathOf(t, i)
  BY <1>1, SameShapeSameWalks, Depths DEF SameShape
<1>3. \A i \in 1..Len(t) : i \in R <=> PathOf(t, i) = path
  BY <1>2 DEF Reached, Throws, At
<1>4. PICK a \in 1..Len(t) : PathOf(t, a) = path
  BY <1>2, WalkArrives DEF At
<1>5. ASSUME NEW i \in 1..Len(t), PathOf(t, i) = path
      PROVE  /\ DOMAIN u[i].directives = DOMAIN t[i].directives \union {key}
             /\ u[i].directives[key] = v
             /\ \A k \in DOMAIN t[i].directives : k # key =>
                   u[i].directives[k] = t[i].directives[k]
  <2>1. t[i].directives \in DirMaps
    BY Depths DEF Containers
  <2>2. PICK d \in DirMaps : d = t[i].directives
    BY <2>1
  <2>3. /\ DOMAIN Put(d, key, v) = DOMAIN d \union {key}
        /\ Put(d, key, v)[key] = v
        /\ \A k \in DOMAIN d : k # key => Put(d, key, v)[k] = d[k]
    BY PutIs
  <2>4. u[i].directives = Put(d, key, v)
    BY <1>1, <1>3, <1>5, <2>2
  <2> QED
    BY <2>2, <2>3, <2>4
<1>6. ASSUME NEW i \in 1..Len(t), PathOf(t, i) # path
      PROVE  u[i].directives = t[i].directives
  BY <1>1, <1>3, <1>6
<1>7. ASSUME NEW e
      PROVE  /\ e \in TreeEntries(t) <=>
                  \E c \in 1..Len(t) : \E k \in DOMAIN t[c].directives :
                     e = <<PathOf(t, c), k, t[c].directives[k]>>
             /\ e \in TreeEntries(u) <=>
                  \E c \in 1..Len(t) : \E k \in DOMAIN u[c].directives :
                     e = <<PathOf(t, c), k, u[c].directives[k]>>
  BY <1>2 DEF TreeEntries
<1>8. ASSUME NEW e, e \in TreeEntries(u)
      PROVE  e = <<path, key, v>> \/ (e \in TreeEntries(t) /\ (e[1] # path \/ e[2] # key))
  <2>0. PICK c \in 1..Len(t) : \E k \in DOMAIN u[c].directives :
           e = <<PathOf(t, c), k, u[c].directives[k]>>
    BY <1>7, <1>8
  <2>1. PICK k \in DOMAIN u[c].directives :
           e = <<PathOf(t, c), k, u[c].directives[k]>>
    BY <2>0
  <2>2. e[1] = PathOf(t, c) /\ e[2] = k
    BY <2>1
  <2>3. CASE PathOf(t, c) = path /\ k = key
    BY <1>5, <2>1, <2>3
  <2>4. CASE PathOf(t, c) = path /\ k # key
    <3>1. k \in DOMAIN t[c].directives /\ u[c].directives[k] = t[c].directives[k]
      BY <1>5, <2>4
    <3> QED
      BY <1>7, <2>1, <2>2, <2>4, <3>1
  <2>5. CASE PathOf(t, c) # path
    <3>1. k \in DOMAIN t[c].directives /\ u[c].directives[k] = t[c].directives[k]
      BY <1>6, <2>5
    <3> QED
      BY <1>7, <2>1, <2>2, <2>5, <3>1
  <2> QED
    BY <2>3, <2>4, <2>5
<1>9. <<path, key, v>> \in TreeEntries(u)
  <2>1. key \in DOMAIN u[a].directives /\ u[a].directives[key] = v
    BY <1>4, <1>5
  <2> QED
    BY <1>4, <1>7, <2>1
<1>10. ASSUME NEW e \in TreeEntries(t), e[1] # path \/ e[2] # key
       PROVE  e \in TreeEntries(u)
  <2>0. PICK c \in 1..Len(t) : \E k \in DOMAIN t[c].directives :
           e = <<PathOf(t, c), k, t[c].directives[k]>>
    BY <1>7
  <2>1. PICK k \in DOMAIN t[c].directives :
           e = <<PathOf(t, c), k, t[c].directives[k]>>
    BY <2>0
  <2>2. e[1] = PathOf(t, c) /\ e[2] = k
    BY <2>1
  <2>3. k \in DOMAIN u[c].directives /\ u[c].directives[k] = t[c].directives[k]
    <3>1. CASE PathOf(t, c) = path
      BY <1>5, <1>10, <2>2, <3>1
    <3>2. CASE PathOf(t, c) # path
      BY <1>6, <3>2
    <3> QED
      BY <3>1, <3>2
  <2> QED
    BY <1>7, <2>1, <2>3
<1>11. TreeEntries(u) = {e \in TreeEntries(t) : e[1] # path \/ e[2] # key}
                          \union {<<path, key, v>>}
  BY <1>8, <1>9, <1>10
<1> QED
  BY <1>11 DEF u

-----------------------------------------------------------------------------
(* The invariant.  In every tree the directives are maps, and what was set *)
(* is in each container of its path, to which every walk comes.            *)
Roots(t) == {i \in DOMAIN t : t[i].depth = 0}

Holds(t, s) ==
    /\ ~Throws(t, s[1])
    /\ \A i \in At(t, s[1]) : s[2] \in DOMAIN t[i].directives
                              /\ t[i].directives[s[2]] = s[3]

IInv ==
    /\ TypeOK
    /\ tree \in Seq(Containers)
    /\ \A s \in sets : Holds(tree, s)

LEMMA TreeIsGood == IInv => GoodTree(tree) /\ reads = Cardinality(Roots(tree))
<1> SUFFICES ASSUME IInv PROVE GoodTree(tree) /\ reads = Cardinality(Roots(tree))
  OBVIOUS
<1>1. tree \in Seq(Containers) /\ DOMAIN tree = 1..Len(tree)
  BY DEF IInv
<1>2. Shaped(tree)
  BY <1>1 DEF IInv, TypeOK, Shaped
<1> QED
  BY <1>1, <1>2 DEF IInv, TypeOK, GoodTree, Roots

LEMMA GoodIsTyped ==
    ASSUME NEW t, GoodTree(t)
    PROVE  \A i \in DOMAIN t :
              /\ t[i].depth >= 0
              /\ t[i].depth =< IF i = 1 THEN 0 ELSE t[i - 1].depth + 1
              /\ t[i].depth = 0 <=> t[i].tag = Root
              /\ t[i].tag \in TagSet
<1>1. /\ DOMAIN t = 1..Len(t)
      /\ \A i \in 1..Len(t) : t[i].depth \in Nat /\ t[i].tag \in TagSet
  BY Depths
<1> QED
  BY <1>1 DEF GoodTree, Shaped

(* A file that is read comes behind what was read before, as one root more.*)
LEMMA OneMore ==
    ASSUME NEW t, GoodTree(t), NEW r \in Seq(Containers), Shaped(r), OneRoot(r)
    PROVE  /\ GoodTree(t \o r)
           /\ Cardinality(Roots(t \o r)) = Cardinality(Roots(t)) + 1
<1> DEFINE u == t \o r  n == Len(t)  m == Len(r)
<1>0. n \in Nat /\ m \in Nat /\ m >= 1 /\ t \in Seq(Containers)
  BY Depths DEF GoodTree, OneRoot
<1>1. /\ u \in Seq(Containers) /\ Len(u) = n + m
      /\ \A i \in 1..n : u[i] = t[i]
      /\ \A i \in 1..m : u[n + i] = r[i]
  BY <1>0
<1>2. GoodTree(r)
  BY DEF GoodTree
<1>3. r[1].depth = 0 /\ r[1].tag = Root
  BY <1>0, <1>2, Depths DEF Shaped
<1> HIDE DEF u, n, m
<1>4. ASSUME NEW i \in 1..(n + m)
      PROVE  /\ u[i].depth =< IF i = 1 THEN 0 ELSE u[i - 1].depth + 1
             /\ u[i].depth = 0 <=> u[i].tag = Root
  <2>1. CASE i \in 1..n
    <3>1. i # 1 => i - 1 \in 1..n
      BY <1>0, <2>1
    <3> QED
      BY <1>1, <2>1, <3>1 DEF GoodTree, Shaped, n
  <2>2. CASE i = n + 1
    <3>1. u[i] = r[1]
      BY <1>0, <1>1, <2>2
    <3>2. i # 1 => i - 1 \in 1..n
      BY <1>0, <2>2
    <3>3. i # 1 => u[i - 1].depth \in Nat
      BY <1>1, <3>2, Depths DEF n
    <3> QED
      BY <1>3, <3>1, <3>3
  <2>3. CASE i > n + 1
    <3> DEFINE j == i - n
    <3>1. j \in 1..m /\ j # 1 /\ j - 1 \in 1..m /\ i = n + j /\ i # 1
          /\ i - 1 = n + (j - 1)
      BY <1>0, <2>3
    <3> HIDE DEF j
    <3>2. u[i] = r[j] /\ u[i - 1] = r[j - 1]
      BY <1>1, <3>1
    <3>3. /\ r[j].depth =< r[j - 1].depth + 1
          /\ r[j].depth = 0 <=> r[j].tag = Root
      BY <3>1 DEF Shaped, m
    <3> QED
      BY <3>1, <3>2, <3>3
  <2> QED
    BY <1>0, <2>1, <2>2, <2>3
<1>5. GoodTree(u)
  BY <1>1, <1>4 DEF GoodTree, Shaped
<1>6. Roots(u) = Roots(t) \union {n + 1}
  <2>1. DOMAIN u = 1..(n + m) /\ DOMAIN t = 1..n
    BY <1>0, <1>1 DEF n
  <2>2. ASSUME NEW i \in 1..(n + m)
        PROVE  u[i].depth = 0 <=> i = n + 1 \/ (i \in 1..n /\ t[i].depth = 0)
    <3>1. CASE i \in 1..n
      BY <1>0, <1>1, <3>1
    <3>2. CASE ~(i \in 1..n)
      <4>1. i - n \in 1..m /\ i = n + (i - n)
        BY <1>0, <3>2
      <4>2. u[i] = r[i - n]
        BY <1>1, <4>1
      <4>3. r[i - n].depth = 0 <=> i - n = 1
        BY <4>1 DEF OneRoot, m
      <4> QED
        BY <1>0, <3>2, <4>1, <4>2, <4>3
    <3> QED
      BY <3>1, <3>2
  <2>3. n + 1 \in 1..(n + m) /\ \A i \in 1..n : i \in 1..(n + m)
    BY <1>0
  <2> QED
    BY <2>1, <2>2, <2>3 DEF Roots
<1>7. n + 1 \notin Roots(t) /\ IsFiniteSet(Roots(t))
  <2>1. Roots(t) \in SUBSET (1..n)
    BY <1>0 DEF Roots, n
  <2>2. IsFiniteSet(1..n)
    BY <1>0, FS_Interval
  <2> QED
    BY <1>0, <2>1, <2>2, FS_Subset
<1>8. Cardinality(Roots(u)) = Cardinality(Roots(t)) + 1
  BY <1>6, <1>7, FS_AddElement
<1> QED
  BY <1>5, <1>8 DEF u

(* Setting keeps what was set elsewhere, and a setDirective() that does    *)
(* not throw holds.                                                        *)
LEMMA SettingHolds ==
    ASSUME NEW t, GoodTree(t), NEW path, NEW key \in Words, NEW v \in Words
    PROVE  LET u == SetIn(t, path, key, v) IN
           /\ \A s : Holds(t, s) /\ (s[1] # path \/ s[2] # key) => Holds(u, s)
           /\ ~Throws(t, path) => Holds(u, <<path, key, v>>)
<1> DEFINE u == SetIn(t, path, key, v)
           R == Reached(t, path)
<1>1. /\ SameShape(t, u)
      /\ \A i \in 1..Len(t) : u[i].directives =
            IF i \in R THEN Put(t[i].directives, key, v) ELSE t[i].directives
  BY SetInIs
<1> HIDE DEF u
<1>2. \A p : At(u, p) = At(t, p) /\ Throws(u, p) = Throws(t, p)
  BY <1>1, SameShapeSameWalks
<1>3. ASSUME NEW p PROVE At(t, p) \subseteq 1..Len(t)
  BY Depths DEF At
<1>4. ASSUME NEW i \in 1..Len(t)
      PROVE  t[i].directives \in DirMaps
  BY Depths DEF Containers
<1>5. ASSUME NEW s, Holds(t, s), s[1] # path \/ s[2] # key
      PROVE  Holds(u, s)
  <2>1. ~Throws(u, s[1])
    BY <1>2, <1>5 DEF Holds
  <2>2. ASSUME NEW i \in At(u, s[1])
        PROVE  s[2] \in DOMAIN u[i].directives /\ u[i].directives[s[2]] = s[3]
    <3>1. i \in At(t, s[1]) /\ i \in 1..Len(t)
      BY <1>2, <1>3
    <3>2. s[2] \in DOMAIN t[i].directives /\ t[i].directives[s[2]] = s[3]
      BY <1>5, <3>1 DEF Holds
    <3>3. CASE s[1] # path
      <4>1. i \notin R
        BY <3>1, <3>3 DEF Reached, At
      <4> QED
        BY <1>1, <3>1, <3>2, <4>1
    <3>4. CASE s[2] # key
      <4>1. /\ s[2] \in DOMAIN Put(t[i].directives, key, v)
            /\ Put(t[i].directives, key, v)[s[2]] = t[i].directives[s[2]]
        <5>1. t[i].directives \in DirMaps
          BY <1>4, <3>1
        <5>2. PICK d \in DirMaps : d = t[i].directives
          BY <5>1
        <5>3. /\ DOMAIN Put(d, key, v) = DOMAIN d \union {key}
              /\ \A k \in DOMAIN d : k # key => Put(d, key, v)[k] = d[k]
          BY PutIs
        <5> QED
          BY <3>2, <3>4, <5>2, <5>3
      <4> QED
        BY <1>1, <3>1, <3>2, <4>1
    <3> QED
      BY <1>5, <3>3, <3>4
  <2> QED
    BY <2>1, <2>2 DEF Holds
<1>6. ASSUME ~Throws(t, path)
      PROVE  Holds(u, <<path, key, v>>)
  <2> DEFINE s == <<path, key, v>>
  <2>0. s[1] = path /\ s[2] = key /\ s[3] = v
    OBVIOUS
  <2> HIDE DEF s
  <2>1. ~Throws(u, s[1])
    BY <1>2, <1>6, <2>0
  <2>2. ASSUME NEW i \in At(u, s[1])
        PROVE  s[2] \in DOMAIN u[i].directives /\ u[i].directives[s[2]] = s[3]
    <3>1. i \in At(t, path) /\ i \in 1..Len(t)
      BY <1>2, <1>3, <2>0
    <3>2. i \in R
      BY <1>6, <3>1 DEF Reached, Throws
    <3>3. /\ key \in DOMAIN Put(t[i].directives, key, v)
          /\ Put(t[i].directives, key, v)[key] = v
      <4>1. t[i].directives \in DirMaps
        BY <1>4, <3>1
      <4> QED
        <5>1. PICK d \in DirMaps : d = t[i].directives
          BY <4>1
        <5>2. /\ DOMAIN Put(d, key, v) = DOMAIN d \union {key}
              /\ Put(d, key, v)[key] = v
          BY PutIs
        <5> QED
          BY <5>1, <5>2
    <3> QED
      BY <1>1, <2>0, <3>1, <3>2, <3>3
  <2>3. Holds(u, s)
    BY <2>1, <2>2 DEF Holds
  <2> QED
    BY <2>3 DEF s
<1> QED
  BY <1>5, <1>6 DEF u

-----------------------------------------------------------------------------
(* IInv holds at first and is kept by every step, setDirective() and       *)
(* read() being those that change the tree.                                *)
LEMMA InitIInv == Init => IInv
<1> SUFFICES ASSUME Init PROVE IInv
  OBVIOUS
<1>1. tree = <<>> /\ sets = {} /\ seen = <<>> /\ file \in Seq(LineSet)
  BY FilesAssumption DEF Init
<1>2. {i \in DOMAIN tree : tree[i].depth = 0} = {}
  BY <1>1
<1>3. Cardinality({i \in DOMAIN tree : tree[i].depth = 0}) = 0
  BY <1>2, FS_EmptySet
<1>4. reads = 0 /\ calls = 0 /\ edits = 0 /\ half = FALSE /\ outcome = "none"
  BY DEF Init
<1>5. TypeOK
  <2>1. DOMAIN tree = {} /\ seen \in Seq(LineSet)
    BY <1>1
  <2> QED
    <3>1. reads \in 0..MaxReads /\ calls \in 0..MaxSets /\ edits \in 0..MaxEdits
      BY <1>4, BoundsAssumption
    <3>2. reads = Cardinality({i \in DOMAIN tree : tree[i].depth = 0})
      BY <1>3, <1>4
    <3>3. \A i \in DOMAIN tree : FALSE
      BY <2>1
    <3>4. half \in BOOLEAN /\ outcome \in {"none", "done", "thrown"}
      BY <1>4
    <3>5. sets \subseteq Paths \X Keys \X Values
      BY <1>1
    <3> QED
      BY <1>1, <2>1, <3>1, <3>2, <3>3, <3>4, <3>5, Zenon DEF TypeOK
<1> QED
  BY <1>1, <1>5 DEF IInv

LEMMA ReadIInv == IInv /\ Read => IInv'
<1> SUFFICES ASSUME IInv, Read PROVE IInv'
  OBVIOUS
<1> DEFINE r == ReadFile(file)
           u == tree \o r
<1>1. TypeOK /\ GoodTree(tree) /\ reads = Cardinality(Roots(tree))
  BY TreeIsGood DEF IInv
<1>2. r \in Seq(Containers) /\ Shaped(r) /\ OneRoot(r)
  BY <1>1, ReadFileOK DEF TypeOK
<1> HIDE DEF r
<1>3. GoodTree(u) /\ Cardinality(Roots(u)) = Cardinality(Roots(tree)) + 1
  BY <1>1, <1>2, OneMore
<1> HIDE DEF u
<1>4. tree' = u
  BY DEF Read, u, r
<1>5. /\ reads < MaxReads /\ reads' = reads + 1 /\ sets' = {} /\ half' = FALSE
      /\ seen' = file /\ UNCHANGED <<file, outcome, calls, runs, edits>>
  BY DEF Read
<1>6. reads' = Cardinality({i \in DOMAIN tree' : tree'[i].depth = 0})
  BY <1>1, <1>3, <1>4, <1>5 DEF Roots
<1>7. TypeOK'
  <2>1. reads' \in 0..MaxReads
    BY <1>1, <1>5, BoundsAssumption DEF TypeOK
  <2>2. GoodTree(tree')
    BY <1>3, <1>4
  <2> QED
    BY <1>1, <1>5, <1>6, <2>1, <2>2, GoodIsTyped DEF TypeOK
<1> QED
  BY <1>3, <1>4, <1>5, <1>7 DEF IInv, GoodTree

LEMMA SetDirectiveIInv ==
    ASSUME IInv, NEW path \in Paths, NEW key \in Keys, NEW v \in Values,
           SetDirective(path, key, v)
    PROVE  IInv'
<1> DEFINE u == SetIn(tree, path, key, v)
<1>0. /\ path \in Seq(TagSet) /\ path # <<>>
      /\ key \in Words /\ v \in Words
  BY PathsAssumption, WordsAssumption
<1>1. TypeOK /\ GoodTree(tree) /\ reads = Cardinality(Roots(tree))
  BY TreeIsGood DEF IInv
<1>2. SameShape(tree, u)
  BY <1>0, <1>1, SetInIs
<1>3. /\ \A s : Holds(tree, s) /\ (s[1] # path \/ s[2] # key) => Holds(u, s)
      /\ ~Throws(tree, path) => Holds(u, <<path, key, v>>)
  BY <1>0, <1>1, SettingHolds
<1> HIDE DEF u
<1>4. tree' = u
  BY DEF SetDirective, u
<1>5. /\ calls < MaxSets /\ calls' = calls + 1
      /\ UNCHANGED <<file, seen, reads, runs, edits>>
  BY DEF SetDirective
<1>6. GoodTree(u)
  BY <1>1, <1>2, SameShapeSameWalks
<1>7. Roots(u) = Roots(tree)
  <2>1. DOMAIN tree = 1..Len(tree)
    BY <1>1, Depths
  <2>2. DOMAIN u = 1..Len(tree) /\ \A i \in 1..Len(tree) : u[i].depth = tree[i].depth
    BY <1>2 DEF SameShape
  <2> QED
    BY <2>1, <2>2 DEF Roots
<1>8. reads' = Cardinality({i \in DOMAIN tree' : tree'[i].depth = 0})
  BY <1>1, <1>4, <1>5, <1>7 DEF Roots
<1>9. CASE Throws(tree, path)
  <2>1. outcome' = "thrown" /\ half' = (half \/ tree' # tree) /\ sets' = sets
    BY <1>9 DEF SetDirective
  <2>2. half' \in BOOLEAN
    BY ONLY <2>1, Zenon
  <2>3. TypeOK'
    <3>1. calls' \in 0..MaxSets
      BY <1>1, <1>5, BoundsAssumption DEF TypeOK
    <3> QED
      BY <1>1, <1>4, <1>5, <1>6, <1>8, <2>1, <2>2, <3>1, GoodIsTyped DEF TypeOK
  <2>4. ASSUME NEW s \in sets PROVE Holds(u, s)
    <3>1. Holds(tree, s)
      BY DEF IInv
    <3>2. s[1] # path
      BY <1>9, <3>1 DEF Holds
    <3> QED
      BY <1>3, <3>1, <3>2
  <2> QED
    BY <1>4, <1>6, <2>1, <2>3, <2>4 DEF IInv, GoodTree
<1>10. CASE ~Throws(tree, path)
  <2>1. /\ outcome' = "done" /\ half' = half
        /\ sets' = {s \in sets : s[1] # path \/ s[2] # key}
                      \union {<<path, key, v>>}
    BY <1>10 DEF SetDirective
  <2>2. TypeOK'
    <3>1. calls' \in 0..MaxSets
      BY <1>1, <1>5, BoundsAssumption DEF TypeOK
    <3>2. sets' \subseteq Paths \X Keys \X Values
      BY <1>1, <2>1 DEF TypeOK
    <3> QED
      BY <1>1, <1>4, <1>5, <1>6, <1>8, <2>1, <3>1, <3>2, GoodIsTyped DEF TypeOK
  <2>3. ASSUME NEW s \in sets' PROVE Holds(u, s)
    <3>1. CASE s = <<path, key, v>>
      BY <1>3, <1>10, <3>1
    <3>2. CASE s \in sets /\ (s[1] # path \/ s[2] # key)
      BY <1>3, <3>2 DEF IInv
    <3> QED
      BY <2>1, <3>1, <3>2
  <2> QED
    BY <1>4, <1>6, <2>2, <2>3 DEF IInv, GoodTree
<1> QED
  BY <1>9, <1>10

LEMMA Inductive == IInv /\ [Next]_vars => IInv'
<1> SUFFICES ASSUME IInv, [Next]_vars PROVE IInv'
  OBVIOUS
<1>1. CASE Read
  BY <1>1, ReadIInv
<1>2. ASSUME NEW path \in Paths, NEW key \in Keys, NEW v \in Values,
             SetDirective(path, key, v)
      PROVE  IInv'
  BY <1>2, SetDirectiveIInv
<1>3. CASE Write
  <2>1. Written(tree) \in Seq(LineSet)
    BY TreeIsGood, WrittenIsFile
  <2>2. file' = Written(tree) /\ UNCHANGED <<program, runs, edits>>
    BY <1>3 DEF Write
  <2> QED
    BY <2>1, <2>2 DEF IInv, TypeOK, program
<1>4. CASE StartAgain
  <2>1. /\ tree' = <<>> /\ outcome' = "none" /\ seen' = <<>>
        /\ reads' = 0 /\ sets' = {} /\ half' = FALSE /\ calls' = 0
        /\ UNCHANGED <<file, edits>>
    BY <1>4 DEF StartAgain, Fresh
  <2>2. {i \in DOMAIN tree' : tree'[i].depth = 0} = {}
    BY <2>1
  <2>3. Cardinality({i \in DOMAIN tree' : tree'[i].depth = 0}) = 0
    BY <2>2, FS_EmptySet
  <2>4. TypeOK'
    <3>1. DOMAIN tree' = {} /\ seen' \in Seq(LineSet)
      BY <2>1
    <3> QED
      <4>1. /\ reads' \in 0..MaxReads /\ calls' \in 0..MaxSets
            /\ edits' \in 0..MaxEdits /\ file' \in Seq(LineSet)
        BY <2>1, BoundsAssumption DEF IInv, TypeOK
      <4>2. reads' = Cardinality({i \in DOMAIN tree' : tree'[i].depth = 0})
        BY <2>1, <2>3
      <4>3. \A i \in DOMAIN tree' : FALSE
        BY <3>1
      <4>4. half' \in BOOLEAN /\ outcome' \in {"none", "done", "thrown"}
        BY <2>1
      <4>5. sets' \subseteq Paths \X Keys \X Values
        BY <2>1
      <4> QED
        BY <3>1, <4>1, <4>2, <4>3, <4>4, <4>5, Zenon DEF TypeOK
  <2> QED
    BY <2>1, <2>4 DEF IInv
<1>5. CASE Edit
  <2>1. /\ edits < MaxEdits /\ edits' = edits + 1 /\ file' \in EditedFiles
        /\ UNCHANGED <<program, runs>>
    BY <1>5 DEF Edit
  <2>2. file' \in Seq(LineSet)
    BY <2>1, FilesAssumption
  <2>3. edits' \in 0..MaxEdits
    BY <2>1, BoundsAssumption DEF IInv, TypeOK
  <2> QED
    BY <2>1, <2>2, <2>3 DEF IInv, TypeOK, program
<1>6. CASE UNCHANGED vars
  BY <1>6 DEF IInv, TypeOK, vars, program
<1> QED
  BY <1>1, <1>2, <1>3, <1>4, <1>5, <1>6 DEF Next

LEMMA Invariance == Spec => []IInv
BY InitIInv, Inductive, PTL DEF Spec

-----------------------------------------------------------------------------
(* The rest of the invariant: in a file that was read once, the tree is    *)
(* what the file said, with what was set since.                            *)
Changed(S, T) == {e \in S : ~\E s \in T : s[1] = e[1] /\ s[2] = e[2]} \union T

ReadAndSet ==
    reads = 1 /\ ~half => TreeEntries(tree) = Changed(Entries(seen, ReadTag), sets)

(* A tree without a root is empty, and one with a single root begins there.*)
LEMMA NoRootNoTree ==
    ASSUME NEW t, GoodTree(t)
    PROVE  /\ Cardinality(Roots(t)) = 0 => t = <<>>
           /\ Cardinality(Roots(t)) = 1 => OneRoot(t)
<1>1. Len(t) \in Nat /\ DOMAIN t = 1..Len(t) /\ t = [i \in 1..Len(t) |-> t[i]]
      /\ (Len(t) >= 1 => t[1].depth = 0)
  BY Depths
<1>2. IsFiniteSet(Roots(t))
  <2>1. Roots(t) \in SUBSET (1..Len(t)) /\ IsFiniteSet(1..Len(t))
    BY <1>1, FS_Interval DEF Roots
  <2> QED
    BY <2>1, FS_Subset
<1>3. Len(t) >= 1 => 1 \in Roots(t)
  BY <1>1 DEF Roots
<1>4. ASSUME Cardinality(Roots(t)) = 0 PROVE t = <<>>
  <2>1. Roots(t) = {}
    BY <1>2, <1>4, FS_EmptySet
  <2>2. Len(t) = 0
    BY <1>1, <1>3, <2>1
  <2>3. t \in Seq(Containers)
    BY DEF GoodTree
  <2> QED
    BY <2>2, <2>3
<1>5. ASSUME Cardinality(Roots(t)) = 1 PROVE OneRoot(t)
  <2>1. PICK r : Roots(t) = {r}
    BY <1>2, <1>5, FS_Singleton
  <2>2. Len(t) >= 1
    BY <1>1, <2>1 DEF Roots
  <2>3. r = 1
    BY <1>3, <2>1, <2>2
  <2> QED
    BY <1>1, <2>1, <2>2, <2>3 DEF Roots, OneRoot
<1> QED
  BY <1>4, <1>5

(* The first read() puts the file into an empty tree.                      *)
LEMMA ReadReads == IInv /\ Read => ReadAndSet'
<1> SUFFICES ASSUME IInv, Read, reads' = 1
             PROVE  TreeEntries(tree') = Changed(Entries(seen', ReadTag), sets')
  BY DEF ReadAndSet
<1>1. /\ tree' = tree \o ReadFile(file) /\ seen' = file /\ reads' = reads + 1
      /\ sets' = {}
  BY DEF Read
<1>2. GoodTree(tree) /\ reads = Cardinality(Roots(tree)) /\ TypeOK
  BY TreeIsGood DEF IInv
<1>3. reads = 0
  BY <1>1, <1>2 DEF TypeOK
<1>4. tree = <<>>
  BY <1>2, <1>3, NoRootNoTree
<1>5. file \in Seq(LineSet)
  BY <1>2 DEF TypeOK
<1>6. ReadFile(file) \in Seq(Containers)
  BY <1>5, ReadFileOK
<1>7. tree' = ReadFile(file)
  BY <1>1, <1>4, <1>6
<1>8. TreeEntries(ReadFile(file)) = Entries(file, ReadTag)
  BY <1>5, ReadKeeps
<1>9. \A S : Changed(S, {}) = S
  BY DEF Changed
<1> QED
  BY <1>1, <1>7, <1>8, <1>9

(* Setting one thing more on top of what was set is setting it last.       *)
LEMMA SettingChanges ==
    ASSUME NEW S, NEW T, NEW path, NEW key, NEW v
    PROVE  {e \in Changed(S, T) : e[1] # path \/ e[2] # key} \union {<<path, key, v>>}
              = Changed(S, {s \in T : s[1] # path \/ s[2] # key} \union {<<path, key, v>>})
<1> DEFINE x == <<path, key, v>>
           L == {e \in Changed(S, T) : e[1] # path \/ e[2] # key} \union {x}
           N == {s \in T : s[1] # path \/ s[2] # key} \union {x}
<1>1. x[1] = path /\ x[2] = key
  OBVIOUS
<1>2. \A e : e \in L <=> e = x \/ (e \in Changed(S, T) /\ (e[1] # path \/ e[2] # key))
  OBVIOUS
<1>3. \A e : e \in N <=> e = x \/ (e \in T /\ (e[1] # path \/ e[2] # key))
  OBVIOUS
<1> HIDE DEF L, N, x
<1>4. \A e : e \in Changed(S, T) <=>
               e \in T \/ (e \in S /\ ~\E s \in T : s[1] = e[1] /\ s[2] = e[2])
  BY DEF Changed
<1>5. \A e : e \in Changed(S, N) <=>
               e \in N \/ (e \in S /\ ~\E s \in N : s[1] = e[1] /\ s[2] = e[2])
  BY DEF Changed
<1>6. ASSUME NEW e PROVE e \in L <=> e \in Changed(S, N)
  <2>1. CASE e[1] # path \/ e[2] # key
    BY <1>1, <1>2, <1>3, <1>4, <1>5, <2>1
  <2>2. CASE e[1] = path /\ e[2] = key
    BY <1>1, <1>2, <1>3, <1>5, <2>2
  <2> QED
    BY <2>1, <2>2
<1>7. L = Changed(S, N)
  BY <1>6
<1> QED
  BY <1>7 DEF L, N, x

(* setDirective() changes the tree as it changes what was set.             *)
LEMMA SetDirectiveReads ==
    ASSUME IInv, ReadAndSet, NEW path \in Paths, NEW key \in Keys, NEW v \in Values,
           SetDirective(path, key, v)
    PROVE  ReadAndSet'
<1>1. /\ path \in Seq(TagSet) /\ path # <<>> /\ key \in Words /\ v \in Words
      /\ GoodTree(tree) /\ half \in BOOLEAN
  BY PathsAssumption, WordsAssumption, TreeIsGood DEF IInv, TypeOK
<1>2. tree' = SetIn(tree, path, key, v) /\ seen' = seen /\ reads' = reads
  BY DEF SetDirective
<1>3. CASE Throws(tree, path)
  <2>1. half' = (half \/ tree' # tree) /\ sets' = sets
    BY <1>3 DEF SetDirective
  <2>2. ~half' => ~half /\ tree' = tree
    BY <2>1, Zenon
  <2> QED
    BY <1>2, <2>1, <2>2 DEF ReadAndSet
<1>4. CASE ~Throws(tree, path)
  <2>1. /\ half' = half
        /\ sets' = {s \in sets : s[1] # path \/ s[2] # key} \union {<<path, key, v>>}
    BY <1>4 DEF SetDirective
  <2>2. TreeEntries(tree') = {e \in TreeEntries(tree) : e[1] # path \/ e[2] # key}
                                \union {<<path, key, v>>}
    BY <1>1, <1>2, <1>4, SettingEntries
  <2> SUFFICES ASSUME reads = 1, ~half
               PROVE  TreeEntries(tree') = Changed(Entries(seen, ReadTag), sets')
    BY <1>2, <2>1 DEF ReadAndSet
  <2> DEFINE S == Entries(seen, ReadTag)
  <2>3. TreeEntries(tree) = Changed(S, sets)
    BY DEF ReadAndSet
  <2> HIDE DEF S
  <2>4. {e \in Changed(S, sets) : e[1] # path \/ e[2] # key} \union {<<path, key, v>>}
           = Changed(S, {s \in sets : s[1] # path \/ s[2] # key} \union {<<path, key, v>>})
    BY SettingChanges
  <2>5. TreeEntries(tree') = Changed(S, sets')
    BY <2>1, <2>2, <2>3, <2>4
  <2> QED
    BY <2>5 DEF S
<1> QED
  BY <1>3, <1>4

(* No other call changes the tree but to start again.                      *)
LEMMA ReadAndSetInductive == IInv /\ ReadAndSet /\ [Next]_vars => ReadAndSet'
<1> SUFFICES ASSUME IInv, ReadAndSet, [Next]_vars PROVE ReadAndSet'
  OBVIOUS
<1>1. CASE Read
  BY <1>1, ReadReads
<1>2. ASSUME NEW path \in Paths, NEW key \in Keys, NEW v \in Values,
             SetDirective(path, key, v)
      PROVE  ReadAndSet'
  BY <1>2, SetDirectiveReads
<1>3. CASE StartAgain
  BY <1>3 DEF StartAgain, Fresh, ReadAndSet
<1>4. CASE Write \/ Edit \/ UNCHANGED vars
  <2>1. UNCHANGED <<tree, seen, reads, sets, half>>
    BY <1>4 DEF Write, Edit, vars, program
  <2> QED
    BY <2>1 DEF ReadAndSet
<1> QED
  BY <1>1, <1>2, <1>3, <1>4 DEF Next

(* Every reachable state is well typed: above all, whatever is in the file *)
(* and however often it is read, the tree stays one of containers at most  *)
(* one deeper than the one before, with a root for each read().            *)
THEOREM TypeCorrect == Spec => []TypeOK
<1>1. IInv => TypeOK
  BY DEF IInv
<1> QED
  BY <1>1, Invariance, PTL

(* What was set is what getDirective() gives, in files of any length that  *)
(* were read any number of times, whatever else was set and whichever      *)
(* calls have thrown.                                                      *)
THEOREM SettingIsGot == Spec => []SetIsGot
<1>1. ASSUME IInv, NEW s \in sets, NEW valueOnly \in BOOLEAN
      PROVE  Last(Get(tree, s[1], s[2], valueOnly)) = s[3]
  <2> DEFINE m == Max(At(tree, s[1]))
             d == tree[m].directives
  <2>1. GoodTree(tree) /\ s[1] \in Paths
    BY <1>1, TreeIsGood DEF IInv, TypeOK
  <2>2. Holds(tree, s) /\ ~Throws(tree, s[1])
    BY <1>1 DEF IInv, Holds
  <2>3. At(tree, s[1]) # {} /\ At(tree, s[1]) \in SUBSET (1..Len(tree))
        /\ Len(tree) \in Nat
    <3>1. s[1] \in Seq(TagSet) /\ s[1] # <<>>
      BY <2>1, PathsAssumption
    <3>2. At(tree, s[1]) # {}
      BY <2>1, <2>2, <3>1, WalkArrives
    <3> QED
      BY <2>1, <3>2, Depths DEF At
  <2>4. m \in At(tree, s[1])
    BY <2>3, MaxIsGreatest
  <2>5. s[2] \in DOMAIN d /\ d[s[2]] = s[3]
    BY <2>2, <2>4 DEF Holds
  <2> HIDE DEF d, m
  <2>6. Get(tree, s[1], s[2], valueOnly) \in {<<d[s[2]]>>, <<s[2], d[s[2]]>>}
    BY ONLY <2>2, <2>5, Zenon DEF Get, d, m
  <2>7. /\ Last(<<d[s[2]]>>) = d[s[2]]
        /\ Last(<<s[2], d[s[2]]>>) = d[s[2]]
    BY DEF Last
  <2> QED
    BY <2>5, <2>6, <2>7
<1>2. IInv => SetIsGot
  BY <1>1 DEF SetIsGot
<1> QED
  BY <1>2, Invariance, PTL

(* A setDirective() that throws has changed the tree only where two        *)
(* containers have one path.                                               *)
THEOREM ThrownSetsNothing == Spec => FailedSetSetsNothing
<1> DEFINE NothingSet == outcome' = "thrown" /\ tree' # tree /\ reads' = reads /\ runs' = runs
                     => \E i, j \in DOMAIN tree :
                          i # j /\ PathOf(tree, i) = PathOf(tree, j)
<1>1. IInv /\ [Next]_vars => [NothingSet]_vars
  <2> SUFFICES ASSUME IInv, Next PROVE NothingSet
    OBVIOUS
  <2>1. ASSUME NEW path \in Paths, NEW key \in Keys, NEW v \in Values,
               SetDirective(path, key, v), outcome' = "thrown", tree' # tree
        PROVE  \E i, j \in DOMAIN tree :
                  i # j /\ PathOf(tree, i) = PathOf(tree, j)
    <3>1. GoodTree(tree) /\ path \in Seq(TagSet) /\ path # <<>>
          /\ key \in Words /\ v \in Words
      BY TreeIsGood, PathsAssumption, WordsAssumption
    <3>2. Throws(tree, path)
      BY <2>1 DEF SetDirective
    <3>3. tree' = SetIn(tree, path, key, v)
      BY <2>1 DEF SetDirective
    <3>4. Reached(tree, path) # {}
      BY <2>1, <3>1, <3>3, SetInIs
    <3> QED
      BY <3>1, <3>2, <3>4, HalfSet
  <2>2. Read => reads' # reads
    BY DEF Read, IInv, TypeOK
  <2>3. StartAgain => outcome' # "thrown"
    BY DEF StartAgain, Fresh
  <2>4. Write \/ Edit => tree' = tree
    BY DEF Write, Edit, program
  <2> QED
    BY <2>1, <2>2, <2>3, <2>4 DEF Next
<1>2. [][NothingSet]_vars => FailedSetSetsNothing
  BY PTL DEF FailedSetSetsNothing
<1> QED
  BY <1>1, <1>2, Invariance, PTL DEF Spec

(* What write() would leave in a file that was read once is what was in    *)
(* it, with what was set since, for files of any length and nesting, with  *)
(* repeated keys, containers of one name and end tags too many, and after  *)
(* any calls.                                                              *)
THEOREM FileIsKept == Spec => []WriteKeepsTheFile
<1>1. ASSUME IInv, ReadAndSet PROVE WriteKeepsTheFile
  <2> SUFFICES ASSUME reads = 1, ~half
               PROVE  Entries(Written(tree), LAMBDA t : t) =
                        {e \in Entries(seen, ReadTag) :
                            ~\E s \in sets : s[1] = e[1] /\ s[2] = e[2]} \union sets
    BY DEF WriteKeepsTheFile
  <2>1. GoodTree(tree) /\ OneRoot(tree)
    BY <1>1, TreeIsGood, NoRootNoTree
  <2>2. TreeEntries(tree) = Entries(Written(tree), LAMBDA t : t)
    BY <2>1, WriteKeeps
  <2>3. TreeEntries(tree) =
           {e \in Entries(seen, ReadTag) :
               ~\E s \in sets : s[1] = e[1] /\ s[2] = e[2]} \union sets
    BY <1>1 DEF ReadAndSet, Changed
  <2> QED
    BY <2>2, <2>3
<1>2. Init => ReadAndSet
  BY DEF Init, ReadAndSet
<1>3. IInv /\ ReadAndSet => WriteKeepsTheFile
  BY <1>1
<1> QED
  BY <1>2, <1>3, Invariance, Inductive, ReadAndSetInductive, PTL DEF Spec

=============================================================================
