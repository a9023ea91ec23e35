---------------------------- MODULE LpdStatProofs ----------------------------
(***************************************************************************)
(* Theorems about LpdStat, for every set of option texts, every size of    *)
(* control[] and every number of queries.  The parser's types rest on what *)
(* Before and After make of a sequence; the rest of the inductive          *)
(* invariant says which query each piece of control[] is of while it is    *)
(* being filled, and what is known of the first byte after a status of 0.  *)
(* For the options it says where in the text the loop is and what the      *)
(* fields before that place make of each of them (Progress).               *)
(***************************************************************************)
EXTENDS LpdStat, SequenceTheorems, WellFoundedInduction, TLAPS

(* Every set of numbers that is not empty has a least element, so that Min *)
(* of the community modules is one of its elements.                        *)
LEMMA LeastExists ==
    ASSUME NEW S \in SUBSET Nat, S # {}
    PROVE  \E m \in S : \A k \in S : m =< k
<1>1. \E m \in S : \A k \in S : <<k, m>> \notin OpToRel(<, Nat)
  BY NatLessThanWellFounded, WFMin
<1>2. ASSUME NEW k \in Nat, NEW m \in Nat, <<k, m>> \notin OpToRel(<, Nat)
      PROVE  m =< k
  BY <1>2 DEF OpToRel
<1> QED
  BY <1>1, <1>2

LEMMA MinIsLeast ==
    ASSUME NEW S \in SUBSET Nat, S # {}
    PROVE  Min(S) \in S /\ \A k \in S : Min(S) =< k
  BY LeastExists DEF Min

(* Before cuts the sequence at the first c.                                *)
LEMMA BeforeIsPrefix ==
    ASSUME NEW S, NEW s \in Seq(S), NEW c
    PROVE  /\ Before(s, c) \in Seq(S)
           /\ Len(Before(s, c)) =< Len(s)
           /\ ~Contains(s, c) => Before(s, c) = s
           /\ ~Contains(Before(s, c), c)
<1> DEFINE I == {j \in 1..Len(s) : s[j] = c}
           i == SelectInSeq(s, LAMBDA w : w = c)
<1>1. i = IF I # {} THEN Min(I) ELSE 0
  BY DEF SelectInSeq
<1>2. Len(s) \in Nat /\ \A j \in 1..Len(s) : s[j] \in S
  BY LenProperties, ElementOfSeq
<1>3. Before(s, c) = IF i = 0 THEN s ELSE SubSeq(s, 1, i - 1)
  BY DEF Before
<1> HIDE DEF i
<1>4. CASE I = {}
  BY <1>1, <1>3, <1>4 DEF Contains
<1>5. CASE I # {}
  <2>0. I \in SUBSET Nat /\ I # {}
    BY <1>2, <1>5
  <2>1. i \in 1..Len(s) /\ s[i] = c /\ \A j \in I : i =< j
    <3>1. Min(I) \in I /\ \A j \in I : Min(I) =< j
      BY ONLY <2>0, MinIsLeast
    <3> QED
      BY <1>1, <1>5, <3>1
  <2>2. Before(s, c) = SubSeq(s, 1, i - 1)
    BY <1>3, <2>1
  <2>3. \A j \in 1..i - 1 : s[j] \in S /\ s[j] # c
    BY <1>2, <2>1
  <2>4. /\ SubSeq(s, 1, i - 1) \in Seq(S)
        /\ Len(SubSeq(s, 1, i - 1)) = i - 1
        /\ \A j \in 1..i - 1 : SubSeq(s, 1, i - 1)[j] = s[j]
    BY <1>2, <2>1, <2>3, SubSeqProperties
  <2>5. ~Contains(Before(s, c), c)
    BY <2>2, <2>3, <2>4 DEF Contains
  <2>6. Contains(s, c)
    BY <2>1 DEF Contains
  <2> QED
    BY <1>2, <2>1, <2>2, <2>4, <2>5, <2>6
<1> QED
  BY <1>4, <1>5

LEMMA AfterIsSeq ==
    ASSUME NEW S, NEW s \in Seq(S), NEW c
    PROVE  After(s, c) \in Seq(S)
<1>1. Len(s) \in Nat /\ Len(Before(s, c)) \in Nat
  BY BeforeIsPrefix, LenProperties
<1>2. \A j \in Len(Before(s, c)) + 2..Len(s) : s[j] \in S
  BY <1>1, ElementOfSeq
<1> QED
  BY <1>1, <1>2, SubSeqProperties DEF After

-----------------------------------------------------------------------------
LEMMA DefaultsAreOptions == DOMAIN Defaults = Options
  BY Zenon DEF Defaults

LEMMA InitParserOK == ParserInit => ParserOK
  BY TextsAssumption, DefaultsAreOptions, EmptySeq DEF ParserInit, ParserOK

LEMMA StepParserOK == ParserOK /\ [ParserNext]_parser => ParserOK'
<1> SUFFICES ASSUME ParserOK, [ParserNext]_parser PROVE ParserOK'
  OBVIOUS
<1> USE DEF ParserOK
<1>1. CASE ReadName
  <2>1. name' \in Seq(STRING) /\ rest' \in Seq(STRING)
    BY <1>1, BeforeIsPrefix, AfterIsSeq DEF ReadName
  <2>2. value' \in Seq(STRING) /\ parse' \in {"name", "value", "set", "parsed"}
    BY <1>1, EmptySeq DEF ReadName
  <2> QED
    BY <1>1, <2>1, <2>2 DEF ReadName
<1>2. CASE ReadValue
  BY <1>2, BeforeIsPrefix, AfterIsSeq DEF ReadValue
<1>3. CASE SetOption
  BY <1>3 DEF SetOption
<1>4. CASE EndOptions
  BY <1>4 DEF EndOptions
<1>5. CASE UNCHANGED parser
  BY <1>5 DEF parser
<1> QED
  BY <1>1, <1>2, <1>3, <1>4, <1>5 DEF ParserNext

(* What the pieces of control[] hold: the newest text is always in front,  *)
(* and while a text is read the pieces counted so far are of this query.   *)
NewestFirst ==
    /\ StaleOnlyBehind
    /\ \A c \in Cells : control[c] =< query
    /\ pc = "read" => \A c \in 1..total : control[c] = query

(* A status of 0 was a zero byte, or a printer that hung up without a word *)
(* while errno happened to be 0.                                           *)
ZeroStatus ==
    pc \in {"read", "close"} /\ status = 0
        => first = 0 \/ (first = -1 /\ conn = "shut")

IInv == TypeOK /\ NewestFirst /\ ZeroStatus

LEMMA InitIInv == Init => IInv
<1> SUFFICES ASSUME Init PROVE IInv
  OBVIOUS
<1>1. ParserOK
  BY InitParserOK DEF Init
<1>2. TypeOK
  BY <1>1, BufferAssumption, QueriesAssumption DEF Init, TypeOK
<1> QED
  BY <1>2, BufferAssumption
  DEF Init, IInv, NewestFirst, StaleOnlyBehind, ZeroStatus, Cells

LEMMA StepTypeOK == IInv /\ [Next]_vars => TypeOK'
<1> SUFFICES ASSUME TypeOK, [Next]_vars PROVE TypeOK'
  BY DEF IInv
<1>0. MaxQueries \in Nat /\ Buffer \in Nat /\ 0 \in 0..Buffer /\ Buffer # 0
  BY BufferAssumption, QueriesAssumption
<1> USE <1>0 DEF TypeOK
<1>1. CASE ReadOptions
  <2>1. ParserOK'
    BY <1>1, StepParserOK DEF ReadOptions
  <2> QED
    BY <1>1, <2>1 DEF ReadOptions, asked, line
<1>2. CASE StartQuery
  <2>1. ParserOK'
    BY <1>2, DefaultsAreOptions, EmptySeq DEF StartQuery, ParserOK
  <2> QED
    BY <1>2, <2>1 DEF StartQuery, line
<1>3. ASSUME UNCHANGED parser PROVE ParserOK'
  BY <1>3 DEF parser, ParserOK
<1>4. CASE Resolve \/ Sigterm \/ Close
  BY <1>3, <1>4 DEF Resolve, Sigterm, Close, Return, line
<1>5. CASE Connect
  <2>1. query' \in 0..MaxQueries
    BY <1>5 DEF Connect
  <2> QED
    BY <1>3, <1>5, <2>1 DEF Connect, Return, line
<1>6. CASE SendCommand \/ ReadStatus \/ NoStatus
  BY <1>3, <1>6 DEF SendCommand, ReadStatus, NoStatus, StartRead, line
<1>7. ASSUME NEW n \in 0..Buffer, Take(n), n =< arrived, total + n =< Buffer
      PROVE  /\ total' \in 0..Buffer /\ arrived' \in 0..Buffer
             /\ control' \in [Cells -> 0..MaxQueries]
             /\ UNCHANGED <<conn, first>>
  BY <1>7 DEF Take
<1>8. CASE FillBuffer
  <2>1. Buffer - total \in 0..Buffer
    OBVIOUS
  <2> QED
    BY <1>3, <1>7, <1>8, <2>1 DEF FillBuffer, ReadDone
<1>9. CASE ReadPart
  <2>1. arrived \in 0..Buffer /\ total + arrived =< Buffer
    BY <1>9 DEF ReadPart
  <2> QED
    BY <1>3, <1>7, <1>9, <2>1 DEF ReadPart
<1>10. CASE ReadEnd \/ AlarmRestarts
  BY <1>3, <1>10 DEF ReadEnd, AlarmRestarts, ReadDone, line
<1>11. CASE Arrive \/ Disconnect
  BY <1>3, <1>11 DEF Arrive, Disconnect, asked
<1>12. CASE UNCHANGED vars
  BY <1>3, <1>12 DEF vars, asked, line
<1> QED
  BY <1>1, <1>2, <1>4, <1>5, <1>6, <1>8, <1>9, <1>10, <1>11, <1>12 DEF Next

-----------------------------------------------------------------------------
(* Text put behind what was read already keeps the newest in front.        *)
LEMMA TakeKeepsOrder ==
    ASSUME IInv, NEW n \in Nat, Take(n), pc = "read", UNCHANGED query,
           total + n =< Buffer
    PROVE  NewestFirst'
<1>1. /\ control \in [Cells -> 0..MaxQueries] /\ query \in Nat
      /\ total \in Nat
      /\ \A c, d \in Cells : c < d => control[c] >= control[d]
      /\ \A c \in Cells : control[c] =< query
      /\ \A c \in 1..total : control[c] = query
      /\ Buffer \in Nat
  BY BufferAssumption
  DEF IInv, TypeOK, NewestFirst, StaleOnlyBehind
<1>2. total' = total + n
  BY DEF Take
<1>3. \A c \in Cells : control'[c] = IF c =< total + n THEN query ELSE control[c]
  BY <1>1 DEF Take, Cells
<1>4. \A c \in Cells : control[c] \in Nat
  BY <1>1, QueriesAssumption
<1>5. \A c \in 1..total' : control'[c] = query'
  BY <1>1, <1>2, <1>3 DEF Cells
<1>6. \A c, d \in Cells : c < d => control'[c] >= control'[d]
  BY <1>1, <1>3, <1>4 DEF Cells
<1>7. \A c \in Cells : control'[c] =< query'
  BY <1>1, <1>3, <1>4
<1> QED
  BY <1>5, <1>6, <1>7 DEF NewestFirst, StaleOnlyBehind

LEMMA StepNewestFirst == IInv /\ [Next]_vars => NewestFirst'
<1> SUFFICES ASSUME IInv, [Next]_vars PROVE NewestFirst'
  OBVIOUS
<1>0. Buffer \in Nat /\ total \in 0..Buffer /\ arrived \in 0..Buffer
  BY BufferAssumption DEF IInv, TypeOK
<1>1. CASE FillBuffer
  <2>1. Buffer - total \in Nat /\ total + (Buffer - total) =< Buffer
    BY <1>0
  <2> QED
    BY <1>1, <2>1, TakeKeepsOrder DEF FillBuffer
<1>2. CASE ReadPart
  <2>1. arrived \in Nat /\ total + arrived =< Buffer
    BY <1>0, <1>2 DEF ReadPart
  <2> QED
    BY <1>2, <2>1, TakeKeepsOrder DEF ReadPart
<1>3. CASE Connect
  <2>1. /\ control' = control /\ query' >= query /\ pc' # "read"
        /\ query' \in Nat
    BY <1>3 DEF Connect, Return, IInv, TypeOK
  <2>2. \A c \in Cells : control[c] =< query'
    BY <2>1, QueriesAssumption DEF IInv, TypeOK, NewestFirst
  <2> QED
    BY <2>1, <2>2 DEF IInv, NewestFirst, StaleOnlyBehind
<1>4. CASE UNCHANGED <<control, query>> /\ StartRead
  <2>1. \A c \in 1..total' : control'[c] = query'
    BY <1>4 DEF StartRead
  <2> QED
    BY <1>4, <2>1 DEF IInv, NewestFirst, StaleOnlyBehind
<1>5. CASE UNCHANGED <<control, query, total>> /\ (pc' = "read" => pc = "read")
  BY <1>5 DEF IInv, NewestFirst, StaleOnlyBehind
<1>6. CASE SendCommand \/ ReadStatus \/ NoStatus
  BY <1>4, <1>5, <1>6 DEF SendCommand, ReadStatus, NoStatus
<1> QED
  BY <1>1, <1>2, <1>3, <1>5, <1>6
  DEF Next, vars, asked, ReadOptions, StartQuery, Resolve, ReadEnd, ReadDone,
      AlarmRestarts, Close, Sigterm, Arrive, Disconnect, Return

LEMMA StepZeroStatus == IInv /\ [Next]_vars => ZeroStatus'
<1> SUFFICES ASSUME IInv, [Next]_vars, pc' \in {"read", "close"}, status' = 0
             PROVE  first' = 0 \/ (first' = -1 /\ conn' = "shut")
  BY DEF ZeroStatus
<1>1. CASE SendCommand \/ ReadStatus \/ NoStatus
  BY <1>1 DEF SendCommand, ReadStatus, NoStatus, line
<1>2. CASE pc \in {"read", "close"} /\ UNCHANGED <<status, first, conn>>
  BY <1>2 DEF IInv, ZeroStatus
<1>3. CASE FillBuffer \/ ReadPart \/ ReadEnd
  BY <1>2, <1>3 DEF FillBuffer, ReadPart, ReadEnd, Take, line
<1>4. CASE Arrive \/ Disconnect
  BY <1>4 DEF Arrive, Disconnect, asked, IInv, ZeroStatus
<1>5. CASE AlarmRestarts \/ UNCHANGED vars
  BY <1>2, <1>5 DEF AlarmRestarts, vars, asked, line
<1>6. CASE ReadOptions \/ StartQuery \/ Resolve \/ Connect \/ Close \/ Sigterm
  BY <1>6 DEF ReadOptions, StartQuery, Resolve, Connect, Close, Sigterm, Return,
              asked
<1> QED
  BY <1>1, <1>3, <1>4, <1>5, <1>6 DEF Next

LEMMA Invariance == Spec => []IInv
<1>1. Init => IInv
  BY InitIInv
<1>2. IInv /\ [Next]_vars => IInv'
  BY StepTypeOK, StepNewestFirst, StepZeroStatus DEF IInv
<1> QED
  BY <1>1, <1>2, PTL DEF Spec

(* Every reachable state is well typed: the parser's pointer never leaves  *)
(* the text, and no more of control[] is counted as read than there is.    *)
THEOREM TypeCorrect == Spec => []TypeOK
<1>1. IInv => TypeOK
  BY DEF IInv
<1> QED
  BY <1>1, Invariance, PTL

(* However the reads of an answer are cut up and whatever the answers      *)
(* before it were, old text in control[] comes only behind newer text.     *)
THEOREM OldTextIsBehind == Spec => []StaleOnlyBehind
<1>1. IInv => StaleOnlyBehind
  BY DEF IInv, NewestFirst
<1> QED
  BY <1>1, Invariance, PTL

(* The program leaves off only at a zero byte or at a printer that hung up *)
(* without a word.                                                         *)
THEOREM SuccessOnlyAtSilence == Spec => []SuccessIsSilence
<1>1. IInv => SuccessIsSilence
  BY DEF IInv, ZeroStatus, SuccessIsSilence
<1> QED
  BY <1>1, Invariance, PTL

-----------------------------------------------------------------------------
(***************************************************************************)
(* The options.  All that the loop takes from the text is a part of it     *)
(* between two positions: Cut says what Before and After make of one.      *)
(***************************************************************************)
LEMMA Part ==
    ASSUME NEW t \in Seq(STRING), NEW i \in 1..Len(t) + 1, NEW j \in i - 1..Len(t)
    PROVE  /\ SubSeq(t, i, j) \in Seq(STRING)
           /\ Len(SubSeq(t, i, j)) = j - i + 1
           /\ \A m \in 1..j - i + 1 : SubSeq(t, i, j)[m] = t[i + m - 1]
<1>1. Len(t) \in Nat
  BY LenProperties
<1>2. \A m \in i..j : t[m] \in STRING
  BY <1>1, ElementOfSeq
<1>3. i \in Int /\ j \in Int /\ (i =< j \/ j - i + 1 = 0)
  BY <1>1
<1> QED
  BY <1>1, <1>2, <1>3, SubSeqProperties

LEMMA Cut ==
    ASSUME NEW t \in Seq(STRING), NEW i \in 1..Len(t) + 1,
           NEW j \in i - 1..Len(t), NEW c
    PROVE  \E k \in i..j + 1 :
               /\ \A m \in i..k - 1 : t[m] # c
               /\ k =< j => t[k] = c
               /\ Before(SubSeq(t, i, j), c) = SubSeq(t, i, k - 1)
               /\ After(SubSeq(t, i, j), c) = SubSeq(t, k + 1, j)
               /\ Contains(SubSeq(t, i, j), c) <=> k =< j
<1> DEFINE s == SubSeq(t, i, j)
           I == {m \in 1..Len(s) : s[m] = c}
           f == SelectInSeq(s, LAMBDA w : w = c)
<1>0. Len(t) \in Nat
  BY LenProperties
<1>2. /\ s \in Seq(STRING)
      /\ Len(s) = j - i + 1
      /\ \A m \in 1..j - i + 1 : s[m] = t[i + m - 1]
  BY <1>0, Part
<1>3. f = IF I # {} THEN Min(I) ELSE 0
  BY DEF SelectInSeq
<1>4. Before(s, c) = IF f = 0 THEN s ELSE SubSeq(s, 1, f - 1)
  BY DEF Before
<1>5. After(s, c) = SubSeq(s, Len(Before(s, c)) + 2, Len(s))
  BY DEF After
<1>6. ASSUME NEW a \in 1..j - i + 2, NEW b \in a - 1..j - i + 1
      PROVE  SubSeq(s, a, b) = SubSeq(t, i + a - 1, i + b - 1)
  <2> DEFINE u == SubSeq(s, a, b)
             v == SubSeq(t, i + a - 1, i + b - 1)
  <2>1. /\ u \in Seq(STRING)
        /\ Len(u) = b - a + 1
        /\ \A m \in 1..b - a + 1 : u[m] = s[a + m - 1]
    <3>1. a \in 1..Len(s) + 1 /\ b \in a - 1..Len(s)
      BY <1>0, <1>2
    <3> QED
      BY <1>2, <3>1, Part
  <2>2. PICK p \in 1..Len(t) + 1 : p = i + a - 1
    BY <1>0
  <2>3. PICK q \in p - 1..Len(t) : q = i + b - 1
    BY <1>0, <2>2
  <2>4. /\ v \in Seq(STRING)
        /\ Len(v) = q - p + 1
        /\ \A m \in 1..q - p + 1 : v[m] = t[p + m - 1]
    BY <2>2, <2>3, Part
  <2> HIDE DEF u, v, s
  <2>5. q - p + 1 = b - a + 1
    BY <1>0, <2>2, <2>3
  <2>6. \A m \in 1..Len(u) : u[m] = v[m]
    <3> SUFFICES ASSUME NEW m \in 1..Len(u) PROVE u[m] = v[m]
      OBVIOUS
    <3>1. m \in 1..b - a + 1 /\ a + m - 1 \in 1..j - i + 1
      BY <1>0, <2>1
    <3>2. u[m] = t[i + (a + m - 1) - 1]
      BY <1>2, <2>1, <3>1
    <3>3. v[m] = t[p + m - 1]
      BY <2>4, <2>5, <3>1
    <3>4. i + (a + m - 1) - 1 = p + m - 1
      BY <1>0, <2>2, <3>1
    <3> QED
      BY <3>2, <3>3, <3>4
  <2>7. u = v
    BY <2>1, <2>4, <2>5, <2>6, SeqEqual
  <2> QED
    BY <2>7 DEF u, v
<1> HIDE DEF f, s
<1>7. CASE I = {}
  <2>1. Before(s, c) = s
    BY <1>3, <1>4, <1>7
  <2>2. After(s, c) = SubSeq(t, j + 2, j)
    <3>1. After(s, c) = <<>>
      BY <1>0, <1>2, <1>5, <2>1, SubSeqEmpty
    <3>2. SubSeq(t, j + 2, j) = <<>>
      BY <1>0, SubSeqEmpty
    <3> QED
      BY <3>1, <3>2
  <2>3. \A m \in 1..j - i + 1 : s[m] # c
    BY <1>2, <1>7
  <2>4. \A m \in i..j : t[m] # c
    <3> SUFFICES ASSUME NEW m \in i..j PROVE t[m] # c
      OBVIOUS
    <3>1. m - i + 1 \in 1..j - i + 1 /\ i + (m - i + 1) - 1 = m
      BY <1>0
    <3> QED
      BY <1>2, <2>3, <3>1
  <2>5. ~Contains(s, c)
    BY <1>2, <2>3 DEF Contains
  <2> WITNESS j + 1 \in i..j + 1
  <2>6. j + 1 - 1 = j /\ ~(j + 1 =< j) /\ j + 1 + 1 = j + 2
    BY <1>0
  <2> QED
    BY <2>1, <2>2, <2>4, <2>5, <2>6 DEF s
<1>8. CASE I # {}
  <2>0. I \in SUBSET Nat /\ I # {}
    BY <1>0, <1>2, <1>8
  <2>1. f \in 1..Len(s) /\ s[f] = c /\ \A m \in I : f =< m
    <3>1. Min(I) \in I /\ \A m \in I : Min(I) =< m
      BY ONLY <2>0, MinIsLeast
    <3> QED
      BY <1>3, <1>8, <3>1
  <2> DEFINE k == i + f - 1
  <2>2. k \in i..j /\ t[k] = c
    BY <1>0, <1>2, <2>1
  <2>3. Before(s, c) = SubSeq(t, i, k - 1)
    <3>1. 1 \in 1..j - i + 2 /\ f - 1 \in 1 - 1..j - i + 1
      BY <1>0, <1>2, <2>1
    <3>2. SubSeq(s, 1, f - 1) = SubSeq(t, i + 1 - 1, i + (f - 1) - 1)
      BY <1>6, <3>1
    <3>3. i + 1 - 1 = i /\ i + (f - 1) - 1 = k - 1
      BY <1>0, <1>2, <2>1
    <3> QED
      BY <1>0, <1>2, <1>4, <2>1, <3>2, <3>3
  <2>4. Len(Before(s, c)) = f - 1
    <3>1. PICK q \in i - 1..Len(t) : q = k - 1
      BY <1>0, <2>2
    <3>2. Len(SubSeq(t, i, q)) = q - i + 1
      BY Part
    <3>3. q - i + 1 = f - 1
      BY <1>0, <1>2, <2>1, <3>1
    <3> QED
      BY <2>3, <3>1, <3>2, <3>3
  <2>5. After(s, c) = SubSeq(t, k + 1, j)
    <3>1. f + 1 \in 1..j - i + 2 /\ Len(s) \in f + 1 - 1..j - i + 1
      BY <1>0, <1>2, <2>1
    <3>2. PICK a \in 1..j - i + 2, b \in f + 1 - 1..j - i + 1 :
              a = f + 1 /\ b = Len(s)
      BY <3>1
    <3>3. SubSeq(s, f + 1, Len(s)) = SubSeq(t, i + (f + 1) - 1, i + Len(s) - 1)
      <4>1. b \in a - 1..j - i + 1
        BY <1>2, <2>1, <3>2
      <4>2. SubSeq(s, a, b) = SubSeq(t, i + a - 1, i + b - 1)
        BY <1>6, <4>1
      <4> QED
        BY <3>2, <4>2
    <3>4. i + (f + 1) - 1 = k + 1 /\ i + Len(s) - 1 = j /\ f - 1 + 2 = f + 1
      BY <1>0, <1>2, <2>1
    <3> QED
      BY <1>5, <2>4, <3>3, <3>4
  <2>6. \A m \in i..k - 1 : t[m] # c
    <3> SUFFICES ASSUME NEW m \in i..k - 1, t[m] = c PROVE FALSE
      OBVIOUS
    <3>1. m - i + 1 \in 1..Len(s) /\ i + (m - i + 1) - 1 = m /\ m - i + 1 < f
      BY <1>0, <1>2, <2>1
    <3>2. s[m - i + 1] = c
      BY <1>2, <3>1
    <3> QED
      BY <1>0, <1>2, <2>1, <3>1, <3>2
  <2>7. Contains(s, c)
    BY <2>1 DEF Contains
  <2> HIDE DEF k
  <2>8. k \in i..j + 1 /\ k =< j
    BY <1>0, <2>2
  <2> QED
    BY <2>2, <2>3, <2>5, <2>6, <2>7, <2>8 DEF s
<1> QED
  BY <1>7, <1>8

(* Whether a value that o takes is taken does not hang on what o had.      *)
LEMMA FormatIsTaken == \A w \in DOMAIN FormatOf : FormatOf[w] # "kept"
  BY Zenon DEF FormatOf

LEMMA HeadOfOne == \A w : Head(<<w>>) = w
  OBVIOUS

LEMMA MeaningIsKept ==
    ASSUME NEW o \in Options, NEW v, NEW a
    PROVE  Meaning(o, v, a)
               = IF Meaning(o, v, "kept") = "kept" THEN a ELSE Meaning(o, v, "kept")
<1>1. o \in Flags \/ o = "format" \/ o = "order" \/ o = "reserve" \/ o = "timeout"
  BY Zenon DEF Options
<1>2. o \in Flags => o # "format" /\ o # "order" /\ o # "reserve" /\ o # "timeout"
  BY Zenon DEF Flags
<1>3. CASE o \in Flags
  <2>1. \A b : Meaning(o, v, b) = IF v \in {<<>>, <<"on">>} THEN "on" ELSE "off"
    BY <1>2, <1>3, Zenon DEF Meaning
  <2> QED
    BY <2>1, Zenon
<1>4. CASE o = "format"
  BY <1>2, <1>4, FormatIsTaken, ZenonT(60) DEF Meaning
<1>5. CASE o = "order"
  <2>1. \A b : Meaning(o, v, b)
                   = IF v \in {<<"control,data">>, <<"data,control">>} THEN Head(v) ELSE b
    BY <1>2, <1>5, Zenon DEF Meaning
  <2>2. v \in {<<"control,data">>, <<"data,control">>}
            => Head(v) = "control,data" \/ Head(v) = "data,control"
    BY HeadOfOne, Zenon
  <2>3. CASE v \in {<<"control,data">>, <<"data,control">>}
    <3>1. \A b : Meaning(o, v, b) = Head(v)
      BY <2>1, <2>3, Zenon
    <3>2. Head(v) # "kept"
      BY <2>2, <2>3, Zenon
    <3> QED
      BY <3>1, <3>2, Zenon
  <2>4. CASE v \notin {<<"control,data">>, <<"data,control">>}
    <3>1. Meaning(o, v, a) = a
      BY <2>1, <2>4, Zenon
    <3>2. Meaning(o, v, "kept") = "kept"
      BY <2>1, <2>4, Zenon
    <3> QED
      BY <3>1, <3>2, Zenon
  <2> QED
    BY <2>3, <2>4, Zenon
<1>6. CASE o = "reserve"
  BY <1>2, <1>6, ZenonT(60) DEF Meaning
<1>7. CASE o = "timeout"
  BY <1>2, <1>7, ZenonT(60) DEF Meaning
<1> QED
  BY <1>1, <1>3, <1>4, <1>5, <1>6, <1>7, Zenon

(* What lpd takes from i on, up to the '=' and from there to the '+', and  *)
(* where it goes on.                                                       *)
NameAt(i)  == Before(SubSeq(text, i, Len(text)), "=")
RestAt(i)  == After(SubSeq(text, i, Len(text)), "=")
ValueAt(i) == Before(RestAt(i), "+")
NextAt(i)  == After(RestAt(i), "+")

(* The field at i has its '=', or nothing comes behind it.                 *)
Clear(i) == Contains(Field(i), "=") \/ i + Len(Field(i)) > Len(text)

(* Where a field is clear, lpd takes its name and its value from it, and   *)
(* goes on at the next one.  A name of one word is that of a clear field.  *)
(* The proof names positions: k ends the field at i, f the name and g the  *)
(* value that lpd takes there, h begins that value, e is where the field's *)
(* own '=' is.                                                             *)
LEMMA FieldRead ==
    ASSUME text \in Seq(STRING), NEW i \in Starts
    PROVE  /\ \A o : o # "+" /\ NameAt(i) = <<o>> =>
                 Clear(i) /\ (Contains(Field(i), "=") \/ i = Len(text))
           /\ Clear(i) => NameAt(i) = Before(Field(i), "=")
                          /\ ValueAt(i) = After(Field(i), "=")
           /\ \E q \in i + 1..Len(text) + 1 :
                 /\ NextAt(i) = SubSeq(text, q, Len(text))
                 /\ q =< Len(text) => q \in Starts
                 /\ Clear(i) => \A j \in Starts : j =< i \/ q =< j
<1> DEFINE n == Len(text)
<1>0. /\ n \in Nat /\ i \in 1..n /\ i \in 1..n + 1 /\ n \in i - 1..n
  BY LenProperties DEF Starts
<1>1. PICK k \in i..n + 1 :
         /\ \A m \in i..k - 1 : text[m] # "+"
         /\ k =< n => text[k] = "+"
         /\ Field(i) = SubSeq(text, i, k - 1)
  <2>1. \E k \in i..n + 1 :
           /\ \A m \in i..k - 1 : text[m] # "+"
           /\ k =< n => text[k] = "+"
           /\ Before(SubSeq(text, i, n), "+") = SubSeq(text, i, k - 1)
           /\ After(SubSeq(text, i, n), "+") = SubSeq(text, k + 1, n)
           /\ Contains(SubSeq(text, i, n), "+") <=> k =< n
    BY <1>0, Cut
  <2> QED
    BY <2>1 DEF Field
<1>2. PICK f \in i..n + 1 :
         /\ \A m \in i..f - 1 : text[m] # "="
         /\ f =< n => text[f] = "="
         /\ NameAt(i) = SubSeq(text, i, f - 1)
         /\ RestAt(i) = SubSeq(text, f + 1, n)
  <2>1. \E f \in i..n + 1 :
           /\ \A m \in i..f - 1 : text[m] # "="
           /\ f =< n => text[f] = "="
           /\ Before(SubSeq(text, i, n), "=") = SubSeq(text, i, f - 1)
           /\ After(SubSeq(text, i, n), "=") = SubSeq(text, f + 1, n)
           /\ Contains(SubSeq(text, i, n), "=") <=> f =< n
    BY <1>0, Cut
  <2> QED
    BY <2>1 DEF NameAt, RestAt
<1>3. PICK e \in i..k :
         /\ \A m \in i..e - 1 : text[m] # "="
         /\ e < k => text[e] = "="
         /\ Before(Field(i), "=") = SubSeq(text, i, e - 1)
         /\ After(Field(i), "=") = SubSeq(text, e + 1, k - 1)
         /\ Contains(Field(i), "=") <=> e < k
  <2>1. PICK l \in i - 1..n : l = k - 1
    BY <1>0
  <2>2. \E e \in i..l + 1 :
           /\ \A m \in i..e - 1 : text[m] # "="
           /\ e =< l => text[e] = "="
           /\ Before(SubSeq(text, i, l), "=") = SubSeq(text, i, e - 1)
           /\ After(SubSeq(text, i, l), "=") = SubSeq(text, e + 1, l)
           /\ Contains(SubSeq(text, i, l), "=") <=> e =< l
    BY <1>0, Cut
  <2>3. PICK e \in i..l + 1 :
           /\ \A m \in i..e - 1 : text[m] # "="
           /\ e =< l => text[e] = "="
           /\ Before(Field(i), "=") = SubSeq(text, i, e - 1)
           /\ After(Field(i), "=") = SubSeq(text, e + 1, l)
           /\ Contains(Field(i), "=") <=> e =< l
    BY <1>1, <2>1, <2>2
  <2>4. e \in i..k /\ (e =< l <=> e < k)
    BY <1>0, <2>1
  <2> QED
    BY <2>1, <2>3, <2>4
<1>4. Len(Field(i)) = k - i
  <2>1. PICK l \in i - 1..n : l = k - 1
    BY <1>0
  <2>2. Len(SubSeq(text, i, l)) = l - i + 1
    BY <1>0, Part
  <2> QED
    BY <1>0, <1>1, <2>1, <2>2
<1>5. \A a \in Nat : a > n => SubSeq(text, a, n) = <<>>
  BY <1>0, SubSeqEmpty
<1>6. PICK h \in i + 1..n + 1 :
         RestAt(i) = SubSeq(text, h, n) /\ (f =< n => h = f + 1) /\ (f > n => h = n + 1)
  <2>1. RestAt(i) = SubSeq(text, f + 1, n)
    BY <1>2
  <2>2. CASE f =< n
    <3>1. f + 1 \in i + 1..n + 1
      BY <1>0, <2>2
    <3> QED
      BY <2>1, <2>2, <3>1
  <2>3. CASE f = n + 1
    <3>1. f + 1 \in Nat /\ n + 1 \in Nat /\ f + 1 > n /\ n + 1 > n
      BY <1>0, <2>3
    <3>2. SubSeq(text, f + 1, n) = <<>> /\ SubSeq(text, n + 1, n) = <<>>
      BY <1>5, <3>1
    <3>3. n + 1 \in i + 1..n + 1 /\ f > n /\ ~(f =< n)
      BY <1>0, <2>3
    <3> QED
      BY <2>1, <3>2, <3>3
  <2>4. f =< n \/ f = n + 1
    BY <1>0
  <2> QED
    BY <2>2, <2>3, <2>4
<1>7. PICK g \in h..n + 1 :
         /\ \A m \in h..g - 1 : text[m] # "+"
         /\ g =< n => text[g] = "+"
         /\ ValueAt(i) = SubSeq(text, h, g - 1)
         /\ NextAt(i) = SubSeq(text, g + 1, n)
  <2>1. h \in 1..n + 1 /\ n \in h - 1..n
    BY <1>0
  <2>2. \E g \in h..n + 1 :
           /\ \A m \in h..g - 1 : text[m] # "+"
           /\ g =< n => text[g] = "+"
           /\ Before(SubSeq(text, h, n), "+") = SubSeq(text, h, g - 1)
           /\ After(SubSeq(text, h, n), "+") = SubSeq(text, g + 1, n)
           /\ Contains(SubSeq(text, h, n), "+") <=> g =< n
    BY <2>1, Cut
  <2>3. RestAt(i) = SubSeq(text, h, n)
    BY <1>6
  <2> QED
    BY <2>2, <2>3 DEF ValueAt, NextAt
<1>k1. \A m \in i..k - 1 : text[m] # "+"
  BY <1>1
<1>k2. k =< n => text[k] = "+"
  BY <1>1
<1>f1. \A m \in i..f - 1 : text[m] # "="
  BY <1>2
<1>f2. f =< n => text[f] = "="
  BY <1>2
<1>e1. \A m \in i..e - 1 : text[m] # "="
  BY <1>3
<1>e2. e < k => text[e] = "="
  BY <1>3
<1>g1. \A m \in h..g - 1 : text[m] # "+"
  BY <1>7
<1>g2. g =< n => text[g] = "+"
  BY <1>7
<1>h1. f =< n => h = f + 1
  BY <1>6
<1>8. Clear(i) <=> e < k \/ k = n + 1
  <2>1. Clear(i) <=> e < k \/ i + (k - i) > n
    BY <1>3, <1>4 DEF Clear
  <2>2. i + (k - i) > n <=> k = n + 1
    BY <1>0
  <2> QED
    BY <2>1, <2>2
<1>9. e < k => f = e /\ h = f + 1 /\ g = k
  <2>1. e < k => f = e
    BY <1>0, <1>f1, <1>f2, <1>e1, <1>e2
  <2>2. e < k => f =< n /\ h = f + 1
    BY <1>0, <1>h1, <2>1
  <2>3. e < k => g = k
    BY <1>0, <1>k1, <1>k2, <1>g1, <1>g2, <2>1, <2>2
  <2> QED
    BY <2>1, <2>2, <2>3
<1>10. e = k /\ k = n + 1 => f = n + 1 /\ h = n + 1 /\ g = n + 1
  <2>1. e = k /\ k = n + 1 => f = n + 1
    BY <1>0, <1>2, <1>3
  <2> QED
    BY <1>0, <1>6, <1>7, <2>1
<1>11. ASSUME NEW o, o # "+", NameAt(i) = <<o>>
       PROVE  Clear(i) /\ (Contains(Field(i), "=") \/ i = n)
  <2>1. PICK l \in i - 1..n : l = f - 1
    BY <1>0
  <2>2. /\ Len(NameAt(i)) = l - i + 1
        /\ \A m \in 1..l - i + 1 : NameAt(i)[m] = text[i + m - 1]
    BY <1>0, <1>2, <2>1, Part
  <2>3. f = i + 1
    BY <1>0, <1>11, <2>1, <2>2
  <2>4. text[i] = o
    BY <1>0, <1>11, <2>1, <2>2, <2>3
  <2>5. k >= i + 1
    BY <1>0, <1>k2, <1>11, <2>4
  <2>6. CASE f =< n
    <3>1. text[i + 1] = "="
      BY <1>f2, <2>3, <2>6
    <3>2. k > i + 1
      BY <1>0, <1>k2, <2>3, <2>5, <2>6, <3>1
    <3>3. e < k
      BY <1>0, <1>e1, <2>3, <3>1, <3>2
    <3> QED
      BY <1>3, <1>8, <3>3
  <2>7. CASE f > n
    BY <1>0, <1>3, <1>8, <2>3, <2>5, <2>7
  <2> QED
    BY <1>0, <2>6, <2>7
<1>12. ASSUME Clear(i)
       PROVE  NameAt(i) = Before(Field(i), "=") /\ ValueAt(i) = After(Field(i), "=")
  <2>1. CASE e < k
    BY <1>2, <1>3, <1>7, <1>9, <2>1
  <2>2. CASE e = k /\ k = n + 1
    <3>1. ValueAt(i) = <<>> /\ After(Field(i), "=") = <<>>
      BY <1>0, <1>3, <1>7, <1>10, <2>2, SubSeqEmpty
    <3> QED
      BY <1>2, <1>3, <1>10, <2>2, <3>1
  <2> QED
    BY <1>0, <1>8, <1>12, <2>1, <2>2
<1>13. PICK q \in i + 1..n + 1 : IF g =< n THEN q = g + 1 ELSE q = n + 1
  BY <1>0
<1>14. NextAt(i) = SubSeq(text, q, n)
  <2>1. NextAt(i) = SubSeq(text, g + 1, n)
    BY <1>7
  <2>2. CASE g =< n
    BY <1>13, <2>1, <2>2
  <2>3. CASE g = n + 1
    <3>1. g + 1 \in Nat /\ n + 1 \in Nat /\ g + 1 > n /\ n + 1 > n /\ ~(g =< n)
      BY <1>0, <2>3
    <3>2. SubSeq(text, g + 1, n) = <<>> /\ SubSeq(text, n + 1, n) = <<>>
      BY <1>5, <3>1
    <3> QED
      BY <1>13, <2>1, <3>1, <3>2
  <2>4. g =< n \/ g = n + 1
    BY <1>0
  <2> QED
    BY <2>2, <2>3, <2>4
<1>15. q =< n => q \in Starts
  <2>1. q =< n => text[q - 1] = "+" /\ q \in 1..n
    BY <1>0, <1>7, <1>13
  <2> QED
    BY <2>1 DEF Starts
<1>16. ASSUME Clear(i), NEW j \in Starts, i < j, j < q
       PROVE  FALSE
  <2>1. j \in 2..n /\ text[j - 1] = "+"
    BY <1>0, <1>16 DEF Starts
  <2>2. j - 1 \in i..k - 1
    BY <1>0, <1>8, <1>9, <1>10, <1>13, <1>16, <2>1
  <2> QED
    BY <1>1, <2>1, <2>2
<1>17. \A j \in Starts : j \in Nat
  BY <1>0 DEF Starts
<1>18. Clear(i) => \A j \in Starts : j =< i \/ q =< j
  BY <1>0, <1>16, <1>17
<1> QED
  BY <1>11, <1>12, <1>14, <1>15, <1>18

(* A number of S that none of S is above is its Max.                       *)
LEMMA MaxIs ==
    ASSUME NEW S \in SUBSET Nat, NEW p \in S, \A x \in S : x =< p
    PROVE  Max(S) = p
<1>1. \E x \in S : \A y \in S : x >= y
  OBVIOUS
<1>2. Max(S) \in S /\ \A y \in S : Max(S) >= y
  BY <1>1 DEF Max
<1>3. PICK m \in Nat : m = Max(S)
  BY <1>2
<1>4. m >= p /\ m =< p
  BY <1>2, <1>3
<1> QED
  BY <1>3, <1>4

-----------------------------------------------------------------------------
(* What the field at i makes of o, and the fields before p that set o.     *)
Said(o, i)  == Meaning(o, After(Field(i), "="), "kept")
Below(o, p) == {i \in Says(o) : i < p}

(* The options are what the fields before p make of them.                  *)
ReadTo(p) ==
    \A o \in Options :
        /\ opts[o] = Defaults[o] \/ \E i \in Says(o) : opts[o] = Said(o, i)
        /\ (\A i \in Starts : Clear(i)) =>
              opts[o] = IF Below(o, p) = {} THEN Defaults[o]
                        ELSE Said(o, Max(Below(o, p)))

(* Where the loop is in the text, what it took from there, and what the    *)
(* options are.                                                            *)
Progress ==
    /\ parse = "name" =>
          \E p \in 1..Len(text) + 1 :
             /\ rest = SubSeq(text, p, Len(text))
             /\ p =< Len(text) => p \in Starts
             /\ ReadTo(p)
    /\ parse = "value" =>
          \E p \in Starts : ReadTo(p) /\ name = NameAt(p) /\ rest = RestAt(p)
    /\ parse = "set" =>
          \E p \in Starts :
             ReadTo(p) /\ name = NameAt(p) /\ value = ValueAt(p) /\ rest = NextAt(p)
    /\ parse = "parsed" => ReadTo(Len(text) + 1)

(* What these say of the text changes only with it.                        *)
LEMMA SameText ==
    ASSUME text' = text, NEW p, NEW o
    PROVE  /\ Starts' = Starts
           /\ Clear(p)' <=> Clear(p)
           /\ Said(o, p)' = Said(o, p) /\ Says(o)' = Says(o)
           /\ Below(o, p)' = Below(o, p)
           /\ NameAt(p)' = NameAt(p) /\ RestAt(p)' = RestAt(p)
           /\ ValueAt(p)' = ValueAt(p) /\ NextAt(p)' = NextAt(p)
<1>1. Starts' = Starts
  BY DEF Starts
<1>2. \A i : Field(i)' = Field(i)
  BY DEF Field
<1>3. Says(o)' = Says(o)
  BY <1>1, <1>2 DEF Says
<1>4. RestAt(p)' = RestAt(p)
  BY DEF RestAt
<1> QED
  BY <1>1, <1>2, <1>3, <1>4
  DEF Clear, Said, Below, NameAt, ValueAt, NextAt

LEMMA SameOptions ==
    ASSUME UNCHANGED <<text, opts>>, NEW p
    PROVE  ReadTo(p)' <=> ReadTo(p)
<1>1. Starts' = Starts /\ \A i : Clear(i)' <=> Clear(i)
  BY SameText
<1>2. \A o : Below(o, p)' = Below(o, p) /\ Says(o)' = Says(o)
  BY SameText
<1>3. \A o, i : Said(o, i)' = Said(o, i)
  BY SameText
<1> QED
  BY <1>1, <1>2, <1>3 DEF ReadTo

(* Before the first field nothing is said.                                 *)
LEMMA NothingRead ==
    ASSUME text \in Seq(STRING), opts = Defaults
    PROVE  ReadTo(1)
<1>1. \A i \in Starts : i \in Nat /\ i >= 1
  BY LenProperties DEF Starts
<1>2. \A o : Below(o, 1) = {}
  BY <1>1 DEF Below, Says
<1> QED
  BY <1>2 DEF ReadTo

LEMMA OptionNames == "+" \notin Options
  BY Zenon DEF Options, Flags

LEMMA InitProgress == ParserInit => Progress
<1> SUFFICES ASSUME ParserInit PROVE Progress
  OBVIOUS
<1>1. text \in Seq(STRING) /\ Len(text) \in Nat
  BY TextsAssumption, LenProperties DEF ParserInit
<1>2. ReadTo(1)
  BY <1>1, NothingRead DEF ParserInit
<1>3. rest = SubSeq(text, 1, Len(text))
  BY <1>1, SubSeqFull DEF ParserInit
<1>4. 1 \in 1..Len(text) + 1 /\ (1 =< Len(text) => 1 \in Starts)
  BY <1>1 DEF Starts
<1>5. parse = "name"
  BY DEF ParserInit
<1> QED
  BY <1>2, <1>3, <1>4, <1>5 DEF Progress

(* One option more is processed: the field at p and no other.              *)
LEMMA StepSetOption ==
    ASSUME text \in Seq(STRING), SetOption, NEW p \in Starts, ReadTo(p),
           name = NameAt(p), value = ValueAt(p),
           NEW q \in p + 1..Len(text) + 1,
           Clear(p) => \A j \in Starts : j =< p \/ q =< j
    PROVE  ReadTo(q)'
<1>0. Len(text) \in Nat /\ \A i \in Starts : i \in Nat
  BY LenProperties DEF Starts
<1>1. text' = text
  BY DEF SetOption
<1>2. Starts' = Starts /\ \A i : Clear(i)' <=> Clear(i)
  BY <1>1, SameText
<1>3. \A o : Below(o, q)' = Below(o, q) /\ Says(o)' = Says(o)
  BY <1>1, SameText
<1>4. \A o, i : Said(o, i)' = Said(o, i)
  BY <1>1, SameText
<1>5. SUFFICES ASSUME NEW o \in Options
      PROVE  /\ opts'[o] = Defaults[o] \/ \E i \in Says(o) : opts'[o] = Said(o, i)
             /\ (\A i \in Starts : Clear(i)) =>
                   opts'[o] = IF Below(o, q) = {} THEN Defaults[o]
                              ELSE Said(o, Max(Below(o, q)))
  BY <1>2, <1>3, <1>4 DEF ReadTo
<1>6. opts'[o] = IF name = <<o>> THEN Meaning(o, value, opts[o]) ELSE opts[o]
  BY DEF SetOption
<1>7. o # "+"
  BY OptionNames
<1>8. name = <<o>> => Clear(p) /\ (Contains(Field(p), "=") \/ p = Len(text))
  BY <1>7, FieldRead
<1>9. Clear(p) => name = Before(Field(p), "=") /\ value = After(Field(p), "=")
  BY FieldRead
<1>10. Clear(p) => (p \in Says(o) <=> name = <<o>> /\ Said(o, p) # "kept")
  BY <1>8, <1>9 DEF Says, Said
<1>11. name = <<o>> => Said(o, p) = Meaning(o, value, "kept")
  BY <1>8, <1>9 DEF Said
<1>12. name = <<o>> => opts'[o] = IF Said(o, p) = "kept" THEN opts[o] ELSE Said(o, p)
  BY <1>6, <1>11, MeaningIsKept
<1>13. opts'[o] = IF Clear(p) /\ p \in Says(o) THEN Said(o, p) ELSE opts[o]
  BY <1>6, <1>8, <1>10, <1>12
<1>14. opts'[o] = Defaults[o] \/ \E i \in Says(o) : opts'[o] = Said(o, i)
  BY <1>13 DEF ReadTo
<1>15. ASSUME \A i \in Starts : Clear(i)
       PROVE  opts'[o] = IF Below(o, q) = {} THEN Defaults[o]
                         ELSE Said(o, Max(Below(o, q)))
  <2>1. Says(o) \subseteq Starts
    BY DEF Says
  <2>2. \A j \in Says(o) : j < q <=> j < p \/ j = p
    BY <1>0, <1>15, <2>1
  <2>3. CASE p \in Says(o)
    <3>1. Below(o, q) \in SUBSET Nat /\ p \in Below(o, q)
      BY <1>0, <2>1, <2>2, <2>3 DEF Below
    <3>2. \A j \in Below(o, q) : j =< p
      BY <1>0, <2>1, <2>2 DEF Below
    <3>3. Max(Below(o, q)) = p
      BY <3>1, <3>2, MaxIs
    <3> QED
      BY <1>13, <1>15, <2>3, <3>1, <3>3
  <2>4. CASE p \notin Says(o)
    <3>1. Below(o, q) = Below(o, p)
      BY <2>2, <2>4 DEF Below
    <3> QED
      BY <1>13, <1>15, <2>4, <3>1 DEF ReadTo
  <2> QED
    BY <2>3, <2>4
<1> QED
  BY <1>14, <1>15

(* Without an '=' there is neither a value nor anything to go on with.     *)
LEMMA NoEquals ==
    ASSUME NEW s \in Seq(STRING), ~Contains(s, "=")
    PROVE  /\ After(s, "=") = <<>>
           /\ Before(After(s, "="), "+") = <<>>
           /\ After(After(s, "="), "+") = <<>>
<1>1. Len(s) \in Nat /\ <<>> \in Seq(STRING) /\ Len(<<>>) = 0
  BY LenProperties, EmptySeq
<1>2. Before(s, "=") = s
  BY BeforeIsPrefix
<1>3. After(s, "=") = <<>>
  BY <1>1, <1>2, SubSeqEmpty DEF After
<1>4. ~Contains(<<>>, "+")
  BY <1>1 DEF Contains
<1>5. Before(<<>>, "+") = <<>>
  BY <1>1, <1>4, BeforeIsPrefix
<1>6. After(<<>>, "+") = <<>>
  BY <1>1, <1>5, SubSeqEmpty DEF After
<1> QED
  BY <1>3, <1>5, <1>6

LEMMA StepProgress == ParserOK /\ Progress /\ [ParserNext]_parser => Progress'
<1> SUFFICES ASSUME ParserOK, Progress, [ParserNext]_parser PROVE Progress'
  OBVIOUS
<1>0. text \in Seq(STRING) /\ rest \in Seq(STRING) /\ Len(text) \in Nat
  BY LenProperties DEF ParserOK
<1>1. CASE ReadName
  <2>1. PICK p \in 1..Len(text) + 1 :
           /\ rest = SubSeq(text, p, Len(text))
           /\ p =< Len(text) => p \in Starts
           /\ ReadTo(p)
    BY <1>1 DEF ReadName, Progress
  <2>2. p \in Starts
    <3>1. p > Len(text) => rest = <<>>
      BY <1>0, <2>1, SubSeqEmpty
    <3> QED
      BY <1>0, <1>1, <2>1, <3>1 DEF ReadName
  <2>3. UNCHANGED <<text, opts>>
    BY <1>1 DEF ReadName
  <2>4. /\ Starts' = Starts /\ ReadTo(p)' /\ NameAt(p)' = NameAt(p)
        /\ RestAt(p)' = RestAt(p) /\ ValueAt(p)' = ValueAt(p) /\ NextAt(p)' = NextAt(p)
    BY <2>1, <2>3, SameText, SameOptions
  <2>5. name' = NameAt(p) /\ rest' = RestAt(p)
    BY <1>1, <2>1 DEF ReadName, NameAt, RestAt
  <2>6. CASE Contains(rest, "=")
    <3>1. parse' = "value"
      BY <1>1, <2>6 DEF ReadName
    <3> QED
      BY <2>2, <2>4, <2>5, <3>1 DEF Progress
  <2>7. CASE ~Contains(rest, "=")
    <3>1. parse' = "set" /\ value' = <<>>
      BY <1>1, <2>7 DEF ReadName
    <3>2. RestAt(p) = <<>> /\ ValueAt(p) = <<>> /\ NextAt(p) = <<>>
      BY <1>0, <2>1, <2>7, NoEquals DEF RestAt, ValueAt, NextAt
    <3> QED
      BY <2>2, <2>4, <2>5, <3>1, <3>2 DEF Progress
  <2> QED
    BY <2>6, <2>7
<1>2. CASE ReadValue
  <2>1. PICK p \in Starts : ReadTo(p) /\ name = NameAt(p) /\ rest = RestAt(p)
    BY <1>2 DEF ReadValue, Progress
  <2>2. UNCHANGED <<text, opts, name>> /\ parse' = "set"
    BY <1>2 DEF ReadValue
  <2>3. value' = ValueAt(p) /\ rest' = NextAt(p)
    BY <1>2, <2>1 DEF ReadValue, ValueAt, NextAt
  <2>4. /\ Starts' = Starts /\ ReadTo(p)' /\ NameAt(p)' = NameAt(p)
        /\ ValueAt(p)' = ValueAt(p) /\ NextAt(p)' = NextAt(p)
    BY <2>1, <2>2, SameText, SameOptions
  <2> QED
    BY <2>1, <2>2, <2>3, <2>4 DEF Progress
<1>3. CASE SetOption
  <2>1. PICK p \in Starts :
           ReadTo(p) /\ name = NameAt(p) /\ value = ValueAt(p) /\ rest = NextAt(p)
    BY <1>3 DEF SetOption, Progress
  <2>2. PICK q \in p + 1..Len(text) + 1 :
           /\ NextAt(p) = SubSeq(text, q, Len(text))
           /\ q =< Len(text) => q \in Starts
           /\ Clear(p) => \A j \in Starts : j =< p \/ q =< j
    BY <1>0, FieldRead
  <2>3. ReadTo(q)'
    BY <1>0, <1>3, <2>1, <2>2, StepSetOption
  <2>4. UNCHANGED <<text, rest>> /\ parse' = "name"
    BY <1>3 DEF SetOption
  <2>5. Starts' = Starts
    BY <2>4, SameText
  <2>6. q \in 1..Len(text) + 1
    BY <1>0 DEF Starts
  <2> QED
    BY <2>1, <2>2, <2>3, <2>4, <2>5, <2>6 DEF Progress
<1>4. CASE EndOptions
  <2>1. PICK p \in 1..Len(text) + 1 :
           /\ rest = SubSeq(text, p, Len(text))
           /\ p =< Len(text) => p \in Starts
           /\ ReadTo(p)
    BY <1>4 DEF EndOptions, Progress
  <2>2. p = Len(text) + 1
    <3>1. Len(SubSeq(text, p, Len(text))) = Len(text) - p + 1
      BY <1>0, Part
    <3>2. Len(rest) = 0
      BY <1>4 DEF EndOptions
    <3> QED
      BY <1>0, <2>1, <3>1, <3>2
  <2>3. UNCHANGED <<text, opts>> /\ parse' = "parsed"
    BY <1>4 DEF EndOptions
  <2>4. ReadTo(p)'
    BY <2>1, <2>3, SameOptions
  <2> QED
    BY <2>2, <2>3, <2>4 DEF Progress
<1>5. CASE UNCHANGED parser
  <2>1. UNCHANGED <<text, opts, rest, name, value, parse>>
    BY <1>5 DEF parser
  <2>2. \A p : ReadTo(p)' <=> ReadTo(p)
    BY <2>1, SameOptions
  <2>3. /\ Starts' = Starts
        /\ \A p : /\ NameAt(p)' = NameAt(p) /\ RestAt(p)' = RestAt(p)
                  /\ ValueAt(p)' = ValueAt(p) /\ NextAt(p)' = NextAt(p)
    BY <2>1, SameText
  <2> QED
    BY <2>1, <2>2, <2>3 DEF Progress
<1> QED
  BY <1>1, <1>2, <1>3, <1>4, <1>5 DEF ParserNext

LEMMA NextProgress == IInv /\ Progress /\ [Next]_vars => Progress'
<1> SUFFICES ASSUME IInv, Progress, [Next]_vars PROVE Progress'
  OBVIOUS
<1>0. ParserOK
  BY DEF IInv, TypeOK
<1>1. CASE StartQuery
  <2>1. text' = <<>> /\ opts' = Defaults /\ parse' = "parsed"
    BY <1>1 DEF StartQuery
  <2>2. text' \in Seq(STRING) /\ Len(text') = 0
    BY <2>1, EmptySeq
  <2>3. Starts' = {}
    BY <2>1, <2>2 DEF Starts
  <2>4. \A o : Says(o)' = {} /\ Below(o, 1)' = {}
    BY <2>3 DEF Says, Below
  <2>5. ReadTo(1)'
    BY <2>1, <2>4 DEF ReadTo
  <2> QED
    BY <2>1, <2>2, <2>5 DEF Progress
<1>2. CASE [ParserNext]_parser
  BY <1>0, <1>2, StepProgress
<1> QED
  BY <1>1, <1>2
  DEF Next, vars, ReadOptions, Resolve, Connect, SendCommand, ReadStatus, NoStatus,
      FillBuffer, ReadPart, ReadEnd, AlarmRestarts, Close, Sigterm, Arrive, Disconnect

(* Once the options are read each has what the last field that sets it     *)
(* says, if every field but the last has its '='; and whatever the text is *)
(* none has a value that no field gives it.                                *)
THEOREM OptionsAreAsWritten == Spec => []OptionsAsWritten
<1>1. Init => Progress
  BY InitProgress DEF Init
<1>2. IInv /\ Progress /\ [Next]_vars => Progress'
  BY NextProgress
<1>3. IInv /\ Progress => OptionsAsWritten
  <2> SUFFICES ASSUME IInv, Progress, parse = "parsed", NEW o \in Options
               PROVE  /\ opts[o] \in {Defaults[o]} \union {Said(o, i) : i \in Says(o)}
                      /\ (\A i \in Starts : Clear(i)) =>
                            opts[o] = IF Says(o) = {} THEN Defaults[o]
                                      ELSE Said(o, Max(Says(o)))
    BY DEF OptionsAsWritten, Said, Clear
  <2>1. Len(text) \in Nat
    BY LenProperties DEF IInv, TypeOK, ParserOK
  <2>2. \A i \in Says(o) : i < Len(text) + 1
    BY <2>1 DEF Says, Starts
  <2>3. Below(o, Len(text) + 1) = Says(o)
    BY <2>2 DEF Below
  <2>4. ReadTo(Len(text) + 1)
    BY DEF Progress
  <2> QED
    BY <2>3, <2>4 DEF ReadTo
<1> QED
  BY <1>1, <1>2, <1>3, Invariance, PTL DEF Spec

==============================================================================
