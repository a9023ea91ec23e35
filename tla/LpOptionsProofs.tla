-------------------------- MODULE LpOptionsProofs --------------------------
(***************************************************************************)
(* Theorems about LpOptions, for any queues and options, any number of     *)
(* writers, wherever they write at the same time and wherever they are     *)
(* killed.                                                                 *)
(*                                                                         *)
(* NothingInvented holds because nothing else is ever in the file or in a  *)
(* writer's copy of it (Stored).  SetOptionsStay is about a writer that is *)
(* alone: what it has in its copy is what was wanted before, with its own  *)
(* option (Copied), and what it has written are the lines of the queues it *)
(* has come to, one for each that needs one, and nothing after them        *)
(* (Writing).  When it has come to all of them, the file read back says    *)
(* what the copy says.                                                     *)
(***************************************************************************)
EXTENDS LpOptions, TLAPS, NaturalsInduction, WellFoundedInduction,
        SequenceTheorems

(* A call that runs has an option to set, and its lines keep behind the    *)
(* queues it has come to.                                                  *)
Running == \A w \in Writers : pc[w] # "idle" =>
    /\ setting[w] \in Queues \X Keys \X Values
    /\ slot[w] =< next[w] \/ pc[w] = "open"

(* The options of queue q are ones that it was set to.                     *)
Known(o, q) == \A k \in Keys : o[k] \in everSet[q][k] \union {Unset}

(* So are all those on the lines of the file and in the writers' copies.   *)
Stored ==
    /\ \A s \in Slots : file[s].dest \in Queues
                           => Known(file[s].options, file[s].dest)
    /\ \A w \in Writers, q \in Queues : Known(dests[w][q], q)

(* Two calls run at once only where that was noticed.                      *)
OneRuns == ~disturbed => \A v, w \in Writers :
    pc[v] # "idle" /\ pc[w] # "idle" => v = w

(* What the file says while no one writes it.                              *)
Kept ==
    ~disturbed /\ (\A w \in Writers : pc[w] # "write")
        => \A q \in Queues, k \in PpdKeys : OptionsIn(file)[q][k] = wanted[q][k]

(* What is wanted once w's call has returned.                              *)
WantedBy(w, q, k) ==
    IF q = setting[w][1] /\ k = setting[w][2] THEN setting[w][3]
    ELSE wanted[q][k]

Copied == \A w \in Writers : ~disturbed /\ pc[w] # "idle" =>
    \A q \in Queues, k \in PpdKeys : dests[w][q][k] = WantedBy(w, q, k)

(* The queues the writer has come to.                                      *)
Passed(w) == {Order[i] : i \in 1..(next[w] - 1)}

(* The lines of a writer that is alone: before its next slot the line of   *)
(* a queue it has come to, one for each that has one, after it nothing.    *)
Writing(w) ==
    /\ \A s \in Slots : s < slot[w] =>
          /\ file[s].dest \in Passed(w)
          /\ file[s] = LineFor(w, file[s].dest)
    /\ \A s \in Slots : s >= slot[w] => file[s] = EmptyLine
    /\ \A q \in Passed(w) : LineFor(w, q) # EmptyLine =>
          \E s \in Slots : s < slot[w] /\ file[s].dest = q
    /\ \A s, t \in Slots : s < slot[w] /\ t < slot[w]
                              /\ file[s].dest = file[t].dest => s = t

Written == \A w \in Writers : ~disturbed /\ pc[w] = "write" => Writing(w)

IInv == /\ TypeOK /\ Running /\ Stored
        /\ OneRuns /\ Kept /\ Copied /\ Written

-----------------------------------------------------------------------------
(* The queues and the lines there may be.                                  *)
LEMMA Basics ==
    /\ Len(Order) \in Nat
    /\ \A i \in Slots : Order[i] \in Queues
    /\ \A i, j \in Slots : Order[i] = Order[j] => i = j
    /\ \A q \in Queues : \E i \in Slots : Order[i] = q
    /\ Unset \notin Values /\ NoQueue \notin Queues
    /\ NoOptions \in Options /\ \A k \in Keys : NoOptions[k] = Unset
    /\ EmptyLine \in Lines /\ Garbled \in Lines /\ EmptyFile \in [Slots -> Lines]
    /\ EmptyLine.dest = NoQueue /\ Garbled.dest = NoQueue
    /\ PpdKeys \subseteq Keys /\ PpdKeys \intersect JobKeys = {}
<1>1. Len(Order) \in Nat
  BY OrderAssumption, LenProperties
<1>2. /\ \A i \in Slots : Order[i] \in Queues
      /\ \A q \in Queues : \E i \in Slots : Order[i] = q
  BY DEF Slots, Queues
<1>3. \A i, j \in Slots : Order[i] = Order[j] => i = j
  BY OrderAssumption DEF Slots
<1>4. NoOptions \in Options /\ \A k \in Keys : NoOptions[k] = Unset
  BY DEF NoOptions, Options
<1>5. /\ EmptyLine \in Lines /\ Garbled \in Lines
      /\ EmptyLine.dest = NoQueue /\ Garbled.dest = NoQueue
  BY DEF Lines, EmptyLine, Garbled
<1>6. EmptyFile \in [Slots -> Lines]
  BY <1>5 DEF EmptyFile
<1> QED
  BY <1>1, <1>2, <1>3, <1>4, <1>5, <1>6, NamesAssumption, KeysAssumption
     DEF Keys

(* The line of a queue is its own, or none where nothing is to be saved.   *)
LEMMA LineIsOwn ==
    ASSUME NEW w \in Writers, NEW q \in Queues, dests[w][q] \in Options
    PROVE  /\ LineFor(w, q) \in Lines
           /\ Saved(dests[w][q]) \in Options
           /\ LineFor(w, q) # EmptyLine =>
                 /\ LineFor(w, q).dest = q
                 /\ LineFor(w, q).options = Saved(dests[w][q])
           /\ LineFor(w, q) = EmptyLine => Saved(dests[w][q]) = NoOptions
<1>1. Saved(dests[w][q]) \in Options
  BY DEF Saved, Options
<1> DEFINE line == [heading |-> IF q = default THEN "Default" ELSE "Dest",
                    dest |-> q, options |-> Saved(dests[w][q])]
<1>2. line \in Lines /\ line.dest = q /\ line.options = Saved(dests[w][q])
  BY <1>1 DEF Lines
<1>3. line # EmptyLine
  BY <1>2, Basics
<1>4. LineFor(w, q) = IF Saved(dests[w][q]) = NoOptions /\ q # default
                      THEN EmptyLine ELSE line
  BY DEF LineFor
<1> HIDE DEF line
<1> QED
  BY <1>1, <1>2, <1>3, <1>4, Basics

(* A line of a queue has options, and those of other lines do not count.   *)
LEMMA LineOptions ==
    ASSUME NEW f \in [Slots -> Lines], NEW s \in Slots
    PROVE  f[s].options \in Options
<1>1. CASE f[s] \in {EmptyLine, Garbled}
  BY <1>1, Basics DEF EmptyLine, Garbled
<1>2. CASE f[s] \in [heading : {"Dest", "Default"}, dest : Queues,
                     options : Options]
  BY <1>2
<1> QED
  BY <1>1, <1>2 DEF Lines

(* What cupsGetDests() finds of a queue is on one of the queue's lines.    *)
LEMMA OptionsInFile ==
    ASSUME NEW f \in [Slots -> Lines]
    PROVE  /\ OptionsIn(f) \in [Queues -> Options]
           /\ \A q \in Queues, k \in Keys :
                 \/ OptionsIn(f)[q][k] = Unset
                 \/ \E s \in Slots : /\ f[s].dest = q
                                     /\ OptionsIn(f)[q][k] = f[s].options[k]
<1> DEFINE Value(q, k) == IF \E s \in Slots : Decides(f, q, k, s)
        THEN f[CHOOSE s \in Slots : Decides(f, q, k, s)].options[k]
        ELSE Unset
<1>1. ASSUME NEW q \in Queues, NEW k \in Keys
      PROVE  /\ Value(q, k) \in Values \union {Unset}
             /\ \/ Value(q, k) = Unset
                \/ \E s \in Slots : /\ f[s].dest = q
                                    /\ Value(q, k) = f[s].options[k]
  <2>1. CASE \E s \in Slots : Decides(f, q, k, s)
    <3>1. PICK s \in Slots : Decides(f, q, k, s)
                            /\ Value(q, k) = f[s].options[k]
      BY <2>1
    <3>2. f[s].options[k] \in Values \union {Unset}
      BY LineOptions DEF Options
    <3> QED
      BY <3>1, <3>2 DEF Decides
  <2>2. CASE ~\E s \in Slots : Decides(f, q, k, s)
    BY <2>2
  <2> QED
    BY <2>1, <2>2
<1>2. OptionsIn(f) = [q \in Queues |-> [k \in Keys |-> Value(q, k)]]
  BY DEF OptionsIn
<1> HIDE DEF Value
<1> QED
  BY <1>1, <1>2 DEF Options

(* Where a queue has one line, its options are those of the line, and none *)
(* where it has no line.                                                   *)
LEMMA OneLineDecides ==
    ASSUME NEW f \in [Slots -> Lines], NEW q \in Queues, NEW k \in Keys,
           NEW s \in Slots, f[s].dest = q,
           \A t \in Slots : f[t].dest = q => t = s
    PROVE  OptionsIn(f)[q][k] = f[s].options[k]
<1>1. OptionsIn(f)[q][k] = IF \E t \in Slots : Decides(f, q, k, t)
        THEN f[CHOOSE t \in Slots : Decides(f, q, k, t)].options[k]
        ELSE Unset
  BY DEF OptionsIn
<1>2. \A t \in Slots : Decides(f, q, k, t) => t = s
  BY DEF Decides
<1>3. f[s].options[k] # Unset => Decides(f, q, k, s)
  BY Basics DEF Decides, Slots
<1> QED
  BY <1>1, <1>2, <1>3

LEMMA NoLineNoOptions ==
    ASSUME NEW f, NEW q \in Queues, NEW k \in Keys,
           \A t \in Slots : f[t].dest # q
    PROVE  OptionsIn(f)[q][k] = Unset
BY DEF OptionsIn, Decides

LEMMA LeastExists ==
    ASSUME NEW S \in SUBSET Nat, S # {}
    PROVE  \E m \in S : \A k \in S : m =< k
<1>1. \E m \in S : \A k \in S : <<k, m>> \notin OpToRel(<, Nat)
  BY NatLessThanWellFounded, WFMin
<1>2. ASSUME NEW k \in Nat, NEW m \in Nat, <<k, m>> \notin OpToRel(<, Nat)
      PROVE  m =< k
  BY <1>2 DEF OpToRel
<1> QED
  BY <1>1, <1>2

(* What printFile() takes is on one of the queue's lines, if not nothing.  *)
LEMMA PrintsALine ==
    ASSUME NEW f, NEW q \in Queues
    PROVE  \/ PrintOptions(f, q) = NoOptions
           \/ \E s \in Slots : /\ f[s].dest = q
                               /\ PrintOptions(f, q) = f[s].options
<1> DEFINE S == {s \in Slots : IsDestLine(f, q, s)}
           First(s) == /\ IsDestLine(f, q, s)
                       /\ \A t \in 1..(s - 1) : ~IsDestLine(f, q, t)
<1>1. CASE S = {}
  BY <1>1 DEF PrintOptions
<1>2. CASE S # {}
  <2>1. PICK m \in S : \A t \in S : m =< t
    <3>1. S \in SUBSET Nat
      BY Basics DEF Slots
    <3> HIDE DEF S
    <3> QED
      BY ONLY <1>2, <3>1, LeastExists
  <2>2. m \in Slots /\ First(m)
    BY <2>1, Basics DEF Slots
  <2>3. PrintOptions(f, q) = f[CHOOSE s \in Slots : First(s)].options
    BY <1>2 DEF PrintOptions
  <2>4. PICK s \in Slots : First(s) /\ PrintOptions(f, q) = f[s].options
    BY <2>2, <2>3
  <2> QED
    BY <2>4 DEF IsDestLine
<1> QED
  BY <1>1, <1>2

-----------------------------------------------------------------------------
LEMMA InitIInv == Init => IInv
<1> SUFFICES ASSUME Init PROVE IInv
  OBVIOUS
<1> USE Basics DEF Init
<1>1. PICK first \in [Queues -> FirstOptions] :
         /\ file = [s \in Slots |->
                       IF first[Order[s]] = NoOptions THEN EmptyLine
                       ELSE [heading |-> IF Order[s] = default THEN "Default"
                                         ELSE "Dest",
                             dest |-> Order[s], options |-> first[Order[s]]]]
         /\ wanted = first
         /\ everSet = [q \in Queues |-> [k \in Keys |-> {first[q][k]}]]
  OBVIOUS
<1>2. FirstOptions \subseteq Options
  BY NamesAssumption DEF FirstOptions, Options
<1>3. \A s \in Slots : /\ file[s] \in Lines
                       /\ \/ file[s] = EmptyLine /\ first[Order[s]] = NoOptions
                          \/ /\ file[s].dest = Order[s]
                             /\ file[s].options = first[Order[s]]
                             /\ first[Order[s]] # NoOptions
  <2> SUFFICES ASSUME NEW s \in Slots, first[Order[s]] # NoOptions
               PROVE  /\ file[s] \in Lines /\ file[s].dest = Order[s]
                      /\ file[s].options = first[Order[s]]
    BY <1>1
  <2>1. first[Order[s]] \in Options /\ Order[s] \in Queues
    BY <1>1, <1>2
  <2> QED
    BY <1>1, <2>1 DEF Lines
<1>4. TypeOK
  <2>1. file \in [Slots -> Lines]
    BY <1>1, <1>3
  <2>2. wanted \in [Queues -> Options]
    BY <1>1, <1>2
  <2>3. everSet \in [Queues -> [Keys -> SUBSET (Values \union {Unset})]]
    BY <1>1, <1>2 DEF Options
  <2>4. /\ dests \in [Writers -> [Queues -> Options]]
        /\ setting \in [Writers -> {<<>>} \union (Queues \X Keys \X Values)]
        /\ next \in [Writers -> 1..(Len(Order) + 1)]
        /\ slot \in [Writers -> 1..(Len(Order) + 1)]
    OBVIOUS
  <2>5. calls \in 0..MaxCalls /\ crashes \in 0..MaxCrashes
    BY BoundsAssumption
  <2> QED
    BY <2>1, <2>2, <2>3, <2>4, <2>5 DEF TypeOK
<1>5. Running /\ OneRuns /\ Copied /\ Written
  BY DEF Running, OneRuns, Copied, Written
<1>6. Stored
  <2>1. \A q \in Queues, k \in Keys : first[q][k] \in everSet[q][k]
    BY <1>1
  <2> QED
    BY <1>3, <2>1 DEF Stored, Known
<1>7. Kept
  <2> SUFFICES ASSUME NEW q \in Queues, NEW k \in Keys
               PROVE  OptionsIn(file)[q][k] = wanted[q][k]
    BY DEF Kept
  <2>1. PICK s \in Slots : Order[s] = q
    OBVIOUS
  <2>2. CASE first[q] = NoOptions
    <3>1. \A t \in Slots : file[t].dest # q
      BY <1>3, <2>2
    <3>2. k \in Keys /\ wanted[q][k] = Unset
      BY <1>1, <2>2
    <3> HIDE Basics DEF Init
    <3> QED
      BY <3>1, <3>2, NoLineNoOptions
  <2>3. CASE first[q] # NoOptions
    <3>1. file[s].dest = q /\ file[s].options = first[q]
      BY <1>3, <2>1, <2>3
    <3>2. \A t \in Slots : file[t].dest = q => t = s
      BY <1>3, <2>1
    <3>3. k \in Keys /\ wanted[q][k] = file[s].options[k]
      BY <1>1, <3>1
    <3>4. file \in [Slots -> Lines]
      BY <1>4 DEF TypeOK
    <3>5. OptionsIn(file)[q][k] = file[s].options[k]
      BY ONLY <3>1, <3>2, <3>3, <3>4, OneLineDecides
    <3> QED
      BY ONLY <3>3, <3>5
  <2> QED
    BY <2>2, <2>3
<1> QED
  BY <1>4, <1>5, <1>6, <1>7 DEF IInv

LEMMA GetDestsIInv ==
    ASSUME IInv, NEW w \in Writers, GetDests(w)
    PROVE  IInv'
<1> USE DEF IInv
<1>1. PICK q \in Queues, k \in Keys, v \in Values :
          /\ setting' = [setting EXCEPT ![w] = <<q, k, v>>]
          /\ dests' = [dests EXCEPT ![w] =
                          [OptionsIn(file) EXCEPT ![q] = With(@, k, v)]]
          /\ everSet' = [everSet EXCEPT ![q][k] = @ \union {v}]
  BY DEF GetDests
<1>2. /\ pc[w] = "idle" /\ pc' = [pc EXCEPT ![w] = "open"]
      /\ disturbed' = (disturbed \/ ~Quiet)
      /\ calls' \in 0..MaxCalls
      /\ UNCHANGED <<default, file, next, slot, wanted, crashes>>
  BY BoundsAssumption DEF GetDests, TypeOK
<1>3. \/ disturbed'
      \/ /\ ~disturbed /\ \A u \in Writers : pc[u] = "idle"
  BY <1>2 DEF Quiet
<1> DEFINE read == OptionsIn(file)
<1>4. read \in [Queues -> Options]
  BY OptionsInFile DEF TypeOK
<1>5. /\ dests'[w] \in [Queues -> Options]
      /\ \A p \in Queues, j \in Keys :
            dests'[w][p][j] = IF p = q /\ j = k THEN v ELSE read[p][j]
  <2> HIDE DEF read
  <2>1. With(read[q], k, v) \in Options
        /\ \A j \in Keys : With(read[q], k, v)[j] = IF j = k THEN v ELSE read[q][j]
    BY <1>4 DEF With, Options
  <2>2. dests'[w] = [read EXCEPT ![q] = With(read[q], k, v)]
    BY <1>1 DEF TypeOK, read
  <2> HIDE DEF With
  <2> QED
    BY <1>4, <2>1, <2>2
<1>6. /\ everSet' \in [Queues -> [Keys -> SUBSET (Values \union {Unset})]]
      /\ \A p \in Queues, j \in Keys : everSet[p][j] \subseteq everSet'[p][j]
      /\ v \in everSet'[q][k]
  BY <1>1 DEF TypeOK
<1>7. TypeOK'
  <2>1. dests' \in [Writers -> [Queues -> Options]]
    BY <1>1, <1>5 DEF TypeOK
  <2>2. setting' \in [Writers -> {<<>>} \union (Queues \X Keys \X Values)]
    BY <1>1 DEF TypeOK
  <2>3. pc' \in [Writers -> {"idle", "open", "write"}] /\ disturbed' \in BOOLEAN
    BY <1>2 DEF TypeOK
  <2> QED
    BY <1>2, <1>6, <2>1, <2>2, <2>3 DEF TypeOK
<1>8. Running'
  BY <1>1, <1>2 DEF Running, TypeOK
<1>9. Stored'
  <2>1. \A p \in Queues, j \in Keys :
           read[p][j] \in everSet'[p][j] \union {Unset}
    <3> TAKE p \in Queues, j \in Keys
    <3>1. \/ read[p][j] = Unset
          \/ \E s \in Slots : file[s].dest = p /\ read[p][j] = file[s].options[j]
      BY OptionsInFile DEF TypeOK
    <3> QED
      BY <1>6, <3>1 DEF Stored, Known
  <2>2. \A p \in Queues : Known(dests[w][p], p)' 
    BY <1>5, <1>6, <2>1 DEF Known
  <2>3. \A u \in Writers, p \in Queues : Known(dests[u][p], p)'
    BY <1>1, <1>6, <2>2 DEF Stored, Known, TypeOK
  <2>4. \A s \in Slots : file[s].dest \in Queues
                           => Known(file[s].options, file[s].dest)'
    BY <1>2, <1>6 DEF Stored, Known
  <2> QED
    BY <1>2, <2>3, <2>4 DEF Stored
<1>10. OneRuns' /\ Written'
  BY <1>2, <1>3 DEF OneRuns, Written, TypeOK
<1>11. Kept'
  BY <1>2, <1>3 DEF Kept
<1>12. Copied'
  <2> SUFFICES ASSUME ~disturbed', NEW p \in Queues, NEW j \in PpdKeys
               PROVE  dests'[w][p][j] = WantedBy(w, p, j)'
    BY <1>2, <1>3 DEF Copied, TypeOK
  <2>1. read[p][j] = wanted[p][j]
    BY <1>3 DEF Kept
  <2>2. setting'[w] = <<q, k, v>>
    BY <1>1 DEF TypeOK
  <2> QED
    BY <1>2, <1>5, <2>1, <2>2, Basics DEF WantedBy
<1> QED
  BY <1>7, <1>8, <1>9, <1>10, <1>11, <1>12

LEMMA OpenTruncIInv ==
    ASSUME IInv, NEW w \in Writers, OpenTrunc(w)
    PROVE  IInv'
<1> USE DEF IInv
<1>1. /\ pc[w] = "open" /\ file' = EmptyFile
      /\ next' = [next EXCEPT ![w] = 1] /\ slot' = [slot EXCEPT ![w] = 1]
      /\ pc' = [pc EXCEPT ![w] = "write"]
      /\ UNCHANGED <<default, dests, setting, wanted, everSet, disturbed,
                     calls, crashes>>
  BY DEF OpenTrunc
<1>2. TypeOK'
  BY <1>1, Basics DEF TypeOK
<1>3. Running' /\ OneRuns' /\ Kept'
  BY <1>1 DEF Running, OneRuns, Kept, TypeOK
<1>4. Stored'
  BY <1>1, Basics DEF Stored, Known, EmptyFile
<1>5. Copied'
  BY <1>1 DEF Copied, WantedBy, TypeOK
<1>6. Written'
  <2> SUFFICES ASSUME NEW u \in Writers, ~disturbed, pc'[u] = "write"
               PROVE  Writing(u)'
    BY <1>1 DEF Written
  <2>1. u = w
    BY <1>1 DEF OneRuns, TypeOK
  <2>2. next'[u] = 1 /\ slot'[u] = 1 /\ Passed(u)' = {}
    BY <1>1, <2>1 DEF TypeOK, Passed
  <2>3. \A s \in Slots : ~(s < 1) /\ s >= 1 /\ file'[s] = EmptyLine
    BY <1>1 DEF Slots, EmptyFile
  <2> QED
    BY <2>2, <2>3 DEF Writing
<1> QED
  BY <1>2, <1>3, <1>4, <1>5, <1>6

LEMMA GivesUpIInv ==
    ASSUME IInv, NEW w \in Writers, OpenFails(w) \/ Crash(w)
    PROVE  IInv'
<1> USE DEF IInv
<1>1. /\ pc[w] \in {"open", "write"} /\ pc' = [pc EXCEPT ![w] = "idle"]
      /\ disturbed' \in BOOLEAN /\ crashes' \in 0..MaxCrashes
      /\ ~disturbed' => ~disturbed /\ pc[w] = "open"
      /\ UNCHANGED <<default, file, dests, setting, next, slot, wanted,
                     everSet, calls>>
  <2>1. CASE OpenFails(w)
    BY <2>1 DEF OpenFails, TypeOK
  <2>2. CASE Crash(w)
    <3>1. crashes' \in 0..MaxCrashes
      BY <2>2, BoundsAssumption DEF Crash, TypeOK
    <3>2. disturbed' \in BOOLEAN /\ (~disturbed' => ~disturbed /\ pc[w] # "write")
      BY <2>2 DEF Crash, TypeOK
    <3> QED
      BY <2>2, <3>1, <3>2 DEF Crash
  <2> QED
    BY <2>1, <2>2
<1>2. \A u \in Writers : pc'[u] # "idle" => u # w /\ pc'[u] = pc[u]
  BY <1>1 DEF TypeOK
<1>3. TypeOK'
  BY <1>1 DEF TypeOK
<1>4. Running' /\ Stored'
  BY <1>1, <1>2 DEF Running, Stored, Known
<1>5. ~disturbed' => \A u \in Writers : pc'[u] = "idle"
  BY <1>1, <1>2 DEF OneRuns, TypeOK
<1>6. OneRuns' /\ Copied' /\ Written'
  BY <1>5 DEF OneRuns, Copied, Written
<1>7. Kept'
  BY <1>1, <1>5 DEF Kept, OneRuns
<1> QED
  BY <1>3, <1>4, <1>6, <1>7

(* A writer that is alone and has come to all queues has written all that  *)
(* is in its copy.                                                         *)
LEMMA AllIsWritten ==
    ASSUME TypeOK, NEW w \in Writers, Writing(w), next[w] > Len(Order),
           NEW q \in Queues, NEW k \in PpdKeys
    PROVE  OptionsIn(file)[q][k] = dests[w][q][k]
<1>1. /\ q \in Passed(w) /\ dests[w][q] \in Options
      /\ \A s \in Slots : slot[w] \in Nat /\ s \in Nat
  <2>1. next[w] - 1 = Len(Order)
    BY Basics DEF TypeOK
  <2> QED
    BY <2>1, Basics DEF Passed, Slots, TypeOK
<1>2. k \in Keys /\ Saved(dests[w][q])[k] = dests[w][q][k]
  BY Basics DEF Saved
<1>3. \A s \in Slots : file[s].dest = q => s < slot[w]
  BY <1>1, Basics DEF Writing
<1>4. CASE LineFor(w, q) = EmptyLine
  <2>1. dests[w][q][k] = Unset
    BY <1>1, <1>2, <1>4, LineIsOwn, Basics
  <2>2. \A s \in Slots : file[s].dest # q
    BY <1>3, <1>4, Basics DEF Writing
  <2> QED
    BY <1>2, <2>1, <2>2, NoLineNoOptions
<1>5. CASE LineFor(w, q) # EmptyLine
  <2>1. PICK s \in Slots : s < slot[w] /\ file[s].dest = q
    BY <1>1, <1>5 DEF Writing
  <2>2. file[s].options = Saved(dests[w][q])
    BY <1>1, <1>5, <2>1, LineIsOwn DEF Writing
  <2>3. \A t \in Slots : file[t].dest = q => t = s
    BY <1>3, <2>1 DEF Writing
  <2>4. OptionsIn(file)[q][k] = file[s].options[k]
    <3>1. file \in [Slots -> Lines] /\ k \in Keys
      BY <1>2 DEF TypeOK
    <3> QED
      BY ONLY <2>1, <2>3, <3>1, OneLineDecides
  <2> QED
    BY <1>2, <2>2, <2>4
<1> QED
  BY <1>4, <1>5

LEMMA CloseIInv ==
    ASSUME IInv, NEW w \in Writers, Close(w)
    PROVE  IInv'
<1> USE DEF IInv
<1> DEFINE q == setting[w][1]  k == setting[w][2]  v == setting[w][3]
<1>1. /\ pc[w] = "write" /\ next[w] > Len(Order)
      /\ pc' = [pc EXCEPT ![w] = "idle"]
      /\ wanted' = [wanted EXCEPT ![q] = With(@, k, v)]
      /\ UNCHANGED <<default, file, dests, setting, next, slot, everSet,
                     disturbed, calls, crashes>>
  BY DEF Close
<1>2. q \in Queues /\ k \in Keys /\ v \in Values
  BY <1>1 DEF Running
<1>3. /\ wanted' \in [Queues -> Options]
      /\ \A p \in Queues, j \in Keys : wanted'[p][j] = WantedBy(w, p, j)
  <2>1. With(wanted[q], k, v) \in Options
        /\ \A j \in Keys : With(wanted[q], k, v)[j] =
                             IF j = k THEN v ELSE wanted[q][j]
    BY <1>2 DEF With, Options, TypeOK
  <2>2. wanted' = [wanted EXCEPT ![q] = With(wanted[q], k, v)]
    BY <1>1
  <2> HIDE DEF With
  <2> QED
    BY <1>2, <2>1, <2>2 DEF TypeOK, WantedBy
<1>4. TypeOK'
  BY <1>1, <1>3 DEF TypeOK
<1>5. \A u \in Writers : pc'[u] # "idle" => u # w /\ pc'[u] = pc[u]
  BY <1>1 DEF TypeOK
<1>6. Running' /\ Stored'
  BY <1>1, <1>5 DEF Running, Stored, Known
<1>7. ~disturbed' => \A u \in Writers : pc'[u] = "idle"
  BY <1>1, <1>5 DEF OneRuns, TypeOK
<1>8. OneRuns' /\ Copied' /\ Written'
  BY <1>7 DEF OneRuns, Copied, Written
<1>9. Kept'
  <2> SUFFICES ASSUME ~disturbed, NEW p \in Queues, NEW j \in PpdKeys
               PROVE  OptionsIn(file)[p][j] = wanted'[p][j]
    BY <1>1 DEF Kept
  <2>1. Writing(w)
    BY <1>1 DEF Written
  <2>2. OptionsIn(file)[p][j] = dests[w][p][j]
    BY <1>1, <2>1, AllIsWritten
  <2>3. dests[w][p][j] = WantedBy(w, p, j)
    BY <1>1 DEF Copied
  <2> QED
    BY <1>3, <2>2, <2>3, Basics
<1> QED
  BY <1>4, <1>6, <1>8, <1>9

-----------------------------------------------------------------------------
(* Whatever else is in the file, a line changes only the slot it is put    *)
(* into and at most the next, which it garbles.                            *)
LEMMA PutLineChanges ==
    ASSUME file \in [Slots -> Lines], NEW s \in Slots, NEW line \in Lines,
           PutLine(s, line)
    PROVE  /\ file' \in [Slots -> Lines]
           /\ \A t \in Slots : file'[t] \in {file[t], Garbled, line}
<1>1. CASE file' = [file EXCEPT ![s] =
                      IF \E t \in 1..(s - 1) : file[t] = EmptyLine
                      THEN Garbled ELSE line]
  BY <1>1, Basics
<1>2. CASE file' = [file EXCEPT ![s] = line, ![s + 1] = Garbled]
           /\ s + 1 \in Slots
  BY <1>2, Basics
<1> QED
  BY <1>1, <1>2 DEF PutLine

(* The line of a writer that is alone follows its other lines.             *)
LEMMA PutLineAlone ==
    ASSUME TypeOK, NEW w \in Writers, Writing(w), slot[w] \in Slots,
           NEW line, PutLine(slot[w], line)
    PROVE  file' = [file EXCEPT ![slot[w]] = line]
<1>1. file[slot[w]] = EmptyLine
  BY DEF Writing, Slots
<1>2. \A t \in 1..(slot[w] - 1) : file[t] # EmptyLine
  <2> TAKE t \in 1..(slot[w] - 1)
  <2>1. t \in Slots /\ t < slot[w]
    BY Basics DEF Slots
  <2>2. file[t].dest \in Passed(w)
    BY <2>1 DEF Writing
  <2>3. Passed(w) \subseteq Queues
    BY Basics DEF Passed, Slots, TypeOK
  <2> QED
    BY <2>2, <2>3, Basics
<1> QED
  BY <1>1, <1>2 DEF PutLine

LEMMA WriteLineIInv ==
    ASSUME IInv, NEW w \in Writers, WriteLine(w)
    PROVE  IInv'
<1> USE DEF IInv
<1> DEFINE q == Order[next[w]]
           line == LineFor(w, q)
<1>1. /\ pc[w] = "write" /\ next[w] \in Slots
      /\ \/ /\ line # EmptyLine
            /\ PutLine(slot[w], line)
            /\ slot' = [slot EXCEPT ![w] = @ + 1]
         \/ line = EmptyLine /\ UNCHANGED <<file, slot>>
      /\ next' = [next EXCEPT ![w] = @ + 1]
      /\ UNCHANGED <<default, pc, dests, setting, wanted, everSet, disturbed,
                     calls, crashes>>
  BY Basics DEF WriteLine, Slots, TypeOK
<1>2. q \in Queues /\ dests[w][q] \in Options
  BY <1>1, Basics DEF TypeOK
<1>3. slot[w] \in Slots /\ slot[w] =< next[w]
  BY <1>1, Basics DEF Running, Slots, TypeOK
<1>4. /\ line \in Lines
      /\ line # EmptyLine => /\ line.dest = q
                             /\ line.options = Saved(dests[w][q])
  BY <1>2, LineIsOwn
<1> HIDE DEF line, q
<1>5. /\ file' \in [Slots -> Lines]
      /\ \A t \in Slots : \/ file'[t] \in {file[t], Garbled}
                          \/ line # EmptyLine /\ file'[t] = line
  <2>1. CASE UNCHANGED file
    BY <2>1 DEF TypeOK
  <2>2. CASE line # EmptyLine /\ PutLine(slot[w], line)
    BY <1>3, <1>4, <2>2, PutLineChanges DEF TypeOK
  <2> QED
    BY <1>1, <2>1, <2>2
<1>6. TypeOK'
  <2> DEFINE Positions == 1..(Len(Order) + 1)
  <2>1. next[w] + 1 \in Positions /\ slot[w] + 1 \in Positions
    BY <1>1, <1>3, Basics DEF Slots
  <2> HIDE DEF Positions
  <2>2. next' \in [Writers -> Positions] /\ slot' \in [Writers -> Positions]
    BY <1>1, <2>1 DEF TypeOK, Positions
  <2> QED
    BY <1>1, <1>5, <2>2 DEF TypeOK, Positions
<1>7. Running'
  <2>1. \A u \in Writers : slot[u] =< next[u] => slot'[u] =< next'[u]
    BY <1>1 DEF TypeOK
  <2> QED
    BY <1>1, <2>1 DEF Running
<1>8. Stored'
  <2>1. \A s \in Slots : file'[s].dest \in Queues
                           => Known(file'[s].options, file'[s].dest)
    <3> SUFFICES ASSUME NEW s \in Slots, file'[s].dest \in Queues
                 PROVE  Known(file'[s].options, file'[s].dest)
      OBVIOUS
    <3>1. CASE file'[s] = file[s]
      BY <3>1 DEF Stored
    <3>2. CASE file'[s] = Garbled
      BY <3>2, Basics
    <3>3. CASE line # EmptyLine /\ file'[s] = line
      <4>1. Known(dests[w][q], q)
        BY <1>2 DEF Stored
      <4>2. \A k \in Keys : Saved(dests[w][q])[k] \in {dests[w][q][k], Unset}
        BY DEF Saved
      <4> QED
        BY <1>4, <3>3, <4>1, <4>2 DEF Known
    <3> QED
      BY <1>5, <3>1, <3>2, <3>3
  <2> QED
    BY <1>1, <2>1 DEF Stored, Known
<1>9. OneRuns' /\ Copied' /\ Kept'
  BY <1>1 DEF OneRuns, Copied, Kept, WantedBy
<1>10. Written'
  <2> SUFFICES ASSUME NEW u \in Writers, ~disturbed, pc[u] = "write"
               PROVE  Writing(u)'
    BY <1>1 DEF Written
  <2>1. u = w
    BY <1>1 DEF OneRuns
  <2>2. Writing(w)
    BY <1>1, <2>1 DEF Written
  <2>3. \A p \in Queues : LineFor(w, p)' = LineFor(w, p)
    BY <1>1 DEF LineFor
  <2>4. Passed(w)' = Passed(w) \union {q} /\ Passed(w) \subseteq Queues
    BY <1>1, Basics DEF Passed, Slots, TypeOK, q
  <2>5. q \notin Passed(w)
    BY <1>1, Basics DEF Passed, Slots, TypeOK, q
  <2>6. CASE line = EmptyLine /\ UNCHANGED <<file, slot>>
    BY <1>2, <2>1, <2>2, <2>3, <2>4, <2>6 DEF Writing, line
  <2>7. CASE line # EmptyLine /\ PutLine(slot[w], line)
             /\ slot' = [slot EXCEPT ![w] = @ + 1]
    <3>1. file' = [file EXCEPT ![slot[w]] = line]
      BY <1>3, <2>2, <2>7, PutLineAlone
    <3>2. slot'[w] = slot[w] + 1 /\ slot[w] \in Nat
          /\ \A s \in Slots : s \in Nat
      BY <2>7, Basics DEF TypeOK, Slots
    <3>3. \A s \in Slots : s < slot'[w] <=> s < slot[w] \/ s = slot[w]
      BY <3>2
    <3>4. file'[slot[w]] = line /\ line.dest = q /\ line = LineFor(w, q)
      BY <1>3, <1>4, <2>7, <3>1 DEF TypeOK, line
    <3>5. \A s \in Slots : s # slot[w] => file'[s] = file[s]
      BY <3>1 DEF TypeOK
    <3>6. \A s \in Slots : s < slot'[w] =>
              /\ file'[s].dest \in Passed(w)'
              /\ file'[s] = LineFor(w, file'[s].dest)
      BY <1>2, <2>2, <2>3, <2>4, <3>3, <3>4, <3>5 DEF Writing
    <3>7. \A s \in Slots : s >= slot'[w] => file'[s] = EmptyLine
      BY <2>2, <3>2, <3>5 DEF Writing
    <3>8. \A p \in Passed(w)' : LineFor(w, p)' # EmptyLine =>
              \E s \in Slots : s < slot'[w] /\ file'[s].dest = p
      BY <1>3, <2>2, <2>3, <2>4, <3>2, <3>3, <3>4, <3>5 DEF Writing
    <3>9. \A s, t \in Slots : s < slot'[w] /\ t < slot'[w]
                              /\ file'[s].dest = file'[t].dest => s = t
      BY <2>2, <2>5, <3>2, <3>3, <3>4, <3>5 DEF Writing
    <3> QED
      BY <1>1, <2>1, <3>6, <3>7, <3>8, <3>9 DEF Writing, LineFor
  <2> QED
    BY <1>1, <2>6, <2>7
<1> QED
  BY <1>6, <1>7, <1>8, <1>9, <1>10

-----------------------------------------------------------------------------
LEMMA Inductive == IInv /\ [Next]_vars => IInv'
<1> SUFFICES ASSUME IInv, [Next]_vars PROVE IInv'
  OBVIOUS
<1>1. CASE Next
  BY <1>1, GetDestsIInv, OpenTruncIInv, GivesUpIInv, WriteLineIInv, CloseIInv
     DEF Next
<1>2. CASE UNCHANGED vars
  <2>1. TypeOK' /\ Running' /\ Stored'
    BY <1>2 DEF vars, IInv, TypeOK, Running, Stored, Known
  <2>2. OneRuns' /\ Kept' /\ Copied'
    BY <1>2 DEF vars, IInv, OneRuns, Kept, Copied, WantedBy
  <2>3. Written'
    BY <1>2 DEF vars, IInv, Written, Writing, Passed, LineFor
  <2> QED
    BY <2>1, <2>2, <2>3 DEF IInv
<1> QED
  BY <1>1, <1>2

LEMMA Invariance == Spec => []IInv
<1> QED
  BY InitIInv, Inductive, PTL DEF Spec

(* Every variable has its type in every state: above all, no writer puts a *)
(* line past the lines of all queues, however many lines it skips.         *)
THEOREM TypeCorrect == Spec => []TypeOK
<1>1. IInv => TypeOK
  BY DEF IInv
<1> QED
  BY <1>1, Invariance, PTL

(* However many programs rewrite the file at the same time, and wherever   *)
(* they are killed, printFile() makes no job with a value of an option     *)
(* that was never set for that queue.                                      *)
THEOREM NoValueInvented == Spec => []NothingInvented
<1>1. ASSUME IInv PROVE NothingInvented
  <2> SUFFICES ASSUME NEW q \in Queues, NEW k \in Keys
               PROVE  PrintOptions(file, q)[k] \in everSet[q][k] \union {Unset}
    BY DEF NothingInvented
  <2>1. CASE PrintOptions(file, q) = NoOptions
    BY <2>1, Basics
  <2>2. CASE \E s \in Slots : file[s].dest = q
                             /\ PrintOptions(file, q) = file[s].options
    BY <1>1, <2>2 DEF IInv, Stored, Known
  <2> QED
    BY <2>1, <2>2, PrintsALine
<1> QED
  BY <1>1, Invariance, PTL

(* As long as the calls of setPPDOption() run one after the other and none *)
(* is killed while it writes, the file has, of every PPD option of every   *)
(* queue, the value that was set last, whatever number of queues, options  *)
(* and calls there are.                                                    *)
THEOREM OptionsSetStaySet == Spec => []SetOptionsStay
<1>1. IInv => SetOptionsStay
  BY DEF IInv, Kept, SetOptionsStay, Quiet
<1> QED
  BY <1>1, Invariance, PTL

=============================================================================
