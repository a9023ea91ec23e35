----------------------------- MODULE LpOptions -----------------------------
(***************************************************************************)
(* The file /etc/cups/lpoptions with the options of each queue.            *)
(* setPPDOption() reads all of it, changes one option, empties the file    *)
(* and writes it out line by line; printFile() reads it whenever a job is  *)
(* made.  No one locks the file.                                           *)
(***************************************************************************)
EXTENDS Integers, Sequences

CONSTANTS
    Writers,      \* programs that call setPPDOption()
    Order,        \* the queues, in the order of cupsGetDests()
    PpdKeys,      \* keywords of PPD options
    JobKeys,      \* keywords that are IPP job or printer attributes
    Values,       \* option values
    MaxCalls,     \* bound: calls of setPPDOption()
    MaxCrashes    \* bound: writers that are killed

Queues  == {Order[i] : i \in 1..Len(Order)}
Keys    == PpdKeys \union JobKeys
Slots   == 1..Len(Order)
Unset   == "unset"
NoQueue == "none"

ASSUME OrderAssumption ==
    /\ Order \in Seq(Queues)
    /\ \A i, j \in 1..Len(Order) : Order[i] = Order[j] => i = j
ASSUME NamesAssumption ==
    Values # {} /\ Unset \notin Values /\ NoQueue \notin Queues
ASSUME KeysAssumption  == PpdKeys \intersect JobKeys = {}
ASSUME BoundsAssumption == MaxCalls \in Nat /\ MaxCrashes \in Nat

VARIABLES
    default,    \* the default queue, or NoQueue
    file,       \* the lines of lpoptions; EmptyLine is none at all
    pc,         \* what a writer does next
    dests,      \* the options of every queue as it read and changed them
    setting,    \* the option it sets
    next,       \* dests it has come to, as an index of Order
    slot,       \* lines it has written, and one
    wanted,     \* value last set for each option by a call that returned
    everSet,    \* all values an option was ever set to
    disturbed,  \* two calls ran at once, or one was killed while it wrote
    calls, crashes

vars == <<default, file, pc, dests, setting, next, slot, wanted, everSet,
          disturbed, calls, crashes>>

Options   == [Keys -> Values \union {Unset}]
NoOptions == [k \in Keys |-> Unset]
EmptyLine == [heading |-> "nothing", dest |-> NoQueue, options |-> NoOptions]
Garbled   == [heading |-> "garbled", dest |-> NoQueue, options |-> NoOptions]
Lines     == {EmptyLine, Garbled}
             \union [heading : {"Dest", "Default"}, dest : Queues,
                     options : Options]
EmptyFile == [s \in Slots |-> EmptyLine]

(* What cupsGetDests() makes of the file: all lines of a queue count, and  *)
(* the last that has an option decides.                                    *)
Decides(f, q, k, s) ==
    /\ f[s].dest = q /\ f[s].options[k] # Unset
    /\ \A t \in Slots : t > s /\ f[t].dest = q => f[t].options[k] = Unset

OptionsIn(f) ==
    [q \in Queues |-> [k \in Keys |->
        IF \E s \in Slots : Decides(f, q, k, s)
        THEN f[CHOOSE s \in Slots : Decides(f, q, k, s)].options[k]
        ELSE Unset]]

(* What printFile() makes of it: the first line that begins with "Dest",   *)
(* the queue and a space, which only an option can follow.                 *)
IsDestLine(f, q, s) ==
    f[s].heading = "Dest" /\ f[s].dest = q /\ f[s].options # NoOptions

PrintOptions(f, q) ==
    IF \E s \in Slots : IsDestLine(f, q, s)
    THEN f[CHOOSE s \in Slots : /\ IsDestLine(f, q, s)
                                /\ \A t \in 1..(s - 1) : ~IsDestLine(f, q, t)].options
    ELSE NoOptions

-----------------------------------------------------------------------------
(* A file as lpoptions(1) leaves it, with or without options on a queue.   *)
FirstOptions == {NoOptions, [k \in Keys |-> CHOOSE v \in Values : TRUE]}

Init ==
    /\ default \in Queues \union {NoQueue}
    /\ \E first \in [Queues -> FirstOptions] :
          /\ file = [s \in Slots |->
                        IF first[Order[s]] = NoOptions THEN EmptyLine
                        ELSE [heading |-> IF Order[s] = default THEN "Default"
                                          ELSE "Dest",
                              dest |-> Order[s], options |-> first[Order[s]]]]
          /\ wanted = first
          /\ everSet = [q \in Queues |-> [k \in Keys |-> {first[q][k]}]]
    /\ pc = [w \in Writers |-> "idle"]
    /\ dests = [w \in Writers |-> [q \in Queues |-> NoOptions]]
    /\ setting = [w \in Writers |-> <<>>]
    /\ next = [w \in Writers |-> 1]
    /\ slot = [w \in Writers |-> 1]
    /\ disturbed = FALSE
    /\ calls = 0 /\ crashes = 0

(* No call of setPPDOption() is running.                                   *)
Quiet == \A w \in Writers : pc[w] = "idle"

With(o, k, v) == [o EXCEPT ![k] = v]

(* Mutant: the options the queue has already are not copied.               *)
GetDestsNoCopy(w) ==
    /\ pc[w] = "idle"
    /\ calls < MaxCalls /\ calls' = calls + 1
    /\ \E q \in Queues, k \in Keys, v \in Values :
          /\ setting' = [setting EXCEPT ![w] = <<q, k, v>>]
          /\ dests' = [dests EXCEPT ![w] =
                          [OptionsIn(file) EXCEPT ![q] = With(NoOptions, k, v)]]
          /\ everSet' = [everSet EXCEPT ![q][k] = @ \union {v}]
    /\ disturbed' = (disturbed \/ ~Quiet)
    /\ pc' = [pc EXCEPT ![w] = "open"]
    /\ UNCHANGED <<default, file, next, slot, wanted, crashes>>

(* setPPDOption() reads the file and changes its copy.                     *)
GetDests(w) ==
    /\ pc[w] = "idle"
    /\ calls < MaxCalls /\ calls' = calls + 1
    /\ \E q \in Queues, k \in Keys, v \in Values :
          /\ setting' = [setting EXCEPT ![w] = <<q, k, v>>]
          /\ dests' = [dests EXCEPT ![w] =
                          [OptionsIn(file) EXCEPT ![q] = With(@, k, v)]]
          /\ everSet' = [everSet EXCEPT ![q][k] = @ \union {v}]
    /\ disturbed' = (disturbed \/ ~Quiet)
    /\ pc' = [pc EXCEPT ![w] = "open"]
    /\ UNCHANGED <<default, file, next, slot, wanted, crashes>>

(* writeLpOptions() opens and thereby empties the file, or throws.         *)
OpenTrunc(w) ==
    /\ pc[w] = "open"
    /\ file' = EmptyFile
    /\ next' = [next EXCEPT ![w] = 1]
    /\ slot' = [slot EXCEPT ![w] = 1]
    /\ pc' = [pc EXCEPT ![w] = "write"]
    /\ UNCHANGED <<default, dests, setting, wanted, everSet, disturbed,
                   calls, crashes>>

OpenFails(w) ==
    /\ pc[w] = "open"
    /\ pc' = [pc EXCEPT ![w] = "idle"]
    /\ UNCHANGED <<default, file, dests, setting, next, slot, wanted, everSet,
                   disturbed, calls, crashes>>

(* Job and printer attributes are skipped.                                 *)
Saved(o) == [k \in Keys |-> IF k \in JobKeys THEN Unset ELSE o[k]]

(* Mutant: every line is headed by the name of the first queue.            *)
LineForFirstName(w, q) ==
    IF Saved(dests[w][q]) = NoOptions /\ q # default THEN EmptyLine
    ELSE [heading |-> IF q = default THEN "Default" ELSE "Dest",
          dest |-> Order[1], options |-> Saved(dests[w][q])]

(* The line of queue q: none, unless something is left to go on it.        *)
LineFor(w, q) ==
    IF Saved(dests[w][q]) = NoOptions /\ q # default THEN EmptyLine
    ELSE [heading |-> IF q = default THEN "Default" ELSE "Dest",
          dest |-> q, options |-> Saved(dests[w][q])]

(* A line goes where the writer's own lines end.  Past the end of the file *)
(* it follows a gap and cannot be read; put over another program's line it *)
(* may run over the beginning of the next.                                 *)
PutLine(s, line) ==
    LET gap == \E t \in 1..(s - 1) : file[t] = EmptyLine IN
    \/ file' = [file EXCEPT ![s] = IF gap THEN Garbled ELSE line]
    \/ /\ ~gap /\ file[s] \notin {EmptyLine, line}
       /\ s + 1 \in Slots /\ file[s + 1] # EmptyLine
       /\ file' = [file EXCEPT ![s] = line, ![s + 1] = Garbled]

(* Mutant: a queue without a line takes the queue after it along.          *)
WriteLineSkipsTwo(w) ==
    /\ pc[w] = "write" /\ next[w] <= Len(Order)
    /\ LET line == LineFor(w, Order[next[w]]) IN
          \/ /\ line # EmptyLine
             /\ PutLine(slot[w], line)
             /\ slot' = [slot EXCEPT ![w] = @ + 1]
             /\ next' = [next EXCEPT ![w] = @ + 1]
          \/ /\ line = EmptyLine /\ UNCHANGED <<file, slot>>
             /\ next' = [next EXCEPT ![w] = @ + 2]
    /\ UNCHANGED <<default, pc, dests, setting, wanted, everSet, disturbed,
                   calls, crashes>>

WriteLine(w) ==
    /\ pc[w] = "write" /\ next[w] <= Len(Order)
    /\ LET line == LineFor(w, Order[next[w]]) IN
          \/ /\ line # EmptyLine
             /\ PutLine(slot[w], line)
             /\ slot' = [slot EXCEPT ![w] = @ + 1]
          \/ line = EmptyLine /\ UNCHANGED <<file, slot>>
    /\ next' = [next EXCEPT ![w] = @ + 1]
    /\ UNCHANGED <<default, pc, dests, setting, wanted, everSet, disturbed,
                   calls, crashes>>

(* The file is closed and setPPDOption() returns.                          *)
Close(w) ==
    /\ pc[w] = "write" /\ next[w] > Len(Order)
    /\ pc' = [pc EXCEPT ![w] = "idle"]
    /\ LET q == setting[w][1]  k == setting[w][2]  v == setting[w][3] IN
          wanted' = [wanted EXCEPT ![q] = With(@, k, v)]
    /\ UNCHANGED <<default, file, dests, setting, next, slot, everSet, disturbed,
                   calls, crashes>>

(* A writer is killed; the file stays as it is.                            *)
Crash(w) ==
    /\ pc[w] \in {"open", "write"}
    /\ crashes < MaxCrashes /\ crashes' = crashes + 1
    /\ disturbed' = (disturbed \/ pc[w] = "write")
    /\ pc' = [pc EXCEPT ![w] = "idle"]
    /\ UNCHANGED <<default, file, dests, setting, next, slot, wanted, everSet,
                   calls>>

-----------------------------------------------------------------------------
Next == \E w \in Writers :
    GetDests(w) \/ OpenTrunc(w) \/ OpenFails(w) \/ WriteLine(w) \/ Close(w)
        \/ Crash(w)

Spec == Init /\ [][Next]_vars

-----------------------------------------------------------------------------
(* Every variable has its type.                                            *)
TypeOK ==
    /\ default \in Queues \union {NoQueue}
    /\ file \in [Slots -> Lines]
    /\ pc \in [Writers -> {"idle", "open", "write"}]
    /\ dests \in [Writers -> [Queues -> Options]]
    /\ setting \in [Writers -> {<<>>} \union (Queues \X Keys \X Values)]
    /\ next \in [Writers -> 1..(Len(Order) + 1)]
    /\ slot \in [Writers -> 1..(Len(Order) + 1)]
    /\ wanted \in [Queues -> Options]
    /\ everSet \in [Queues -> [Keys -> SUBSET (Values \union {Unset})]]
    /\ disturbed \in BOOLEAN
    /\ calls \in 0..MaxCalls /\ crashes \in 0..MaxCrashes

(* Whoever writes at the same time, and wherever one is killed: a job is   *)
(* made with no value of an option that was not set for its queue.         *)
NothingInvented ==
    \A q \in Queues, k \in Keys :
        PrintOptions(file, q)[k] \in everSet[q][k] \union {Unset}

(* Where calls run one at a time and none is killed while it writes, every *)
(* PPD option of every queue has the value it was last set to, through all *)
(* the rewriting of the file for other options and other queues.           *)
SetOptionsStay ==
    Quiet /\ ~disturbed
        => \A q \in Queues, k \in PpdKeys : OptionsIn(file)[q][k] = wanted[q][k]

-----------------------------------------------------------------------------
(* What a comment says, where the code does something else.                *)

(* "Read the default options for the queue", once writeLpOptions() has     *)
(* written the file and no one writes it.                                  *)
PrintsWithQueueOptions ==
    Quiet /\ (\E w \in Writers : next[w] > Len(Order))
        => \A q \in Queues, k \in PpdKeys : PrintOptions(file, q)[k] = wanted[q][k]

=============================================================================
