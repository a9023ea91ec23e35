------------------------------ MODULE IppReply ------------------------------
(***************************************************************************)
(* How CupsCtrl reads the replies of cupsd.  A reply is a row of           *)
(* attributes: those of the operation, then a group for each printer, PPD  *)
(* or job, with a separator between two groups of one kind.  The readers   *)
(* walk along the row and put together what they return from the groups    *)
(* they pass; getJobList() walks backwards.                                *)
(*                                                                         *)
(* The value of an attribute is the number of the group it stands in: all  *)
(* that can go wrong is where a value comes from.                          *)
(***************************************************************************)
EXTENDS Integers, Sequences, FiniteSets, SequencesExt

CONSTANTS
    Fields,      \* the attributes asked for, besides the key
    UserName,    \* that of them getJobList() looks for under another name
    MaxGroups    \* bound: groups in a reply

Key == "key"     \* printer-name, ppd-make-and-model, ppd-make or job-id

ASSUME FieldsAssumption ==
    UserName \in Fields /\ Key \notin Fields /\ IsFiniteSet(Fields)
ASSUME BoundsAssumption == MaxGroups \in Nat

(* getPrinterAttribute(), getFullStatus(), getCupsPrinterList() and        *)
(* getCupsPrinterList2(), getPPDListOfMakes(), getPPDListOfModels(),       *)
(* getQueueAttribute(), getJobList().                                      *)
Readers == {"attribute", "status", "names", "makes", "models", "members",
            "jobs"}

VARIABLES
    reader,    \* which of the methods reads
    wanted,    \* the printer it is asked for, by its number; 0 is none there
    limit,     \* numJobs
    reply,     \* the groups of the reply
    pos,       \* where in the row of attributes the reader is
    pc,        \* the loop it is in
    printer,   \* the last key it has seen, 0 before
    value,     \* the fields, as it has put them together
    found,     \* gotPrinter
    count,     \* jobs counted
    list       \* what it has listed

asked == <<reader, wanted, limit, reply>>
vars  == <<asked, pos, pc, printer, value, found, count, list>>

Finders == {"attribute", "status", "members"}
Blank   == [f \in Fields |-> 0]
Groups  == [key : BOOLEAN, last : BOOLEAN, fields : SUBSET Fields]

(* Group n as a row: its key, if it has one, comes before or after the     *)
(* other attributes.                                                       *)
RowOf(n) ==
    LET Attr(a) == [group |-> "own", name |-> a, value |-> n]
        fields  == SetToSeq({Attr(f) : f \in reply[n].fields})
        key     == IF reply[n].key THEN <<Attr(Key)>> ELSE <<>>
    IN  IF reply[n].last THEN fields \o key ELSE key \o fields

Other(name) == [group |-> "other", name |-> name, value |-> 0]

Attrs ==
    <<Other("attributes-charset"), Other("attributes-natural-language")>>
    \o FlattenSeq([n \in 1..Len(reply) |->
          (IF n = 1 THEN <<>> ELSE <<Other("separator")>>) \o RowOf(n)])

(* A class comes alone; only a PPD may lack what it is listed by.          *)
Init ==
    /\ reader \in Readers
    /\ \E n \in 0..MaxGroups : reply \in [1..n -> Groups]
    /\ reader = "members" => Len(reply) <= 1
    /\ \A n \in 1..Len(reply) :
          IF reader = "models"
          THEN /\ reply[n].key \/ reply[n].fields # {}
               /\ reply[n].last => reply[n].key
          ELSE reply[n].key
    /\ wanted \in IF reader \in Finders THEN 0..Len(reply) ELSE {0}
    /\ limit \in IF reader = "jobs" THEN 0..MaxGroups ELSE {0}
    /\ pos = IF reader = "jobs" THEN Len(Attrs) ELSE 1
    /\ pc = "outer"
    /\ printer = 0 /\ value = Blank /\ found = FALSE
    /\ count = 0 /\ list = <<>>

Here == Attrs[pos]

-----------------------------------------------------------------------------
(* The readers that walk forwards.                                         *)

Forwards == reader # "jobs"

(* To the next group; the one that reads models has a new Ppd for it.      *)
SkipOther ==
    /\ Forwards /\ pc = "outer"
    /\ pos <= Len(Attrs) /\ Here.group = "other"
    /\ pos' = pos + 1
    /\ UNCHANGED <<asked, pc, printer, value, found, count, list>>

(* Mutant: one Ppd serves for all groups.                                  *)
EnterGroupKeepsPpd ==
    /\ Forwards /\ pc = "outer"
    /\ pos <= Len(Attrs) => Here.group = "own"
    /\ pc' = "group"
    /\ UNCHANGED <<asked, pos, printer, value, found, count, list>>

EnterGroup ==
    /\ Forwards /\ pc = "outer"
    /\ pos <= Len(Attrs) => Here.group = "own"
    /\ pc' = "group"
    /\ value' = IF reader = "models" THEN Blank ELSE value
    /\ printer' = IF reader = "models" THEN 0 ELSE printer
    /\ UNCHANGED <<asked, pos, found, count, list>>

TakesNext ==
    /\ Forwards /\ pc = "group"
    /\ pos <= Len(Attrs) /\ Here.group = "own"
    /\ pos' = pos + 1
    /\ UNCHANGED <<asked, pc, found, count>>

(* Mutant: what was found first is kept.                                   *)
KeepFirst(store) ==
    /\ value' = IF Here.name \in store /\ value[Here.name] = 0
                THEN [value EXCEPT ![Here.name] = Here.value] ELSE value
    /\ printer' = IF Here.name = Key THEN Here.value ELSE printer

Keep(store) ==
    /\ value' = IF Here.name \in store
                THEN [value EXCEPT ![Here.name] = Here.value] ELSE value
    /\ printer' = IF Here.name = Key THEN Here.value ELSE printer

(* getPrinterAttribute() keeps the one attribute it is asked for, here all *)
(* it might be asked for, in the one IppAttr it has.                       *)
TakeAttribute ==
    TakesNext /\ reader = "attribute" /\ Keep(Fields) /\ UNCHANGED list

(* getFullStatus() keeps all of them in the caller's record.               *)
TakeStatus ==
    TakesNext /\ reader = "status" /\ Keep(Fields) /\ UNCHANGED list

TakeModel ==
    TakesNext /\ reader = "models" /\ Keep(Fields) /\ UNCHANGED list

ListKey ==
    /\ list' = IF Here.name = Key THEN Append(list, Here.value) ELSE list
    /\ UNCHANGED <<printer, value>>

TakeName == TakesNext /\ reader = "names" /\ ListKey

TakeMake == TakesNext /\ reader = "makes" /\ ListKey

(* getQueueAttribute() lists the values it finds, and finds all of them in *)
(* the only group.                                                         *)
TakeMember ==
    /\ TakesNext /\ reader = "members"
    /\ list' = IF Here.name \in Fields THEN Append(list, Here.value) ELSE list
    /\ printer' = IF Here.name = Key THEN Here.value ELSE printer
    /\ UNCHANGED value

AtGroupEnd ==
    /\ Forwards /\ pc = "group"
    /\ pos <= Len(Attrs) => Here.group = "other"

(* The group was the one looked for.                                       *)
IsWanted == printer # 0 /\ printer = wanted

StopAtWanted ==
    /\ AtGroupEnd /\ reader \in Finders /\ IsWanted
    /\ found' = TRUE /\ pc' = "done"
    /\ UNCHANGED <<asked, pos, printer, value, count, list>>

(* Mutant: it is not looked whether the reply has ended.                   *)
GoOnUnchecked ==
    /\ AtGroupEnd /\ ~(reader \in Finders /\ IsWanted)
    /\ list' = IF reader = "models" /\ printer # 0
               THEN Append(list, [key |-> printer, fields |-> value]) ELSE list
    /\ pc' = "outer" /\ pos' = pos + 1
    /\ UNCHANGED <<asked, printer, value, found, count>>

(* A Ppd is listed if it has a name; and the reader goes on past the       *)
(* attribute that ended the group, or ends with the reply.  An attribute   *)
(* of a printer that was not there is zeroed.                              *)
GoOn ==
    /\ AtGroupEnd /\ ~(reader \in Finders /\ IsWanted)
    /\ list' = IF reader = "models" /\ printer # 0
               THEN Append(list, [key |-> printer, fields |-> value]) ELSE list
    /\ \/ /\ pos > Len(Attrs) /\ pc' = "done" /\ UNCHANGED pos
          /\ value' = IF reader = "attribute" THEN Blank ELSE value
       \/ /\ pos <= Len(Attrs) /\ pc' = "outer" /\ pos' = pos + 1
          /\ UNCHANGED value
    /\ UNCHANGED <<asked, printer, found, count>>

-----------------------------------------------------------------------------
(* getJobList(): from the last attribute back to the first.                *)

Backwards == reader = "jobs"
AtBegin   == pos = 1

BackOther ==
    /\ Backwards /\ pc = "outer"
    /\ ~AtBegin /\ Here.group # "own"
    /\ pos' = pos - 1
    /\ UNCHANGED <<asked, pc, printer, value, found, count, list>>

(* Mutant: one job more than asked for.                                    *)
CountJobLate ==
    /\ Backwards /\ pc = "outer"
    /\ ~AtBegin => Here.group = "own"
    /\ count' = count + 1
    /\ pc' = IF limit # 0 /\ count > limit THEN "done" ELSE "group"
    /\ printer' = 0 /\ value' = Blank
    /\ UNCHANGED <<asked, pos, found, list>>

(* Every group is counted, and so is coming to the beginning.              *)
CountJob ==
    /\ Backwards /\ pc = "outer"
    /\ ~AtBegin => Here.group = "own"
    /\ count' = count + 1
    /\ pc' = IF limit # 0 /\ count' > limit THEN "done" ELSE "group"
    /\ printer' = 0 /\ value' = Blank
    /\ UNCHANGED <<asked, pos, found, list>>

(* Mutant: only an attribute it knows is passed.                           *)
TakeJobKnown ==
    /\ Backwards /\ pc = "group"
    /\ ~AtBegin /\ Here.group = "own"
    /\ Keep(Fields \ {UserName})
    /\ pos' = IF Here.name = UserName THEN pos ELSE pos - 1
    /\ UNCHANGED <<asked, pc, found, count, list>>

(* "job-orginating-user-name" is no attribute of a job.                    *)
TakeJob ==
    /\ Backwards /\ pc = "group"
    /\ ~AtBegin /\ Here.group = "own"
    /\ Keep(Fields \ {UserName})
    /\ pos' = pos - 1
    /\ UNCHANGED <<asked, pc, found, count, list>>

(* A job is listed if it has an id; the loop ends at the beginning.        *)
ListJob ==
    /\ Backwards /\ pc = "group"
    /\ ~AtBegin => Here.group # "own"
    /\ list' = IF printer # 0
               THEN Append(list, [key |-> printer, fields |-> value]) ELSE list
    /\ pc' = IF AtBegin THEN "done" ELSE "outer"
    /\ UNCHANGED <<asked, pos, printer, value, found, count>>

-----------------------------------------------------------------------------
Next ==
    \/ SkipOther \/ EnterGroup
    \/ TakeAttribute \/ TakeStatus \/ TakeModel \/ TakeName \/ TakeMake
    \/ TakeMember
    \/ StopAtWanted \/ GoOn
    \/ BackOther \/ CountJob \/ TakeJob \/ ListJob

Spec == Init /\ [][Next]_vars /\ WF_vars(Next)

-----------------------------------------------------------------------------
(* Every variable has its type: above all, no reader leaves the reply at   *)
(* either end, whichever loop it comes to the end in.                      *)
TypeOK ==
    /\ reader \in Readers
    /\ wanted \in 0..Len(reply) /\ limit \in 0..MaxGroups
    /\ pos \in 1..Len(Attrs) + 1
    /\ reader = "jobs" => pos <= Len(Attrs)
    /\ pc \in {"outer", "group", "done"}
    /\ printer \in 0..Len(reply)
    /\ value \in [Fields -> 0..Len(reply)]
    /\ found \in BOOLEAN
    /\ count \in 0..Len(reply) + 1

(* What group n has, kept of it only what is in store.                     *)
Own(n, store) ==
    [key |-> n, fields |-> [f \in Fields |->
        IF f \in reply[n].fields \intersect store THEN n ELSE 0]]

(* getPrinterAttribute() and getFullStatus() find a printer if the reply   *)
(* has it, and then each attribute the printer has is returned with the    *)
(* printer's own value, whichever printers come before it and in whatever  *)
(* order the attributes come; an attribute of no printer is zeroed.        *)
FoundHasOwnValues ==
    pc = "done" /\ reader \in {"attribute", "status"} =>
        /\ found <=> wanted # 0
        /\ found => \A f \in reply[wanted].fields : value[f] = wanted
        /\ reader = "attribute" /\ ~found => value = Blank

(* The lists have each printer, make, member and named PPD once, in the    *)
(* reply's order, and what a Ppd holds is its own group's, all of it and   *)
(* nothing of another.                                                     *)
ListsAreTheReply ==
    pc = "done" =>
        /\ reader \in {"names", "makes"} => list = [n \in 1..Len(reply) |-> n]
        /\ reader = "members" /\ reply # <<>> =>
             list = [i \in 1..Cardinality(reply[1].fields) |-> 1]
        /\ reader = "models" =>
             /\ {list[i].key : i \in 1..Len(list)}
                    = {n \in 1..Len(reply) : reply[n].key}
             /\ \A i \in 1..Len(list) :
                   /\ list[i] = Own(list[i].key, Fields)
                   /\ i > 1 => list[i - 1].key < list[i].key

(* getJobList() lists the newest jobs, newest first, as many as asked for  *)
(* or all, each with its own attributes except the user, which it does not *)
(* find.  moveJob() and cancelJobs() go by this order.                     *)
ListsNewestJobs ==
    pc = "done" /\ reader = "jobs" =>
        LET all == Len(reply)
            n   == IF limit = 0 \/ limit > all THEN all ELSE limit
        IN  list = [i \in 1..n |-> Own(all + 1 - i, Fields \ {UserName})]

(* Every scan comes to its end: no loop is left with the loop around it    *)
(* standing still.                                                         *)
ScanEnds == <>(pc = "done")

-----------------------------------------------------------------------------
(* What a comment says, where the code does something else.                *)

(* "Then we have a queue of the right name. We should already have         *)
(* configured attr, above": what is returned of a printer is its own.      *)
NothingOfAnother ==
    found => \A f \in Fields : value[f] \in {0, wanted}

=============================================================================
