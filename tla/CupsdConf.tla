------------------------------ MODULE CupsdConf -----------------------------
(***************************************************************************)
(* CupsdCtrl and CupsdDirContainer: a program reads cupsd.conf into a tree *)
(* of containers, sets and gets directives by the path of their container, *)
(* and writes the tree over the file.  Administrators edit the file in the *)
(* meantime.                                                               *)
(*                                                                         *)
(* The file is a sequence of lines without their indentation; a file that  *)
(* cannot be opened reads like an empty one.  The tree is the sequence of  *)
(* its containers, each before those in it, with their depths: the order   *)
(* in which read() meets them and in which setDirective(), getDirective()  *)
(* and write() walk over them.  write() is one step: what is in the file   *)
(* while it is being written is not looked at here.                        *)
(***************************************************************************)
EXTENDS Integers, FiniteSetsExt, SequencesExt

CONSTANTS
    Words,         \* the texts that names, keys, values and parameters can be
    Files,         \* what cupsd.conf says at first
    EditedFiles,   \* what an administrator makes of it
    Paths,         \* paths to containers, from the root, that callers give
    Keys, Values,  \* of the directives that callers set
    MaxReads,      \* bound: calls of read() by one program
    MaxSets,       \* bound: calls of setDirective() by one program
    MaxRuns,       \* bound: programs, one after the other
    MaxEdits       \* bound: edits by an administrator

ASSUME BoundsAssumption ==
    MaxReads \in Nat /\ MaxSets \in Nat /\ MaxRuns \in Nat /\ MaxEdits \in Nat
VARIABLES
    file,          \* the lines of cupsd.conf
    tree,          \* CupsdCtrl::directiveContainers
    outcome,       \* of the last setDirective(): done, thrown, or none
    seen,          \* what the last read() found
    reads, sets,   \* calls of read(); <<path, key, value>> set since the last
    half,          \* has a call of setDirective() thrown after it set some?
    calls,         \* calls of setDirective()
    runs, edits    \* programs and edits so far

program == <<tree, outcome, seen, reads, sets, half, calls>>
vars    == <<file, program, runs, edits>>

-----------------------------------------------------------------------------
(* Lines and containers.  A tag is the type and the parameter of a         *)
(* container; junk counts the '>' that a tag without parameter collects.   *)

Tag(type, param) == [type |-> type, param |-> param, junk |-> 0]
NoParam == ""
Root    == Tag("root", NoParam)

Begin(tag)     == [kind |-> "begin", tag |-> tag]
End            == [kind |-> "end"]
Dir(key, v)    == [kind |-> "directive", key |-> key, value |-> v]
Word(key)      == [kind |-> "word", key |-> key]
Comment        == [kind |-> "comment"]

TagSet  == [type : Words, param : Words, junk : Nat]
LineSet == [kind : {"begin"}, tag : TagSet] \union [kind : {"end", "comment"}]
             \union [kind : {"directive"}, key : Words, value : Words]
             \union [kind : {"word"}, key : Words]

ASSUME WordsAssumption == {"root", NoParam} \union Keys \union Values \subseteq Words
ASSUME PathsAssumption == Paths \subseteq Seq(TagSet) \ {<<>>}
ASSUME FilesAssumption == Files \union EditedFiles \subseteq Seq(LineSet)

Container(depth, tag) == [depth |-> depth, tag |-> tag, directives |-> <<>>]

(* A tag without a parameter has no space to be split at: all of it is     *)
(* taken for the type and again for the parameter, '>' included, and each  *)
(* time it is read its second half ends in one more.                       *)
ReadTag(tag) == IF tag.param = NoParam THEN [tag EXCEPT !.junk = @ + 1] ELSE tag

(* A line without a space is its own key and value.                        *)
ValueOf(l) == IF l.kind = "word" THEN l.key ELSE l.value

Put(d, key, v) ==
    [k \in DOMAIN d \union {key} |-> IF k = key THEN v ELSE d[k]]

-----------------------------------------------------------------------------
(* read(): cont are the containers so far, open those that have not ended, *)
(* over is true once the root has ended.                                   *)

(* Mutant: an end tag too many ends the root like any container.           *)
ReadLineUnguarded(s, l) ==
    IF l.kind = "comment" \/ (s.open = <<>> /\ l.kind # "begin") THEN s
    ELSE IF l.kind = "begin"
    THEN [s EXCEPT !.cont = Append(@, Container(Len(s.open), ReadTag(l.tag))),
                   !.open = Append(@, Len(s.cont) + 1)]
    ELSE IF l.kind = "end" THEN [s EXCEPT !.open = Front(@)]
    ELSE [s EXCEPT !.cont[Last(s.open)].directives = Put(@, l.key, ValueOf(l))]

ReadLine(s, l) ==
    IF s.over \/ l.kind = "comment" THEN s
    ELSE IF l.kind = "begin"
    THEN [s EXCEPT !.cont = Append(@, Container(Len(s.open), ReadTag(l.tag))),
                   !.open = Append(@, Len(s.cont) + 1)]
    ELSE IF l.kind = "end"
    THEN IF Len(s.open) = 1 THEN [s EXCEPT !.over = TRUE]
                            ELSE [s EXCEPT !.open = Front(@)]
    ELSE [s EXCEPT !.cont[Last(s.open)].directives = Put(@, l.key, ValueOf(l))]

(* What has been read after each line.                                     *)
Unread == [cont |-> <<Container(0, Root)>>, open |-> <<1>>, over |-> FALSE]

ReadFile(lines) ==
    LET state[n \in 0..Len(lines)] ==
            IF n = 0 THEN Unread ELSE ReadLine(state[n - 1], lines[n])
    IN  state[Len(lines)].cont

-----------------------------------------------------------------------------
(* write(): of each container its tag, its directives in the order of the  *)
(* map, those in it, and its end.                                          *)

DepthAfter(t, i) == IF i < Len(t) THEN Max({1, t[i + 1].depth}) ELSE 1

(* Mutant: one end tag for all that end in the same place.                 *)
EndsOneOnly(t, i) ==
    [j \in 1..Min({1, t[i].depth - DepthAfter(t, i) + 1}) |-> End]

Ends(t, i) == [j \in 1..(t[i].depth - DepthAfter(t, i) + 1) |-> End]

Lines(t, i) ==
    (IF t[i].depth = 0 THEN <<>> ELSE <<Begin(t[i].tag)>>)
    \o LET d == t[i].directives
           keys == SetToSeq(DOMAIN d)
       IN  [k \in DOMAIN keys |-> Dir(keys[k], d[keys[k]])]
    \o Ends(t, i)

Written(t) == FlattenSeq([i \in DOMAIN t |-> Lines(t, i)])

-----------------------------------------------------------------------------
(* Containers by their path.                                               *)

PathOf(t, i) ==
    [d \in 1..(t[i].depth + 1) |->
        t[Max({j \in 1..i : t[j].depth = d - 1})].tag]

At(t, path) == {i \in DOMAIN t : PathOf(t, i) = path}

(* Containers on the way to path that have none for the next step of it.   *)
(* At the first of them the walk ends with "Container not found".          *)
DeadEnds(t, path) ==
    {i \in DOMAIN t :
        /\ IsStrictPrefix(PathOf(t, i), path)
        /\ ~\E j \in DOMAIN t :
              /\ j > i /\ \A k \in (i + 1)..j : t[k].depth > t[i].depth
              /\ t[j].depth = t[i].depth + 1
              /\ t[j].tag = path[t[j].depth + 1]}

Throws(t, path) == DeadEnds(t, path) # {} \/ At(t, SubSeq(path, 1, 1)) = {}

(* Mutant: the walk ends at the first container of that name.              *)
SetInFirst(t, path, key, v) ==
    LET reached == {i \in At(t, path) : \A j \in At(t, path) : i <= j}
    IN  [i \in DOMAIN t |-> IF i \in reached
                            THEN [t[i] EXCEPT !.directives = Put(@, key, v)]
                            ELSE t[i]]

(* Mutant: where the path ends early, the container it got to is set.      *)
SetInNearest(t, path, key, v) ==
    LET reached == At(t, path) \union DeadEnds(t, path)
    IN  [i \in DOMAIN t |-> IF i \in reached
                            THEN [t[i] EXCEPT !.directives = Put(@, key, v)]
                            ELSE t[i]]

(* Every container at path up to the first dead end.                       *)
SetIn(t, path, key, v) ==
    LET reached == {i \in At(t, path) : \A j \in DeadEnds(t, path) : i < j}
    IN  [i \in DOMAIN t |-> IF i \in reached
                            THEN [t[i] EXCEPT !.directives = Put(@, key, v)]
                            ELSE t[i]]

(* getDirective(): the last container at path has the say.  Below the root *)
(* the whole directive is returned, whether or not valueOnly is asked for. *)
Get(t, path, key, valueOnly) ==
    LET d == t[Max(At(t, path))].directives
    IN  IF Throws(t, path) THEN <<"thrown">>
        ELSE IF key \notin DOMAIN d THEN <<"Directive not found">>
        ELSE IF valueOnly /\ Len(path) = 1 THEN <<d[key]>>
        ELSE <<key, d[key]>>

-----------------------------------------------------------------------------
Fresh ==
    /\ tree' = <<>> /\ outcome' = "none" /\ seen' = <<>>
    /\ reads' = 0 /\ sets' = {} /\ half' = FALSE /\ calls' = 0

Init ==
    /\ file \in Files
    /\ tree = <<>> /\ outcome = "none" /\ seen = <<>>
    /\ reads = 0 /\ sets = {} /\ half = FALSE /\ calls = 0
    /\ runs = 1 /\ edits = 0

(* CupsdCtrl::read(): another root, behind those that were read before.    *)
Read ==
    /\ reads < MaxReads
    /\ tree' = tree \o ReadFile(file)
    /\ seen' = file
    /\ reads' = reads + 1 /\ sets' = {} /\ half' = FALSE
    /\ UNCHANGED <<file, outcome, calls, runs, edits>>

SetDirective(path, key, v) ==
    /\ calls < MaxSets
    /\ calls' = calls + 1
    /\ tree' = SetIn(tree, path, key, v)
    /\ IF Throws(tree, path)
       THEN outcome' = "thrown" /\ half' = (half \/ tree' # tree) /\ UNCHANGED sets
       ELSE /\ outcome' = "done"
            /\ sets' = {s \in sets : s[1] # path \/ s[2] # key}
                          \union {<<path, key, v>>}
            /\ UNCHANGED half
    /\ UNCHANGED <<file, seen, reads, runs, edits>>

Write ==
    /\ file' = Written(tree)
    /\ UNCHANGED <<program, runs, edits>>

(* The program ends and another begins.                                    *)
StartAgain ==
    /\ runs < MaxRuns
    /\ runs' = runs + 1
    /\ Fresh
    /\ UNCHANGED <<file, edits>>

Edit ==
    /\ edits < MaxEdits
    /\ edits' = edits + 1
    /\ file' \in EditedFiles
    /\ UNCHANGED <<program, runs>>

Next ==
    \/ Read \/ Write \/ StartAgain \/ Edit
    \/ \E path \in Paths, key \in Keys, v \in Values : SetDirective(path, key, v)

Spec == Init /\ [][Next]_vars

-----------------------------------------------------------------------------
(* What the lines of a file say, each by itself, without reading it into a *)
(* tree: <<path, key, value>> of every directive.                          *)

Nested(f, i) == Cardinality({j \in 1..(i - 1) : f[j].kind = "begin"})
                - Cardinality({j \in 1..(i - 1) : f[j].kind = "end"})

(* Up to an end tag that ends nothing.                                     *)
Live(f) == {i \in DOMAIN f : \A j \in 1..i : f[j].kind = "end" => Nested(f, j) > 0}

(* The line that begins the container of depth d around line i.            *)
Opener(f, i, d) ==
    Max({j \in 1..(i - 1) : f[j].kind = "begin" /\ Nested(f, j) = d - 1})

Around(f, i) == [d \in 1..Nested(f, i) |-> Opener(f, i, d)]

Says(f) == {i \in Live(f) : f[i].kind \in {"directive", "word"}}

(* Of a key repeated in a container only the last line counts.             *)
Kept(f) ==
    {i \in Says(f) :
        ~\E j \in Says(f) : j > i /\ f[j].key = f[i].key /\ Around(f, j) = Around(f, i)}

Entries(f, Read1(_)) ==
    {<<<<Root>> \o [d \in 1..Nested(f, i) |-> Read1(f[Opener(f, i, d)].tag)],
       f[i].key, ValueOf(f[i])>> : i \in Kept(f)}

-----------------------------------------------------------------------------
(* Properties.                                                             *)

(* Every variable has its type: the tree is one of containers, each at     *)
(* most one deeper than the one before it.                                 *)
TypeOK ==
    /\ file \in Seq(LineSet) /\ seen \in Seq(LineSet)
    /\ sets \subseteq Paths \X Keys \X Values
    /\ half \in BOOLEAN /\ outcome \in {"none", "done", "thrown"}
    /\ reads \in 0..MaxReads /\ calls \in 0..MaxSets /\ edits \in 0..MaxEdits
    /\ \A i \in DOMAIN tree :
          /\ tree[i].depth >= 0
          /\ tree[i].depth <= IF i = 1 THEN 0 ELSE tree[i - 1].depth + 1
          /\ tree[i].depth = 0 <=> tree[i].tag = Root
          /\ tree[i].tag \in TagSet
    /\ reads = Cardinality({i \in DOMAIN tree : tree[i].depth = 0})

(* What write() would leave in the file is what the program read, with     *)
(* what it has set since: no directive moves to another container, none    *)
(* appears, and none goes, but comments, the earlier lines of a key that   *)
(* is repeated in its container, and all after an end tag too many.  The   *)
(* administrator's edits since the read are undone.                        *)
WriteKeepsTheFile ==
    (reads = 1 /\ ~half) =>
        Entries(Written(tree), LAMBDA t : t) =
            {e \in Entries(seen, ReadTag) :
                ~\E s \in sets : s[1] = e[1] /\ s[2] = e[2]} \union sets

(* What was set is what a caller gets, asking for the value only or not,   *)
(* in the file read once or often, with several containers of one name,    *)
(* after any other calls.                                                  *)
SetIsGot ==
    \A s \in sets, valueOnly \in BOOLEAN :
        Last(Get(tree, s[1], s[2], valueOnly)) = s[3]

(* A setDirective() that throws has set nothing, unless one of two         *)
(* containers of the same path lacks the next step.                        *)
FailedSetSetsNothing ==
    [][outcome' = "thrown" /\ tree' # tree /\ reads' = reads /\ runs' = runs =>
         \E i, j \in DOMAIN tree : i # j /\ PathOf(tree, i) = PathOf(tree, j)]_vars

=============================================================================
