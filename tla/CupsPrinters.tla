---------------------------- MODULE CupsPrinters ----------------------------
(***************************************************************************)
(* Programs that set up queues through CupsCtrl: addPrinter(),             *)
(* setDeviceURI(), setPPD(), setPPDFromFile(), setInfo(), setAccepting(),  *)
(* setEnabled(), deletePrinter(), and the readers of a queue's PPD file.   *)
(* Every reader copies the PPD file from cupsd to /tmp/ppd_<queue>.ppd, a  *)
(* name all programs share, and setDeviceURI() is a reader too: it looks   *)
(* whether the queue has a PPD before it sets the URI.  setShared() has no *)
(* body as compiled.                                                       *)
(***************************************************************************)
EXTENDS Integers

CONSTANTS
    Clients,      \* programs that use CupsCtrl
    Queues,       \* names of queues
    Users,        \* users the programs run as
    URIs,         \* device URIs
    RemoteURIs,   \* those of IPP and IPPS queues
    Models,       \* PPDs of the server and in files
    Nameless,     \* those without a nickname
    Kinds,        \* methods the clients call
    MaxCalls,     \* bound: calls of CupsCtrl's methods
    MaxFaults     \* bound: requests refused without a reason below, or whose
                  \* answer is lost; files removed from /tmp

NoURI   == "none"       \* the URI of a queue that was given none
NoPPD   == "raw"        \* a raw queue
Default == "pdf"        \* what setDeviceURI() installs
NoQueue == "absent"
NoOwner == "nobody"
Empty   == "empty"

Absent == [uri |-> NoQueue, ppd |-> NoPPD, shared |-> FALSE,
           accepting |-> FALSE, enabled |-> FALSE]
NoFile == [owner |-> NoOwner, holds |-> Empty]

PPDs     == Models \union {Default}
Records  == [uri : URIs \union {NoURI}, ppd : PPDs \union {NoPPD},
             shared : BOOLEAN, accepting : BOOLEAN, enabled : BOOLEAN]
Files    == [owner : Users, holds : PPDs \union {Empty}]
Requests == [kind : Kinds \union {"none"}, queue : Queues, uri : URIs,
             ppd : Models \union {NoPPD}]

ASSUME NamesAssumption ==
    /\ Queues # {} /\ URIs # {}
    /\ {NoURI, NoQueue} \intersect URIs = {} /\ RemoteURIs \subseteq URIs
    /\ Default \notin Models /\ Nameless \subseteq Models
    /\ {NoPPD, Empty} \intersect PPDs = {}
    /\ NoOwner \notin Users
ASSUME KindsAssumption == Kinds \subseteq
    {"addPrinter", "setDeviceURI", "setPPD", "setPPDFromFile", "setInfo",
     "accept", "reject", "enable", "disable", "deletePrinter", "getPPD",
     "getPPDOptions"}
ASSUME BoundsAssumption == MaxCalls \in Nat /\ MaxFaults \in Nat

VARIABLES
    queue,      \* cupsd: what it keeps of each queue, or Absent
    removed,    \* queues that were removed at some time
    pdfExists,  \* the file setDeviceURI() installs is there
    user,       \* the user each program runs as
    tmp,        \* /tmp/ppd_<queue>.ppd of each queue, or NoFile
    gone,       \* programs whose file was unlinked since they opened it
    pc,         \* what a program's call comes to next
    call,       \* the call it runs, or ran last, with its arguments
    got,        \* the PPD that call has read, NoPPD before
    ended,      \* how it ended
    base,       \* the queue when the call began
    seen,       \* the PPDs the queue has had since
    alone,      \* no other call for the queue since, and no fault in this one
    faults, calls

cupsd  == <<queue, removed, pdfExists>>
client == <<pc, call, got, ended, base, seen, alone>>
vars   == <<cupsd, user, tmp, gone, client, faults, calls>>

Setters == {"setDeviceURI", "addPrinter"}
MyQueue(c) == call[c].queue
MyFile(c)  == tmp[MyQueue(c)]

(* Queues that were there before have a URI, and a PPD if it is remote.    *)
Init ==
    /\ queue \in [Queues -> {Absent} \union
          {r \in Records : /\ r.uri # NoURI /\ r.ppd # Default
                           /\ r.uri \in RemoteURIs => r.ppd # NoPPD
                           /\ r.shared /\ r.accepting /\ r.enabled}]
    /\ removed = {}
    /\ pdfExists \in BOOLEAN
    /\ user \in [Clients -> Users]
    /\ tmp = [q \in Queues |-> NoFile]
    /\ gone = {}
    /\ pc = [c \in Clients |-> "idle"]
    /\ call = [c \in Clients |->
                  [kind |-> "none", queue |-> CHOOSE q \in Queues : TRUE,
                   uri |-> CHOOSE u \in URIs : TRUE, ppd |-> NoPPD]]
    /\ got = [c \in Clients |-> NoPPD]
    /\ ended = [c \in Clients |-> "return"]
    /\ base = [c \in Clients |-> Absent]
    /\ seen = [c \in Clients |-> {}]
    /\ alone = [c \in Clients |-> FALSE]
    /\ faults = 0 /\ calls = 0

-----------------------------------------------------------------------------
(* cupsd: CUPS-Add-Modify-Printer makes the queue where it is absent.      *)

NewQueue == [uri |-> NoURI, ppd |-> NoPPD, shared |-> TRUE,
             accepting |-> FALSE, enabled |-> FALSE]
ToModify(q) == IF queue[q] = Absent THEN NewQueue ELSE queue[q]

WithPpd(q, p) == [ToModify(q) EXCEPT !.ppd = p]

(* "This is a remote printer, and there's no filter yet, so I will force   *)
(* sharing off for security reasons."                                      *)
WithUri(q, u) ==
    LET r == ToModify(q) IN
    [r EXCEPT !.uri = u,
              !.shared = @ /\ (u \in RemoteURIs => r.ppd # NoPPD)]

Serve(q, r) ==
    /\ queue' = [queue EXCEPT ![q] = r]
    /\ removed' = IF r = Absent THEN removed \union {q} ELSE removed
    /\ seen' = [c \in Clients |-> IF MyQueue(c) = q
                                  THEN seen[c] \union {r.ppd} ELSE seen[c]]

NotServed == UNCHANGED <<queue, removed, seen>>

Fault(c) ==
    /\ faults < MaxFaults /\ faults' = faults + 1
    /\ alone' = [alone EXCEPT ![c] = FALSE]

-----------------------------------------------------------------------------
(* A call goes on to its next step, or ends.                               *)
GoesOn(c, step) ==
    /\ pc' = [pc EXCEPT ![c] = step]
    /\ UNCHANGED ended

Ends(c, how) ==
    /\ pc' = [pc EXCEPT ![c] = "idle"]
    /\ ended' = [ended EXCEPT ![c] = how]

FirstStep == [addPrinter |-> "probe", setDeviceURI |-> "create",
              getPPD |-> "create", getPPDOptions |-> "create",
              setPPD |-> "ppd", setPPDFromFile |-> "file", setInfo |-> "info",
              accept |-> "command", reject |-> "command",
              enable |-> "command", disable |-> "command",
              deletePrinter |-> "delete"]

Begin(c) ==
    /\ pc[c] = "idle"
    /\ calls < MaxCalls /\ calls' = calls + 1
    /\ \E k \in Kinds, q \in Queues, u \in URIs, p \in Models \union {NoPPD} :
          /\ k \notin Setters => u = CHOOSE v \in URIs : TRUE
          /\ k \in {"setPPD", "setPPDFromFile"} => p # NoPPD
          /\ k \notin {"addPrinter", "setPPD", "setPPDFromFile"} => p = NoPPD
          /\ call' = [call EXCEPT ![c] = [kind |-> k, queue |-> q, uri |-> u,
                                          ppd |-> p]]
          /\ pc' = [pc EXCEPT ![c] = FirstStep[k]]
          /\ base' = [base EXCEPT ![c] = queue[q]]
          /\ seen' = [seen EXCEPT ![c] = {queue[q].ppd}]
          /\ alone' = [d \in Clients |->
                          IF d = c THEN \A e \in Clients \ {c} :
                                          pc[e] = "idle" \/ MyQueue(e) # q
                          ELSE alone[d] /\ MyQueue(d) # q]
    /\ got' = [got EXCEPT ![c] = NoPPD]
    /\ ended' = [ended EXCEPT ![c] = "running"]
    /\ UNCHANGED <<cupsd, user, tmp, gone, faults>>

-----------------------------------------------------------------------------
(* getPPD(), getPPDNickname() and getPPDOptions(): the PPD file of a queue *)
(* is copied to its file in /tmp, which is made first.                     *)

keeps == <<call, base>>

(* Mutant: setDeviceURI() takes a failure for a queue with a PPD.          *)
ReadFailsIgnored(c) ==
    \/ call[c].kind \in Setters /\ GoesOn(c, "uri")
    \/ call[c].kind \notin Setters /\ Ends(c, "throw")

(* setDeviceURI() takes a failure for a queue without a PPD.               *)
ReadFails(c) ==
    \/ call[c].kind \in Setters /\ GoesOn(c, "init")
    \/ call[c].kind \notin Setters /\ Ends(c, "throw")

(* The file, if there is one, is the program's own user's.                 *)
MayWrite(c) == MyFile(c) # NoFile => MyFile(c).owner = user[c]

(* Mutant: what was read before is used where it is still there.           *)
CreateTmpOrReuse(c) ==
    /\ pc[c] = "create" /\ MayWrite(c)
    /\ \/ /\ MyFile(c) = NoFile /\ GoesOn(c, "open")
          /\ tmp' = [tmp EXCEPT ![MyQueue(c)] =
                        [owner |-> user[c], holds |-> Empty]]
       \/ MyFile(c) # NoFile /\ GoesOn(c, "parse") /\ UNCHANGED tmp
    /\ UNCHANGED <<cupsd, user, gone, keeps, got, seen, alone, faults, calls>>

CreateTmp(c) ==
    /\ pc[c] = "create" /\ MayWrite(c)
    /\ tmp' = [tmp EXCEPT ![MyQueue(c)] = [owner |-> user[c], holds |-> Empty]]
    /\ GoesOn(c, "open")
    /\ UNCHANGED <<cupsd, user, gone, keeps, got, seen, alone, faults, calls>>

CreateFails(c) ==
    /\ pc[c] = "create" /\ ~MayWrite(c)
    /\ ReadFails(c)
    /\ UNCHANGED <<cupsd, user, tmp, gone, keeps, got, seen, alone, faults,
                   calls>>

(* cupsGetFile() opens the file, which it does not make, and empties it.   *)
OpenTmp(c) ==
    /\ pc[c] = "open" /\ MyFile(c) # NoFile /\ MayWrite(c)
    /\ tmp' = [tmp EXCEPT ![MyQueue(c)].holds = Empty]
    /\ gone' = gone \ {c}
    /\ GoesOn(c, "fetch")
    /\ UNCHANGED <<cupsd, user, keeps, got, seen, alone, faults, calls>>

OpenFails(c) ==
    /\ pc[c] = "open" /\ ~(MyFile(c) # NoFile /\ MayWrite(c))
    /\ ReadFails(c)
    /\ UNCHANGED <<cupsd, user, tmp, gone, keeps, got, seen, alone, faults,
                   calls>>

(* The PPD comes, into a file that may have lost its name meanwhile.       *)
Fetch(c) ==
    /\ pc[c] = "fetch" /\ queue[MyQueue(c)].ppd # NoPPD
    /\ tmp' = IF c \in gone THEN tmp
              ELSE [tmp EXCEPT ![MyQueue(c)].holds = queue[MyQueue(c)].ppd]
    /\ GoesOn(c, "parse")
    /\ UNCHANGED <<cupsd, user, gone, keeps, got, seen, alone, faults, calls>>

(* The name is removed if the file it stands for is the user's own;        *)
(* programs that write to the file write to one without a name.            *)
Unlink(c) ==
    LET q == MyQueue(c) IN
    \/ /\ MayWrite(c) /\ tmp' = [tmp EXCEPT ![q] = NoFile]
       /\ gone' = gone \union {d \in Clients : MyQueue(d) = q}
    \/ ~MayWrite(c) /\ UNCHANGED <<tmp, gone>>

(* cupsGetFile() removes the file where it gets nothing.                   *)
FetchFails(c) ==
    /\ pc[c] = "fetch"
    /\ \/ queue[MyQueue(c)].ppd = NoPPD /\ UNCHANGED <<alone, faults>>
       \/ Fault(c)
    /\ Unlink(c)
    /\ ReadFails(c)
    /\ UNCHANGED <<cupsd, user, keeps, got, seen, calls>>

Readable(c) == MyFile(c).holds # Empty

(* Mutant: it is not looked whether ppdOpenFile() found a PPD.             *)
ParseUnchecked(c) ==
    /\ pc[c] = "parse"
    /\ got' = [got EXCEPT ![c] = MyFile(c).holds]
    /\ \/ call[c].kind = "getPPDOptions" /\ Ends(c, "return")
       \/ call[c].kind # "getPPDOptions" /\ GoesOn(c, "unlink")
    /\ UNCHANGED <<cupsd, user, tmp, gone, keeps, seen, alone, faults, calls>>

(* ppdOpenFile() reads whatever file has the name now.  getPPDOptions()    *)
(* leaves the file where it is.                                            *)
Parse(c) ==
    /\ pc[c] = "parse" /\ Readable(c)
    /\ got' = [got EXCEPT ![c] = MyFile(c).holds]
    /\ \/ call[c].kind = "getPPDOptions" /\ Ends(c, "return")
       \/ call[c].kind # "getPPDOptions" /\ GoesOn(c, "unlink")
    /\ UNCHANGED <<cupsd, user, tmp, gone, keeps, seen, alone, faults, calls>>

(* getPPDOptions() returns no options, the others throw.                   *)
ParseFails(c) ==
    /\ pc[c] = "parse" /\ ~Readable(c)
    /\ \/ call[c].kind = "getPPDOptions" /\ Ends(c, "return")
       \/ call[c].kind # "getPPDOptions" /\ ReadFails(c)
    /\ UNCHANGED <<cupsd, user, tmp, gone, keeps, got, seen, alone, faults,
                   calls>>

(* A PPD without a nickname is called "Unknown", as a failure is.          *)
UnlinkTmp(c) ==
    /\ pc[c] = "unlink"
    /\ Unlink(c)
    /\ \/ call[c].kind = "getPPD" /\ Ends(c, "return")
       \/ call[c].kind \in Setters /\ got[c] \in Nameless /\ GoesOn(c, "init")
       \/ call[c].kind \in Setters /\ got[c] \notin Nameless /\ GoesOn(c, "uri")
    /\ UNCHANGED <<cupsd, user, keeps, got, seen, alone, faults, calls>>

(* The file goes while it is in use: someone tidies up /tmp.               *)
CleanTmp(q) ==
    /\ tmp[q] # NoFile
    /\ faults < MaxFaults /\ faults' = faults + 1
    /\ alone' = [c \in Clients |-> alone[c] /\ MyQueue(c) # q]
    /\ tmp' = [tmp EXCEPT ![q] = NoFile]
    /\ gone' = gone \union {c \in Clients : MyQueue(c) = q}
    /\ UNCHANGED <<cupsd, user, pc, ended, keeps, got, seen, calls>>

-----------------------------------------------------------------------------
(* The requests that change a queue.                                       *)

requestKeeps == <<pdfExists, user, tmp, gone, keeps, got, calls>>

(* It is answered that the queue is now r.                                 *)
Done(c, r) ==
    /\ Serve(MyQueue(c), r)
    /\ UNCHANGED <<alone, faults, requestKeeps>>

(* It is refused, or fails, done or not.                                   *)
Failed(c, r) ==
    /\ Fault(c)
    /\ Serve(MyQueue(c), r) \/ NotServed
    /\ UNCHANGED requestKeeps

(* addPrinter() asks for the device URI.  A queue that is not there has an *)
(* empty one, and no exception comes of it.                                *)
Probe(c) ==
    /\ pc[c] = "probe"
    /\ \/ GoesOn(c, "create") /\ UNCHANGED <<alone, faults>>
       \/ Fault(c) /\ Ends(c, "throw")
    /\ NotServed /\ UNCHANGED requestKeeps

(* setDeviceURI() installs its default PPD; no failure stops it.           *)
InitPpd(c) ==
    /\ pc[c] = "init" /\ pdfExists
    /\ LET r == WithPpd(MyQueue(c), Default) IN Done(c, r) \/ Failed(c, r)
    /\ GoesOn(c, "uri")

InitNotFound(c) ==
    /\ pc[c] = "init" /\ ~pdfExists
    /\ GoesOn(c, "uri")
    /\ NotServed /\ UNCHANGED <<alone, faults, requestKeeps>>

(* Mutant: with a PPD of its own given, addPrinter() leaves out the URI.   *)
SetUriOrPpd(c) ==
    /\ pc[c] = "uri"
    /\ \/ /\ call[c].ppd = NoPPD
          /\ Done(c, WithUri(MyQueue(c), call[c].uri)) /\ Ends(c, "return")
       \/ /\ call[c].ppd # NoPPD /\ GoesOn(c, "ppd")
          /\ NotServed /\ UNCHANGED <<alone, faults, requestKeeps>>

SetUri(c) ==
    /\ pc[c] = "uri"
    /\ LET r == WithUri(MyQueue(c), call[c].uri) IN
          \/ /\ Done(c, r)
             /\ \/ call[c].ppd = NoPPD /\ Ends(c, "return")
                \/ call[c].ppd # NoPPD /\ GoesOn(c, "ppd")
          \/ Failed(c, r) /\ Ends(c, "throw")

(* setPPD(), also as the end of addPrinter().                              *)
SetPpd(c) ==
    /\ pc[c] = "ppd"
    /\ LET r == WithPpd(MyQueue(c), call[c].ppd) IN
          \/ Done(c, r) /\ Ends(c, "return")
          \/ Failed(c, r) /\ Ends(c, "throw")

(* setPPDFromFile() throws where there is no such file.                    *)
SetPpdFromFile(c) ==
    /\ pc[c] = "file"
    /\ LET r == WithPpd(MyQueue(c), call[c].ppd) IN
          \/ Done(c, r) /\ Ends(c, "return")
          \/ Failed(c, r) /\ Ends(c, "throw")
          \/ /\ Ends(c, "throw")
             /\ NotServed /\ UNCHANGED <<alone, faults, requestKeeps>>

(* setInfo() and setLocation(), too, make a queue that is not there.       *)
SetInfo(c) ==
    /\ pc[c] = "info"
    /\ LET r == ToModify(MyQueue(c)) IN
          \/ Done(c, r) /\ Ends(c, "return")
          \/ Failed(c, r) /\ Ends(c, "throw")

(* setAccepting(), setEnabled() and deletePrinter() are refused for a queue *)
(* that is not there.                                                      *)
OnExisting(c, r) ==
    \/ queue[MyQueue(c)] # Absent /\ Done(c, r) /\ Ends(c, "return")
    \/ queue[MyQueue(c)] # Absent /\ Failed(c, r) /\ Ends(c, "throw")
    \/ /\ queue[MyQueue(c)] = Absent /\ Ends(c, "throw")
       /\ NotServed /\ UNCHANGED <<alone, faults, requestKeeps>>

(* What a queue r becomes by a printer command.                            *)
Commanded(r, kind) ==
    [r EXCEPT !.accepting = IF kind \in {"accept", "reject"}
                            THEN kind = "accept" ELSE @,
              !.enabled = IF kind \in {"enable", "disable"}
                          THEN kind = "enable" ELSE @]

SendPrinterCommand(c) ==
    /\ pc[c] = "command"
    /\ OnExisting(c, Commanded(ToModify(MyQueue(c)), call[c].kind))

DeletePrinter(c) ==
    /\ pc[c] = "delete"
    /\ OnExisting(c, Absent)

-----------------------------------------------------------------------------
Reads(c) ==
    \/ CreateTmp(c) \/ CreateFails(c) \/ OpenTmp(c) \/ OpenFails(c)
    \/ Fetch(c) \/ FetchFails(c) \/ Parse(c) \/ ParseFails(c) \/ UnlinkTmp(c)

Changes(c) ==
    \/ InitPpd(c) \/ InitNotFound(c) \/ SetUri(c) \/ SetPpd(c)
    \/ SetPpdFromFile(c) \/ SetInfo(c) \/ SendPrinterCommand(c)
    \/ DeletePrinter(c)

Next ==
    \/ \E c \in Clients : Begin(c) \/ Reads(c) \/ Probe(c) \/ Changes(c)
    \/ \E q \in Queues : CleanTmp(q)

Spec == Init /\ [][Next]_vars

-----------------------------------------------------------------------------
(* Every variable has its type.                                            *)
TypeOK ==
    /\ queue \in [Queues -> Records \union {Absent}]
    /\ removed \subseteq Queues /\ pdfExists \in BOOLEAN
    /\ user \in [Clients -> Users]
    /\ tmp \in [Queues -> Files \union {NoFile}]
    /\ gone \subseteq Clients
    /\ pc \in [Clients -> {"idle", "probe", "create", "open", "fetch",
                           "parse", "unlink", "init", "uri", "ppd", "file",
                           "info", "command", "delete"}]
    /\ call \in [Clients -> Requests]
    /\ got \in [Clients -> PPDs \union {NoPPD}]
    /\ ended \in [Clients -> {"running", "return", "throw"}]
    /\ base \in [Clients -> Records \union {Absent}]
    /\ seen \in [Clients -> SUBSET (PPDs \union {NoPPD})]
    /\ alone \in [Clients -> BOOLEAN]
    /\ faults \in 0..MaxFaults /\ calls \in 0..MaxCalls

(* What the readers of a PPD file return, and what setDeviceURI() goes by, *)
(* is a PPD the queue had during the call, however many programs empty,    *)
(* write and remove the one file they all use.                             *)
PpdIsCurrent == \A c \in Clients : got[c] # NoPPD => got[c] \in seen[c]

(* A queue that was never removed stays shared whatever URIs it is given:  *)
(* setDeviceURI() never sets one before the queue has a PPD, also where    *)
(* other programs come in between its look at the PPD and the URI.         *)
SharedStays ==
    pdfExists /\ faults = 0
        => \A q \in Queues : queue[q] # Absent /\ q \notin removed
                                => queue[q].shared

OneUser == \A c, d \in Clients : user[c] = user[d]

(* What c's last call leaves of the PPD of its queue.                      *)
PpdAsked(c) ==
    LET before == base[c].ppd IN
    IF call[c].ppd # NoPPD THEN call[c].ppd
    ELSE IF call[c].kind \in Setters /\ before \in Nameless \union {NoPPD}
            /\ pdfExists THEN Default
    ELSE before

(* A call that returned, alone on its queue and without a fault, with all  *)
(* programs run by one user, has left the queue with the URI and the PPD   *)
(* asked for, and everything else as it was: above all, setDeviceURI()     *)
(* has kept the PPD, whatever files earlier calls have left in /tmp.       *)
ReturnedAsAsked ==
    \A c \in Clients :
        LET now == queue[MyQueue(c)]  kind == call[c].kind IN
        alone[c] /\ ended[c] = "return" /\ OneUser =>
          /\ kind = "deletePrinter" => now = Absent
          /\ kind \in {"getPPD", "getPPDOptions"} => now = base[c]
          /\ kind \notin {"deletePrinter", "getPPD", "getPPDOptions"} =>
               /\ now # Absent
               /\ now.ppd = PpdAsked(c)
               /\ kind \in Setters => now.uri = call[c].uri
               /\ kind \notin Setters /\ base[c] # Absent => now.uri = base[c].uri
               /\ base[c] # Absent =>
                    LET asked == Commanded(base[c], kind) IN
                    now.accepting = asked.accepting /\ now.enabled = asked.enabled

-----------------------------------------------------------------------------
(* What a comment says, where the code does something else.                *)

(* The default PPD is for "newly created" queues, where "there's no filter *)
(* yet": the queue has none, or one without a nickname, at some time       *)
(* between the call and its installation.                                  *)
DefaultOnlyWithoutPpd ==
    faults = 0 => \A c \in Clients :
        pc[c] = "init" => seen[c] \intersect ({NoPPD} \union Nameless) # {}

=============================================================================
