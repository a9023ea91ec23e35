------------------------------ MODULE CupsJobs -----------------------------
(***************************************************************************)
(* Programs that print and manage jobs through CupsCtrl: printFile(),      *)
(* cancelJobs(), pauseJobs(), releaseJobs(), moveJob() and the commands on *)
(* one job.  Each is a few IPP requests to one cupsd, which serves them in *)
(* between those of other programs, runs the jobs meanwhile, and may       *)
(* refuse a request or have its answer lost.                               *)
(***************************************************************************)
EXTENDS Integers

CONSTANTS
    Clients,      \* programs that use CupsCtrl
    Queues,       \* print queues
    Users,        \* names given as asUser
    Calls,        \* methods the clients call
    MaxJobs,      \* bound: job ids cupsd hands out
    MaxFaults,    \* bound: refusals without a reason below, lost answers
    MaxCalls      \* bound: calls of CupsCtrl's methods

Jobs     == 1..MaxJobs
NoClient == "nobody"
AnyQueue == ""            \* an empty printer name lists every queue

ASSUME ClientsAssumption == NoClient \notin Clients
ASSUME QueuesAssumption  == Queues # {} /\ AnyQueue \notin Queues
ASSUME BoundsAssumption  ==
    MaxJobs \in Nat /\ MaxFaults \in Nat /\ MaxCalls \in Nat

VARIABLES
    state,      \* job-state of each job, "none" while it does not exist
    dest,       \* the queue a job is on
    owner,      \* requesting-user-name of its Create-Job
    creator,    \* the client whose printFile() it was made for
    file,       \* the client whose file it prints, or NoClient
    restarted,  \* jobs that were restarted at some time
    ownerOnly,  \* policy of cupsd: only the owner may change a job
    pc,         \* request each client comes to next
    call,       \* the method it runs, or ran last
    newId,      \* printFile(): the job it made, 0 before
    listed,     \* cancelJobs()...: the jobs getJobList() returned
    todo,       \* those of them the loop has not come to
    ended,      \* how the last method ended
    ret,        \* what printFile() returned
    faults, calls

jobs    == <<state, dest, owner, creator, file, restarted>>
client  == <<pc, call, newId, listed, todo, ended, ret>>
vars    == <<jobs, ownerOnly, client, faults, calls>>

Active    == {"incoming", "pending", "held", "processing"}
Finished  == {"canceled", "aborted", "completed"}
BulkCalls == {"cancelJobs", "pauseJobs", "releaseJobs"}
Commands  == {"cancel", "hold", "release", "restart"}

CommandOf == [cancelJobs |-> "cancel", pauseJobs |-> "hold",
              releaseJobs |-> "release"]

Exists(j) == state[j] # "none"
IsNext(j) == ~Exists(j) /\ \A i \in Jobs : i < j => Exists(i)

Init ==
    /\ state = [j \in Jobs |-> "none"]
    /\ dest = [j \in Jobs |-> CHOOSE q \in Queues : TRUE]
    /\ owner = [j \in Jobs |-> "anonymous"]
    /\ creator = [j \in Jobs |-> NoClient]
    /\ file = [j \in Jobs |-> NoClient]
    /\ restarted = {}
    /\ ownerOnly \in BOOLEAN
    /\ pc = [c \in Clients |-> "idle"]
    /\ call = [c \in Clients |-> "none"]
    /\ newId = [c \in Clients |-> 0]
    /\ listed = [c \in Clients |-> {}]
    /\ todo = [c \in Clients |-> {}]
    /\ ended = [c \in Clients |-> "return"]
    /\ ret = [c \in Clients |-> 0]
    /\ faults = 0 /\ calls = 0

-----------------------------------------------------------------------------
(* cupsd, as CupsCtrl's requests meet it.                                  *)

Fault == faults < MaxFaults /\ faults' = faults + 1

Authorised(user, j) == ownerOnly => user = owner[j]

Possible(command, j) ==
    \/ command \in {"cancel", "hold"} /\ state[j] \in Active
    \/ command = "release" /\ state[j] \in {"incoming", "held"}
    \/ command = "restart" /\ state[j] \in Finished /\ file[j] # NoClient

StateAfter == [cancel |-> "canceled", hold |-> "held",
               release |-> "pending", restart |-> "pending"]

Obey(command, j) ==
    /\ state' = [state EXCEPT ![j] = StateAfter[command]]
    /\ restarted' = IF command = "restart" THEN restarted \union {j}
                                           ELSE restarted

(* A job has its document and comes to its turn; without one it fails.     *)
Start(j) ==
    /\ state[j] = "pending"
    /\ state' = [state EXCEPT ![j] = IF file[j] = NoClient THEN "aborted"
                                     ELSE "processing"]
    /\ UNCHANGED <<dest, owner, creator, file, restarted, ownerOnly, client,
                   faults, calls>>

Finish(j) ==
    /\ state[j] = "processing"
    /\ \E s \in {"completed", "aborted"} : state' = [state EXCEPT ![j] = s]
    /\ UNCHANGED <<dest, owner, creator, file, restarted, ownerOnly, client,
                   faults, calls>>

(* A job that waits too long for its document is let go.                   *)
IncomingTimesOut(j) ==
    /\ state[j] = "incoming"
    /\ state' = [state EXCEPT ![j] = "pending"]
    /\ UNCHANGED <<dest, owner, creator, file, restarted, ownerOnly, client,
                   faults, calls>>

-----------------------------------------------------------------------------
(* A method of the CupsCtrl of client c begins, or ends.                   *)
Begin(c, method) ==
    /\ pc[c] = "idle"
    /\ method \in Calls
    /\ calls < MaxCalls /\ calls' = calls + 1
    /\ call' = [call EXCEPT ![c] = method]

Ends(c, how, value) ==
    /\ pc' = [pc EXCEPT ![c] = "idle"]
    /\ ended' = [ended EXCEPT ![c] = how]
    /\ ret' = [ret EXCEPT ![c] = value]

GoesOn(c, request) ==
    /\ pc' = [pc EXCEPT ![c] = request]
    /\ ended' = [ended EXCEPT ![c] = "running"]
    /\ ret' = [ret EXCEPT ![c] = 0]

(* sendJobCommand(): an answer of success, or whatever else makes it throw. *)
CommandSucceeds(j, user, command) ==
    /\ Possible(command, j) /\ Authorised(user, j)
    /\ Obey(command, j)
    /\ UNCHANGED <<dest, owner, creator, file, faults>>

CommandThrows(j, user, command) ==
    /\ \/ /\ ~(Possible(command, j) /\ Authorised(user, j))
          /\ UNCHANGED <<state, restarted, faults>>
       \/ Fault /\ UNCHANGED <<state, restarted>>
       \/ /\ Fault
          /\ Possible(command, j) /\ Authorised(user, j)
          /\ Obey(command, j)
    /\ UNCHANGED <<dest, owner, creator, file>>

-----------------------------------------------------------------------------
(* printFile(): createJob(), sendDocument(), and on an error cancelJob().  *)

(* createJob() for asUser on queue q.  Its exception is caught and 0       *)
(* returned, whether or not cupsd has made the job.                        *)
NewJob(c, j, q, user) ==
    /\ IsNext(j)
    /\ state' = [state EXCEPT ![j] = "incoming"]
    /\ dest' = [dest EXCEPT ![j] = q]
    /\ owner' = [owner EXCEPT ![j] = user]
    /\ creator' = [creator EXCEPT ![j] = c]
    /\ UNCHANGED <<file, restarted>>

(* Mutant: newId is set to the id of the newest job, whoever made it.      *)
CreateJobReadsLast(c) ==
    \E j \in Jobs, q \in Queues, user \in Users \union {"anonymous"} :
        /\ Begin(c, "printFile")
        /\ NewJob(c, j, q, user)
        /\ newId' = [newId EXCEPT ![c] = IF j > 1 THEN j - 1 ELSE j]
        /\ GoesOn(c, "sendDocument")
        /\ UNCHANGED <<faults, ownerOnly, listed, todo>>

(* Mutant: an id of 1 is taken for an error, too.                          *)
CreateJobDropsFirst(c) ==
    \E j \in Jobs, q \in Queues, user \in Users \union {"anonymous"} :
        /\ Begin(c, "printFile")
        /\ NewJob(c, j, q, user)
        /\ newId' = [newId EXCEPT ![c] = j]
        /\ IF j <= 1 THEN Ends(c, "return", j) ELSE GoesOn(c, "sendDocument")
        /\ UNCHANGED <<faults, ownerOnly, listed, todo>>

CreateJob(c) ==
    \E j \in Jobs, q \in Queues, user \in Users \union {"anonymous"} :
        /\ Begin(c, "printFile")
        /\ IsNext(j)
        /\ \/ /\ NewJob(c, j, q, user)
              /\ newId' = [newId EXCEPT ![c] = j]
              /\ GoesOn(c, "sendDocument")
              /\ UNCHANGED faults
           \/ /\ NewJob(c, j, q, user) /\ Fault
              /\ newId' = [newId EXCEPT ![c] = 0]
              /\ Ends(c, "return", 0)
           \/ /\ UNCHANGED jobs /\ Fault
              /\ newId' = [newId EXCEPT ![c] = 0]
              /\ Ends(c, "return", 0)
        /\ UNCHANGED <<ownerOnly, listed, todo>>

(* cupsd takes the file; a job that waited for it may then run.            *)
TakeDocument(c, j) ==
    /\ file' = [file EXCEPT ![j] = c]
    /\ state' = [state EXCEPT ![j] = IF @ = "incoming" THEN "pending" ELSE @]
    /\ UNCHANGED <<dest, owner, creator, restarted>>

MayTakeDocument(j) == state[j] \in Active /\ Authorised("CupsCtrl", j)

(* Mutant: the caller of sendDocument() takes its error for success.       *)
SendDocumentIgnoresError(c) ==
    /\ pc[c] = "sendDocument"
    /\ \/ MayTakeDocument(newId[c]) /\ TakeDocument(c, newId[c])
       \/ UNCHANGED jobs
    /\ Ends(c, "return", newId[c])
    /\ UNCHANGED <<faults, ownerOnly, call, newId, listed, todo, calls>>

(* sendDocument() as user "CupsCtrl", whoever the job was created for.     *)
SendDocument(c) ==
    /\ pc[c] = "sendDocument"
    /\ \/ /\ MayTakeDocument(newId[c]) /\ TakeDocument(c, newId[c])
          /\ Ends(c, "return", newId[c])
          /\ UNCHANGED faults
       \/ /\ ~MayTakeDocument(newId[c])
          /\ GoesOn(c, "cancelJob")
          /\ UNCHANGED <<jobs, faults>>
       \/ /\ Fault
          /\ GoesOn(c, "cancelJob")
          /\ UNCHANGED jobs
       \/ /\ Fault
          /\ MayTakeDocument(newId[c]) /\ TakeDocument(c, newId[c])
          /\ GoesOn(c, "cancelJob")
    /\ UNCHANGED <<ownerOnly, call, newId, listed, todo, calls>>

(* Mutant: the handler catches the exception of its cancelJob(), too.      *)
UndoSwallows(c) ==
    /\ pc[c] = "cancelJob"
    /\ \/ CommandSucceeds(newId[c], "guest", "cancel")
       \/ CommandThrows(newId[c], "guest", "cancel")
    /\ Ends(c, "return", 0)
    /\ UNCHANGED <<ownerOnly, call, newId, listed, todo, calls>>

(* Mutant: printFile() returns -1 for a job that was canceled again.       *)
UndoReturnsMinusOne(c) ==
    /\ pc[c] = "cancelJob"
    /\ \/ CommandSucceeds(newId[c], "guest", "cancel") /\ Ends(c, "return", -1)
       \/ CommandThrows(newId[c], "guest", "cancel") /\ Ends(c, "throw", 0)
    /\ UNCHANGED <<ownerOnly, call, newId, listed, todo, calls>>

(* The handler of printFile() cancels the job as "guest"; an exception of  *)
(* this cancelJob() leaves printFile().                                    *)
Undo(c) ==
    /\ pc[c] = "cancelJob"
    /\ \/ CommandSucceeds(newId[c], "guest", "cancel") /\ Ends(c, "return", 0)
       \/ CommandThrows(newId[c], "guest", "cancel") /\ Ends(c, "throw", 0)
    /\ UNCHANGED <<ownerOnly, call, newId, listed, todo, calls>>

-----------------------------------------------------------------------------
(* cancelJobs(), pauseJobs(), releaseJobs(): getJobList(), then a command  *)
(* to one job after the other.                                             *)

(* getJobList() without which-jobs: the jobs that have not finished.       *)
JobList(q) == {j \in Jobs : state[j] \in Active /\ q \in {dest[j], AnyQueue}}

GetJobList(c) ==
    \E method \in BulkCalls, q \in Queues \union {AnyQueue} :
        /\ Begin(c, method)
        /\ newId' = [newId EXCEPT ![c] = 0]
        /\ \/ /\ listed' = [listed EXCEPT ![c] = JobList(q)]
              /\ todo' = [todo EXCEPT ![c] = JobList(q)]
              /\ GoesOn(c, "command")
              /\ UNCHANGED faults
           \/ /\ Fault
              /\ listed' = [listed EXCEPT ![c] = {}]
              /\ todo' = [todo EXCEPT ![c] = {}]
              /\ Ends(c, "throw", 0)
        /\ UNCHANGED <<jobs, ownerOnly>>

(* The list was turned round: the newest job comes first.                  *)
NewestOf(js) == {j \in js : \A i \in js : i <= j}

(* Mutant: the loop goes on after a command that failed.                   *)
CommandNextGoesOn(c) ==
    /\ pc[c] = "command"
    /\ \E j \in NewestOf(todo[c]) :
          /\ \/ CommandSucceeds(j, "default", CommandOf[call[c]])
             \/ CommandThrows(j, "default", CommandOf[call[c]])
          /\ todo' = [todo EXCEPT ![c] = @ \ {j}]
    /\ UNCHANGED <<ownerOnly, pc, call, newId, listed, ended, ret, calls>>

(* The command goes out as "default"; the first that fails ends the call.  *)
CommandNext(c) ==
    /\ pc[c] = "command"
    /\ \E j \in NewestOf(todo[c]) :
          /\ todo' = [todo EXCEPT ![c] = @ \ {j}]
          /\ \/ /\ CommandSucceeds(j, "default", CommandOf[call[c]])
                /\ UNCHANGED <<pc, ended, ret>>
             \/ /\ CommandThrows(j, "default", CommandOf[call[c]])
                /\ Ends(c, "throw", 0)
    /\ UNCHANGED <<ownerOnly, call, newId, listed, calls>>

ListDone(c) ==
    /\ pc[c] = "command"
    /\ todo[c] = {}
    /\ Ends(c, "return", 0)
    /\ UNCHANGED <<jobs, ownerOnly, call, newId, listed, todo, faults, calls>>

-----------------------------------------------------------------------------
(* cancelJob(), holdJob(), releaseJob(), restartJob() on any one job.      *)
JobCommand(c) ==
    /\ Begin(c, "jobCommand")
    /\ \E j \in {i \in Jobs : Exists(i)}, user \in Users \union {"guest"},
          command \in Commands :
             \/ CommandSucceeds(j, user, command) /\ Ends(c, "return", 0)
             \/ CommandThrows(j, user, command) /\ Ends(c, "throw", 0)
    /\ newId' = [newId EXCEPT ![c] = 0]
    /\ UNCHANGED <<ownerOnly, listed, todo>>

(* moveJob() to queue q.                                                   *)
MoveJob(c) ==
    \E j \in {i \in Jobs : Exists(i)}, q \in Queues,
       user \in Users \union {"guest"} :
        LET may  == state[j] \in Active /\ Authorised(user, j)
            move == may /\ dest' = [dest EXCEPT ![j] = q] IN
        /\ Begin(c, "moveJob")
        /\ \/ move /\ Ends(c, "return", 0) /\ UNCHANGED faults
           \/ ~may /\ Ends(c, "throw", 0) /\ UNCHANGED <<dest, faults>>
           \/ Fault /\ Ends(c, "throw", 0) /\ (move \/ UNCHANGED dest)
        /\ newId' = [newId EXCEPT ![c] = 0]
        /\ UNCHANGED <<state, owner, creator, file, restarted, ownerOnly,
                       listed, todo>>

-----------------------------------------------------------------------------
Client(c) ==
    \/ CreateJob(c) \/ SendDocument(c) \/ Undo(c)
    \/ GetJobList(c) \/ CommandNext(c) \/ ListDone(c)
    \/ JobCommand(c) \/ MoveJob(c)

Cupsd == \E j \in Jobs : Start(j) \/ Finish(j) \/ IncomingTimesOut(j)

Next == Cupsd \/ \E c \in Clients : Client(c)

Spec == Init /\ [][Next]_vars

(* A client that runs a method goes on with it; nothing is asked of cupsd  *)
(* but that it answers.                                                    *)
Fairness ==
    \A c \in Clients :
        WF_vars(SendDocument(c) \/ Undo(c) \/ CommandNext(c) \/ ListDone(c))

FairSpec == Spec /\ Fairness

-----------------------------------------------------------------------------
(* Every variable has its type.                                            *)
TypeOK ==
    /\ state \in [Jobs -> Active \union Finished \union {"none"}]
    /\ dest \in [Jobs -> Queues]
    /\ owner \in [Jobs -> Users \union {"anonymous"}]
    /\ creator \in [Jobs -> Clients \union {NoClient}]
    /\ file \in [Jobs -> Clients \union {NoClient}]
    /\ restarted \subseteq Jobs
    /\ ownerOnly \in BOOLEAN
    /\ pc \in [Clients -> {"idle", "sendDocument", "cancelJob", "command"}]
    /\ call \in [Clients -> Calls \union {"none"}]
    /\ newId \in [Clients -> 0..MaxJobs]
    /\ listed \in [Clients -> SUBSET Jobs] /\ todo \in [Clients -> SUBSET Jobs]
    /\ ended \in [Clients -> {"running", "return", "throw"}]
    /\ ret \in [Clients -> 0..MaxJobs]
    /\ faults \in 0..MaxFaults /\ calls \in 0..MaxCalls

Ended(c, method) == call[c] = method /\ ended[c] # "running"
Returned(c, method) == Ended(c, method) /\ ended[c] = "return"

(* An id that printFile() returned is that of the job it made, and the job *)
(* has the caller's file, whatever other programs did to it in between.    *)
IdMeansPrinted ==
    \A c \in Clients :
        Returned(c, "printFile") /\ ret[c] > 0
            => creator[ret[c]] = c /\ file[ret[c]] = c

(* No file gets into a job that was made for another caller's.             *)
FileInOwnJob == \A j \in Jobs : file[j] \in {NoClient, creator[j]}

(* printFile() that returns 0 after it had a job leaves the job canceled:  *)
(* the caller may print again and have one copy on paper.                  *)
ZeroMeansCanceled ==
    \A c \in Clients :
        Returned(c, "printFile") /\ ret[c] = 0 /\ newId[c] > 0
            => state[newId[c]] = "canceled" \/ newId[c] \in restarted

(* cancelJobs() that returns has left none of the jobs it found to print,  *)
(* unless someone restarted it.                                            *)
CancelJobsCancels ==
    \A c \in Clients :
        Returned(c, "cancelJobs")
            => \A j \in listed[c] : state[j] \in Finished \/ j \in restarted

(* Where cupsd lets everyone change a job, and until a request fails for   *)
(* no reason of the model, no job of printFile() is left to wait for a     *)
(* document that never comes.                                              *)
NoJobLeftWaiting ==
    \A j \in Jobs :
        (state[j] = "incoming" /\ ~ownerOnly)
            ~> (state[j] # "incoming" \/ faults > 0)

=============================================================================
