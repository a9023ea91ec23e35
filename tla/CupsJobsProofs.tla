--------------------------- MODULE CupsJobsProofs --------------------------
(***************************************************************************)
(* Proofs about CupsJobs, for any number of clients, jobs and calls: what  *)
(* the result of printFile() and of cancelJobs() says about the jobs.      *)
(***************************************************************************)
EXTENDS CupsJobs, TLAPS

(* What every step leaves of the jobs: their makers, and that they have    *)
(* finished, unless they are restarted.                                    *)
Kept ==
    /\ restarted \subseteq restarted'
    /\ \A j \in Jobs :
          /\ Exists(j) => state'[j] # "none" /\ creator'[j] = creator[j]
          /\ state[j] \in Finished => state'[j] = state[j] \/ j \in restarted'

Done(j) == state[j] \in Finished \/ j \in restarted

(* Each file is in the job made for it.                                    *)
JobsOK ==
    \A j \in Jobs : /\ ~Exists(j) => creator[j] = NoClient
                    /\ file[j] \in {NoClient, creator[j]}

(* A client in the middle of printFile() has a job of its own.             *)
PrintOK(c) ==
    /\ pc[c] # "idle" => ended[c] = "running" /\ ret[c] = 0
    /\ pc[c] \in {"sendDocument", "cancelJob"}
          => /\ call[c] = "printFile"
             /\ newId[c] \in Jobs /\ Exists(newId[c]) /\ creator[newId[c]] = c

(* What a client returned holds for as long as nobody restarts the job.    *)
RetOK(c) ==
    /\ ret[c] > 0
          => Exists(ret[c]) /\ creator[ret[c]] = c /\ file[ret[c]] = c
    /\ Returned(c, "printFile") /\ ret[c] = 0 /\ newId[c] > 0
          => state[newId[c]] = "canceled" \/ newId[c] \in restarted

(* A loop over jobs has canceled those it is past.                         *)
BulkOK(c) ==
    /\ pc[c] = "command" => call[c] \in BulkCalls
    /\ call[c] = "cancelJobs" /\ (pc[c] = "command" \/ ended[c] = "return")
          => \A j \in listed[c] : j \in todo[c] \/ Done(j)
    /\ Returned(c, "cancelJobs") => todo[c] = {}

IInv ==
    /\ TypeOK
    /\ JobsOK
    /\ \A c \in Clients : PrintOK(c) /\ RetOK(c) /\ BulkOK(c)

JobStates == Active \union Finished \union {"none"}

-----------------------------------------------------------------------------
(* A command through sendJobCommand(): what it may do to the jobs.         *)
LEMMA ObeyEffect ==
    ASSUME TypeOK, NEW j \in Jobs, NEW command \in Commands,
           Possible(command, j), Obey(command, j),
           UNCHANGED <<dest, owner, creator, file>>
    PROVE  /\ state' \in [Jobs -> JobStates]
           /\ restarted' \subseteq Jobs
           /\ Kept
           /\ command = "cancel" => state'[j] = "canceled"
<1>1. /\ StateAfter[command] \in JobStates \ {"none"}
      /\ command = "cancel" => StateAfter[command] = "canceled"
    BY DEF Commands, StateAfter, JobStates, Active, Finished
<1>2. state' = [state EXCEPT ![j] = StateAfter[command]]
    BY DEF Obey
<1>3. /\ state' \in [Jobs -> JobStates]
      /\ state'[j] = StateAfter[command]
      /\ \A i \in Jobs \ {j} : state'[i] = state[i]
    BY <1>1, <1>2 DEF TypeOK, JobStates
<1>4. /\ restarted \subseteq restarted' /\ restarted' \subseteq Jobs
      /\ command = "restart" => j \in restarted'
    BY DEF Obey, TypeOK
<1>5. state[j] \in Finished => command = "restart"
    BY DEF Possible, Active, Finished
<1>6. Kept
    BY <1>1, <1>3, <1>4, <1>5 DEF Kept, Exists
<1> QED
    BY <1>1, <1>3, <1>4, <1>6

LEMMA CommandEffect ==
    ASSUME TypeOK, NEW j \in Jobs, NEW user, NEW command \in Commands,
           \/ CommandSucceeds(j, user, command)
           \/ CommandThrows(j, user, command)
    PROVE  /\ state' \in [Jobs -> JobStates]
           /\ restarted' \subseteq Jobs
           /\ faults' \in 0..MaxFaults
           /\ UNCHANGED <<dest, owner, creator, file>>
           /\ Kept
           /\ CommandSucceeds(j, user, command) /\ command = "cancel"
                => state'[j] = "canceled"
<1>1. UNCHANGED <<dest, owner, creator, file>> /\ (UNCHANGED faults \/ Fault)
    BY DEF CommandSucceeds, CommandThrows
<1>2. faults' \in 0..MaxFaults
    BY <1>1, BoundsAssumption DEF Fault, TypeOK
<1>3. CASE Possible(command, j) /\ Obey(command, j)
    BY <1>1, <1>2, <1>3, ObeyEffect
<1>4. CASE UNCHANGED <<state, restarted>> /\ ~CommandSucceeds(j, user, command)
    BY <1>1, <1>2, <1>4 DEF TypeOK, JobStates, Kept, Exists
<1> QED
    BY <1>3, <1>4 DEF CommandSucceeds, CommandThrows

(* What each action does to the jobs: typed, and Kept.                     *)
LEMMA JobsStep ==
    ASSUME IInv, Next
    PROVE  /\ Kept
           /\ state' \in [Jobs -> JobStates]
           /\ dest' \in [Jobs -> Queues]
           /\ owner' \in [Jobs -> Users \union {"anonymous"}]
           /\ creator' \in [Jobs -> Clients \union {NoClient}]
           /\ file' \in [Jobs -> Clients \union {NoClient}]
           /\ restarted' \subseteq Jobs
           /\ faults' \in 0..MaxFaults
<1> DEFINE Goal ==
           /\ Kept
           /\ state' \in [Jobs -> JobStates]
           /\ dest' \in [Jobs -> Queues]
           /\ owner' \in [Jobs -> Users \union {"anonymous"}]
           /\ creator' \in [Jobs -> Clients \union {NoClient}]
           /\ file' \in [Jobs -> Clients \union {NoClient}]
           /\ restarted' \subseteq Jobs
           /\ faults' \in 0..MaxFaults
<1>0. TypeOK
    BY DEF IInv
<1>same. ASSUME UNCHANGED jobs, faults' \in 0..MaxFaults
         PROVE  Goal
    BY <1>0, <1>same DEF TypeOK, jobs, JobStates, Kept, Exists
<1>fault. Fault => faults' \in 0..MaxFaults
    BY <1>0, BoundsAssumption DEF Fault, TypeOK
<1>1. ASSUME NEW j \in Jobs, Start(j) \/ Finish(j) \/ IncomingTimesOut(j)
      PROVE  Goal
    <2>1. PICK s \in JobStates \ {"none"} : state' = [state EXCEPT ![j] = s]
        <3>1. CASE Start(j)
            BY <3>1 DEF Start, JobStates, Active, Finished
        <3>2. CASE Finish(j)
            BY <3>2 DEF Finish, JobStates, Active, Finished
        <3>3. CASE IncomingTimesOut(j)
            BY <3>3 DEF IncomingTimesOut, JobStates, Active, Finished
        <3> QED
            BY <1>1, <3>1, <3>2, <3>3
    <2>2. state[j] \notin Finished
        BY <1>1 DEF Start, Finish, IncomingTimesOut, Finished
    <2>3. UNCHANGED <<dest, owner, creator, file, restarted, faults>>
        BY <1>1 DEF Start, Finish, IncomingTimesOut
    <2> QED
        BY <1>0, <2>1, <2>2, <2>3 DEF TypeOK, JobStates, Kept, Exists
<1>2. ASSUME NEW c \in Clients, CreateJob(c)
      PROVE  Goal
    <2>1. ASSUME NEW j \in Jobs, NEW q \in Queues,
                 NEW user \in Users \union {"anonymous"},
                 NewJob(c, j, q, user), faults' \in 0..MaxFaults
          PROVE  Goal
        <3>1. state' \in [Jobs -> JobStates] /\ state'[j] = "incoming"
            BY <1>0, <2>1 DEF NewJob, TypeOK, JobStates, Active
        <3>2. /\ dest' \in [Jobs -> Queues]
              /\ owner' \in [Jobs -> Users \union {"anonymous"}]
              /\ creator' \in [Jobs -> Clients \union {NoClient}]
              /\ file' = file /\ restarted' = restarted
            BY <1>0, <2>1 DEF NewJob, TypeOK
        <3>3. /\ ~Exists(j)
              /\ \A i \in Jobs \ {j} : /\ state'[i] = state[i]
                                       /\ creator'[i] = creator[i]
            BY <1>0, <2>1 DEF NewJob, IsNext, TypeOK
        <3>4. Kept
            BY <3>1, <3>2, <3>3 DEF Kept, Exists, Finished
        <3> QED
            BY <1>0, <2>1, <3>1, <3>2, <3>4 DEF TypeOK
    <2>2. PICK j \in Jobs, q \in Queues, user \in Users \union {"anonymous"} :
              \/ NewJob(c, j, q, user) /\ (UNCHANGED faults \/ Fault)
              \/ UNCHANGED jobs /\ Fault
        BY <1>2 DEF CreateJob
    <2>3. UNCHANGED faults => faults' \in 0..MaxFaults
        BY <1>0 DEF TypeOK
    <2> QED
        BY <2>1, <2>2, <2>3, <1>same, <1>fault
<1>3. ASSUME NEW c \in Clients, SendDocument(c)
      PROVE  Goal
    <2>1. newId[c] \in Jobs
        BY <1>3 DEF IInv, PrintOK, SendDocument
    <2>2. faults' \in 0..MaxFaults
        BY <1>3, <1>0, <1>fault DEF SendDocument, TypeOK
    <2>3. CASE UNCHANGED jobs
        BY <2>2, <2>3, <1>same
    <2>4. CASE MayTakeDocument(newId[c]) /\ TakeDocument(c, newId[c])
        <3> DEFINE j == newId[c]
        <3>1. state[j] \in Active
            BY <2>4 DEF MayTakeDocument
        <3>2. /\ state' \in [Jobs -> JobStates] /\ state'[j] \in Active
              /\ \A i \in Jobs \ {j} : state'[i] = state[i]
            BY <1>0, <2>1, <2>4, <3>1 DEF TakeDocument, TypeOK, JobStates, Active
        <3>3. /\ file' \in [Jobs -> Clients \union {NoClient}]
              /\ UNCHANGED <<dest, owner, creator, restarted>>
            BY <1>0, <2>1, <2>4 DEF TakeDocument, TypeOK
        <3>4. Kept
            BY <2>1, <3>1, <3>2, <3>3 DEF Kept, Exists, Active, Finished
        <3> QED
            BY <1>0, <2>2, <3>2, <3>3, <3>4 DEF TypeOK
    <2> QED
        BY <1>3, <2>3, <2>4 DEF SendDocument
<1>4. ASSUME NEW j \in Jobs, NEW user, NEW command \in Commands,
             \/ CommandSucceeds(j, user, command)
             \/ CommandThrows(j, user, command)
      PROVE  Goal
    <2>1. /\ state' \in [Jobs -> JobStates] /\ restarted' \subseteq Jobs
          /\ faults' \in 0..MaxFaults
          /\ UNCHANGED <<dest, owner, creator, file>>
          /\ Kept
        BY <1>0, <1>4, CommandEffect
    <2> QED
        BY <1>0, <2>1 DEF TypeOK
<1>5. ASSUME NEW c \in Clients, Undo(c)
      PROVE  Goal
    BY <1>4, <1>5 DEF IInv, PrintOK, Undo, Commands
<1>6. ASSUME NEW c \in Clients, CommandNext(c)
      PROVE  Goal
    <2>1. PICK j \in todo[c] :
              \/ CommandSucceeds(j, "default", CommandOf[call[c]])
              \/ CommandThrows(j, "default", CommandOf[call[c]])
        BY <1>6 DEF CommandNext, NewestOf
    <2>2. CommandOf[call[c]] \in Commands
        BY <1>6 DEF IInv, BulkOK, CommandNext, BulkCalls, CommandOf, Commands
    <2>3. j \in Jobs
        BY <1>0 DEF TypeOK
    <2> QED
        BY <1>4, <2>1, <2>2, <2>3
<1>7. ASSUME NEW c \in Clients, GetJobList(c) \/ ListDone(c)
      PROVE  Goal
    <2>1. UNCHANGED jobs /\ (UNCHANGED faults \/ Fault)
        BY <1>7 DEF GetJobList, ListDone
    <2> QED
        BY <1>0, <2>1, <1>same, <1>fault DEF TypeOK
<1>8. ASSUME NEW c \in Clients, JobCommand(c)
      PROVE  Goal
    <2>1. PICK j \in Jobs, user \in Users \union {"guest"},
               command \in Commands :
              \/ CommandSucceeds(j, user, command)
              \/ CommandThrows(j, user, command)
        BY <1>8 DEF JobCommand
    <2> QED
        BY <2>1, <1>4
<1>9. ASSUME NEW c \in Clients, MoveJob(c)
      PROVE  Goal
    <2>1. PICK j \in Jobs, q \in Queues :
              dest' = dest \/ dest' = [dest EXCEPT ![j] = q]
        BY <1>9 DEF MoveJob
    <2>2. dest' \in [Jobs -> Queues]
        BY <1>0, <2>1 DEF TypeOK
    <2>3. faults' \in 0..MaxFaults
        BY <1>9, <1>0, <1>fault DEF MoveJob, TypeOK
    <2>4. UNCHANGED <<state, owner, creator, file, restarted>>
        BY <1>9 DEF MoveJob
    <2> QED
        BY <1>0, <2>2, <2>3, <2>4 DEF TypeOK, JobStates, Kept, Exists
<1> QED
    BY <1>1, <1>2, <1>3, <1>5, <1>6, <1>7, <1>8, <1>9 DEF Next, Cupsd, Client

-----------------------------------------------------------------------------
LEMMA InitInv == Init => IInv
<1> SUFFICES ASSUME Init PROVE IInv
    OBVIOUS
<1>1. TypeOK
    <2>1. dest \in [Jobs -> Queues]
        BY QueuesAssumption DEF Init
    <2> QED
        BY <2>1, BoundsAssumption DEF Init, TypeOK
<1>2. JobsOK
    BY DEF Init, JobsOK
<1>3. \A c \in Clients : PrintOK(c) /\ RetOK(c) /\ BulkOK(c)
    <2> SUFFICES ASSUME NEW c \in Clients
                 PROVE  PrintOK(c) /\ RetOK(c) /\ BulkOK(c)
        OBVIOUS
    <2>1. /\ pc[c] = "idle" /\ call[c] = "none"
          /\ newId[c] = 0 /\ ret[c] = 0
        BY DEF Init
    <2> QED
        BY <2>1 DEF PrintOK, RetOK, BulkOK, Returned, Ended
<1> QED
    BY <1>1, <1>2, <1>3 DEF IInv

(* A client's step leaves the locals of the others alone.                  *)
LEMMA ClientFrame ==
    ASSUME TypeOK, NEW c \in Clients, Client(c), NEW d \in Clients, d # c
    PROVE  /\ pc'[d] = pc[d] /\ call'[d] = call[d] /\ newId'[d] = newId[d]
           /\ listed'[d] = listed[d] /\ todo'[d] = todo[d]
           /\ ended'[d] = ended[d] /\ ret'[d] = ret[d]
<1>1. CASE CreateJob(c)
    BY <1>1 DEF CreateJob, TypeOK, Begin, Ends, GoesOn
<1>2. CASE SendDocument(c)
    BY <1>2 DEF SendDocument, TypeOK, Ends, GoesOn
<1>3. CASE Undo(c)
    BY <1>3 DEF Undo, TypeOK, Ends
<1>4. CASE GetJobList(c)
    BY <1>4 DEF GetJobList, TypeOK, Begin, Ends, GoesOn
<1>5. CASE CommandNext(c)
    BY <1>5 DEF CommandNext, TypeOK, Ends
<1>6. CASE ListDone(c)
    BY <1>6 DEF ListDone, TypeOK, Ends
<1>7. CASE JobCommand(c)
    BY <1>7 DEF JobCommand, TypeOK, Begin, Ends
<1>8. CASE MoveJob(c)
    BY <1>8 DEF MoveJob, TypeOK, Begin, Ends
<1> QED
    BY <1>1, <1>2, <1>3, <1>4, <1>5, <1>6, <1>7, <1>8 DEF Client

(* The locals of the client that takes a step are typed.                   *)
LEMMA ClientTyped ==
    ASSUME TypeOK, NEW c \in Clients, Client(c)
    PROVE  /\ pc' \in [Clients -> {"idle", "sendDocument", "cancelJob", "command"}]
           /\ call' \in [Clients -> Calls \union {"none"}]
           /\ newId' \in [Clients -> 0..MaxJobs]
           /\ listed' \in [Clients -> SUBSET Jobs]
           /\ todo' \in [Clients -> SUBSET Jobs]
           /\ ended' \in [Clients -> {"running", "return", "throw"}]
           /\ ret' \in [Clients -> 0..MaxJobs]
           /\ ownerOnly' \in BOOLEAN
           /\ calls' \in 0..MaxCalls
<1>0. 0 \in 0..MaxJobs /\ Jobs \subseteq 0..MaxJobs
    BY BoundsAssumption DEF Jobs
<1>1. CASE CreateJob(c)
    BY <1>0, <1>1, BoundsAssumption DEF CreateJob, TypeOK, Begin, Ends, GoesOn
<1>2. CASE SendDocument(c)
    BY <1>0, <1>2 DEF SendDocument, TypeOK, Ends, GoesOn
<1>3. CASE Undo(c)
    BY <1>0, <1>3 DEF Undo, TypeOK, Ends
<1>4. CASE GetJobList(c)
    <2>1. \A q : JobList(q) \subseteq Jobs
        BY DEF JobList
    <2> QED
        BY <1>0, <1>4, <2>1, BoundsAssumption
        DEF GetJobList, TypeOK, Begin, Ends, GoesOn
<1>5. CASE CommandNext(c)
    BY <1>0, <1>5 DEF CommandNext, TypeOK, Ends
<1>6. CASE ListDone(c)
    BY <1>0, <1>6 DEF ListDone, TypeOK, Ends
<1>7. CASE JobCommand(c)
    BY <1>0, <1>7, BoundsAssumption DEF JobCommand, TypeOK, Begin, Ends
<1>8. CASE MoveJob(c)
    BY <1>0, <1>8, BoundsAssumption DEF MoveJob, TypeOK, Begin, Ends
<1> QED
    BY <1>1, <1>2, <1>3, <1>4, <1>5, <1>6, <1>7, <1>8 DEF Client

-----------------------------------------------------------------------------
(* What a client knows of the jobs stays true while others take steps.     *)
LEMMA OthersKeep ==
    ASSUME IInv, Next, NEW d \in Clients,
           UNCHANGED <<pc[d], call[d], newId[d], listed[d], todo[d], ended[d],
                       ret[d]>>,
           \A j \in Jobs : file[j] = d => file'[j] = d
    PROVE  PrintOK(d)' /\ RetOK(d)' /\ BulkOK(d)'
<1>1. PrintOK(d) /\ RetOK(d) /\ BulkOK(d) /\ TypeOK
    BY DEF IInv
<1>2. Kept
    BY JobsStep
<1>3. PrintOK(d)'
    BY <1>1, <1>2 DEF PrintOK, Kept, Exists
<1>4. RetOK(d)'
    <2>1. ret[d] \in 0..MaxJobs /\ newId[d] \in 0..MaxJobs
        BY <1>1 DEF TypeOK
    <2>2. /\ ret[d] > 0 => ret[d] \in Jobs
          /\ newId[d] > 0 => newId[d] \in Jobs
        BY <2>1, BoundsAssumption DEF Jobs
    <2>3. ret'[d] > 0
            => Exists(ret[d])' /\ creator'[ret[d]] = d /\ file'[ret[d]] = d
        BY <1>1, <1>2, <2>2 DEF RetOK, Kept, Exists
    <2>4. Returned(d, "printFile")' /\ ret'[d] = 0 /\ newId'[d] > 0
            => state'[newId[d]] = "canceled" \/ newId[d] \in restarted'
        BY <1>1, <1>2, <2>2 DEF RetOK, Kept, Returned, Ended, Finished
    <2> QED
        BY <2>3, <2>4 DEF RetOK, Returned, Ended, Exists
<1>5. BulkOK(d)'
    <2>1. \A j \in Jobs : Done(j) => Done(j)'
        BY <1>2 DEF Kept, Done
    <2>2. listed[d] \subseteq Jobs
        BY <1>1 DEF TypeOK
    <2> QED
        BY <1>1, <2>1, <2>2 DEF BulkOK, Returned, Ended
<1> QED
    BY <1>3, <1>4, <1>5

(* The files: only SendDocument puts one into a job, and that job is the   *)
(* client's own.                                                           *)
LEMMA FilesStep ==
    ASSUME IInv, Next
    PROVE  /\ JobsOK'
           /\ \A j \in Jobs : file[j] # NoClient => file'[j] = file[j]
<1>0. TypeOK /\ JobsOK
    BY DEF IInv
<1>1. Kept
    BY JobsStep
<1>2. CASE UNCHANGED <<creator, file>>
    BY <1>0, <1>1, <1>2 DEF JobsOK, Kept, Exists
<1>3. ASSUME NEW c \in Clients, NEW j \in Jobs, NEW q, NEW user,
             NewJob(c, j, q, user)
      PROVE  /\ JobsOK'
             /\ \A i \in Jobs : file[i] # NoClient => file'[i] = file[i]
    <2>1. /\ file' = file /\ ~Exists(j) /\ state'[j] = "incoming"
          /\ \A i \in Jobs \ {j} : /\ state'[i] = state[i]
                                   /\ creator'[i] = creator[i]
        BY <1>0, <1>3 DEF NewJob, IsNext, TypeOK
    <2>2. file[j] = NoClient
        BY <1>0, <2>1 DEF JobsOK
    <2> QED
        BY <1>0, <2>1, <2>2 DEF JobsOK, Exists
<1>4. ASSUME NEW c \in Clients, SendDocument(c), TakeDocument(c, newId[c])
      PROVE  /\ JobsOK'
             /\ \A i \in Jobs : file[i] # NoClient => file'[i] = file[i]
    <2>1. /\ newId[c] \in Jobs /\ creator[newId[c]] = c
          /\ Exists(newId[c])
        BY <1>4 DEF IInv, PrintOK, SendDocument
    <2>2. /\ creator' = creator /\ file' = [file EXCEPT ![newId[c]] = c]
          /\ \A i \in Jobs : Exists(i)' <=> Exists(i)
        BY <1>0, <1>4, <2>1 DEF TakeDocument, TypeOK, Exists
    <2>3. file[newId[c]] \in {NoClient, c}
        BY <1>0, <2>1 DEF JobsOK
    <2> QED
        BY <1>0, <2>1, <2>2, <2>3 DEF JobsOK, TypeOK
<1>5. CASE Cupsd
    BY <1>2, <1>5 DEF Cupsd, Start, Finish, IncomingTimesOut
<1>6. ASSUME NEW c \in Clients, Client(c)
      PROVE  /\ JobsOK'
             /\ \A i \in Jobs : file[i] # NoClient => file'[i] = file[i]
    <2>1. CASE CreateJob(c)
        BY <1>2, <1>3, <2>1 DEF CreateJob, jobs
    <2>2. CASE SendDocument(c)
        BY <1>2, <1>4, <2>2 DEF SendDocument, jobs
    <2>3. CASE Undo(c)
        BY <1>2, <2>3 DEF Undo, CommandSucceeds, CommandThrows
    <2>4. CASE GetJobList(c)
        BY <1>2, <2>4 DEF GetJobList, jobs
    <2>5. CASE CommandNext(c)
        BY <1>2, <2>5 DEF CommandNext, CommandSucceeds, CommandThrows
    <2>6. CASE ListDone(c)
        BY <1>2, <2>6 DEF ListDone, jobs
    <2>7. CASE JobCommand(c)
        BY <1>2, <2>7 DEF JobCommand, CommandSucceeds, CommandThrows
    <2>8. CASE MoveJob(c)
        BY <1>2, <2>8 DEF MoveJob
    <2> QED
        BY <1>6, <2>1, <2>2, <2>3, <2>4, <2>5, <2>6, <2>7, <2>8 DEF Client
<1> QED
    BY <1>5, <1>6 DEF Next

(* The client that takes the step itself.                                  *)
LEMMA OwnStep ==
    ASSUME IInv, NEW c \in Clients, Client(c)
    PROVE  PrintOK(c)' /\ RetOK(c)' /\ BulkOK(c)'
<1>0. TypeOK /\ PrintOK(c) /\ RetOK(c) /\ BulkOK(c)
    BY DEF IInv
<1>1. Next /\ Kept
    BY JobsStep DEF Next
<1>2. CASE CreateJob(c)
    <2>1. call'[c] = "printFile"
        BY <1>0, <1>2 DEF CreateJob, Begin, TypeOK
    <2>2. PICK j \in Jobs, q \in Queues, user \in Users \union {"anonymous"} :
              \/ /\ NewJob(c, j, q, user) /\ newId'[c] = j
                 /\ GoesOn(c, "sendDocument")
              \/ newId'[c] = 0 /\ Ends(c, "return", 0)
        BY <1>0, <1>2 DEF CreateJob, TypeOK
    <2>3. CASE newId'[c] = 0 /\ Ends(c, "return", 0)
        <3>1. pc'[c] = "idle" /\ ret'[c] = 0
            BY <1>0, <2>3 DEF Ends, TypeOK
        <3> QED
            BY <2>1, <2>3, <3>1 DEF PrintOK, RetOK, BulkOK, Returned, Ended
    <2>4. CASE /\ NewJob(c, j, q, user) /\ newId'[c] = j
               /\ GoesOn(c, "sendDocument")
        <3>1. pc'[c] = "sendDocument" /\ ret'[c] = 0 /\ ended'[c] = "running"
            BY <1>0, <2>4 DEF GoesOn, TypeOK
        <3>2. state'[j] = "incoming" /\ creator'[j] = c
            BY <1>0, <2>4 DEF NewJob, TypeOK
        <3> QED
            BY <2>1, <2>4, <3>1, <3>2
            DEF PrintOK, RetOK, BulkOK, Returned, Ended, Exists
    <2> QED
        BY <2>2, <2>3, <2>4
<1>3. CASE SendDocument(c)
    <2>1. /\ newId[c] \in Jobs /\ creator[newId[c]] = c
          /\ Exists(newId[c]) /\ call[c] = "printFile"
        BY <1>0, <1>3 DEF PrintOK, SendDocument
    <2>2. state'[newId[c]] # "none" /\ creator'[newId[c]] = c
        BY <1>1, <2>1 DEF Kept, Exists
    <2>3. UNCHANGED <<call, newId, listed, todo>>
        BY <1>3 DEF SendDocument
    <2>4. CASE GoesOn(c, "cancelJob")
        <3>1. pc'[c] = "cancelJob" /\ ret'[c] = 0 /\ ended'[c] = "running"
            BY <1>0, <2>4 DEF GoesOn, TypeOK
        <3> QED
            BY <2>1, <2>2, <2>3, <3>1
            DEF PrintOK, RetOK, BulkOK, Returned, Ended, Exists
    <2>5. CASE TakeDocument(c, newId[c]) /\ Ends(c, "return", newId[c])
        <3>1. pc'[c] = "idle" /\ ret'[c] = newId[c] /\ ret'[c] > 0
            BY <1>0, <2>1, <2>5, BoundsAssumption DEF Ends, TypeOK, Jobs
        <3>2. file'[newId[c]] = c
            BY <1>0, <2>1, <2>5 DEF TakeDocument, TypeOK
        <3> QED
            BY <2>1, <2>2, <2>3, <3>1, <3>2
            DEF PrintOK, RetOK, BulkOK, Returned, Ended, Exists
    <2> QED
        BY <1>3, <2>4, <2>5 DEF SendDocument
<1>4. CASE Undo(c)
    <2>1. newId[c] \in Jobs /\ call[c] = "printFile"
        BY <1>0, <1>4 DEF PrintOK, Undo
    <2>2. UNCHANGED <<call, newId, listed, todo>>
        BY <1>4 DEF Undo
    <2>3. pc'[c] = "idle" /\ ret'[c] = 0 /\ ended'[c] \in {"return", "throw"}
        BY <1>0, <1>4 DEF Undo, Ends, TypeOK
    <2>4. ended'[c] = "return" => CommandSucceeds(newId[c], "guest", "cancel")
        BY <1>0, <1>4 DEF Undo, Ends, TypeOK
    <2>5. ended'[c] = "return" => state'[newId[c]] = "canceled"
        BY <1>0, <2>1, <2>4, CommandEffect DEF Commands
    <2> QED
        BY <2>1, <2>2, <2>3, <2>5 DEF PrintOK, RetOK, BulkOK, Returned, Ended
<1>5. CASE GetJobList(c)
    <2>1. call'[c] \in BulkCalls /\ newId'[c] = 0 /\ ret'[c] = 0
        BY <1>0, <1>5 DEF GetJobList, Begin, Ends, GoesOn, TypeOK
    <2>2. \/ /\ pc'[c] = "command" /\ ended'[c] = "running"
             /\ todo'[c] = listed'[c]
          \/ pc'[c] = "idle" /\ ended'[c] = "throw"
        BY <1>0, <1>5 DEF GetJobList, Ends, GoesOn, TypeOK
    <2> QED
        BY <2>1, <2>2 DEF PrintOK, RetOK, BulkOK, Returned, Ended, BulkCalls
<1>6. CASE CommandNext(c)
    <2>1. PICK j \in todo[c] :
              /\ todo' = [todo EXCEPT ![c] = @ \ {j}]
              /\ \/ /\ CommandSucceeds(j, "default", CommandOf[call[c]])
                    /\ UNCHANGED <<pc, ended, ret>>
                 \/ Ends(c, "throw", 0)
        BY <1>6 DEF CommandNext, NewestOf
    <2>2. UNCHANGED <<call, newId, listed>>
        BY <1>6 DEF CommandNext
    <2>3. /\ pc[c] = "command" /\ call[c] \in BulkCalls
          /\ ended[c] = "running" /\ ret[c] = 0
        BY <1>0, <1>6 DEF CommandNext, PrintOK, BulkOK
    <2>4. CASE Ends(c, "throw", 0)
        <3>1. pc'[c] = "idle" /\ ret'[c] = 0 /\ ended'[c] = "throw"
            BY <1>0, <2>4 DEF Ends, TypeOK
        <3> QED
            BY <2>2, <3>1 DEF PrintOK, RetOK, BulkOK, Returned, Ended
    <2>5. CASE /\ CommandSucceeds(j, "default", CommandOf[call[c]])
               /\ UNCHANGED <<pc, ended, ret>>
        <3>1. j \in Jobs /\ listed[c] \subseteq Jobs /\ todo'[c] = todo[c] \ {j}
            BY <1>0, <2>1 DEF TypeOK
        <3>2. \A i \in Jobs : Done(i) => Done(i)'
            BY <1>1 DEF Kept, Done
        <3>3. call[c] = "cancelJobs" => Done(j)'
            <4> SUFFICES ASSUME call[c] = "cancelJobs" PROVE Done(j)'
                OBVIOUS
            <4>1. CommandOf[call[c]] = "cancel"
                BY DEF CommandOf
            <4>2. state'[j] = "canceled"
                BY <1>0, <2>5, <3>1, <4>1, CommandEffect DEF Commands
            <4> QED
                BY <4>2 DEF Done, Finished
        <3>4. call[c] = "cancelJobs"
                => \A i \in listed[c] : i \in todo'[c] \/ Done(i)'
            BY <1>0, <2>3, <3>1, <3>2, <3>3 DEF BulkOK
        <3> QED
            BY <2>2, <2>3, <2>5, <3>4
            DEF PrintOK, RetOK, BulkOK, Returned, Ended, BulkCalls
    <2> QED
        BY <2>1, <2>4, <2>5
<1>7. CASE ListDone(c)
    <2>1. /\ pc'[c] = "idle" /\ ret'[c] = 0
          /\ call[c] \in BulkCalls /\ todo[c] = {}
          /\ UNCHANGED <<jobs, call, newId, listed, todo>>
        BY <1>0, <1>7 DEF ListDone, Ends, TypeOK, BulkOK
    <2>2. call[c] = "cancelJobs" => \A i \in listed[c] : Done(i)'
        BY <1>0, <1>7, <2>1 DEF ListDone, BulkOK, Done, jobs
    <2> QED
        BY <2>1, <2>2 DEF PrintOK, RetOK, BulkOK, Returned, Ended, BulkCalls
<1>8. CASE JobCommand(c) \/ MoveJob(c)
    <2>1. /\ pc'[c] = "idle" /\ ret'[c] = 0
          /\ call'[c] \in {"jobCommand", "moveJob"}
        BY <1>0, <1>8 DEF JobCommand, MoveJob, Begin, Ends, TypeOK
    <2> QED
        BY <2>1 DEF PrintOK, RetOK, BulkOK, Returned, Ended
<1> QED
    BY <1>2, <1>3, <1>4, <1>5, <1>6, <1>7, <1>8 DEF Client

LEMMA StepInv == IInv /\ [Next]_vars => IInv'
<1> SUFFICES ASSUME IInv, [Next]_vars PROVE IInv'
    OBVIOUS
<1>1. CASE UNCHANGED vars
    BY <1>1 DEF IInv, TypeOK, JobsOK, PrintOK, RetOK, BulkOK, Returned, Ended,
                Done, Exists, vars, jobs, client
<1>2. CASE Cupsd
    <2>1. UNCHANGED <<client, ownerOnly, calls>>
        BY <1>2 DEF Cupsd, Start, Finish, IncomingTimesOut
    <2>2. Next
        BY <1>2 DEF Next
    <2>3. TypeOK'
        BY <2>1, <2>2, JobsStep DEF IInv, TypeOK, JobStates, client
    <2>4. ASSUME NEW d \in Clients
          PROVE  PrintOK(d)' /\ RetOK(d)' /\ BulkOK(d)'
        <3>1. UNCHANGED <<pc[d], call[d], newId[d], listed[d], todo[d],
                          ended[d], ret[d]>>
            BY <2>1 DEF client
        <3>2. \A j \in Jobs : file[j] = d => file'[j] = d
            BY <2>2, FilesStep, ClientsAssumption
        <3> QED
            BY <2>2, <3>1, <3>2, OthersKeep
    <2> QED
        BY <2>2, <2>3, <2>4, FilesStep DEF IInv
<1>3. ASSUME NEW c \in Clients, Client(c)
      PROVE  IInv'
    <2>1. Next
        BY <1>3 DEF Next
    <2>2. TypeOK'
        BY <1>3, <2>1, JobsStep, ClientTyped DEF IInv, TypeOK, JobStates
    <2>3. ASSUME NEW d \in Clients
          PROVE  PrintOK(d)' /\ RetOK(d)' /\ BulkOK(d)'
        <3>1. CASE d = c
            BY <1>3, <3>1, OwnStep
        <3>2. CASE d # c
            <4>1. UNCHANGED <<pc[d], call[d], newId[d], listed[d], todo[d],
                              ended[d], ret[d]>>
                BY <1>3, <3>2, ClientFrame DEF IInv
            <4>2. \A j \in Jobs : file[j] = d => file'[j] = d
                BY <2>1, FilesStep, ClientsAssumption
            <4> QED
                BY <2>1, <4>1, <4>2, OthersKeep
        <3> QED
            BY <3>1, <3>2
    <2> QED
        BY <2>1, <2>2, <2>3, FilesStep DEF IInv
<1> QED
    BY <1>1, <1>2, <1>3 DEF Next

THEOREM Invariance == Spec => []IInv
<1> QED
    BY InitInv, StepInv, PTL DEF Spec

-----------------------------------------------------------------------------
(* Every reachable state is well typed.                                    *)
THEOREM TypeCorrect == Spec => []TypeOK
<1>1. IInv => TypeOK
    BY DEF IInv
<1> QED
    BY <1>1, Invariance, PTL

(* A job id that printFile() returned is that of the caller's own job,     *)
(* which has the caller's file: whatever other programs and cupsd did      *)
(* between createJob() and sendDocument().                                 *)
THEOREM IdIsPrinted == Spec => []IdMeansPrinted
<1>1. IInv => IdMeansPrinted
    BY DEF IInv, RetOK, IdMeansPrinted
<1> QED
    BY <1>1, Invariance, PTL

(* No program's file gets into the job of another.                         *)
THEOREM FilesStayApart == Spec => []FileInOwnJob
<1>1. IInv => FileInOwnJob
    BY DEF IInv, JobsOK, FileInOwnJob
<1> QED
    BY <1>1, Invariance, PTL

(* printFile() that returned 0 with a job made has had it canceled.        *)
THEOREM ZeroIsCanceled == Spec => []ZeroMeansCanceled
<1>1. IInv => ZeroMeansCanceled
    BY DEF IInv, RetOK, ZeroMeansCanceled
<1> QED
    BY <1>1, Invariance, PTL

(* cancelJobs() that returned has left no job of its list unfinished.      *)
THEOREM CancelJobsIsComplete == Spec => []CancelJobsCancels
<1>1. IInv => CancelJobsCancels
    <2> SUFFICES ASSUME IInv, NEW c \in Clients, Returned(c, "cancelJobs"),
                        NEW j \in listed[c]
                 PROVE  Done(j)
        BY DEF CancelJobsCancels, Done
    <2>1. BulkOK(c)
        BY DEF IInv
    <2> QED
        BY <2>1 DEF BulkOK, Returned, Ended
<1> QED
    BY <1>1, Invariance, PTL
=============================================================================
