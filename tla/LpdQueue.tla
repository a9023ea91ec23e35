------------------------------ MODULE LpdQueue ------------------------------
(***************************************************************************)
(* The conversation of the lpd backend with a printer (src/lpd.c): one run *)
(* of lpd_queue(), which connects, sends five items (a command, or a file  *)
(* after the command that announces it), waits for one status byte after   *)
(* each, and starts again 30 seconds later when the printer did not take   *)
(* the job.  The printer on the other end and the network are external;    *)
(* connections of earlier attempts stay in the model, because the printer  *)
(* may still be working on what was sent to it when the client hung up.    *)
(*                                                                         *)
(* Abstractions.  A file is a number of buffers of fread().  A status byte *)
(* and errno are 0 or 1 (not zero).  A send() fails only on a connection   *)
(* that was reset, and after that on every call: running out of kernel     *)
(* memory in the middle of a healthy connection is left out.  Choosing the *)
(* local port and retrying connect() is module LpdPort.                    *)
(***************************************************************************)
EXTENDS Integers, Sequences

CONSTANTS
    Copies,          \* argv[4], the number of copies asked for
    MaxAttempts,     \* bound: connections made by one run
    MaxFileSize,     \* bound: buffers in the print file
    MaxFileChanges,  \* bound: changes of the print file while the backend runs
    SignalRestarts   \* does signal() make recv() restart after SIGALRM?

ASSUME CopiesAssumption == Copies \in Nat
ASSUME BoundsAssumption == /\ MaxAttempts \in Nat \ {0}
                           /\ MaxFileSize \in Nat
                           /\ MaxFileChanges \in Nat
ASSUME SignalAssumption == SignalRestarts \in BOOLEAN

VARIABLES
    order,         \* which file goes first
    manual,        \* manual_copies: the file is sent once per copy
    exists,        \* the print file is in the file system
    fileSize,      \* its size, in buffers
    changes,       \* changes made to it so far
    pc,            \* where lpd_queue() is
    attempt,       \* connections made so far; the last one is the current one
    step,          \* the item of Plan the client is at
    copies,        \* print lines still to be put into the control file
    copy, pos,     \* the data loop: copies sent, buffers sent of this copy
    tbytes,        \* buffers the client counted as sent
    status, errno, \* the status byte of the last file; the C errno
    ret,           \* what lpd_queue() returned; -1 while it runs
    unanswered,    \* steps of this attempt whose wait ended without a byte
    lines,         \* per attempt: print lines in its control file
    size,          \* per attempt: the file size it announced
    bytes,         \* per attempt: buffers the kernel took
    sent,          \* per attempt: complete items the kernel took
    handled,       \* per attempt: items the printer has answered
    refused,       \* per attempt: the item the printer refused, or 0
    read,          \* per attempt: status bytes the client has read
    conn,          \* per attempt: state of the connection
    queued         \* attempts whose job the printer has queued

job    == <<order, manual, exists, fileSize, changes>>
loop   == <<copy, pos, tbytes>>
client == <<attempt, step, copies, loop, status, errno, ret, unanswered>>
server == <<handled, refused, queued>>
net    == <<lines, size, bytes, sent, read, conn>>
vars   == <<job, pc, client, server, net>>

Attempts == 1..MaxAttempts

-----------------------------------------------------------------------------
(* The five items of a job, in the order the option order= asks for.       *)

Orders   == {"control_data", "data_control"}
Items    == {"recvjob", "ctlcmd", "ctlfile", "datacmd", "datafile"}
Commands == {"recvjob", "ctlcmd", "datacmd"}

Plan(o) ==
    IF o = "control_data"
    THEN <<"recvjob", "ctlcmd", "ctlfile", "datacmd", "datafile">>
    ELSE <<"recvjob", "datacmd", "datafile", "ctlcmd", "ctlfile">>

Item == Plan(order)[step]

manualCopies == IF manual THEN Copies ELSE 1
linesAsked   == IF manual THEN 1 ELSE Copies

PCs == {"resolve", "connect", "open", "send", "data", "wait", "close",
        "sleep", "done"}

-----------------------------------------------------------------------------
Init ==
    /\ order \in Orders
    /\ manual \in BOOLEAN
    /\ exists \in BOOLEAN
    /\ fileSize \in 0..MaxFileSize
    /\ changes = 0
    /\ pc = "resolve"
    /\ attempt = 0
    /\ step = 1
    /\ copies = linesAsked
    /\ copy = 0 /\ pos = 0 /\ tbytes = 0
    /\ status = 0
    /\ errno \in {0, 1}
    /\ ret = -1
    /\ unanswered = {}
    /\ lines   = [a \in Attempts |-> 0]
    /\ size    = [a \in Attempts |-> 0]
    /\ bytes   = [a \in Attempts |-> 0]
    /\ sent    = [a \in Attempts |-> 0]
    /\ handled = [a \in Attempts |-> 0]
    /\ refused = [a \in Attempts |-> 0]
    /\ read    = [a \in Attempts |-> 0]
    /\ conn    = [a \in Attempts |-> "none"]
    /\ queued  = {}

(* The return statements of lpd_queue(), and exit() in sigterm_handler().  *)
Return(r) ==
    /\ pc' = "done"
    /\ ret' = r

-----------------------------------------------------------------------------
(* Reaching the printer and opening the file.                              *)

(* httpGetHostByName() finds the host, or the backend gives up.            *)
Resolve ==
    /\ pc = "resolve"
    /\ \/ pc' = "connect" /\ UNCHANGED ret
       \/ Return(1)
    /\ UNCHANGED <<job, attempt, step, copies, loop, status, errno, unanswered,
                   server, net>>

(* The loop around connect() comes to an end, or socket() fails.           *)
Connect ==
    /\ pc = "connect"
    /\ UNCHANGED <<job, step, copies, loop, status, server,
                   lines, size, bytes, sent, read>>
    /\ \/ /\ attempt < MaxAttempts
          /\ attempt' = attempt + 1
          /\ conn' = [conn EXCEPT ![attempt'] = "up"]
          /\ unanswered' = {}
          /\ pc' = "open"
          /\ errno' \in {errno, 1}      \* earlier tries may have failed
          /\ UNCHANGED ret
       \/ /\ Return(1)
          /\ errno' = 1
          /\ UNCHANGED <<attempt, conn, unanswered>>

(* stat() and fopen() of the print file; its size is announced later.      *)
OpenFile ==
    /\ pc = "open"
    /\ IF exists
       THEN /\ size' = [size EXCEPT ![attempt] = fileSize * manualCopies]
            /\ step' = 1
            /\ pc' = "send"
            /\ UNCHANGED <<ret, errno>>
       ELSE /\ Return(1)
            /\ errno' = 1
            /\ UNCHANGED <<step, size>>
    /\ UNCHANGED <<job, attempt, copies, loop, status, unanswered, server,
                   lines, bytes, sent, read, conn>>

-----------------------------------------------------------------------------
(* Sending.  The kernel takes what is sent unless the connection was reset.*)

CanSend == conn[attempt] \in {"up", "shut"}

(* lpd_command() up to its recv(): a failed write ends the backend.        *)
SendCommand ==
    /\ pc = "send"
    /\ Item \in Commands
    /\ IF CanSend
       THEN /\ sent' = [sent EXCEPT ![attempt] = @ + 1]
            /\ pc' = "wait"
            /\ UNCHANGED <<ret, errno>>
       ELSE /\ Return(1)
            /\ errno' = 1
            /\ UNCHANGED sent
    /\ UNCHANGED <<job, attempt, step, copies, loop, status, unanswered,
                   server, lines, size, bytes, read, conn>>

(* The control file.  lpd_write() returns an int that is compared with a   *)
(* size_t, so -1 is not less: a failed write is waited for all the same.   *)
SendControlFile ==
    /\ pc = "send"
    /\ Item = "ctlfile"
    /\ pc' = "wait"
    /\ IF CanSend
       THEN sent' = [sent EXCEPT ![attempt] = @ + 1] /\ UNCHANGED errno
       ELSE errno' = 1 /\ UNCHANGED sent
    /\ UNCHANGED <<job, attempt, step, copies, loop, status, ret, unanswered,
                   server, lines, size, bytes, read, conn>>

(* The data file: the loops start from nothing sent.                       *)
StartData ==
    /\ pc = "send"
    /\ Item = "datafile"
    /\ copy' = 0 /\ pos' = 0 /\ tbytes' = 0
    /\ pc' = "data"
    /\ UNCHANGED <<job, attempt, step, copies, status, errno, ret, unanswered,
                   server, net>>

(* One round of the while loop: fread() gave a buffer, it is written and   *)
(* counted.  The comparison with a size_t is here too: always counted.     *)
SendBuffer ==
    /\ pc = "data"
    /\ copy < manualCopies
    /\ pos < fileSize
    /\ pos' = pos + 1
    /\ tbytes' = tbytes + 1
    /\ IF CanSend
       THEN bytes' = [bytes EXCEPT ![attempt] = @ + 1] /\ UNCHANGED errno
       ELSE errno' = 1 /\ UNCHANGED bytes
    /\ UNCHANGED <<job, pc, attempt, step, copies, copy, status, ret,
                   unanswered, server, lines, size, sent, read, conn>>

(* fread() gave nothing more: on to the next copy, from the start.         *)
NextCopy ==
    /\ pc = "data"
    /\ copy < manualCopies
    /\ pos >= fileSize
    /\ copy' = copy + 1
    /\ pos' = 0
    /\ UNCHANGED <<job, pc, attempt, step, copies, tbytes, status, errno, ret,
                   unanswered, server, net>>

(* Mutant: the order of the files is not looked at before the second one.  *)
FileDoneGoesOn(st) ==
    /\ status' = st
    /\ IF st = 0
       THEN step' = step + 1 /\ pc' = "send"
       ELSE pc' = "close" /\ UNCHANGED step

(* What follows the end of a file: status decides, then the plan.          *)
FileDone(st) ==
    /\ status' = st
    /\ IF st = 0 /\ step < 5
       THEN step' = step + 1 /\ pc' = "send"
       ELSE pc' = "close" /\ UNCHANGED step

(* After the loops: a file that turned out short ends with status = errno, *)
(* any other is ended by a nul byte and its status is waited for.          *)
EndData ==
    /\ pc = "data"
    /\ copy >= manualCopies
    /\ IF tbytes < size[attempt]
       THEN FileDone(errno) /\ UNCHANGED <<errno, sent>>
       ELSE IF CanSend
       THEN /\ sent' = [sent EXCEPT ![attempt] = @ + 1]
            /\ pc' = "wait"
            /\ UNCHANGED <<step, status, errno>>
       ELSE FileDone(1) /\ errno' = 1 /\ UNCHANGED sent
    /\ UNCHANGED <<job, attempt, copies, loop, ret, unanswered, server,
                   lines, size, bytes, read, conn>>

-----------------------------------------------------------------------------
(* Waiting for the status byte of the item just sent.                      *)

(* Mutant: the loop counts a copy of the parameter.                        *)
BuildControlKeepsCopies ==
    /\ lines' = [lines EXCEPT ![attempt] = copies]
    /\ UNCHANGED copies

(* The control file is built after the first command: one print line for   *)
(* each copy, counting copies itself down to 0.                            *)
BuildControl ==
    /\ lines' = [lines EXCEPT ![attempt] = copies]
    /\ copies' = 0

(* Mutant: the status of the command is not looked at.                     *)
CommandDoneIgnoringStatus(st) ==
    /\ UNCHANGED <<status, ret>>
    /\ pc' = "send"
    /\ step' = IF step < 5 THEN step + 1 ELSE step
    /\ IF Item = "recvjob" THEN BuildControl ELSE UNCHANGED <<copies, lines>>

(* A command that was answered with st.                                    *)
CommandDone(st) ==
    /\ UNCHANGED status
    /\ IF st # 0
       THEN Return(1) /\ UNCHANGED <<step, copies, lines>>
       ELSE /\ pc' = "send"
            /\ step' = step + 1
            /\ UNCHANGED ret
            /\ IF Item = "recvjob" THEN BuildControl
                                   ELSE UNCHANGED <<copies, lines>>

(* The wait ended with status st.                                          *)
WaitDone(st) ==
    IF Item \in Commands
    THEN CommandDone(st)
    ELSE FileDone(st) /\ UNCHANGED <<ret, copies, lines>>

(* recv() returned a byte: the next one the printer wrote, whatever item   *)
(* it was written for.                                                     *)
Answer ==
    /\ pc = "wait"
    /\ read[attempt] < handled[attempt]
    /\ read' = [read EXCEPT ![attempt] = @ + 1]
    /\ WaitDone(IF read'[attempt] = refused[attempt] THEN 1 ELSE 0)
    /\ UNCHANGED <<job, attempt, loop, errno, unanswered, server,
                   size, bytes, sent, conn>>

(* Mutants: a missing byte makes the backend repeat the data file as well; *)
(* or lets everything pass.                                                *)
NoAnswerRequeues ==
    /\ unanswered' = unanswered \union {step}
    /\ WaitDone(errno')
    /\ UNCHANGED <<job, attempt, loop, server, size, bytes, sent, read, conn>>

NoAnswerAccepts ==
    /\ unanswered' = unanswered \union {step}
    /\ WaitDone(0)
    /\ UNCHANGED <<job, attempt, loop, server, size, bytes, sent, read, conn>>

(* No byte: status is errno, except that the data file is taken as sent.   *)
NoAnswer ==
    /\ unanswered' = unanswered \union {step}
    /\ WaitDone(IF Item = "datafile" THEN 0 ELSE errno')
    /\ UNCHANGED <<job, attempt, loop, server, size, bytes, sent, read, conn>>

(* Mutant: no alarm() around the recv() of the two files.                  *)
TimedOutInCommandsOnly ==
    /\ pc = "wait"
    /\ Item \in Commands
    /\ ~SignalRestarts
    /\ errno' = 1
    /\ NoAnswer

(* SIGALRM interrupts recv(), whatever may be on its way: EINTR.           *)
TimedOut ==
    /\ pc = "wait"
    /\ ~SignalRestarts
    /\ errno' = 1
    /\ NoAnswer

(* The printer hung up and its last byte was read: recv() returns 0 and    *)
(* leaves errno as it was.  On a connection that was reset it fails.       *)
HungUp ==
    /\ pc = "wait"
    /\ \/ /\ conn[attempt] = "shut"
          /\ read[attempt] = handled[attempt]
          /\ UNCHANGED errno
       \/ conn[attempt] \in {"gone", "lost"} /\ errno' = 1
    /\ NoAnswer

-----------------------------------------------------------------------------
(* Mutant: returns after one attempt, whatever came of it.                 *)
CloseAlwaysReturns ==
    /\ pc = "close"
    /\ Return(0)
    /\ UNCHANGED <<job, attempt, step, copies, loop, status, errno, unanswered,
                   server, net>>

(* close(fd), fclose(fp) and the verdict of the attempt.                   *)
Close ==
    /\ pc = "close"
    /\ IF status = 0 THEN Return(0) ELSE pc' = "sleep" /\ UNCHANGED ret
    /\ UNCHANGED <<job, attempt, step, copies, loop, status, errno, unanswered,
                   server, net>>

(* sleep(30), then round the loop.                                         *)
Retry ==
    /\ pc = "sleep"
    /\ attempt < MaxAttempts
    /\ pc' = "resolve"
    /\ UNCHANGED <<job, client, server, net>>

(* sigterm_handler(): exit(1) wherever the backend is.                     *)
Sigterm ==
    /\ pc # "done"
    /\ Return(1)
    /\ UNCHANGED <<job, attempt, step, copies, loop, status, errno, unanswered,
                   server, net>>

-----------------------------------------------------------------------------
(* The printer, the network and the file system.                           *)

(* The printer takes up the next complete item of connection a and answers.*)
(* It refuses a data file longer than announced, and stops after refusing. *)
Handle(a) ==
    /\ handled[a] < sent[a]
    /\ refused[a] = 0
    /\ conn[a] \in {"up", "lost"}
    /\ handled' = [handled EXCEPT ![a] = @ + 1]
    /\ \/ /\ Plan(order)[handled'[a]] = "datafile" => bytes[a] = size[a]
          /\ queued' = IF handled'[a] = 5 THEN queued \union {a} ELSE queued
          /\ UNCHANGED refused
       \/ /\ refused' = [refused EXCEPT ![a] = handled'[a]]
          /\ UNCHANGED queued
    /\ UNCHANGED <<job, pc, client, net>>

(* The printer closes connection a, and later answers a send() by a reset. *)
(* Or the connection breaks on the way: the printer still has what it got. *)
Disconnect(a) ==
    /\ \/ conn[a] = "up" /\ conn' = [conn EXCEPT ![a] = "shut"]
       \/ conn[a] = "shut" /\ conn' = [conn EXCEPT ![a] = "gone"]
       \/ conn[a] = "up" /\ conn' = [conn EXCEPT ![a] = "lost"]
    /\ UNCHANGED <<job, pc, client, server, lines, size, bytes, sent, read>>

(* Somebody removes the print file, or truncates or extends it.            *)
FileChanges ==
    /\ pc # "done"
    /\ changes < MaxFileChanges
    /\ changes' = changes + 1
    /\ \/ exists /\ exists' = FALSE /\ UNCHANGED fileSize
       \/ exists /\ fileSize' \in (0..MaxFileSize) \ {fileSize} /\ UNCHANGED exists
    /\ UNCHANGED <<order, manual, pc, client, server, net>>

-----------------------------------------------------------------------------
Next ==
    \/ Resolve \/ Connect \/ OpenFile
    \/ SendCommand \/ SendControlFile
    \/ StartData \/ SendBuffer \/ NextCopy \/ EndData
    \/ Answer \/ TimedOut \/ HungUp
    \/ Close \/ Retry \/ Sigterm
    \/ \E a \in Attempts : Handle(a) \/ Disconnect(a)
    \/ FileChanges

Spec == Init /\ [][Next]_vars

(* The backend runs whenever it can.  The kernel ends a wait once there is *)
(* a byte, an end of file or an alarm; nothing is assumed of the printer.  *)
Fairness ==
    /\ WF_vars(Resolve \/ Connect \/ OpenFile \/ SendCommand
               \/ SendControlFile \/ StartData \/ SendBuffer \/ NextCopy
               \/ EndData \/ Close \/ Retry)
    /\ WF_vars(Answer \/ TimedOut \/ HungUp)

FairSpec == Spec /\ Fairness

-----------------------------------------------------------------------------
(* Properties.                                                             *)

(* Every variable has its type.                                            *)
JobOK ==
    /\ order \in Orders
    /\ manual \in BOOLEAN /\ exists \in BOOLEAN
    /\ fileSize \in 0..MaxFileSize
    /\ changes \in 0..MaxFileChanges

ClientOK ==
    /\ pc \in PCs
    /\ attempt \in 0..MaxAttempts
    /\ step \in 1..5
    /\ copies \in Nat /\ copy \in Nat /\ pos \in Nat /\ tbytes \in Nat
    /\ status \in {0, 1} /\ errno \in {0, 1}
    /\ ret \in {-1, 0, 1}
    /\ unanswered \subseteq 1..5

NetOK ==
    /\ lines \in [Attempts -> Nat]
    /\ size \in [Attempts -> Nat]
    /\ bytes \in [Attempts -> Nat]
    /\ sent \in [Attempts -> 0..5]
    /\ read \in [Attempts -> 0..5]
    /\ conn \in [Attempts -> {"none", "up", "shut", "gone", "lost"}]

ServerOK ==
    /\ handled \in [Attempts -> 0..5]
    /\ refused \in [Attempts -> 0..5]
    /\ queued \subseteq Attempts

TypeOK == JobOK /\ ClientOK /\ NetOK /\ ServerOK

(* With the control file first the printer queues the job at most once,    *)
(* however often the backend hangs up and starts again: an unanswered data *)
(* file is taken as sent, so only a job the printer refused is repeated.   *)
AtMostOnce ==
    order = "control_data" => \A a, b \in queued : a = b

(* With the control file first a status byte is never taken for the answer *)
(* to an item other than the one it was written for, late bytes included:  *)
(* waiting for an answer, the client has read those of the items before it *)
(* and goes by the next, or the printer has hung up.                       *)
AcksInStep ==
    (pc = "wait" /\ order = "control_data" /\ read[attempt] < handled[attempt])
        => read[attempt] = step - 1

(* The copies printed never add up to more than was asked for, even with   *)
(* the data file first, where the printer may queue a job twice: only one  *)
(* control file carries print lines, and not too many.                     *)
NoExtraCopies ==
    /\ \A a \in Attempts : lines[a] =< linesAsked
    /\ \A a, b \in Attempts : lines[a] > 0 /\ lines[b] > 0 => a = b

(* The client has read the refusal of an item of attempt a.                *)
Refusal(a) == refused[a] # 0 /\ read[a] = refused[a]

(* Success is reported only for a job the printer has queued, unless a     *)
(* wait of the last attempt ended without an answer or the file turned out *)
(* shorter than announced; and never for a job known to be refused.        *)
SuccessMeansQueued ==
    ret = 0 => /\ \/ attempt \in queued
                  \/ unanswered # {}
                  \/ tbytes < size[attempt]
               /\ ~Refusal(attempt)

(* Once the client has read a refusal it sends nothing more on that        *)
(* connection, and it never sends on a connection it has given up.         *)
SilentAfterRefusal ==
    [][\A a \in Attempts :
         Refusal(a) \/ a # attempt => sent'[a] = sent[a] /\ bytes'[a] = bytes[a]]_vars

(* Every attempt comes to its verdict, whatever the printer does: each     *)
(* wait is ended by the alarm at the latest and the data loops finish.     *)
AttemptEnds == (pc = "send") ~> (pc \in {"sleep", "done"})

(* The backend keeps the promise of LpdJob.  A connection is an offer: made *)
(* in whole once the kernel took all five items, dropped once the printer  *)
(* refused one of them.                                                    *)
Offer(a) ==
    IF a \in queued THEN "queued"
    ELSE IF refused[a] # 0 THEN "dropped"
    ELSE IF sent[a] = 5 THEN "whole"
    ELSE IF a <= attempt THEN "partial" ELSE "unmade"

Job == INSTANCE LpdJob WITH
    current <- attempt,
    offer <- [a \in Attempts |-> Offer(a)],
    doubt <- unanswered # {} \/ (attempt # 0 /\ tbytes < size[attempt]),
    result <- ret

(* In particular it never offers the job again while the printer may still *)
(* take an earlier offer, with the control file first; and what it reports *)
(* is final, whatever the printer still does.                              *)
KeepsPromise == Job!Spec

-----------------------------------------------------------------------------
(* What comments in lpd.c say, where the code does something else.         *)

(* "Number of copies": every queued job prints as many copies as asked.    *)
QueuedJobPrintsAllCopies ==
    \A a \in queued : lines[a] = linesAsked

=============================================================================
