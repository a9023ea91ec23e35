--------------------------- MODULE LpdQueueProofs ---------------------------
(***************************************************************************)
(* Theorems about LpdQueue, for every number of copies, every bound and    *)
(* both kinds of signal().  The inductive invariant IInv adds to TypeOK    *)
(* how far each connection can have come, what makes it impossible that a  *)
(* connection the backend gave up is queued later, and what is known of    *)
(* the bytes read while the control file goes first; Verdicts adds what a  *)
(* status stands for.  The last theorem is that LpdQueue implements        *)
(* LpdJob, one action after the other.                                     *)
(***************************************************************************)
EXTENDS LpdQueue, TLAPS

Connected == {"open", "send", "data", "wait", "close", "sleep"}
Talking   == {"send", "data", "wait"}

(* Bytes are read after they are written, answers given to what was sent.  *)
Counters(a) ==
    /\ read[a] =< handled[a]
    /\ handled[a] =< sent[a]
    /\ refused[a] =< handled[a]
    /\ a \in queued => handled[a] = 5 /\ refused[a] = 0

(* Connections not yet made are untouched; the current one is not further  *)
(* than the client.                                                        *)
Progress ==
    /\ pc \in Connected => attempt \in Attempts
    /\ \A a \in Attempts : a > attempt => sent[a] = 0
    /\ pc = "open" => sent[attempt] = 0
    /\ pc \in {"send", "data"} => sent[attempt] =< step - 1
    /\ pc = "wait" => sent[attempt] =< step

(* Once a control file has print lines there are none left for another.    *)
CopiesUsed ==
    /\ copies =< linesAsked
    /\ \A a \in Attempts : lines[a] > 0 => copies = 0
    /\ NoExtraCopies

(* An attempt whose job cannot come to be queued any more.                 *)
Dead(a) == sent[a] < 5 \/ refused[a] # 0

GivenUp ==
    order = "control_data" =>
        /\ \A a \in Attempts : a < attempt => Dead(a)
        /\ pc \in {"resolve", "connect", "sleep"} /\ attempt \in Attempts
             => Dead(attempt)
        /\ pc = "close" /\ status # 0 => Dead(attempt)

(* The data loops run for the data file.                                   *)
InData == pc = "data" => Item = "datafile"

(* No byte will ever be there to read.                                     *)
Quiet(a) == conn[a] \in {"shut", "gone"} /\ read[a] = handled[a]

InStep ==
    order = "control_data" /\ pc \in Talking
        => read[attempt] = step - 1 \/ Quiet(attempt)

(* A refusal that was read has ended the conversation.                     *)
NotRefused == pc \in Talking => ~Refusal(attempt)

IInv ==
    /\ TypeOK
    /\ \A a \in Attempts : Counters(a)
    /\ Progress
    /\ CopiesUsed
    /\ GivenUp
    /\ InData
    /\ InStep
    /\ NotRefused

-----------------------------------------------------------------------------
(* The control file is the third item when it goes first.                  *)
LEMMA ControlFileIsThird ==
    ASSUME TypeOK, order = "control_data",
           Item \notin Commands, Item # "datafile"
    PROVE  step = 3
<1>1. step \in 1..5
  BY DEF TypeOK, JobOK, ClientOK
<1>2. CASE step = 1
  BY <1>2 DEF Item, Plan, Commands
<1>3. CASE step = 2
  BY <1>3 DEF Item, Plan, Commands
<1>4. CASE step = 4
  BY <1>4 DEF Item, Plan, Commands
<1>5. CASE step = 5
  BY <1>5 DEF Item, Plan, Commands
<1> QED
  BY <1>1, <1>2, <1>3, <1>4, <1>5

(* The step after a command or a file is one of the five.                  *)
LEMMA CommandIsNotLast ==
    ASSUME TypeOK, Item \in Commands
    PROVE  step \in 1..4
<1>1. step \in 1..5 /\ order \in Orders
  BY DEF TypeOK, JobOK, ClientOK
<1>2. CASE step = 5
  BY <1>1, <1>2 DEF Item, Plan, Commands, Orders
<1> QED
  BY <1>1, <1>2

LEMMA CopiesAreNat == linesAsked \in Nat /\ manualCopies \in Nat
  BY CopiesAssumption DEF linesAsked, manualCopies

-----------------------------------------------------------------------------
LEMMA InitIInv == Init => IInv
<1> SUFFICES ASSUME Init PROVE IInv
  OBVIOUS
<1> USE CopiesAreNat, BoundsAssumption
<1>1. TypeOK
  BY DEF Init, TypeOK, JobOK, ClientOK, NetOK, ServerOK, PCs
<1>2. \A a \in Attempts : Counters(a)
  BY DEF Init, Counters
<1>3. Progress
  BY DEF Init, Progress, Connected, Attempts
<1>4. CopiesUsed
  BY DEF Init, CopiesUsed, NoExtraCopies
<1>5. GivenUp
  BY DEF Init, GivenUp, Attempts
<1>6. InData /\ InStep /\ NotRefused
  BY DEF Init, InData, InStep, NotRefused, Talking
<1> QED
  BY <1>1, <1>2, <1>3, <1>4, <1>5, <1>6 DEF IInv

-----------------------------------------------------------------------------
(* What the steps leave alone: only FileChanges touches the job, only the  *)
(* printer its own state; the client's steps are the others.               *)
ClientStep ==
    \/ Resolve \/ Connect \/ OpenFile
    \/ SendCommand \/ SendControlFile
    \/ StartData \/ SendBuffer \/ NextCopy \/ EndData
    \/ Answer \/ TimedOut \/ HungUp
    \/ Close \/ Retry \/ Sigterm

LEMMA ClientStepFrame == ClientStep => UNCHANGED job /\ UNCHANGED server
  BY DEF ClientStep, Resolve, Connect, OpenFile, SendCommand, SendControlFile,
         StartData, SendBuffer, NextCopy, EndData, Answer, TimedOut, HungUp,
         NoAnswer, Close, Retry, Sigterm

LEMMA OptionsStay == [Next]_vars => UNCHANGED <<order, manual>>
  BY ClientStepFrame
  DEF Next, ClientStep, vars, job, Handle, Disconnect, FileChanges

LEMMA StepJobOK == TypeOK /\ [Next]_vars => JobOK'
<1> SUFFICES ASSUME JobOK, [Next]_vars PROVE JobOK'
  BY DEF TypeOK
<1>1. CASE ClientStep
  BY <1>1, ClientStepFrame DEF JobOK, job
<1>2. CASE UNCHANGED job
  BY <1>2 DEF JobOK, job
<1>3. CASE FileChanges
  <2>1. changes' \in 0..MaxFileChanges
    BY <1>3, BoundsAssumption DEF FileChanges, JobOK
  <2>2. fileSize' \in 0..MaxFileSize /\ exists' \in BOOLEAN
    BY <1>3 DEF FileChanges, JobOK
  <2> QED
    BY <2>1, <2>2, <1>3 DEF FileChanges, JobOK
<1> QED
  BY <1>1, <1>2, <1>3 DEF Next, ClientStep, Handle, Disconnect, vars

LEMMA StepServerOK == TypeOK /\ [Next]_vars => ServerOK'
<1> SUFFICES ASSUME TypeOK, [Next]_vars PROVE ServerOK'
  OBVIOUS
<1>1. CASE ClientStep
  BY <1>1, ClientStepFrame DEF TypeOK, ServerOK, server
<1>2. ASSUME NEW a \in Attempts, Handle(a) PROVE ServerOK'
  <2>1. handled[a] + 1 \in 0..5
    BY <1>2 DEF Handle, TypeOK, ServerOK, NetOK
  <2>2. handled' \in [Attempts -> 0..5]
    BY <2>1, <1>2 DEF Handle, TypeOK, ServerOK
  <2>3. refused' \in [Attempts -> 0..5]
    BY <2>1, <2>2, <1>2 DEF Handle, TypeOK, ServerOK
  <2>4. queued' \subseteq Attempts
    BY <1>2 DEF Handle, TypeOK, ServerOK
  <2> QED
    BY <2>2, <2>3, <2>4 DEF ServerOK
<1>3. CASE UNCHANGED server
  BY <1>3 DEF TypeOK, ServerOK, server
<1> QED
  BY <1>1, <1>2, <1>3 DEF Next, ClientStep, Disconnect, FileChanges, vars

-----------------------------------------------------------------------------
LEMMA StepNetOK == TypeOK /\ Progress /\ [Next]_vars => NetOK'
<1> SUFFICES ASSUME TypeOK, Progress, [Next]_vars PROVE NetOK'
  OBVIOUS
<1> USE DEF TypeOK, NetOK
<1>1. ASSUME pc \in Connected PROVE attempt \in Attempts
  BY <1>1 DEF Progress
<1>2. CASE Connect
  BY <1>2 DEF Connect
<1>3. CASE OpenFile
  <2>1. fileSize * manualCopies \in Nat
    BY CopiesAreNat, BoundsAssumption DEF JobOK
  <2> QED
    BY <2>1, <1>3 DEF OpenFile
<1>4. CASE SendCommand
  <2>1. sent[attempt] + 1 \in 0..5
    BY <1>1, <1>4 DEF SendCommand, Connected, Progress, ClientOK
  <2> QED
    BY <2>1, <1>4 DEF SendCommand
<1>5. CASE SendControlFile
  <2>1. sent[attempt] + 1 \in 0..5
    BY <1>1, <1>5 DEF SendControlFile, Connected, Progress, ClientOK
  <2> QED
    BY <2>1, <1>5 DEF SendControlFile
<1>6. CASE SendBuffer
  <2>1. bytes[attempt] + 1 \in Nat
    BY <1>1, <1>6 DEF SendBuffer, Connected
  <2> QED
    BY <2>1, <1>6 DEF SendBuffer
<1>7. CASE EndData
  <2>1. sent[attempt] + 1 \in 0..5
    BY <1>1, <1>7 DEF EndData, Connected, Progress, ClientOK
  <2> QED
    BY <2>1, <1>7 DEF EndData
<1>8. CASE Answer
  <2>1. read[attempt] + 1 \in 0..5
    BY <1>1, <1>8 DEF Answer, Connected, ServerOK
  <2>2. lines' \in [Attempts -> Nat]
    BY <1>8 DEF Answer, WaitDone, CommandDone, BuildControl, ClientOK
  <2> QED
    BY <2>1, <2>2, <1>8 DEF Answer
<1>9. CASE NoAnswer
  <2>1. lines' \in [Attempts -> Nat]
    BY <1>9 DEF NoAnswer, WaitDone, CommandDone, BuildControl, ClientOK
  <2> QED
    BY <2>1, <1>9 DEF NoAnswer
<1>10. ASSUME NEW a \in Attempts, Disconnect(a) PROVE NetOK'
  BY <1>10 DEF Disconnect
<1>11. CASE UNCHANGED net
  BY <1>11 DEF net
<1> QED
  BY <1>2, <1>3, <1>4, <1>5, <1>6, <1>7, <1>8, <1>9, <1>10, <1>11
  DEF Next, Resolve, StartData, NextCopy, TimedOut, HungUp, Close, Retry,
      Sigterm, Handle, FileChanges, vars

LEMMA StepClientOK == TypeOK /\ Progress /\ [Next]_vars => ClientOK'
<1> SUFFICES ASSUME TypeOK, Progress, [Next]_vars PROVE ClientOK'
  OBVIOUS
<1> USE DEF TypeOK, ClientOK, PCs
<1>1. CASE Resolve
  BY <1>1 DEF Resolve, Return, loop
<1>2. CASE Connect
  <2>1. attempt' \in 0..MaxAttempts
    BY <1>2, BoundsAssumption DEF Connect
  <2>2. unanswered' \subseteq 1..5
    BY <1>2 DEF Connect
  <2>3. ret' \in {-1, 0, 1} /\ errno' \in {0, 1} /\ pc' \in PCs
    BY <1>2 DEF Connect, Return
  <2> QED
    BY <2>1, <2>2, <2>3, <1>2 DEF Connect, loop
<1>3. CASE OpenFile
  BY <1>3 DEF OpenFile, Return, loop
<1>4. CASE SendCommand
  BY <1>4 DEF SendCommand, Return, loop
<1>5. CASE SendControlFile
  BY <1>5 DEF SendControlFile, loop
<1>6. CASE StartData \/ SendBuffer \/ NextCopy
  <2>1. copy' \in Nat /\ pos' \in Nat /\ tbytes' \in Nat
    BY <1>6 DEF StartData, SendBuffer, NextCopy
  <2> QED
    BY <2>1, <1>6 DEF StartData, SendBuffer, NextCopy
<1>7. ASSUME NEW st \in {0, 1}, FileDone(st)
      PROVE  pc' \in PCs /\ step' \in 1..5 /\ status' \in {0, 1}
  BY <1>7 DEF FileDone
<1>8. CASE EndData
  BY <1>7, <1>8 DEF EndData, loop
<1>9. ASSUME NEW st \in {0, 1}, WaitDone(st)
      PROVE  /\ pc' \in PCs /\ step' \in 1..5 /\ status' \in {0, 1}
             /\ copies' \in Nat /\ ret' \in {-1, 0, 1}
  BY <1>7, <1>9, CommandIsNotLast
  DEF WaitDone, CommandDone, BuildControl, Return
<1>10. CASE Answer
  BY <1>9, <1>10 DEF Answer, loop
<1>11. CASE TimedOut
  BY <1>9, <1>11 DEF TimedOut, NoAnswer, loop
<1>12. CASE HungUp
  BY <1>9, <1>12 DEF HungUp, NoAnswer, loop
<1>13. CASE Close \/ Retry \/ Sigterm
  BY <1>13 DEF Close, Retry, Sigterm, Return, client, loop
<1>14. CASE UNCHANGED <<pc, client>>
  BY <1>14 DEF client, loop
<1> QED
  BY <1>1, <1>2, <1>3, <1>4, <1>5, <1>6, <1>8, <1>10, <1>11, <1>12, <1>13,
     <1>14
  DEF Next, Handle, Disconnect, FileChanges, vars

LEMMA StepTypeOK == TypeOK /\ Progress /\ [Next]_vars => TypeOK'
  BY StepJobOK, StepClientOK, StepNetOK, StepServerOK DEF TypeOK

-----------------------------------------------------------------------------
(* The part of the network the client adds to: one complete item at a      *)
(* time, on its current connection, while it sends.                        *)
SendsItem ==
    /\ pc \in {"send", "data"}
    /\ sent' = [sent EXCEPT ![attempt] = @ + 1]
    /\ pc' = "wait"
    /\ UNCHANGED <<read, server, attempt, step>>

(* A status byte is read, and was there.                                   *)
ReadsByte ==
    /\ pc = "wait"
    /\ read[attempt] < handled[attempt]
    /\ read' = [read EXCEPT ![attempt] = @ + 1]
    /\ UNCHANGED <<sent, server, attempt>>

LEMMA TrafficCases ==
    [Next]_vars =>
        \/ SendsItem
        \/ ReadsByte
        \/ \E a \in Attempts : Handle(a)
        \/ UNCHANGED <<sent, read, server>>
<1> SUFFICES ASSUME [Next]_vars
             PROVE  \/ SendsItem
                    \/ ReadsByte
                    \/ \E a \in Attempts : Handle(a)
                    \/ UNCHANGED <<sent, read, server>>
  OBVIOUS
<1>1. CASE SendCommand \/ SendControlFile \/ EndData
  BY <1>1 DEF SendCommand, SendControlFile, EndData, SendsItem
<1>2. CASE Answer
  BY <1>2 DEF Answer, ReadsByte
<1>3. CASE TimedOut \/ HungUp
  BY <1>3 DEF TimedOut, HungUp, NoAnswer
<1>4. CASE Resolve \/ Connect \/ OpenFile \/ StartData \/ SendBuffer
           \/ NextCopy \/ Close \/ Retry \/ Sigterm
  BY <1>4 DEF Resolve, Connect, OpenFile, StartData, SendBuffer, NextCopy,
              Close, Retry, Sigterm, net
<1>5. CASE FileChanges \/ UNCHANGED vars
  BY <1>5 DEF FileChanges, vars, net
<1>6. ASSUME NEW a \in Attempts, Disconnect(a)
      PROVE  UNCHANGED <<sent, read, server>>
  BY <1>6 DEF Disconnect
<1> QED
  BY <1>1, <1>2, <1>3, <1>4, <1>5, <1>6 DEF Next

LEMMA StepCounters == IInv /\ [Next]_vars => \A a \in Attempts : Counters(a)'
<1> SUFFICES ASSUME IInv, [Next]_vars, NEW a \in Attempts
             PROVE  Counters(a)'
  OBVIOUS
<1>0. /\ sent[a] \in 0..5 /\ read[a] \in 0..5
      /\ handled[a] \in 0..5 /\ refused[a] \in 0..5
  BY DEF IInv, TypeOK, NetOK, ServerOK
<1>1. Counters(a)
  BY DEF IInv
<1>2. CASE SendsItem
  BY <1>0, <1>1, <1>2 DEF SendsItem, Counters, server, IInv, TypeOK, NetOK
<1>3. CASE ReadsByte
  BY <1>0, <1>1, <1>3 DEF ReadsByte, Counters, server, IInv, TypeOK, NetOK
<1>4. ASSUME NEW b \in Attempts, Handle(b) PROVE Counters(a)'
  <2>1. CASE a = b
    BY <1>0, <1>1, <1>4, <2>1
    DEF Handle, Counters, net, IInv, TypeOK, ServerOK
  <2>2. CASE a # b
    BY <1>0, <1>1, <1>4, <2>2
    DEF Handle, Counters, net, IInv, TypeOK, ServerOK
  <2> QED
    BY <2>1, <2>2
<1>5. CASE UNCHANGED <<sent, read, server>>
  BY <1>1, <1>5 DEF Counters, server
<1> QED
  BY <1>2, <1>3, <1>4, <1>5, TrafficCases

-----------------------------------------------------------------------------
LEMMA StepProgress == IInv /\ [Next]_vars => Progress'
<1> SUFFICES ASSUME IInv, [Next]_vars PROVE Progress'
  OBVIOUS
<1>0. /\ attempt \in 0..MaxAttempts /\ step \in 1..5
      /\ sent \in [Attempts -> 0..5]
      /\ MaxAttempts \in Nat
  BY BoundsAssumption DEF IInv, TypeOK, ClientOK, NetOK
<1>1. Progress
  BY DEF IInv
<1> USE <1>0, <1>1 DEF Progress, Connected
<1>2. CASE Resolve \/ Close \/ Retry \/ Sigterm
  BY <1>2 DEF Resolve, Close, Retry, Sigterm, Return, client, net
<1>3. CASE Connect
  <2>1. attempt' \in Nat /\ attempt' >= attempt
    BY <1>3 DEF Connect
  <2>2. \A a \in Attempts : a > attempt' => sent'[a] = 0
    BY <1>3, <2>1 DEF Connect, Attempts
  <2>3. pc' \in Connected => attempt' \in Attempts /\ sent'[attempt'] = 0
    BY <1>3 DEF Connect, Return, Attempts
  <2> QED
    BY <2>2, <2>3, <1>3 DEF Connect, Return
<1>4. CASE OpenFile
  BY <1>4 DEF OpenFile, Return, Attempts
<1>5. CASE SendCommand \/ SendControlFile
  <2>1. attempt \in Attempts /\ sent[attempt] =< step - 1
    BY <1>5 DEF SendCommand, SendControlFile
  <2> QED
    BY <2>1, <1>5 DEF SendCommand, SendControlFile, Return, Attempts
<1>6. CASE StartData \/ SendBuffer \/ NextCopy
  BY <1>6 DEF StartData, SendBuffer, NextCopy, net
<1>7. ASSUME NEW st, FileDone(st), sent[attempt] =< step,
             UNCHANGED <<attempt, sent>>, attempt \in Attempts
      PROVE  Progress'
  BY <1>7 DEF FileDone
<1>8. CASE EndData
  <2>1. attempt \in Attempts /\ sent[attempt] =< step - 1
    BY <1>8 DEF EndData
  <2>2. CASE UNCHANGED sent
    BY <1>7, <1>8, <2>1, <2>2 DEF EndData
  <2>3. CASE sent # sent'
    BY <1>8, <2>1, <2>3 DEF EndData, Attempts
  <2> QED
    BY <2>2, <2>3
<1>9. ASSUME NEW st, WaitDone(st), pc = "wait", UNCHANGED <<attempt, sent>>
      PROVE  Progress'
  <2>1. attempt \in Attempts /\ sent[attempt] =< step
    BY <1>9
  <2>2. CASE Item \in Commands
    BY <1>9, <2>1, <2>2 DEF WaitDone, CommandDone, Return
  <2>3. CASE Item \notin Commands
    BY <1>7, <1>9, <2>1, <2>3 DEF WaitDone
  <2> QED
    BY <2>2, <2>3
<1>10. CASE Answer
  BY <1>9, <1>10 DEF Answer
<1>11. CASE TimedOut \/ HungUp
  BY <1>9, <1>11 DEF TimedOut, HungUp, NoAnswer
<1>12. CASE UNCHANGED <<pc, client, sent>>
  BY <1>12 DEF client
<1> QED
  BY <1>2, <1>3, <1>4, <1>5, <1>6, <1>8, <1>10, <1>11, <1>12
  DEF Next, Handle, Disconnect, FileChanges, vars, net

LEMMA StepCopiesUsed == IInv /\ [Next]_vars => CopiesUsed'
<1> SUFFICES ASSUME IInv, [Next]_vars PROVE CopiesUsed'
  OBVIOUS
<1>0. /\ copies \in Nat /\ lines \in [Attempts -> Nat] /\ linesAsked \in Nat
      /\ linesAsked' = linesAsked
  BY CopiesAreNat, OptionsStay DEF IInv, TypeOK, ClientOK, NetOK, linesAsked
<1>1. CopiesUsed
  BY DEF IInv
<1>2. CASE BuildControl /\ attempt \in Attempts
  BY <1>0, <1>1, <1>2 DEF BuildControl, CopiesUsed, NoExtraCopies
<1>3. CASE UNCHANGED <<copies, lines>>
  BY <1>0, <1>1, <1>3 DEF CopiesUsed, NoExtraCopies
<1>4. ASSUME NEW st, WaitDone(st)
      PROVE  BuildControl \/ UNCHANGED <<copies, lines>>
  BY <1>4 DEF WaitDone, CommandDone
<1>5. CASE Answer \/ TimedOut \/ HungUp
  <2>1. attempt \in Attempts
    BY <1>5 DEF Answer, TimedOut, HungUp, IInv, Progress, Connected
  <2>2. BuildControl \/ UNCHANGED <<copies, lines>>
    BY <1>4, <1>5 DEF Answer, TimedOut, HungUp, NoAnswer
  <2> QED
    BY <1>2, <1>3, <2>1, <2>2
<1>6. CASE \/ Resolve \/ Connect \/ OpenFile \/ SendCommand
           \/ SendControlFile \/ StartData \/ SendBuffer \/ NextCopy
           \/ EndData \/ Close \/ Retry \/ Sigterm
  BY <1>3, <1>6
  DEF Resolve, Connect, OpenFile, SendCommand, SendControlFile, StartData,
      SendBuffer, NextCopy, EndData, Close, Retry, Sigterm, client, net
<1> QED
  BY <1>3, <1>5, <1>6
  DEF Next, Handle, Disconnect, FileChanges, vars, client, net

-----------------------------------------------------------------------------
(* A dead attempt stays dead, unless it is the one the client sends on.    *)
LEMMA DeadStays ==
    ASSUME IInv, [Next]_vars, NEW a \in Attempts, Dead(a),
           a # attempt \/ pc \notin {"send", "data"}
    PROVE  Dead(a)'
<1>0. sent \in [Attempts -> 0..5] /\ refused \in [Attempts -> 0..5]
  BY DEF IInv, TypeOK, NetOK, ServerOK
<1>1. CASE SendsItem
  BY <1>0, <1>1 DEF SendsItem, Dead, server
<1>2. CASE ReadsByte \/ UNCHANGED <<sent, read, server>>
  BY <1>0, <1>2 DEF ReadsByte, Dead, server
<1>3. ASSUME NEW b \in Attempts, Handle(b) PROVE Dead(a)'
  BY <1>0, <1>3 DEF Handle, Dead, net
<1> QED
  BY <1>1, <1>2, <1>3, TrafficCases

(* With the control file first, a file that ends badly leaves a dead       *)
(* attempt: the data file was not sent to its end, or it was refused.      *)
LEMMA BadEndIsDead ==
    ASSUME IInv, order = "control_data",
           EndData \/ Answer \/ TimedOut \/ HungUp,
           pc' = "close", status' # 0
    PROVE  Dead(attempt)'
<1>0. /\ attempt \in Attempts /\ step \in 1..5
      /\ sent \in [Attempts -> 0..5] /\ read \in [Attempts -> 0..5]
  BY DEF IInv, TypeOK, ClientOK, NetOK, Progress, Connected, EndData, Answer,
         TimedOut, HungUp
<1>1. CASE EndData
  <2>1. sent[attempt] =< 4
    BY <1>0, <1>1 DEF EndData, IInv, Progress
  <2>2. UNCHANGED <<sent, attempt>>
    BY <1>1 DEF EndData, FileDone
  <2> QED
    BY <1>0, <2>1, <2>2 DEF Dead
<1>2. CASE pc = "wait" /\ Item # "datafile" /\ UNCHANGED <<sent, attempt>>
  <2>1. CASE Item \in Commands
    BY <1>2, <2>1 DEF Answer, TimedOut, HungUp, EndData, NoAnswer, WaitDone,
                      CommandDone, Return
  <2>2. CASE Item \notin Commands
    <3>1. step = 3
      BY <1>2, <2>2, ControlFileIsThird DEF IInv
    <3>2. sent[attempt] =< 3
      BY <1>0, <1>2, <3>1 DEF IInv, Progress
    <3> QED
      BY <1>0, <1>2, <3>2 DEF Dead
  <2> QED
    BY <2>1, <2>2
<1>3. CASE Answer /\ Item = "datafile"
  <2>1. Item \notin Commands
    BY <1>3 DEF Commands
  <2>2. read'[attempt] = refused[attempt]
    BY <1>3, <2>1 DEF Answer, WaitDone, FileDone
  <2>3. read'[attempt] > 0
    BY <1>0, <1>3 DEF Answer
  <2>4. UNCHANGED <<refused, attempt>>
    BY <1>3 DEF Answer, server
  <2> QED
    BY <2>2, <2>3, <2>4 DEF Dead
<1>4. CASE (TimedOut \/ HungUp) /\ Item = "datafile"
  <2>1. Item \notin Commands
    BY <1>4 DEF Commands
  <2> QED
    BY <1>4, <2>1 DEF TimedOut, HungUp, NoAnswer, WaitDone, FileDone
<1> QED
  BY <1>1, <1>2, <1>3, <1>4 DEF Answer, TimedOut, HungUp, NoAnswer

LEMMA StepGivenUp == IInv /\ [Next]_vars => GivenUp'
<1> SUFFICES ASSUME IInv, [Next]_vars, order' = "control_data"
             PROVE  /\ \A a \in Attempts : a < attempt' => Dead(a)'
                    /\ pc' \in {"resolve", "connect", "sleep"}
                         /\ attempt' \in Attempts => Dead(attempt)'
                    /\ pc' = "close" /\ status' # 0 => Dead(attempt)'
  BY DEF GivenUp
<1>0. order = "control_data" /\ attempt \in Nat
  BY OptionsStay DEF IInv, TypeOK, ClientOK
<1>1. /\ \A a \in Attempts : a < attempt => Dead(a)
      /\ pc \in {"resolve", "connect", "sleep"} /\ attempt \in Attempts
           => Dead(attempt)
      /\ pc = "close" /\ status # 0 => Dead(attempt)
  BY <1>0 DEF IInv, GivenUp
<1>2. CASE Connect
  <2>1. \A a \in Attempts : a < attempt' => Dead(a)
    BY <1>0, <1>1, <1>2 DEF Connect, Attempts
  <2>2. \A a \in Attempts : a < attempt' => Dead(a)'
    BY <2>1, <1>2, DeadStays DEF Connect
  <2> QED
    BY <2>2, <1>2 DEF Connect, Return
<1>3. CASE UNCHANGED attempt
  <2>1. \A a \in Attempts : a < attempt' => Dead(a)'
    BY <1>0, <1>1, <1>3, DeadStays DEF Attempts
  <2>2. ASSUME pc \in {"resolve", "connect", "sleep", "close"},
               attempt \in Attempts, Dead(attempt)
        PROVE  Dead(attempt)'
    BY <1>3, <2>2, DeadStays DEF Dead
  <2>3. ASSUME pc' \in {"resolve", "connect", "sleep"}, attempt' \in Attempts
        PROVE  Dead(attempt)'
    <3>1. \/ pc \in {"resolve", "connect", "sleep"}
          \/ pc = "close" /\ status # 0
      BY <2>3 DEF Next, vars, Resolve, Connect, OpenFile, SendCommand,
         SendControlFile, StartData, SendBuffer, NextCopy, EndData, FileDone,
         Answer, TimedOut, HungUp, NoAnswer, WaitDone, CommandDone, Close,
         Retry, Sigterm, Handle, Disconnect, FileChanges, Return
    <3> QED
      BY <3>1, <2>2, <2>3, <1>1, <1>3
  <2>4. ASSUME pc' = "close", status' # 0
        PROVE  Dead(attempt)'
    <3>1. CASE EndData \/ Answer \/ TimedOut \/ HungUp
      BY <3>1, <2>4, <1>0, BadEndIsDead
    <3>2. CASE ~(EndData \/ Answer \/ TimedOut \/ HungUp)
      <4>1. pc = "close" /\ status # 0
        BY <3>2, <2>4 DEF Next, vars, client, Resolve, Connect, OpenFile,
           SendCommand, SendControlFile, StartData, SendBuffer, NextCopy,
           Close, Retry, Sigterm, Handle, Disconnect, FileChanges, Return
      <4>2. attempt \in Attempts
        BY <4>1 DEF IInv, Progress, Connected
      <4> QED
        BY <4>1, <4>2, <2>2, <1>1
    <3> QED
      BY <3>1, <3>2
  <2> QED
    BY <2>1, <2>3, <2>4
<1> QED
  BY <1>2, <1>3
  DEF Next, vars, client, Resolve, OpenFile, SendCommand, SendControlFile,
      StartData, SendBuffer, NextCopy, EndData, Answer, TimedOut, HungUp,
      NoAnswer, Close, Retry, Sigterm, Handle, Disconnect, FileChanges

-----------------------------------------------------------------------------
(* What the client knows when a wait for an answer lets it go on: it read  *)
(* a byte that is no refusal; or, going by errno, that the printer is gone *)
(* for good, unless it was the data file it waited for.                    *)
LEMMA WaitGoesOn ==
    ASSUME IInv, Answer \/ TimedOut \/ HungUp, pc' \in Talking
    PROVE  /\ pc = "wait" /\ pc' = "send" /\ step' = step + 1
           /\ attempt \in Attempts /\ UNCHANGED <<attempt, server, conn>>
           /\ \/ /\ ReadsByte
                 /\ read'[attempt] # refused[attempt]
              \/ /\ UNCHANGED read
                 /\ Item = "datafile" \/ Quiet(attempt)
<1> USE DEF Talking
<1>1. pc = "wait" /\ attempt \in Attempts
  BY DEF Answer, TimedOut, HungUp, IInv, Progress, Connected
<1>2. UNCHANGED <<attempt, server, conn>>
  BY DEF Answer, TimedOut, HungUp, NoAnswer
<1>3. ASSUME NEW st, WaitDone(st)
      PROVE  pc' = "send" /\ step' = step + 1 /\ st = 0
  BY <1>3 DEF WaitDone, CommandDone, FileDone, Return
<1>4. pc' = "send" /\ step' = step + 1
  BY <1>3 DEF Answer, TimedOut, HungUp, NoAnswer
<1>5. CASE Answer
  <2>1. read'[attempt] # refused[attempt]
    BY <1>3, <1>5 DEF Answer
  <2> QED
    BY <1>1, <1>2, <1>4, <1>5, <2>1 DEF Answer, ReadsByte
<1>6. CASE TimedOut
  BY <1>1, <1>2, <1>3, <1>4, <1>6 DEF TimedOut, NoAnswer
<1>7. CASE HungUp
  BY <1>1, <1>2, <1>3, <1>4, <1>7 DEF HungUp, NoAnswer, Quiet
<1> QED
  BY <1>5, <1>6, <1>7

LEMMA StepInData == IInv /\ [Next]_vars => InData'
<1> SUFFICES ASSUME IInv, [Next]_vars, pc' = "data" PROVE Item' = "datafile"
  BY DEF InData
<1>1. CASE StartData
  BY <1>1 DEF StartData, Item, job
<1>2. CASE pc = "data" /\ UNCHANGED <<step, order>>
  BY <1>2 DEF IInv, InData, Item
<1>3. CASE ClientStep
  BY <1>1, <1>2, <1>3
  DEF ClientStep, Resolve, Connect, OpenFile, SendCommand, SendControlFile,
      SendBuffer, NextCopy, EndData, FileDone, Answer, TimedOut, HungUp,
      NoAnswer, WaitDone, CommandDone, Close, Retry, Sigterm, Return, job
<1>4. CASE ~ClientStep
  BY <1>2, <1>4
  DEF Next, ClientStep, Handle, Disconnect, FileChanges, vars, client, job
<1> QED
  BY <1>3, <1>4

(* Nothing more is sent after the data file when the control file was the  *)
(* first.                                                                  *)
LEMMA DataFileIsLast ==
    ASSUME IInv, EndData, order = "control_data"
    PROVE  step = 5 /\ pc' \in {"wait", "close"}
<1>1. Item = "datafile" /\ step \in 1..5
  BY DEF EndData, IInv, InData, TypeOK, ClientOK
<1>2. step = 5
  <2>1. CASE step \in 1..2
    BY <1>1, <2>1 DEF Item, Plan
  <2>2. CASE step \in 3..4
    BY <1>1, <2>2 DEF Item, Plan
  <2> QED
    BY <1>1, <2>1, <2>2
<1> QED
  BY <1>2 DEF EndData, FileDone

(* How the conversation goes on otherwise.                                 *)
LEMMA TalkingCases ==
    ASSUME IInv, [Next]_vars, pc' \in Talking
    PROVE  \/ OpenFile
           \/ Answer \/ TimedOut \/ HungUp
           \/ EndData /\ UNCHANGED <<attempt, read, server>>
           \/ /\ pc \in Talking
              /\ UNCHANGED <<attempt, step, read>>
              /\ \/ \E a \in Attempts : Handle(a) \/ Disconnect(a)
                 \/ UNCHANGED <<server, conn>>
<1> USE DEF Talking
<1>1. CASE EndData
  BY <1>1 DEF EndData
<1>2. CASE SendCommand \/ SendControlFile \/ StartData \/ SendBuffer
           \/ NextCopy
  BY <1>2 DEF SendCommand, SendControlFile, StartData, SendBuffer, NextCopy,
              net
<1>3. CASE Resolve \/ Connect \/ Close \/ Retry \/ Sigterm
  BY <1>3 DEF Resolve, Connect, Close, Retry, Sigterm, Return
<1>4. ASSUME NEW a \in Attempts, Handle(a) \/ Disconnect(a)
      PROVE  pc \in Talking /\ UNCHANGED <<attempt, step, read>>
  BY <1>4 DEF Handle, Disconnect, client, net
<1>5. CASE FileChanges \/ UNCHANGED vars
  BY <1>5 DEF FileChanges, vars, client, net
<1> QED
  BY <1>1, <1>2, <1>3, <1>4, <1>5 DEF Next

LEMMA StepNotRefused == IInv /\ [Next]_vars => NotRefused'
<1> SUFFICES ASSUME IInv, [Next]_vars, pc' \in Talking
             PROVE  ~Refusal(attempt)'
  BY DEF NotRefused
<1>0. /\ sent \in [Attempts -> 0..5] /\ read \in [Attempts -> 0..5]
      /\ handled \in [Attempts -> 0..5] /\ refused \in [Attempts -> 0..5]
      /\ \A a \in Attempts : Counters(a)
      /\ pc \in Connected => attempt \in Attempts
      /\ pc \in Talking => ~Refusal(attempt)
  BY DEF IInv, TypeOK, NetOK, ServerOK, Progress, NotRefused
<1>1. CASE OpenFile
  <2>1. attempt \in Attempts /\ sent[attempt] = 0 /\ UNCHANGED <<attempt, server, read>>
    BY <1>0, <1>1 DEF OpenFile, Connected, IInv, Progress
  <2>2. refused[attempt] = 0
    BY <1>0, <2>1 DEF Counters
  <2> QED
    BY <2>1, <2>2 DEF Refusal, server
<1>2. CASE Answer \/ TimedOut \/ HungUp
  <2>1. ~Refusal(attempt) /\ UNCHANGED <<attempt, server>>
    BY <1>0, <1>2, WaitGoesOn DEF Talking
  <2> QED
    BY <1>2, <2>1, WaitGoesOn DEF Refusal, server
<1>3. CASE EndData /\ UNCHANGED <<attempt, read, server>>
  BY <1>0, <1>3 DEF EndData, Talking, Refusal, server
<1>4. CASE pc \in Talking /\ UNCHANGED <<attempt, read, server>>
  BY <1>0, <1>4 DEF Refusal, server
<1>5. ASSUME NEW a \in Attempts, Handle(a), pc \in Talking,
             UNCHANGED <<attempt, read>>
      PROVE  ~Refusal(attempt)'
  <2>1. attempt \in Attempts
    BY <1>0, <1>5 DEF Talking, Connected
  <2>2. CASE a = attempt
    BY <1>0, <1>5, <2>1, <2>2 DEF Handle, Refusal, Counters
  <2>3. CASE a # attempt
    BY <1>0, <1>5, <2>1, <2>3 DEF Handle, Refusal
  <2> QED
    BY <2>2, <2>3
<1> QED
  BY <1>1, <1>2, <1>3, <1>4, <1>5, TalkingCases DEF Disconnect

LEMMA StepInStep == IInv /\ [Next]_vars => InStep'
<1> SUFFICES ASSUME IInv, [Next]_vars, order' = "control_data",
                    pc' \in Talking
             PROVE  (read[attempt] = step - 1)' \/ Quiet(attempt)'
  BY DEF InStep
<1>0. /\ order = "control_data"
      /\ sent \in [Attempts -> 0..5] /\ read \in [Attempts -> 0..5]
      /\ handled \in [Attempts -> 0..5]
      /\ conn \in [Attempts -> {"none", "up", "shut", "gone", "lost"}]
      /\ step \in 1..5
      /\ \A a \in Attempts : Counters(a)
      /\ pc \in Connected => attempt \in Attempts
  BY OptionsStay DEF IInv, TypeOK, ClientOK, NetOK, ServerOK, Progress
<1>1. pc \in Talking => read[attempt] = step - 1 \/ Quiet(attempt)
  BY <1>0 DEF IInv, InStep
<1>2. CASE OpenFile
  <2>1. attempt \in Attempts /\ sent[attempt] = 0
        /\ UNCHANGED <<attempt, read>> /\ step' = 1
    BY <1>0, <1>2 DEF OpenFile, Connected, IInv, Progress, Return, Talking
  <2>2. read[attempt] = 0
    BY <1>0, <2>1 DEF Counters
  <2> QED
    BY <2>1, <2>2
<1>3. CASE Answer \/ TimedOut \/ HungUp
  <2>1. /\ pc = "wait" /\ step' = step + 1
        /\ attempt \in Attempts /\ UNCHANGED <<attempt, server, conn>>
        /\ \/ ReadsByte
           \/ UNCHANGED read /\ (Item = "datafile" \/ Quiet(attempt))
    BY <1>3, WaitGoesOn
  <2>2. CASE ReadsByte
    <3>1. read[attempt] = step - 1
      BY <1>0, <1>1, <2>1, <2>2 DEF ReadsByte, Quiet, Talking
    <3> QED
      BY <1>0, <2>1, <2>2, <3>1 DEF ReadsByte
  <2>3. CASE UNCHANGED read /\ Item = "datafile"
    <3>1. step = 5
      <4>1. CASE step \in 1..2
        BY <1>0, <2>3, <4>1 DEF Item, Plan
      <4>2. CASE step \in 3..4
        BY <1>0, <2>3, <4>2 DEF Item, Plan
      <4> QED
        BY <1>0, <4>1, <4>2
    <3>2. step' \in 1..5
      BY StepClientOK DEF IInv, ClientOK
    <3> QED
      BY <2>1, <3>1, <3>2
  <2>4. CASE UNCHANGED read /\ Quiet(attempt)
    BY <2>1, <2>4 DEF Quiet, server
  <2> QED
    BY <2>1, <2>2, <2>3, <2>4
<1>4. CASE EndData /\ UNCHANGED <<attempt, read, server>>
  <2>1. step = 5 /\ pc' = "wait"
    BY <1>0, <1>4, DataFileIsLast DEF Talking
  <2>2. UNCHANGED <<step, conn>>
    BY <1>4, <2>1 DEF EndData, FileDone
  <2> QED
    BY <1>1, <1>4, <2>2 DEF EndData, Talking, Quiet, server
<1>5. CASE pc \in Talking /\ UNCHANGED <<attempt, step, read, server, conn>>
  BY <1>1, <1>5 DEF Quiet, server
<1>6. ASSUME NEW a \in Attempts, Handle(a), pc \in Talking,
             UNCHANGED <<attempt, step, read>>
      PROVE  (read[attempt] = step - 1)' \/ Quiet(attempt)'
  BY <1>0, <1>1, <1>6 DEF Handle, Quiet, net
<1>7. ASSUME NEW a \in Attempts, Disconnect(a), pc \in Talking,
             UNCHANGED <<attempt, step, read>>
      PROVE  (read[attempt] = step - 1)' \/ Quiet(attempt)'
  <2>1. CASE a = attempt
    BY <1>0, <1>1, <1>7, <2>1 DEF Disconnect, Quiet, server
  <2>2. CASE a # attempt
    BY <1>0, <1>1, <1>7, <2>2 DEF Disconnect, Quiet, server, Talking, Connected
  <2> QED
    BY <2>1, <2>2
<1> QED
  BY <1>2, <1>3, <1>4, <1>5, <1>6, <1>7, TalkingCases

-----------------------------------------------------------------------------
LEMMA Inductive == IInv /\ [Next]_vars => IInv'
<1> SUFFICES ASSUME IInv, [Next]_vars PROVE IInv'
  OBVIOUS
<1>1. TypeOK'
  BY StepTypeOK DEF IInv
<1>2. (\A a \in Attempts : Counters(a))'
  BY StepCounters DEF Attempts
<1> QED
  BY <1>1, <1>2, StepProgress, StepCopiesUsed, StepGivenUp, StepInData,
     StepInStep, StepNotRefused
  DEF IInv

LEMMA Invariance == Spec => []IInv
<1>1. Init => IInv
  BY InitIInv
<1>2. IInv /\ [Next]_vars => IInv'
  BY Inductive
<1> QED
  BY <1>1, <1>2, PTL DEF Spec

(* Every reachable state is well typed; in particular the client never     *)
(* counts more than five items on one connection.                          *)
THEOREM TypeCorrect == Spec => []TypeOK
<1>1. IInv => TypeOK
  BY DEF IInv
<1> QED
  BY <1>1, Invariance, PTL

(* With the control file first, repeating the job after a failed attempt   *)
(* never makes the printer queue it twice: all attempts before the last    *)
(* are dead, and none after it has begun.                                  *)
THEOREM JobQueuedAtMostOnce == Spec => []AtMostOnce
<1>1. IInv => AtMostOnce
  <2> SUFFICES ASSUME IInv, order = "control_data",
                      NEW a \in queued
               PROVE  a = attempt
    BY DEF AtMostOnce
  <2>1. a \in Attempts /\ attempt \in Nat
    BY DEF IInv, TypeOK, ClientOK, ServerOK
  <2>2. handled[a] = 5 /\ refused[a] = 0 /\ sent[a] = 5
    BY <2>1 DEF IInv, Counters, TypeOK, NetOK, ServerOK
  <2>3. ~(a < attempt)
    BY <2>1, <2>2 DEF IInv, GivenUp, Dead
  <2>4. ~(a > attempt)
    BY <2>1, <2>2 DEF IInv, Progress
  <2> QED
    BY <2>1, <2>3, <2>4 DEF Attempts
<1> QED
  BY <1>1, Invariance, PTL

(* With the control file first no status byte is mistaken for the answer   *)
(* to another item.                                                        *)
THEOREM AnswersInStep == Spec => []AcksInStep
<1>1. IInv => AcksInStep
  <2> SUFFICES ASSUME IInv, pc = "wait", order = "control_data",
                      read[attempt] < handled[attempt]
               PROVE  read[attempt] = step - 1
    BY DEF AcksInStep
  <2>1. attempt \in Attempts /\ read[attempt] \in Nat /\ handled[attempt] \in Nat
    BY DEF IInv, Progress, Connected, TypeOK, NetOK, ServerOK
  <2> QED
    BY <2>1 DEF IInv, InStep, Talking, Quiet
<1> QED
  BY <1>1, Invariance, PTL

(* In either order, all attempts together ask for no more copies than the  *)
(* user did.                                                               *)
THEOREM CopiesBounded == Spec => []NoExtraCopies
<1>1. IInv => NoExtraCopies
  BY DEF IInv, CopiesUsed
<1> QED
  BY <1>1, Invariance, PTL

(* In either order, nothing is sent after a refusal was read, nor on a     *)
(* connection that was given up.                                           *)
THEOREM QuietAfterRefusal == Spec => SilentAfterRefusal
<1> DEFINE Silent == \A a \in Attempts :
                        Refusal(a) \/ a # attempt
                            => sent'[a] = sent[a] /\ bytes'[a] = bytes[a]
<1>1. IInv /\ [Next]_vars => [Silent]_vars
  <2> SUFFICES ASSUME IInv, Next, NEW a \in Attempts,
                      Refusal(a) \/ a # attempt
               PROVE  sent'[a] = sent[a] /\ bytes'[a] = bytes[a]
    OBVIOUS
  <2>1. sent \in [Attempts -> 0..5] /\ bytes \in [Attempts -> Nat]
    BY DEF IInv, TypeOK, NetOK
  <2>2. CASE SendCommand \/ SendControlFile \/ SendBuffer \/ EndData
    <3>1. a # attempt
      BY <2>2 DEF SendCommand, SendControlFile, SendBuffer, EndData, IInv,
                  NotRefused, Talking
    <3> QED
      BY <2>1, <2>2, <3>1
      DEF SendCommand, SendControlFile, SendBuffer, EndData
  <2>3. CASE UNCHANGED <<sent, bytes>>
    BY <2>3
  <2> QED
    BY <2>2, <2>3
    DEF Next, Resolve, Connect, OpenFile, StartData, NextCopy, Answer,
        TimedOut, HungUp, NoAnswer, Close, Retry, Sigterm, Handle,
        Disconnect, FileChanges, net
<1>2. [][Silent]_vars => SilentAfterRefusal
  BY PTL DEF SilentAfterRefusal
<1> QED
  BY <1>1, <1>2, Invariance, PTL DEF Spec

-----------------------------------------------------------------------------
(* What success means.  The invariant Verdicts adds to IInv that, as long  *)
(* as every wait was answered, the bytes read are those of the items       *)
(* before this one, in either order; so five bytes without a refusal are   *)
(* a job the printer has queued.                                           *)

(* The printer stops at the item it refuses, and queues what it took.      *)
Judged(a) ==
    /\ refused[a] # 0 => handled[a] = refused[a]
    /\ handled[a] = 5 /\ refused[a] = 0 => a \in queued

dataStep == IF order = "control_data" THEN 5 ELSE 3

(* Fewer buffers were sent than announced.                                 *)
Short == tbytes < size[attempt]

InTouch ==
    pc \in Talking /\ unanswered = {} /\ ~(step > dataStep /\ Short)
        => read[attempt] = step - 1

Good == /\ attempt \in queued \/ unanswered # {} \/ Short
        /\ ~Refusal(attempt)

GoodEnd == (pc = "close" /\ status = 0) \/ ret = 0 => Good

Finished == ret # -1 <=> pc = "done"

(* Success is the verdict on an attempt.                                   *)
Attempted == ret = 0 => attempt \in Attempts

Verdicts ==
    /\ \A a \in Attempts : Judged(a)
    /\ InTouch
    /\ GoodEnd
    /\ Finished
    /\ Attempted

LEMMA InitVerdicts == Init => Verdicts
<1> SUFFICES ASSUME Init PROVE Verdicts
  OBVIOUS
<1>1. \A a \in Attempts : Judged(a)
  BY DEF Init, Judged
<1> QED
  BY <1>1
  DEF Init, Verdicts, InTouch, GoodEnd, Finished, Attempted, Talking

(* The data file has its place in each of the two orders, and the last     *)
(* item is a file.                                                         *)
LEMMA DataStep ==
    ASSUME TypeOK
    PROVE  /\ Item = "datafile" <=> step = dataStep
           /\ Item \in Commands => step # dataStep
<1>1. step \in 1..5 /\ order \in Orders
  BY DEF TypeOK, JobOK, ClientOK
<1>2. CASE step \in 1..2
  BY <1>1, <1>2 DEF Item, Plan, Commands, Orders, dataStep
<1>3. CASE step \in 3..4
  BY <1>1, <1>3 DEF Item, Plan, Commands, Orders, dataStep
<1>4. CASE step = 5
  BY <1>1, <1>4 DEF Item, Plan, Commands, Orders, dataStep
<1> QED
  BY <1>1, <1>2, <1>3, <1>4

LEMMA StepJudged ==
    IInv /\ Verdicts /\ [Next]_vars => \A a \in Attempts : Judged(a)'
<1> SUFFICES ASSUME IInv, Verdicts, [Next]_vars, NEW a \in Attempts
             PROVE  Judged(a)'
  OBVIOUS
<1>1. Judged(a)
  BY DEF Verdicts
<1>2. ASSUME NEW b \in Attempts, Handle(b) PROVE Judged(a)'
  <2>1. CASE a = b
    BY <1>1, <1>2, <2>1 DEF Handle, Judged, IInv, TypeOK, ServerOK
  <2>2. CASE a # b
    BY <1>1, <1>2, <2>2 DEF Handle, Judged, IInv, TypeOK, ServerOK
  <2> QED
    BY <2>1, <2>2
<1>3. CASE UNCHANGED server
  BY <1>1, <1>3 DEF Judged, server
<1> QED
  BY <1>2, <1>3, TrafficCases DEF SendsItem, ReadsByte

(* The backend has returned just when it is done; success is the verdict   *)
(* on an attempt.                                                          *)
LEMMA StepFinished ==
    Finished /\ Attempted /\ IInv /\ [Next]_vars => Finished' /\ Attempted'
<1> SUFFICES ASSUME Finished, Attempted, IInv, [Next]_vars
             PROVE  Finished' /\ Attempted'
  OBVIOUS
<1>1. pc \in Connected => attempt \in Attempts
  BY DEF IInv, Progress
<1> USE DEF Finished, Attempted, Connected, Return
<1>2. CASE Resolve \/ Connect \/ OpenFile \/ SendCommand \/ SendControlFile
           \/ StartData \/ SendBuffer \/ NextCopy
  BY <1>2 DEF Resolve, Connect, OpenFile, SendCommand, SendControlFile,
              StartData, SendBuffer, NextCopy
<1>3. CASE EndData
  BY <1>3 DEF EndData, FileDone
<1>4. ASSUME NEW st, WaitDone(st), pc = "wait", UNCHANGED attempt
      PROVE  Finished' /\ Attempted'
  BY <1>4 DEF WaitDone, CommandDone, FileDone
<1>5. CASE Answer \/ TimedOut \/ HungUp
  BY <1>4, <1>5 DEF Answer, TimedOut, HungUp, NoAnswer
<1>6. CASE Close \/ Retry \/ Sigterm
  BY <1>1, <1>6 DEF Close, Retry, Sigterm, client
<1>7. CASE UNCHANGED <<pc, client>>
  BY <1>7 DEF client
<1> QED
  BY <1>2, <1>3, <1>5, <1>6, <1>7
  DEF Next, Handle, Disconnect, FileChanges, vars

(* Only the data loops count buffers, and they run at their own step.      *)
LEMMA CountingCases ==
    ASSUME IInv, [Next]_vars, pc' \in Talking
    PROVE  \/ OpenFile
           \/ Answer \/ TimedOut \/ HungUp
           \/ EndData
           \/ /\ pc \in Talking
              /\ UNCHANGED <<attempt, step, read, unanswered>>
              /\ step = dataStep \/ UNCHANGED <<tbytes, size>>
<1> USE DEF Talking
<1>1. CASE SendCommand \/ SendControlFile
  BY <1>1 DEF SendCommand, SendControlFile, loop
<1>2. CASE StartData \/ SendBuffer \/ NextCopy
  <2>1. Item = "datafile"
    BY <1>2 DEF StartData, SendBuffer, NextCopy, IInv, InData
  <2>2. step = dataStep
    BY <2>1, DataStep DEF IInv
  <2> QED
    BY <1>2, <2>2 DEF StartData, SendBuffer, NextCopy, net
<1>3. CASE Resolve \/ Connect \/ Close \/ Retry \/ Sigterm
  BY <1>3 DEF Resolve, Connect, Close, Retry, Sigterm, Return
<1>4. CASE (\E a \in Attempts : Handle(a) \/ Disconnect(a))
  BY <1>4 DEF Handle, Disconnect, client, net, loop
<1>5. CASE FileChanges \/ UNCHANGED vars
  BY <1>5 DEF FileChanges, vars, client, net, loop
<1> QED
  BY <1>1, <1>2, <1>3, <1>4, <1>5 DEF Next

LEMMA StepInTouch == IInv /\ Verdicts /\ [Next]_vars => InTouch'
<1> SUFFICES ASSUME IInv, Verdicts, [Next]_vars, pc' \in Talking,
                    unanswered' = {}, ~(step' > dataStep' /\ Short')
             PROVE  read'[attempt'] = step' - 1
  BY DEF InTouch
<1>0. /\ step \in 1..5 /\ read \in [Attempts -> 0..5]
      /\ sent \in [Attempts -> 0..5] /\ handled \in [Attempts -> 0..5]
      /\ \A a \in Attempts : Counters(a)
      /\ pc \in Connected => attempt \in Attempts
      /\ dataStep \in {3, 5} /\ dataStep' = dataStep
  BY OptionsStay
  DEF IInv, TypeOK, ClientOK, NetOK, ServerOK, Progress, dataStep
<1>1. ASSUME pc \in Talking, unanswered = {}, ~(step > dataStep /\ Short)
      PROVE  read[attempt] = step - 1
  BY <1>1 DEF Verdicts, InTouch
<1>2. CASE OpenFile
  <2>1. attempt \in Attempts /\ sent[attempt] = 0
        /\ UNCHANGED <<attempt, read>> /\ step' = 1
    BY <1>0, <1>2 DEF OpenFile, Connected, IInv, Progress, Return, Talking
  <2>2. read[attempt] = 0
    BY <1>0, <2>1 DEF Counters
  <2> QED
    BY <2>1, <2>2
<1>3. CASE Answer
  <2>1. pc = "wait" /\ step' = step + 1 /\ attempt \in Attempts
        /\ UNCHANGED attempt
    BY <1>3, WaitGoesOn
  <2>2. /\ read' = [read EXCEPT ![attempt] = @ + 1]
        /\ UNCHANGED <<tbytes, size, unanswered>>
    BY <1>3 DEF Answer, loop
  <2>3. Short' = Short
    BY <2>1, <2>2 DEF Short
  <2>4. ~(step > dataStep /\ Short)
    BY <1>0, <2>1, <2>3
  <2>5. read[attempt] = step - 1
    BY <1>1, <2>1, <2>2, <2>4 DEF Talking
  <2> QED
    BY <1>0, <2>1, <2>2, <2>5
<1>4. CASE TimedOut \/ HungUp
  BY <1>4 DEF TimedOut, HungUp, NoAnswer
<1>5. CASE EndData
  <2>1. step = dataStep /\ pc = "data"
    BY <1>5, DataStep DEF EndData, IInv, InData
  <2>2. UNCHANGED <<attempt, read, tbytes, size, unanswered>>
    BY <1>5 DEF EndData, loop
  <2>3. CASE tbytes < size[attempt]
    <3>1. step' = step + 1
      BY <1>5, <2>3 DEF EndData, FileDone, Talking
    <3> QED
      BY <1>0, <2>1, <2>2, <2>3, <3>1 DEF Short
  <2>4. CASE ~(tbytes < size[attempt])
    <3>1. UNCHANGED step
      BY <1>5, <2>4 DEF EndData, FileDone, Talking
    <3> QED
      BY <1>0, <1>1, <2>1, <2>2, <3>1 DEF Talking
  <2> QED
    BY <2>3, <2>4
<1>6. CASE /\ pc \in Talking
           /\ UNCHANGED <<attempt, step, read, unanswered>>
           /\ step = dataStep \/ UNCHANGED <<tbytes, size>>
  <2>1. ~(step > dataStep /\ Short)
    BY <1>0, <1>6 DEF Short
  <2> QED
    BY <1>1, <1>6, <2>1
<1> QED
  BY <1>2, <1>3, <1>4, <1>5, <1>6, CountingCases

(* The printer cannot make a good end bad: it answers after what was read. *)
LEMMA GoodStays ==
    ASSUME IInv, [Next]_vars, attempt \in Attempts, Good,
           UNCHANGED <<attempt, unanswered, tbytes, size, read>>
    PROVE  Good'
<1>1. /\ read \in [Attempts -> 0..5] /\ handled \in [Attempts -> 0..5]
      /\ refused \in [Attempts -> 0..5]
      /\ Counters(attempt)
  BY DEF IInv, TypeOK, NetOK, ServerOK
<1>2. ASSUME NEW a \in Attempts, Handle(a) PROVE Good'
  <2>1. attempt \in queued => attempt \in queued'
    BY <1>2 DEF Handle
  <2>2. ~Refusal(attempt)'
    <3>1. CASE a = attempt
      BY <1>1, <1>2, <3>1 DEF Handle, Good, Refusal, Counters
    <3>2. CASE a # attempt
      BY <1>1, <1>2, <3>2 DEF Handle, Good, Refusal
    <3> QED
      BY <3>1, <3>2
  <2> QED
    BY <2>1, <2>2 DEF Good, Short
<1>3. CASE UNCHANGED server
  BY <1>3 DEF server, Good, Short, Refusal
<1> QED
  BY <1>2, <1>3, TrafficCases DEF SendsItem, ReadsByte

(* The end of the last file with status 0.                                 *)
LEMMA LastFileIsGood ==
    ASSUME IInv, Verdicts, EndData \/ Answer \/ TimedOut \/ HungUp,
           pc' = "close", status' = 0
    PROVE  Good'
<1>0. /\ pc \in Talking /\ attempt \in Attempts
      /\ read \in [Attempts -> 0..5] /\ handled \in [Attempts -> 0..5]
      /\ refused \in [Attempts -> 0..5] /\ sent \in [Attempts -> 0..5]
      /\ step \in 1..5
      /\ Counters(attempt) /\ Judged(attempt) /\ ~Refusal(attempt)
  BY DEF EndData, Answer, TimedOut, HungUp, Talking, IInv, Progress, Connected,
         TypeOK, ClientOK, NetOK, ServerOK, NotRefused, Verdicts
<1>1. CASE EndData
  <2>1. CASE tbytes < size[attempt]
    BY <1>0, <1>1, <2>1 DEF EndData, Good, Short, Refusal, loop, server
  <2>2. CASE ~(tbytes < size[attempt])
    BY <1>1, <2>2 DEF EndData, FileDone
  <2> QED
    BY <2>1, <2>2
<1>2. ASSUME NEW st, WaitDone(st) PROVE st = 0 /\ step = 5
  <2>1. Item \notin Commands
    BY <1>0, <1>2 DEF WaitDone, CommandDone, Return
  <2> QED
    BY <1>0, <1>2, <2>1 DEF WaitDone, FileDone
<1>3. CASE Answer
  <2>1. /\ UNCHANGED <<attempt, unanswered, tbytes, size, server>>
        /\ read[attempt] < handled[attempt]
        /\ read' = [read EXCEPT ![attempt] = @ + 1]
    BY <1>3 DEF Answer, loop
  <2>2. step = 5 /\ read'[attempt] # refused[attempt]
    BY <1>2, <1>3 DEF Answer
  <2>3. ~Refusal(attempt)'
    BY <2>1, <2>2 DEF Refusal, server
  <2>4. CASE unanswered # {} \/ Short
    BY <2>1, <2>3, <2>4 DEF Good, Short
  <2>5. CASE unanswered = {} /\ ~Short
    <3>1. read[attempt] = 4
      BY <1>0, <2>2, <2>5 DEF Verdicts, InTouch
    <3>2. handled[attempt] = 5 /\ refused[attempt] # 5
      BY <1>0, <2>1, <2>2, <3>1
    <3>3. attempt \in queued
      BY <1>0, <3>2 DEF Judged
    <3> QED
      BY <2>1, <2>3, <3>3 DEF Good, server
  <2> QED
    BY <2>4, <2>5
<1>4. CASE TimedOut \/ HungUp
  <2>1. NoAnswer
    BY <1>4 DEF TimedOut, HungUp
  <2> QED
    BY <1>0, <2>1 DEF NoAnswer, Good, Refusal, server
<1> QED
  BY <1>1, <1>3, <1>4

LEMMA StepGoodEnd == IInv /\ Verdicts /\ [Next]_vars => GoodEnd'
<1> SUFFICES ASSUME IInv, Verdicts, [Next]_vars,
                    (pc' = "close" /\ status' = 0) \/ ret' = 0
             PROVE  Good'
  BY DEF GoodEnd
<1>1. CASE /\ EndData \/ Answer \/ TimedOut \/ HungUp
           /\ pc' = "close" /\ status' = 0
  BY <1>1, LastFileIsGood
<1>2. CASE ~(/\ EndData \/ Answer \/ TimedOut \/ HungUp
             /\ pc' = "close" /\ status' = 0)
  <2>1. \/ pc = "close" /\ status = 0
        \/ ret = 0
    BY <1>2 DEF Next, vars, client, Resolve, Connect, OpenFile, SendCommand,
       SendControlFile, StartData, SendBuffer, NextCopy, EndData, FileDone,
       Answer, TimedOut, HungUp, NoAnswer, WaitDone, CommandDone, Close,
       Retry, Sigterm, Handle, Disconnect, FileChanges, Return
  <2>2. pc \in {"close", "done"}
    BY <2>1 DEF Verdicts, Finished
  <2>3. Good /\ attempt \in Attempts
    BY <2>1 DEF Verdicts, GoodEnd, Attempted, IInv, Progress, Connected
  <2>4. UNCHANGED <<attempt, unanswered, tbytes, size, read>>
    BY <2>2 DEF Next, vars, client, net, loop, Resolve, Connect, OpenFile,
       SendCommand, SendControlFile, StartData, SendBuffer, NextCopy, EndData,
       Answer, TimedOut, HungUp, Close, Retry, Sigterm, Handle, Disconnect,
       FileChanges
  <2> QED
    BY <2>3, <2>4, GoodStays
<1> QED
  BY <1>1, <1>2

LEMMA VerdictsHold == Spec => [](IInv /\ Verdicts)
<1>1. Init => Verdicts
  BY InitVerdicts
<1>2. IInv /\ Verdicts /\ [Next]_vars => Verdicts'
  <2> SUFFICES ASSUME IInv, Verdicts, [Next]_vars PROVE Verdicts'
    OBVIOUS
  <2>1. (\A a \in Attempts : Judged(a))'
    BY StepJudged DEF Attempts
  <2> QED
    BY <2>1, StepInTouch, StepGoodEnd, StepFinished DEF Verdicts
<1> QED
  BY <1>1, <1>2, Invariance, PTL DEF Spec

(* In either order, the backend reports success only for a job the printer *)
(* has queued, unless an answer was missing or the file was short; and     *)
(* never after it read a refusal: while every wait is answered the bytes   *)
(* read keep up with the items sent, so the fifth is the printer's word.   *)
THEOREM SuccessIsTheJobQueued == Spec => []SuccessMeansQueued
<1>1. Verdicts => SuccessMeansQueued
  BY DEF Verdicts, GoodEnd, Good, Short, SuccessMeansQueued
<1> QED
  BY <1>1, VerdictsHold, PTL

-----------------------------------------------------------------------------
(* LpdQueue implements LpdJob.  What becomes of the offers under each kind *)
(* of step comes first; then each action is one of LpdJob or stutters.     *)
Offers == [a \in Attempts |-> Offer(a)]
Doubt  == unanswered # {} \/ (attempt # 0 /\ tbytes < size[attempt])

jobVars == <<order, attempt, Offers, Doubt, ret>>

LEMMA OffersAt ==
    /\ Offers = [a \in Attempts |-> Offers[a]]
    /\ Offers' = [a \in Attempts |-> Offers'[a]]
  BY DEF Offers, Attempts

LEMMA OffersStay ==
    ASSUME UNCHANGED <<attempt, sent, server>>
    PROVE  UNCHANGED Offers
  BY DEF Offers, Offer, server

(* The kernel took another item: the offer made in part becomes whole with *)
(* the fifth; one the printer dropped stays dropped.                       *)
LEMMA SendingOffers ==
    ASSUME IInv, SendsItem
    PROVE  \/ UNCHANGED Offers
           \/ /\ attempt \in Attempts
              /\ Offers[attempt] = "partial"
              /\ Offers' = [Offers EXCEPT ![attempt] = "whole"]
<1>0. /\ attempt \in Attempts /\ sent \in [Attempts -> 0..5]
      /\ sent[attempt] =< 4 /\ handled[attempt] \in 0..5
      /\ step \in 1..5
      /\ Counters(attempt)
  BY DEF SendsItem, IInv, Progress, Connected, TypeOK, ClientOK, NetOK, ServerOK
<1>1. /\ attempt \notin queued
      /\ UNCHANGED <<attempt, handled, refused, queued>>
      /\ sent' = [sent EXCEPT ![attempt] = @ + 1]
  BY <1>0 DEF SendsItem, server, Counters
<1>2. \A a \in Attempts : a # attempt => Offers'[a] = Offers[a]
  BY <1>0, <1>1 DEF Offers, Offer
<1>3. CASE refused[attempt] # 0 \/ sent[attempt] # 4
  <2>1. Offers'[attempt] = Offers[attempt]
    BY <1>0, <1>1, <1>3 DEF Offers, Offer
  <2> QED
    BY <1>2, <2>1, OffersAt
<1>4. CASE refused[attempt] = 0 /\ sent[attempt] = 4
  <2>1. Offers[attempt] = "partial" /\ Offers'[attempt] = "whole"
    BY <1>0, <1>1, <1>4 DEF Offers, Offer, Attempts
  <2> QED
    BY <1>0, <1>2, <2>1, OffersAt
<1> QED
  BY <1>3, <1>4

(* The printer answered an item: it dropped the offer, or queued it with   *)
(* the fifth.                                                              *)
LEMMA HandlingOffers ==
    ASSUME IInv, NEW a \in Attempts, Handle(a)
    PROVE  \/ UNCHANGED Offers
           \/ /\ Offers[a] = "whole"
              /\ Offers' = [Offers EXCEPT ![a] = "queued"]
           \/ /\ Offers[a] \in {"partial", "whole"}
              /\ Offers' = [Offers EXCEPT ![a] = "dropped"]
<1>0. /\ handled \in [Attempts -> 0..5] /\ sent \in [Attempts -> 0..5]
      /\ refused \in [Attempts -> 0..5] /\ queued \subseteq Attempts
      /\ Counters(a) /\ attempt \in 0..MaxAttempts
      /\ a > attempt => sent[a] = 0
  BY DEF IInv, Progress, TypeOK, ClientOK, NetOK, ServerOK
<1>1. /\ handled[a] < sent[a] /\ refused[a] = 0
      /\ handled' = [handled EXCEPT ![a] = @ + 1]
      /\ UNCHANGED <<sent, attempt>>
  BY DEF Handle, client, net
<1>2. a \notin queued /\ a =< attempt
  <2>1. a \in Nat /\ attempt \in Nat /\ handled[a] \in 0..5 /\ sent[a] \in 0..5
    BY <1>0 DEF Attempts
  <2> QED
    BY <1>0, <1>1, <2>1 DEF Counters
<1>3. Offers[a] = IF sent[a] = 5 THEN "whole" ELSE "partial"
  BY <1>1, <1>2 DEF Offers, Offer
<1>4. CASE refused' = [refused EXCEPT ![a] = handled'[a]] /\ UNCHANGED queued
  <2>1. handled'[a] # 0
    BY <1>0, <1>1
  <2>2. Offers'[a] = "dropped"
    BY <1>0, <1>1, <1>2, <1>4, <2>1 DEF Offers, Offer
  <2>3. \A b \in Attempts : b # a => Offers'[b] = Offers[b]
    BY <1>0, <1>1, <1>4 DEF Offers, Offer
  <2> QED
    BY <1>3, <2>2, <2>3, OffersAt
<1>5. CASE handled'[a] = 5 /\ queued' = queued \union {a} /\ UNCHANGED refused
  <2>1. sent[a] = 5
    BY <1>0, <1>1, <1>5
  <2>2. Offers'[a] = "queued"
    BY <1>5 DEF Offers, Offer
  <2>3. \A b \in Attempts : b # a => Offers'[b] = Offers[b]
    BY <1>1, <1>5 DEF Offers, Offer
  <2> QED
    BY <1>3, <2>1, <2>2, <2>3, OffersAt
<1>6. CASE UNCHANGED <<queued, refused>>
  BY <1>1, <1>6 DEF Offers, Offer
<1> QED
  BY <1>4, <1>5, <1>6 DEF Handle

(* A new connection is an offer made in part, and the one before it can no *)
(* longer be queued with the control file first.                           *)
LEMMA ConnectingOffers ==
    ASSUME IInv, Connect, attempt' = attempt + 1
    PROVE  /\ Offers' = [Offers EXCEPT ![attempt'] = "partial"]
           /\ order = "control_data" /\ attempt # 0
                => Offers[attempt] \in {"partial", "dropped"}
<1>0. /\ attempt \in 0..MaxAttempts /\ attempt' \in Attempts
      /\ sent \in [Attempts -> 0..5] /\ handled \in [Attempts -> 0..5]
      /\ refused \in [Attempts -> 0..5]
      /\ sent[attempt'] = 0
      /\ \A a \in Attempts : Counters(a)
      /\ UNCHANGED <<sent, handled, refused, queued>>
      /\ pc = "connect"
  BY BoundsAssumption
  DEF Connect, Attempts, server, IInv, Progress, TypeOK, ClientOK, NetOK,
      ServerOK
<1>1. attempt' \notin queued /\ refused[attempt'] = 0
  BY <1>0 DEF Counters
<1>2. Offers'[attempt'] = "partial"
  BY <1>0, <1>1 DEF Offers, Offer, Attempts
<1>3. \A a \in Attempts : a # attempt' => Offers'[a] = Offers[a]
  BY <1>0 DEF Offers, Offer, Attempts
<1>4. ASSUME order = "control_data", attempt # 0
      PROVE  Offers[attempt] \in {"partial", "dropped"}
  <2>1. attempt \in Attempts
    BY <1>0, <1>4 DEF Attempts
  <2>2. Dead(attempt)
    BY <1>0, <1>4, <2>1 DEF IInv, GivenUp
  <2>3. attempt \notin queued
    BY <1>0, <2>1, <2>2 DEF Dead, Counters
  <2> QED
    BY <1>0, <2>1, <2>2, <2>3 DEF Offers, Offer, Dead
<1> QED
  BY <1>0, <1>2, <1>3, <1>4, OffersAt

(* The steps of LpdJob in terms of Offers and Doubt.                       *)
LEMMA JobSteps ==
    ASSUME UNCHANGED order
    PROVE  /\ UNCHANGED <<attempt, Offers, Doubt, ret>>
                => UNCHANGED Job!vars
           /\ ret = -1 /\ ret' = 1 /\ UNCHANGED <<attempt, Offers>>
                => Job!Fail
           /\ ret = -1 /\ UNCHANGED <<attempt, Offers, ret>>
                => Job!Waver \/ UNCHANGED Job!vars
<1>1. Doubt \in BOOLEAN /\ Doubt' \in BOOLEAN
  BY DEF Doubt
<1>2. UNCHANGED <<attempt, Offers, Doubt, ret>> => UNCHANGED Job!vars
  BY DEF Job!vars, Offers, Doubt
<1>3. ret = -1 /\ ret' = 1 /\ UNCHANGED <<attempt, Offers>> => Job!Fail
  BY <1>1 DEF Job!Fail, Offers, Doubt
<1>4. ret = -1 /\ UNCHANGED <<attempt, Offers, ret>>
        => Job!Waver \/ UNCHANGED Job!vars
  <2> SUFFICES ASSUME ret = -1, UNCHANGED <<attempt, Offers, ret>>,
                      ~UNCHANGED Job!vars
               PROVE  Job!Waver
    OBVIOUS
  <2>1. Doubt' = ~Doubt
    BY <1>1, <1>2
  <2> QED
    BY <2>1 DEF Job!Waver, Offers, Doubt
<1> QED
  BY <1>2, <1>3, <1>4

JobStep == Job!Next \/ UNCHANGED Job!vars

LEMMA FailOrWaver ==
    ASSUME UNCHANGED order, ret = -1, UNCHANGED <<attempt, Offers>>,
           ret' = 1 \/ UNCHANGED ret
    PROVE  JobStep
  BY JobSteps DEF JobStep, Job!Next

LEMMA ConnectIsBegin == IInv /\ Finished /\ Connect => JobStep
<1> SUFFICES ASSUME IInv, Finished, Connect PROVE JobStep
  OBVIOUS
<1>1. ret = -1 /\ UNCHANGED <<order, sent, server>>
  BY DEF Finished, Connect, job, server
<1>2. CASE attempt' = attempt + 1 /\ UNCHANGED ret
  <2>1. Doubt' \in BOOLEAN
    BY DEF Doubt
  <2>2. Job!Begin
    BY <1>1, <1>2, <2>1, ConnectingOffers DEF Job!Begin, Offers, Doubt
  <2> QED
    BY <2>2 DEF JobStep, Job!Next
<1>3. CASE UNCHANGED attempt /\ ret' = 1
  BY <1>1, <1>3, OffersStay, FailOrWaver
<1> QED
  BY <1>2, <1>3 DEF Connect, Return

LEMMA SendIsComplete ==
    IInv /\ Finished /\ SendsItem /\ UNCHANGED <<order, ret, Doubt>> => JobStep
<1> SUFFICES ASSUME IInv, Finished, SendsItem, UNCHANGED <<order, ret, Doubt>>
             PROVE  JobStep
  OBVIOUS
<1>1. ret = -1 /\ UNCHANGED attempt
  BY DEF Finished, SendsItem
<1>2. CASE UNCHANGED Offers
  BY <1>1, <1>2, FailOrWaver
<1>3. CASE /\ attempt \in Attempts
           /\ Offers[attempt] = "partial"
           /\ Offers' = [Offers EXCEPT ![attempt] = "whole"]
  <2>1. Job!Complete
    BY <1>1, <1>3 DEF Job!Complete, Offers, Doubt
  <2> QED
    BY <2>1 DEF JobStep, Job!Next
<1> QED
  BY <1>2, <1>3, SendingOffers

LEMMA HandleIsQueueOrDrop ==
    ASSUME IInv, NEW a \in Attempts, Handle(a)
    PROVE  JobStep
<1>1. UNCHANGED <<order, attempt, Doubt, ret>>
  BY DEF Handle, job, client, loop, net, Doubt
<1>2. CASE UNCHANGED Offers
  BY <1>1, <1>2, JobSteps DEF JobStep
<1>3. CASE /\ Offers[a] = "whole"
           /\ Offers' = [Offers EXCEPT ![a] = "queued"]
  <2>1. Job!Queue(a)
    BY <1>1, <1>3 DEF Job!Queue, Offers, Doubt
  <2> QED
    BY <2>1 DEF JobStep, Job!Next
<1>4. CASE /\ Offers[a] \in {"partial", "whole"}
           /\ Offers' = [Offers EXCEPT ![a] = "dropped"]
  <2>1. Job!Drop(a)
    BY <1>1, <1>4 DEF Job!Drop, Offers, Doubt
  <2> QED
    BY <2>1 DEF JobStep, Job!Next
<1> QED
  BY <1>2, <1>3, <1>4, HandlingOffers

(* At a good end the verdict is success: the last offer queued, or doubt.  *)
LEMMA CloseIsSucceed == IInv /\ Verdicts /\ Close => JobStep
<1> SUFFICES ASSUME IInv, Verdicts, Close PROVE JobStep
  OBVIOUS
<1>1. /\ pc = "close" /\ ret = -1
      /\ UNCHANGED <<order, attempt, sent, server, Doubt>>
  BY DEF Close, Verdicts, Finished, job, loop, server, net, Doubt
<1>2. attempt \in Attempts /\ UNCHANGED Offers
  BY <1>1, OffersStay DEF IInv, Progress, Connected
<1>3. CASE status = 0
  <2>1. ret' = 0
    BY <1>3 DEF Close, Return
  <2>2. ~Doubt => Offers[attempt] = "queued"
    BY <1>1, <1>2, <1>3
    DEF Verdicts, GoodEnd, Good, Short, Doubt, Offers, Offer, Attempts
  <2>3. Job!Succeed
    BY <1>1, <1>2, <2>1, <2>2 DEF Job!Succeed, Offers, Doubt
  <2> QED
    BY <2>3 DEF JobStep, Job!Next
<1>4. CASE UNCHANGED ret
  BY <1>1, <1>2, <1>4, FailOrWaver
<1> QED
  BY <1>3, <1>4 DEF Close

LEMMA NextIsJobStep == IInv /\ Verdicts /\ [Next]_vars => JobStep
<1> SUFFICES ASSUME IInv, Verdicts, [Next]_vars PROVE JobStep
  OBVIOUS
<1>0. Finished /\ UNCHANGED order
  BY OptionsStay DEF Verdicts
<1>1. ASSUME pc # "done", UNCHANGED <<attempt, sent, server>>,
             ret' = 1 \/ UNCHANGED ret
      PROVE  JobStep
  BY <1>0, <1>1, OffersStay, FailOrWaver DEF Finished
<1>2. CASE Resolve \/ OpenFile \/ StartData \/ SendBuffer \/ NextCopy
           \/ Retry \/ Sigterm
  BY <1>1, <1>2
  DEF Resolve, OpenFile, StartData, SendBuffer, NextCopy, Retry, Sigterm,
      Return, client, net
<1>3. CASE Connect
  BY <1>0, <1>3, ConnectIsBegin
<1>4. CASE SendCommand \/ SendControlFile \/ EndData
  <2>1. UNCHANGED Doubt
    BY <1>4 DEF SendCommand, SendControlFile, EndData, loop, Doubt
  <2>2. (SendsItem /\ UNCHANGED ret) \/ UNCHANGED sent
    BY <1>4 DEF SendCommand, SendControlFile, EndData, SendsItem
  <2>3. CASE SendsItem /\ UNCHANGED ret
    BY <1>0, <2>1, <2>3, SendIsComplete
  <2>4. CASE UNCHANGED sent
    BY <1>1, <1>4, <2>4 DEF SendCommand, SendControlFile, EndData, Return
  <2> QED
    BY <2>2, <2>3, <2>4
<1>5. ASSUME NEW st, WaitDone(st) PROVE ret' = 1 \/ UNCHANGED ret
  BY <1>5 DEF WaitDone, CommandDone, Return
<1>6. CASE Answer \/ TimedOut \/ HungUp
  BY <1>1, <1>5, <1>6 DEF Answer, TimedOut, HungUp, NoAnswer
<1>7. CASE Close
  BY <1>7, CloseIsSucceed
<1>8. ASSUME NEW a \in Attempts, Handle(a) PROVE JobStep
  BY <1>8, HandleIsQueueOrDrop
<1>9. ASSUME UNCHANGED <<client, server, sent, size>> PROVE JobStep
  <2>1. UNCHANGED <<attempt, ret, Offers>>
    BY <1>9, OffersStay DEF client
  <2>2. UNCHANGED Doubt
    BY <1>9 DEF client, loop, Doubt
  <2> QED
    BY <1>0, <2>1, <2>2, JobSteps DEF JobStep
<1>10. CASE UNCHANGED vars \/ FileChanges
             \/ \E a \in Attempts : Disconnect(a)
  BY <1>9, <1>10 DEF vars, net, FileChanges, Disconnect
<1> QED
  BY <1>2, <1>3, <1>4, <1>6, <1>7, <1>8, <1>10 DEF Next

LEMMA InitIsJobInit == Init => Job!Init
<1> SUFFICES ASSUME Init PROVE Job!Init
  OBVIOUS
<1>1. \A a \in Attempts : Offers[a] = "unmade"
  BY DEF Init, Offers, Offer, Attempts
<1>2. Offers = [a \in Attempts |-> "unmade"]
  BY <1>1, OffersAt
<1>3. Doubt = FALSE
  BY DEF Init, Doubt
<1> QED
  BY <1>2, <1>3 DEF Job!Init, Init, Offers, Doubt, Orders

(* The backend keeps the promise of LpdJob: with the control file first it *)
(* never offers the job again while the printer may still queue an earlier *)
(* offer, it reports success only for an offer that was queued or is in    *)
(* doubt, and what it reported stays so, whatever the printer still does.  *)
THEOREM QueueKeepsPromise == Spec => KeepsPromise
<1>1. Init => Job!Init
  BY InitIsJobInit
<1>2. IInv /\ Verdicts /\ [Next]_vars => [Job!Next]_(Job!vars)
  BY NextIsJobStep DEF JobStep
<1> QED
  BY <1>1, <1>2, VerdictsHold, PTL DEF Spec, KeepsPromise, Job!Spec

=============================================================================
