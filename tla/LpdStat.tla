------------------------------- MODULE LpdStat ------------------------------
(***************************************************************************)
(* lpdstat (src/lpdstat.c): it reads its options as lpd does, then asks    *)
(* the printer for the state of its queue, over a new connection each time *)
(* and at once, until the printer's answer begins with a zero byte.        *)
(*                                                                         *)
(* The printer and the network are external.  The answer is a first byte,  *)
(* zero or not, and then pieces of text, Buffer of which fill control[].   *)
(* errno is 0 or 1 (not zero).  The local port is module LpdPort's.        *)
(***************************************************************************)
EXTENDS LpdOptions

CONSTANTS
    Buffer,        \* pieces of text that fill control[]
    MaxQueries     \* bound: connections made by one run

ASSUME BufferAssumption == Buffer \in Nat \ {0}
ASSUME QueriesAssumption == MaxQueries \in Nat \ {0}

VARIABLES
    restarts,      \* does signal() make recv() restart after SIGALRM?
    pc,            \* where the program is
    query,         \* connections made so far; the last one is the current one
    alarm,         \* the alarm: off, armed, or spent
    status, errno, \* the status byte; the C errno
    total,         \* pieces read by this lpd_read()
    count,         \* what lpd_read() returned
    control,       \* per piece of control[]: the query whose answer it holds,
                   \* or 0 while nothing was put there
    ret,           \* what main() returned; -1 while it runs
    conn,          \* state of the current connection
    first,         \* first byte of the answer: 0, 1, or -1 before it comes
    arrived        \* pieces that came after it and are not read yet

asked == <<restarts, pc, query, alarm, status, errno, total, count, control,
           ret>>
line  == <<conn, first, arrived>>
vars  == <<parser, asked, line>>

Cells == 1..Buffer

Init ==
    /\ ParserInit
    /\ restarts \in BOOLEAN
    /\ pc = "options"
    /\ query = 0
    /\ alarm = "off"
    /\ status = 0
    /\ errno = 0
    /\ total = 0 /\ count = 0
    /\ control = [c \in Cells |-> 0]
    /\ ret = -1
    /\ conn = "none" /\ first = -1 /\ arrived = 0

-----------------------------------------------------------------------------
(* main() reads the options; their text is not needed afterwards.          *)
ReadOptions ==
    /\ pc = "options"
    /\ ParserNext
    /\ UNCHANGED <<asked, line>>

StartQuery ==
    /\ pc = "options" /\ parse = "parsed"
    /\ pc' = "resolve"
    /\ text' = <<>> /\ name' = <<>> /\ value' = <<>>
    /\ opts' = Defaults      \* forgotten: none is sent to the printer
    /\ errno' \in {0, 1}     \* whatever earlier calls left
    /\ UNCHANGED <<rest, parse, restarts, query, alarm, status, total, count,
                   control, ret, line>>

Return(r) ==
    /\ pc' = "done"
    /\ ret' = r

(* httpGetHostByName() finds the host, or the program gives up.            *)
Resolve ==
    /\ pc = "resolve"
    /\ \/ pc' = "connect" /\ UNCHANGED ret
       \/ Return(1)
    /\ UNCHANGED <<parser, restarts, query, alarm, status, errno, total, count,
                   control, line>>

(* The loop around connect() comes to an end, or socket() fails.           *)
Connect ==
    /\ pc = "connect"
    /\ \/ /\ query < MaxQueries
          /\ query' = query + 1
          /\ conn' = "up" /\ first' = -1 /\ arrived' = 0
          /\ pc' = "command"
          /\ errno' \in {errno, 1}
          /\ UNCHANGED ret
       \/ /\ Return(1)
          /\ errno' = 1
          /\ UNCHANGED <<query, line>>
    /\ UNCHANGED <<parser, restarts, alarm, status, total, count, control>>

-----------------------------------------------------------------------------
(* lpd_command(): the request is sent and one byte is waited for.          *)

(* Mutant: the alarm set for the status byte is to do for the text too.    *)
StartReadUnarmed ==
    /\ pc' = "read"
    /\ alarm' = "off"
    /\ total' = 0

(* Mutant: the text goes on in control[] where the last one ended.         *)
StartReadBehind ==
    /\ pc' = "read"
    /\ alarm' = "armed"
    /\ UNCHANGED total

StartRead ==
    /\ pc' = "read"
    /\ alarm' = "armed"
    /\ total' = 0

(* A request that cannot be sent is a status of -1; the text is read all   *)
(* the same.                                                               *)
SendCommand ==
    /\ pc = "command"
    /\ IF conn = "lost"
       THEN status' = 1 /\ errno' = 1 /\ StartRead
       ELSE pc' = "status" /\ alarm' = "armed" /\ UNCHANGED <<status, errno, total>>
    /\ UNCHANGED <<parser, restarts, query, count, control, ret, line>>

(* Mutant: any answer is a good answer.                                    *)
ReadStatusIgnored ==
    /\ pc = "status"
    /\ first # -1
    /\ status' = 0
    /\ StartRead
    /\ UNCHANGED <<parser, restarts, query, errno, count, control, ret, line>>

(* The first byte of whatever the printer says.                            *)
ReadStatus ==
    /\ pc = "status"
    /\ first # -1
    /\ status' = first
    /\ StartRead
    /\ UNCHANGED <<parser, restarts, query, errno, count, control, ret, line>>

(* No byte: errno is taken for the status.  recv() that returned 0 did not *)
(* set it.                                                                 *)
NoStatus ==
    /\ pc = "status"
    /\ \/ conn = "shut" /\ first = -1 /\ UNCHANGED errno
       \/ conn = "lost" /\ errno' = 1
       \/ alarm = "armed" /\ ~restarts /\ first = -1 /\ errno' = 1
    /\ status' = errno'
    /\ StartRead
    /\ UNCHANGED <<parser, restarts, query, count, control, ret, line>>

-----------------------------------------------------------------------------
(* lpd_read(): control[] is filled by recv() with MSG_WAITALL.             *)

(* What has arrived, as far as it fits, goes where the last recv() ended.  *)
Take(n) ==
    /\ control' = [c \in Cells |-> IF c \in (total + 1)..(total + n) THEN query
                                   ELSE control[c]]
    /\ total' = total + n
    /\ arrived' = arrived - n
    /\ UNCHANGED <<conn, first>>

ReadDone(n) ==
    /\ count' = n
    /\ alarm' = "off"
    /\ pc' = "close"

(* Mutant: all of control[] is asked for in each round.                    *)
FillBufferOver ==
    /\ pc = "read"
    /\ arrived >= Buffer - total
    /\ Take(arrived)
    /\ ReadDone(Buffer)
    /\ UNCHANGED <<parser, restarts, query, status, errno, ret>>

(* The buffer is full.                                                     *)
FillBuffer ==
    /\ pc = "read"
    /\ arrived >= Buffer - total
    /\ Take(Buffer - total)
    /\ ReadDone(Buffer)
    /\ UNCHANGED <<parser, restarts, query, status, errno, ret>>

(* The printer hung up, the connection broke, or the alarm went off: what  *)
(* there is of the text is returned and the loop asks for the rest of it,  *)
(* the alarm, if it went off, being spent.                                 *)
ReadPart ==
    /\ pc = "read"
    /\ arrived \in 1..(Buffer - total - 1)
    /\ \/ conn # "up" /\ UNCHANGED alarm
       \/ alarm = "armed" /\ alarm' = "spent"
    /\ Take(arrived)
    /\ UNCHANGED <<parser, restarts, pc, query, status, errno, count, ret>>

(* recv() returns 0, or fails, with nothing to give.  The length is what   *)
(* was asked for in the first case.                                        *)
ReadEnd ==
    /\ pc = "read"
    /\ arrived = 0
    /\ \/ conn = "shut" /\ ReadDone(Buffer) /\ UNCHANGED errno
       \/ conn = "lost" /\ ReadDone(-1) /\ errno' = 1
       \/ alarm = "armed" /\ ~restarts /\ ReadDone(-1) /\ errno' = 1
    /\ UNCHANGED <<parser, restarts, query, status, total, control, ret, line>>

(* SIGALRM while recv() has nothing: it is restarted, with no alarm left.  *)
AlarmRestarts ==
    /\ restarts
    /\ alarm = "armed"
    /\ \/ pc = "status" /\ first = -1
       \/ pc = "read" /\ arrived = 0
    /\ alarm' = "spent"
    /\ UNCHANGED <<parser, restarts, pc, query, status, errno, total, count,
                   control, ret, line>>

-----------------------------------------------------------------------------
(* close(fd), and round the loop unless the status is 0.                   *)
Close ==
    /\ pc = "close"
    /\ conn' = "none" /\ first' = -1 /\ arrived' = 0
    /\ IF status = 0 THEN Return(0) ELSE pc' = "resolve" /\ UNCHANGED ret
    /\ UNCHANGED <<parser, restarts, query, alarm, status, errno, total, count,
                   control>>

Sigterm ==
    /\ pc # "done"
    /\ Return(1)
    /\ UNCHANGED <<parser, restarts, query, alarm, status, errno, total, count,
                   control, line>>

-----------------------------------------------------------------------------
(* The printer and the network.                                            *)

(* A piece of the answer arrives; no more wait there than fill the buffer. *)
(* A first byte that comes late, when no one waits for a status any more,  *)
(* belongs to the text.                                                    *)
Arrive ==
    /\ conn = "up" /\ pc # "command"
    /\ IF first = -1
       THEN first' \in {0, 1} /\ arrived' = IF pc = "status" THEN 0 ELSE 1
       ELSE /\ arrived < Buffer
            /\ arrived' = arrived + 1 /\ UNCHANGED first
    /\ UNCHANGED <<parser, asked, conn>>

Disconnect ==
    /\ conn = "up"
    /\ conn' \in {"shut", "lost"}
    /\ UNCHANGED <<parser, asked, first, arrived>>

-----------------------------------------------------------------------------
Next ==
    \/ ReadOptions \/ StartQuery
    \/ Resolve \/ Connect
    \/ SendCommand \/ ReadStatus \/ NoStatus
    \/ FillBuffer \/ ReadPart \/ ReadEnd \/ AlarmRestarts
    \/ Close \/ Sigterm
    \/ Arrive \/ Disconnect

Spec == Init /\ [][Next]_vars

(* The program runs whenever it can; the kernel ends a recv() that has its *)
(* data, an end of file or an alarm.  Nothing is assumed of the printer.   *)
Fairness ==
    /\ WF_vars(ReadOptions \/ StartQuery \/ Resolve \/ Connect \/ SendCommand
               \/ Close)
    /\ WF_vars(ReadStatus \/ NoStatus \/ FillBuffer \/ ReadPart \/ ReadEnd
               \/ AlarmRestarts)

FairSpec == Spec /\ Fairness

-----------------------------------------------------------------------------
(* Properties.                                                             *)

(* Every variable has its type.                                            *)
TypeOK ==
    /\ ParserOK
    /\ restarts \in BOOLEAN
    /\ pc \in {"options", "resolve", "connect", "command", "status", "read",
               "close", "done"}
    /\ query \in 0..MaxQueries
    /\ alarm \in {"off", "armed", "spent"}
    /\ status \in {0, 1} /\ errno \in {0, 1}
    /\ total \in 0..Buffer
    /\ count \in {-1, 0, Buffer}
    /\ control \in [Cells -> 0..MaxQueries]
    /\ ret \in {-1, 0, 1}
    /\ conn \in {"none", "up", "shut", "lost"}
    /\ first \in {-1, 0, 1}
    /\ arrived \in 0..Buffer

(* control[], printed after every query, is not cleared: text of an older  *)
(* query, or nothing at all, may follow that of a newer one, however the   *)
(* reads of each were cut up, but none ever comes before it.               *)
StaleOnlyBehind ==
    \A c, d \in Cells : c < d => control[c] >= control[d]

(* The program never succeeds with an answer that begins with text: it     *)
(* leaves off only at a zero byte, or at a printer that hung up without a  *)
(* word while errno happened to be 0.                                      *)
SuccessIsSilence ==
    pc = "close" /\ status = 0 => first = 0 \/ (first = -1 /\ conn = "shut")

(* A wait nothing can end: the printer is connected and silent, and the    *)
(* alarm was spent on a recv() that was restarted, or on the first part of *)
(* a text whose rest is asked for without one.                             *)
Starved ==
    /\ conn = "up" /\ alarm = "spent"
    /\ IF pc = "status" THEN restarts ELSE restarts \/ total > 0

(* The parser comes to the end of every text whose names and values fit    *)
(* their buffers, whatever separators are missing or repeated in it; and   *)
(* every wait for the printer ends, except when it is starved.             *)
LoopsEnd ==
    /\ (pc = "options" /\ Fits(text)) ~> (pc # "options")
    /\ \A p \in {"status", "read"} : (pc = p) ~> (pc # p \/ Starved)

=============================================================================
