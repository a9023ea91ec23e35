------------------------------ MODULE LpdPort -------------------------------
(***************************************************************************)
(* How lpd and lpdstat get a connection from a reserved local port: the    *)
(* loop of lpd_queue() (and lpd_status()) around rresvport() and connect().*)
(* lport walks down through the ports and wraps; rresvport() moves it on   *)
(* over the ports it finds taken.  Other programs take and release ports   *)
(* all the while.                                                          *)
(***************************************************************************)
EXTENDS Integers

CONSTANTS
    FirstPort,       \* 721 in the source: rresvport() goes no further down
    LastRfcPort,     \* 731: the top of the range of RFC 1179
    LastPort,        \* 1023: the top of the reserved ports
    Usable,          \* ports other programs leave free at times; they hold
                     \* all the other ports all the time
    MaxPortChanges,  \* bound: ports taken and released by other programs
    MaxFailures      \* bound: failing socket(), bind() and connect() calls

Ports == 1..LastPort

ASSUME PortsAssumption ==
    /\ FirstPort \in Nat /\ LastRfcPort \in Nat /\ LastPort \in Nat
    /\ 1 < FirstPort /\ FirstPort <= LastRfcPort /\ LastRfcPort < LastPort
ASSUME UsableAssumption == Usable \subseteq Ports
ASSUME BoundsAssumption == MaxPortChanges \in Nat /\ MaxFailures \in Nat

VARIABLES
    reserve,       \* the option reserve=
    root,          \* does the process run as root?
    pc,            \* where the loop is
    lport,         \* local port number: the next to try, or the one bound
    openSocks,     \* sockets the process holds
    lastRefused,   \* the port of the last connect() that failed, or 0
    tried,         \* ports tried, or given up unseen, since that one
    ret,           \* what lpd_queue() returned; -1 while it runs
    taken,         \* usable ports some other program holds now
    portChanges,   \* ports taken and released so far
    failures       \* failed calls so far

vars == <<reserve, root, pc, lport, openSocks, lastRefused, tried, ret, taken,
          portChanges, failures>>

env == <<taken, portChanges>>

Reserves   == {"none", "rfc1179", "any"}
Privileged == root /\ reserve # "none"
Free       == Usable \ taken

-----------------------------------------------------------------------------
Init ==
    /\ reserve \in Reserves
    /\ root \in BOOLEAN
    /\ pc = "choose"
    /\ lport = IF reserve = "rfc1179" THEN LastRfcPort + 1 ELSE LastPort + 1
    /\ openSocks = 0
    /\ lastRefused = 0
    /\ tried = {}
    /\ ret = -1
    /\ taken \in SUBSET Usable
    /\ portChanges = 0
    /\ failures = 0

CallFails == failures < MaxFailures /\ failures' = failures + 1

-----------------------------------------------------------------------------
(* Mutants: the range of RFC 1179 is left at its lower end; or the walk    *)
(* stops at the lowest port.                                               *)
NextPortNoWrap(p) ==
    IF p - 1 < 1 THEN LastPort ELSE p - 1

NextPortStops(p) ==
    IF p - 1 < FirstPort /\ reserve = "rfc1179" THEN LastRfcPort
    ELSE IF p - 1 < 1 THEN 1
    ELSE p - 1

(* lport-- and the two wraps that follow it.                               *)
NextPort(p) ==
    IF p - 1 < FirstPort /\ reserve = "rfc1179" THEN LastRfcPort
    ELSE IF p - 1 < 1 THEN LastPort
    ELSE p - 1

(* A process that is not root, or need not reserve, takes any socket.      *)
PlainSocket ==
    /\ pc = "choose"
    /\ ~Privileged
    /\ \/ /\ openSocks' = openSocks + 1
          /\ lport' = 0
          /\ pc' = "connect"
          /\ UNCHANGED <<ret, failures>>
       \/ /\ CallFails
          /\ lport' = NextPort(lport)
          /\ pc' = "done" /\ ret' = 1
          /\ UNCHANGED openSocks
    /\ UNCHANGED <<reserve, root, lastRefused, tried, env>>

(* rresvport() makes its socket, or fails and leaves lport where it is: a  *)
(* second later the loop goes on with the port after it.                   *)
ReservedSocket ==
    /\ pc = "choose"
    /\ Privileged
    /\ lport' = NextPort(lport)
    /\ \/ /\ openSocks' = openSocks + 1
          /\ pc' = "bind"
          /\ UNCHANGED <<tried, failures>>
       \/ /\ CallFails
          /\ tried' = tried \union {lport'}
          /\ UNCHANGED <<pc, openSocks>>
    /\ UNCHANGED <<reserve, root, lastRefused, ret, env>>

-----------------------------------------------------------------------------
(* One round of the loop in rresvport(), down to FirstPort.               *)

(* Mutant: the socket stays open after bind() failed.                      *)
BindFailsOpen ==
    /\ pc = "bind" /\ lport >= FirstPort
    /\ CallFails
    /\ tried' = tried \union {lport}
    /\ pc' = "choose"
    /\ UNCHANGED <<reserve, root, lport, openSocks, lastRefused, ret, env>>

BindSucceeds ==
    /\ pc = "bind" /\ lport >= FirstPort
    /\ lport \in Free
    /\ tried' = tried \union {lport}
    /\ pc' = "connect"
    /\ UNCHANGED <<reserve, root, lport, openSocks, lastRefused, ret, failures,
                   env>>

(* Mutant: two steps down from a port in use.                              *)
BindInUseSkips ==
    /\ pc = "bind" /\ lport >= FirstPort
    /\ lport \notin Free
    /\ tried' = tried \union {lport}
    /\ lport' = lport - 2
    /\ UNCHANGED <<reserve, root, pc, openSocks, lastRefused, ret, failures,
                   env>>

(* EADDRINUSE: on to the next lower port.                                  *)
BindInUse ==
    /\ pc = "bind" /\ lport >= FirstPort
    /\ lport \notin Free
    /\ tried' = tried \union {lport}
    /\ lport' = lport - 1
    /\ UNCHANGED <<reserve, root, pc, openSocks, lastRefused, ret, failures,
                   env>>

(* Any other error: the socket is closed, the loop outside goes on.        *)
BindFails ==
    /\ pc = "bind" /\ lport >= FirstPort
    /\ CallFails
    /\ tried' = tried \union {lport}
    /\ openSocks' = openSocks - 1
    /\ pc' = "choose"
    /\ UNCHANGED <<reserve, root, lport, lastRefused, ret, env>>

(* Mutant: the socket stays open when no port could be bound.              *)
NoPortLeftOpen ==
    /\ pc = "bind" /\ lport < FirstPort
    /\ pc' = "choose"
    /\ UNCHANGED <<reserve, root, lport, openSocks, lastRefused, tried, ret,
                   failures, env>>

(* Nothing left down to FirstPort.                                         *)
NoPortLeft ==
    /\ pc = "bind" /\ lport < FirstPort
    /\ openSocks' = openSocks - 1
    /\ pc' = "choose"
    /\ UNCHANGED <<reserve, root, lport, lastRefused, tried, ret, failures,
                   env>>

-----------------------------------------------------------------------------
Connected ==
    /\ pc = "connect"
    /\ pc' = "done" /\ ret' = 0
    /\ UNCHANGED <<reserve, root, lport, openSocks, lastRefused, tried, failures,
                   env>>

(* Refused, unreachable, or an address in use on the way: the socket is    *)
(* closed, and after 1 or 30 seconds the next port is tried.               *)
ConnectFails ==
    /\ pc = "connect"
    /\ CallFails
    /\ openSocks' = openSocks - 1
    /\ lastRefused' = lport
    /\ tried' = {}
    /\ pc' = "choose"
    /\ UNCHANGED <<reserve, root, lport, ret, env>>

(* Another program takes or releases a port.                               *)
OthersUsePorts ==
    /\ pc # "done"
    /\ portChanges < MaxPortChanges
    /\ portChanges' = portChanges + 1
    /\ \E p \in Usable :
          \/ /\ p \in Free /\ ~(pc = "connect" /\ p = lport)
             /\ taken' = taken \union {p}
          \/ /\ p \in taken
             /\ taken' = taken \ {p}
    /\ UNCHANGED <<reserve, root, pc, lport, openSocks, lastRefused, tried, ret,
                   failures>>

-----------------------------------------------------------------------------
Next ==
    \/ PlainSocket \/ ReservedSocket
    \/ BindSucceeds \/ BindInUse \/ BindFails \/ NoPortLeft
    \/ Connected \/ ConnectFails
    \/ OthersUsePorts

Spec == Init /\ [][Next]_vars

(* The loop goes on while the system calls do not fail; that they fail     *)
(* again and again is left to the bound.                                   *)
Fairness ==
    WF_vars(PlainSocket \/ ReservedSocket \/ BindSucceeds \/ BindInUse
            \/ NoPortLeft \/ Connected)

FairSpec == Spec /\ Fairness

-----------------------------------------------------------------------------
(* The ports the loop is for: 721 to 731, or, as rresvport() has it, all   *)
(* the reserved ones from 721 on.                                          *)
Wanted == IF reserve = "rfc1179" THEN FirstPort..LastRfcPort ELSE FirstPort..LastPort

(* Every variable has its type.                                            *)
TypeOK ==
    /\ reserve \in Reserves /\ root \in BOOLEAN
    /\ pc \in {"choose", "bind", "connect", "done"}
    /\ lport \in 0..(LastPort + 1)
    /\ openSocks \in 0..1
    /\ lastRefused \in 0..LastPort
    /\ tried \subseteq Ports
    /\ ret \in {-1, 0, 1}
    /\ taken \subseteq Usable
    /\ portChanges \in 0..MaxPortChanges /\ failures \in 0..MaxFailures

(* A reserved connection comes from a port of the range asked for that no  *)
(* other program holds, whatever wrapped, failed or was taken before.      *)
ReservedFromRange ==
    pc = "connect" /\ Privileged => lport \in Wanted /\ lport \in Free

(* The process holds one socket while it binds and connects and none       *)
(* before it chooses again: every way out of rresvport() and connect()     *)
(* closes it.                                                              *)
OneSocket ==
    openSocks = (CASE pc \in {"bind", "connect"} -> 1
                   [] pc = "choose" -> 0
                   [] pc = "done" -> IF ret = 0 THEN 1 ELSE 0)

(* The walk leaves no port out: a port whose connection was refused is not *)
(* tried again before every other port of the range has been.              *)
NoPortLeftOut ==
    pc = "connect" /\ Privileged /\ lastRefused = lport
        => Wanted \subseteq tried

(* While a port of the range stays free the loop comes to a connection.    *)
PortIsFound ==
    (pc = "choose" /\ Privileged) ~> (pc = "connect" \/ Wanted \intersect Free = {})

=============================================================================
