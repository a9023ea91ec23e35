--------------------------- MODULE LpdPortProofs ----------------------------
(***************************************************************************)
(* Theorems about LpdPort, for every range of ports and any behaviour of   *)
(* the other programs.                                                     *)
(***************************************************************************)
EXTENDS LpdPort, TLAPS

(* lport is the port bound, or one to go on from, within the reserved      *)
(* ports; and within the range asked for once rresvport() looks at it,     *)
(* which may have walked just below it.                                    *)
LportInRange ==
    /\ pc = "bind" =>
          /\ Privileged
          /\ lport \in Ports
    /\ reserve = "rfc1179" => lport <= LastRfcPort + 1
    /\ reserve = "rfc1179" /\ pc = "bind" => lport <= LastRfcPort
    /\ pc = "connect" => lport <= LastPort
    /\ ReservedFromRange

IInv == TypeOK /\ OneSocket /\ LportInRange

USE PortsAssumption, UsableAssumption, BoundsAssumption DEF Ports

LEMMA NextPortIsPort ==
    ASSUME NEW p \in 0..(LastPort + 1)
    PROVE  /\ NextPort(p) \in Ports
           /\ reserve = "rfc1179" => NextPort(p) >= FirstPort
           /\ reserve = "rfc1179" /\ p <= LastRfcPort + 1
                => NextPort(p) \in FirstPort..LastRfcPort
  BY DEF NextPort

LEMMA InitIInv == Init => IInv
<1> SUFFICES ASSUME Init PROVE IInv
  OBVIOUS
<1>1. TypeOK
  BY DEF Init, TypeOK
<1>2. OneSocket
  BY DEF Init, OneSocket
<1>3. LportInRange
  BY DEF Init, LportInRange, ReservedFromRange
<1> QED
  BY <1>1, <1>2, <1>3 DEF IInv

LEMMA Inductive == IInv /\ [Next]_vars => IInv'
<1> SUFFICES ASSUME IInv, [Next]_vars PROVE IInv'
  OBVIOUS
<1> USE DEF IInv, env, Privileged
<1>1. CASE PlainSocket
  <2>1. NextPort(lport) \in Ports /\ (reserve = "rfc1179" => NextPort(lport) <= LastRfcPort + 1)
    BY NextPortIsPort DEF TypeOK, LportInRange
  <2>2. TypeOK'
    BY <1>1, <2>1 DEF PlainSocket, CallFails, TypeOK, OneSocket
  <2>3. OneSocket'
    BY <1>1 DEF PlainSocket, OneSocket
  <2>4. LportInRange'
    BY <1>1, <2>1 DEF PlainSocket, LportInRange, ReservedFromRange
  <2> QED
    BY <2>2, <2>3, <2>4
<1>2. CASE ReservedSocket
  <2>1. /\ NextPort(lport) \in Ports
        /\ reserve = "rfc1179" => NextPort(lport) <= LastRfcPort
    BY NextPortIsPort DEF TypeOK, LportInRange
  <2>2. TypeOK'
    BY <1>2, <2>1 DEF ReservedSocket, CallFails, TypeOK, OneSocket
  <2>3. OneSocket'
    BY <1>2 DEF ReservedSocket, OneSocket
  <2>4. LportInRange'
    BY <1>2, <2>1 DEF ReservedSocket, LportInRange, ReservedFromRange
  <2> QED
    BY <2>2, <2>3, <2>4
<1>3. CASE BindSucceeds
  <2>1. lport \in Wanted /\ lport \in Free
    BY <1>3 DEF BindSucceeds, TypeOK, LportInRange, Wanted
  <2>2. TypeOK' /\ OneSocket'
    BY <1>3 DEF BindSucceeds, TypeOK, OneSocket, LportInRange
  <2>3. LportInRange'
    BY <1>3, <2>1
    DEF BindSucceeds, LportInRange, ReservedFromRange, Wanted, Free
  <2> QED
    BY <2>2, <2>3
<1>4. CASE BindInUse
  <2>1. TypeOK' /\ OneSocket'
    BY <1>4 DEF BindInUse, TypeOK, OneSocket, LportInRange
  <2>2. lport' \in Ports /\ lport' < lport
    BY <1>4 DEF BindInUse, TypeOK, LportInRange
  <2>3. pc' = "bind" /\ Privileged' /\ reserve' = reserve
    BY <1>4 DEF BindInUse, LportInRange
  <2>4. reserve = "rfc1179" => lport' <= LastRfcPort
    BY <1>4, <2>2 DEF BindInUse, TypeOK, LportInRange
  <2>5. LportInRange'
    BY <2>2, <2>3, <2>4 DEF LportInRange, ReservedFromRange
  <2> QED
    BY <2>1, <2>5
<1>5. CASE BindFails \/ NoPortLeft \/ ConnectFails
  <2>1. CASE ConnectFails
    BY <2>1 DEF ConnectFails, CallFails, TypeOK, OneSocket, LportInRange,
                ReservedFromRange
  <2>2. CASE BindFails
    BY <2>2 DEF BindFails, CallFails, TypeOK, OneSocket, LportInRange,
                ReservedFromRange
  <2>3. CASE NoPortLeft
    BY <2>3 DEF NoPortLeft, TypeOK, OneSocket, LportInRange,
                ReservedFromRange
  <2> QED
    BY <1>5, <2>1, <2>2, <2>3
<1>6. CASE Connected
  BY <1>6 DEF Connected, TypeOK, OneSocket, LportInRange, ReservedFromRange
<1>7. CASE OthersUsePorts
  <2>1. TypeOK' /\ OneSocket'
    BY <1>7 DEF OthersUsePorts, TypeOK, OneSocket
  <2>2. ReservedFromRange'
    BY <1>7 DEF OthersUsePorts, LportInRange, ReservedFromRange, Wanted, Free
  <2> QED
    BY <1>7, <2>1, <2>2 DEF OthersUsePorts, LportInRange
<1>8. CASE UNCHANGED vars
  BY <1>8 DEF vars, TypeOK, OneSocket, LportInRange, ReservedFromRange,
              Wanted, Free
<1> QED
  BY <1>1, <1>2, <1>3, <1>4, <1>5, <1>6, <1>7, <1>8 DEF Next

LEMMA Invariance == Spec => []IInv
<1> QED
  BY InitIInv, Inductive, PTL DEF Spec

(* A reserved connection comes from a free port of the range asked for:    *)
(* with reserve=rfc1179 from FirstPort to LastRfcPort (721 to 731), else   *)
(* from FirstPort to LastPort (721 to 1023), after any number of wraps.    *)
THEOREM PortFromRange == Spec => []ReservedFromRange
<1>1. IInv => ReservedFromRange
  BY DEF IInv, LportInRange
<1> QED
  BY <1>1, Invariance, PTL

(* Every way round the loop closes the socket it opened: however often     *)
(* binding and connecting fail, no descriptor is lost.                     *)
THEOREM NoSocketLost == Spec => [](TypeOK /\ OneSocket)
<1>1. IInv => TypeOK /\ OneSocket
  BY DEF IInv
<1> QED
  BY <1>1, Invariance, PTL

(* Every reachable state is well typed: lport never leaves the reserved    *)
(* ports by more than the one above them that the loop starts from.        *)
THEOREM TypeCorrect == Spec => []TypeOK
<1>1. IInv => TypeOK
  BY DEF IInv
<1> QED
  BY <1>1, Invariance, PTL

-----------------------------------------------------------------------------
(* The walk.  When it has come down to n, every wanted port between n and  *)
(* the one refused last was tried since then; once it has wrapped, the     *)
(* ports it passed before the wrap and those from n up were.               *)
Walked(n) ==
    \/ lastRefused = 0
    \/ Wanted \subseteq tried
    \/ /\ n <= lastRefused
       /\ \A p \in Wanted : n <= p /\ p < lastRefused => p \in tried
    \/ /\ n > lastRefused
       /\ \A p \in Wanted : p < lastRefused \/ n <= p => p \in tried

(* The port to start from was tried; the one to bind is not yet.           *)
Walk ==
    Privileged =>
        /\ lastRefused # 0 => lastRefused \in Wanted
        /\ pc = "choose" => Walked(lport)
        /\ pc = "bind" => Walked(lport + 1)
        /\ pc = "connect" /\ lastRefused = lport => Wanted \subseteq tried

LEMMA InitWalk == Init => Walk
  BY DEF Init, Walk, Walked

(* Trying the next lower port takes the walk one further down; with the    *)
(* port refused last it is complete.                                       *)
LEMMA TryOne ==
    ASSUME NEW n \in Ports, Walked(n + 1), tried' = tried \union {n},
           UNCHANGED <<reserve, lastRefused>>, lastRefused \in 0..LastPort
    PROVE  /\ Walked(n)'
           /\ lastRefused = n => (Wanted \subseteq tried)'
<1>1. Wanted' = Wanted /\ Wanted \subseteq Nat
  BY DEF Wanted
<1>2. CASE lastRefused = 0 \/ Wanted \subseteq tried
  BY <1>1, <1>2 DEF Walked
<1>3. CASE /\ n + 1 <= lastRefused
           /\ \A p \in Wanted : n + 1 <= p /\ p < lastRefused => p \in tried
  <2>1. \A p \in Wanted : n <= p /\ p < lastRefused => p \in tried'
    BY <1>1, <1>3
  <2> QED
    BY <1>1, <1>3, <2>1 DEF Walked
<1>4. CASE /\ n + 1 > lastRefused
           /\ \A p \in Wanted : p < lastRefused \/ n + 1 <= p => p \in tried
  <2>1. \A p \in Wanted : p < lastRefused \/ n <= p => p \in tried'
    BY <1>1, <1>4
  <2>2. CASE n = lastRefused
    <3>1. Wanted \subseteq tried'
      BY <1>1, <2>1, <2>2
    <3> QED
      BY <1>1, <3>1 DEF Walked
  <2>3. CASE n > lastRefused
    BY <1>1, <2>1, <2>3 DEF Walked
  <2> QED
    BY <1>4, <2>2, <2>3
<1> QED
  BY <1>2, <1>3, <1>4 DEF Walked

(* The step down, and the wrap: whatever is wanted lies above FirstPort, so *)
(* the walk wraps only when it has passed all ports below the one refused. *)
LEMMA WalkGoesDown ==
    ASSUME IInv, Walked(lport), lastRefused # 0 => lastRefused \in Wanted
    PROVE  Walked(NextPort(lport) + 1)
<1>1. lport \in 0..(LastPort + 1) /\ (reserve = "rfc1179" => lport <= LastRfcPort + 1)
  BY DEF IInv, TypeOK, LportInRange
<1>2. CASE NextPort(lport) = lport - 1
  BY <1>1, <1>2
<1>3. CASE NextPort(lport) # lport - 1
  <2>1. /\ lport <= FirstPort
        /\ \A p \in Wanted : p \in Nat /\ FirstPort <= p /\ p <= NextPort(lport)
    BY <1>1, <1>3 DEF NextPort, Wanted
  <2>2. NextPort(lport) \in Ports
    BY <1>1, NextPortIsPort
  <2>3. CASE lastRefused # 0 /\ ~(Wanted \subseteq tried)
    <3>1. lastRefused \in Wanted
      BY <2>3
    <3>2. \A p \in Wanted : p < lastRefused => p \in tried
      BY <1>1, <2>1, <2>3, <3>1 DEF Walked
    <3>3. NextPort(lport) + 1 > lastRefused
      BY <2>1, <2>2, <3>1
    <3>4. \A p \in Wanted : ~(NextPort(lport) + 1 <= p)
      BY <2>1, <2>2
    <3> QED
      BY <3>2, <3>3, <3>4 DEF Walked
  <2> QED
    BY <2>3 DEF Walked
<1> QED
  BY <1>2, <1>3

LEMMA StepWalk == IInv /\ Walk /\ [Next]_vars => Walk'
<1> SUFFICES ASSUME IInv, Walk, [Next]_vars, Privileged'
             PROVE  /\ (lastRefused # 0 => lastRefused \in Wanted)'
                    /\ (pc = "choose" => Walked(lport))'
                    /\ (pc = "bind" => Walked(lport + 1))'
                    /\ (pc = "connect" /\ lastRefused = lport => Wanted \subseteq tried)'
  BY DEF Walk
<1>0. /\ UNCHANGED <<reserve, root>> /\ Privileged /\ Wanted' = Wanted
      /\ lastRefused \in 0..LastPort /\ lport \in 0..(LastPort + 1)
      /\ lastRefused # 0 => lastRefused \in Wanted
      /\ pc = "bind" => lport \in Ports
  BY DEF Next, vars, PlainSocket, ReservedSocket, BindSucceeds, BindInUse,
         BindFails, NoPortLeft, Connected, ConnectFails, OthersUsePorts,
         Privileged, Wanted, IInv, TypeOK, LportInRange, Walk
<1>1. CASE ReservedSocket
  <2>1. lport' = NextPort(lport) /\ lport' \in Ports /\ UNCHANGED lastRefused
    BY <1>0, <1>1, NextPortIsPort DEF ReservedSocket
  <2>2. Walked(lport' + 1)
    BY <1>0, <1>1, <2>1, WalkGoesDown DEF ReservedSocket, Walk
  <2>3. CASE pc' = "bind" /\ UNCHANGED tried
    BY <1>0, <2>1, <2>2, <2>3 DEF Walked
  <2>4. CASE pc' = "choose" /\ tried' = tried \union {lport'}
    <3>1. PICK n \in Ports : n = lport'
      BY <2>1
    <3>2. Walked(n + 1)
      BY <2>2, <3>1
    <3>3. Walked(n)'
      BY <1>0, <2>1, <2>4, <3>1, <3>2, TryOne
    <3> QED
      BY <1>0, <2>1, <2>4, <3>1, <3>3 DEF Walked
  <2> QED
    BY <1>1, <2>3, <2>4 DEF ReservedSocket
<1>2. CASE BindSucceeds \/ BindInUse \/ BindFails
  <2>1. /\ lport \in Ports /\ Walked(lport + 1) /\ UNCHANGED lastRefused
        /\ tried' = tried \union {lport}
    BY <1>0, <1>2 DEF BindSucceeds, BindInUse, BindFails, Walk
  <2>2. PICK n \in Ports : n = lport
    BY <2>1
  <2>3. /\ Walked(n)'
        /\ lastRefused = n => (Wanted \subseteq tried)'
    BY <1>0, <2>1, <2>2, TryOne
  <2>4. CASE BindSucceeds
    BY <1>0, <2>1, <2>2, <2>3, <2>4 DEF BindSucceeds
  <2>5. CASE BindInUse
    <3>1. lport' + 1 = n
      BY <2>2, <2>5 DEF BindInUse
    <3> QED
      BY <1>0, <2>1, <2>3, <2>5, <3>1 DEF BindInUse, Walked
  <2>6. CASE BindFails
    <3>1. lport' = n
      BY <2>2, <2>6 DEF BindFails
    <3> QED
      BY <1>0, <2>1, <2>3, <2>6, <3>1 DEF BindFails, Walked
  <2> QED
    BY <1>2, <2>4, <2>5, <2>6
<1>3. CASE NoPortLeft
  <2>1. /\ lport < FirstPort /\ Walked(lport + 1) /\ pc' = "choose"
        /\ UNCHANGED <<lport, lastRefused, tried>>
    BY <1>3 DEF NoPortLeft, Walk, Privileged
  <2>2. \A p \in Wanted : p \in Nat /\ FirstPort <= p
    BY DEF Wanted
  <2>3. Walked(lport)
    BY <1>0, <2>1, <2>2 DEF Walked
  <2> QED
    BY <1>0, <2>1, <2>3 DEF Walked
<1>4. CASE ConnectFails
  <2>1. lport \in Wanted
    BY <1>0, <1>4 DEF ConnectFails, IInv, LportInRange, ReservedFromRange
  <2> QED
    BY <1>0, <1>4, <2>1 DEF ConnectFails, Walked
<1>5. CASE Connected
  BY <1>0, <1>5 DEF Connected
<1>6. CASE OthersUsePorts \/ UNCHANGED vars
  BY <1>0, <1>6 DEF OthersUsePorts, vars, Walk, Walked, Privileged
<1> QED
  BY <1>0, <1>1, <1>2, <1>3, <1>4, <1>5, <1>6
  DEF Next, PlainSocket

(* For every range of ports and whatever fails or is taken on the way, the *)
(* loop comes back to a port that refused it only after all the others: it *)
(* wraps only below the range, having tried what was left of it.           *)
THEOREM WalkIsComplete == Spec => []NoPortLeftOut
<1>1. Init => Walk
  BY InitWalk
<1>2. IInv /\ Walk /\ [Next]_vars => Walk'
  BY StepWalk
<1>3. Walk => NoPortLeftOut
  BY DEF Walk, NoPortLeftOut
<1> QED
  BY <1>1, <1>2, <1>3, Invariance, PTL DEF Spec

=============================================================================
