------------------------- MODULE CupsPrintersProofs -------------------------
(***************************************************************************)
(* Theorems about CupsPrinters, for any programs, users, queues and PPDs,  *)
(* and for every interleaving of their calls.  IInv is about the PPD and   *)
(* the file under /tmp, Asked about what a call that is alone has done.    *)
(***************************************************************************)
EXTENDS CupsPrinters, TLAPS

USE NamesAssumption, KindsAssumption, BoundsAssumption

(* While a call runs, the PPD its queue has now is one of those it has had *)
(* since the call began, and so is whatever the shared file holds once the *)
(* call has emptied it.                                                    *)
NowSeen == \A c \in Clients : pc[c] # "idle" => queue[MyQueue(c)].ppd \in seen[c]

FileSeen == \A c \in Clients :
    pc[c] \in {"open", "fetch", "parse"}
        => MyFile(c).holds \in seen[c] \union {Empty}

(* A call that sets a PPD has one to set.                                  *)
PpdGiven == \A c \in Clients :
    pc[c] \in {"ppd", "file"} => call[c].ppd # NoPPD

(* From the moment setDeviceURI() has got a PPD, or installed one, until   *)
(* it sets the URI, the queue has a PPD.                                   *)
PpdBeforeUri ==
    pdfExists /\ faults = 0 => \A c \in Clients :
        pc[c] \in {"parse", "unlink", "uri"} /\ MyQueue(c) \notin removed
            => queue[MyQueue(c)].ppd # NoPPD

(* The file a call writes to is its user's, as long as it has its name.    *)
FileOwned == \A c \in Clients :
    pc[c] = "fetch" /\ c \notin gone => MyFile(c).owner = user[c]

IInv == /\ TypeOK /\ FileOwned
        /\ NowSeen /\ FileSeen /\ PpdIsCurrent
        /\ PpdGiven /\ PpdBeforeUri /\ SharedStays

LEMMA Constants ==
    /\ Absent \notin Records /\ Absent.ppd = NoPPD
    /\ NewQueue \in Records /\ NewQueue.ppd = NoPPD /\ NewQueue.shared
    /\ Default \in PPDs /\ NoPPD \notin PPDs /\ Empty \notin PPDs \union {NoPPD}
    /\ Models \subseteq PPDs
    /\ NoFile.holds = Empty
BY DEF Absent, Records, NewQueue, PPDs, NoPPD, Empty, NoFile, NoURI, NoQueue

LEMMA InitIInv == Init => IInv
<1> SUFFICES ASSUME Init PROVE IInv
  OBVIOUS
<1>1. TypeOK
  <2>1. queue \in [Queues -> Records \union {Absent}]
    BY DEF Init
  <2>2. call \in [Clients -> Requests]
    BY DEF Init, Requests
  <2>3. tmp \in [Queues -> Files \union {NoFile}]
    BY DEF Init
  <2>4. base \in [Clients -> Records \union {Absent}]
    BY DEF Init
  <2> QED
    BY <2>1, <2>2, <2>3, <2>4 DEF Init, TypeOK
<1>2. /\ FileOwned /\ NowSeen /\ FileSeen
     /\ PpdIsCurrent /\ PpdGiven /\ PpdBeforeUri
  BY DEF Init, FileOwned, NowSeen, FileSeen, PpdIsCurrent, PpdGiven, PpdBeforeUri
<1>3. SharedStays
  BY DEF Init, SharedStays
<1> QED
  BY <1>1, <1>2, <1>3 DEF IInv

-----------------------------------------------------------------------------
(* The steps that read a PPD file.                                         *)

LEMMA ReadsFrame ==
    ASSUME TypeOK, NEW c \in Clients, Reads(c)
    PROVE  /\ UNCHANGED <<queue, removed, pdfExists, user, call, base, seen,
                          calls>>
           /\ faults' \in 0..MaxFaults /\ (faults' = 0 => faults = 0)
           /\ alone' \in [Clients -> BOOLEAN]
<1> USE DEF cupsd, keeps, TypeOK
<1>1. CASE CreateTmp(c) \/ CreateFails(c)
  BY <1>1 DEF CreateTmp, CreateFails
<1>2. CASE OpenTmp(c) \/ OpenFails(c) \/ Fetch(c)
  BY <1>2 DEF OpenTmp, OpenFails, Fetch
<1>3. CASE FetchFails(c)
  <2>1. CASE UNCHANGED <<alone, faults>>
    BY <1>3, <2>1 DEF FetchFails
  <2>2. CASE Fault(c)
    <3>1. alone' \in [Clients -> BOOLEAN]
      BY <2>2 DEF Fault
    <3>2. faults' \in 0..MaxFaults /\ faults' # 0
      BY <2>2 DEF Fault
    <3> QED
      BY <1>3, <3>1, <3>2 DEF FetchFails
  <2> QED
    BY <1>3, <2>1, <2>2 DEF FetchFails
<1>4. CASE Parse(c) \/ ParseFails(c) \/ UnlinkTmp(c)
  BY <1>4 DEF Parse, ParseFails, UnlinkTmp
<1> QED
  BY <1>1, <1>2, <1>3, <1>4 DEF Reads

LEMMA ReadsPc ==
    ASSUME TypeOK, NEW c \in Clients, Reads(c)
    PROVE  /\ ended' \in [Clients -> {"running", "return", "throw"}]
           /\ pc[c] # "idle"
           /\ \E s \in {"idle", "open", "fetch", "parse", "unlink", "init",
                         "uri"} :
                /\ pc' = [pc EXCEPT ![c] = s]
                /\ s = "open" => CreateTmp(c)
                /\ s = "fetch" => OpenTmp(c)
                /\ s = "parse" => Fetch(c)
                /\ s = "unlink" => pc[c] = "parse"
                /\ s = "uri" => pc[c] = "unlink"
<1> USE DEF TypeOK, GoesOn, Ends, ReadFails
<1>1. CASE CreateTmp(c)
  BY <1>1 DEF CreateTmp
<1>2. CASE CreateFails(c)
  BY <1>2 DEF CreateFails
<1>3. CASE OpenTmp(c)
  BY <1>3 DEF OpenTmp
<1>4. CASE OpenFails(c)
  BY <1>4 DEF OpenFails
<1>5. CASE Fetch(c)
  BY <1>5 DEF Fetch
<1>6. CASE FetchFails(c)
  BY <1>6 DEF FetchFails
<1>7. CASE Parse(c)
  BY <1>7 DEF Parse
<1>8. CASE ParseFails(c)
  BY <1>8 DEF ParseFails
<1>9. CASE UnlinkTmp(c)
  BY <1>9 DEF UnlinkTmp
<1> QED
  BY <1>1, <1>2, <1>3, <1>4, <1>5, <1>6, <1>7, <1>8, <1>9 DEF Reads

(* What a reading step does to the files, and what it reads.               *)
LEMMA ReadsFiles ==
    ASSUME TypeOK, FileOwned, NEW c \in Clients, Reads(c)
    PROVE  /\ tmp' \in [Queues -> Files \union {NoFile}]
           /\ gone' \subseteq Clients
           /\ \A q \in Queues :
                 /\ \/ tmp'[q] = tmp[q] \/ tmp'[q].holds = Empty
                    \/ /\ queue[q].ppd # NoPPD
                       /\ q = MyQueue(c) /\ pc[c] = "fetch"
                       /\ tmp'[q].holds = queue[q].ppd
                 /\ \/ tmp'[q].owner = tmp[q].owner /\ gone \ {c} \subseteq gone'
                    \/ tmp[q] = NoFile /\ gone' = gone
                    \/ \A d \in Clients : MyQueue(d) = q => d \in gone'
           /\ CreateTmp(c) => tmp'[MyQueue(c)].holds = Empty
           /\ OpenTmp(c) => /\ tmp'[MyQueue(c)].holds = Empty
                            /\ tmp'[MyQueue(c)].owner = user[c]
           /\ \/ got' = got
              \/ /\ pc[c] = "parse" /\ MyFile(c).holds # Empty
                 /\ got' = [got EXCEPT ![c] = MyFile(c).holds]
<1> USE DEF TypeOK, MyFile, MyQueue, MayWrite, Requests
<1>0. call[c].queue \in Queues
  OBVIOUS
<1>1. CASE CreateTmp(c)
  BY <1>0, <1>1 DEF CreateTmp, Files, OpenTmp
<1>2. CASE CreateFails(c) \/ OpenFails(c)
  BY <1>0, <1>2 DEF CreateFails, OpenFails, CreateTmp, OpenTmp
<1>3. CASE OpenTmp(c)
  BY <1>0, <1>3 DEF OpenTmp, Files, CreateTmp
<1>4. CASE Fetch(c)
  <2>1. queue[MyQueue(c)].ppd \in PPDs
    BY <1>0, <1>4, Constants DEF Fetch, Records
  <2>2. c \notin gone => tmp[MyQueue(c)] \in Files
    BY <1>0, <1>4 DEF Fetch, FileOwned, NoFile
  <2> QED
    BY <1>0, <1>4, <2>1, <2>2 DEF Fetch, Files, CreateTmp, OpenTmp
<1>5. CASE FetchFails(c)
  BY <1>0, <1>5, Constants DEF FetchFails, Unlink, CreateTmp, OpenTmp
<1>6. CASE Parse(c) \/ ParseFails(c)
  BY <1>0, <1>6 DEF Parse, ParseFails, Readable, CreateTmp, OpenTmp
<1>7. CASE UnlinkTmp(c)
  BY <1>0, <1>7, Constants DEF UnlinkTmp, Unlink, CreateTmp, OpenTmp
<1> QED
  BY <1>1, <1>2, <1>3, <1>4, <1>5, <1>6, <1>7 DEF Reads

LEMMA ReadsIInv ==
    ASSUME IInv, NEW c \in Clients, Reads(c)
    PROVE  IInv'
<1> USE DEF IInv
<1>0. MyQueue(c) \in Queues /\ MyQueue(c)' = MyQueue(c)
  BY ReadsFrame DEF TypeOK, MyQueue, Requests
<1> DEFINE Steps == {"idle", "open", "fetch", "parse", "unlink", "init", "uri"}
<1>1. PICK s \in Steps :
         /\ pc' = [pc EXCEPT ![c] = s]
         /\ s = "open" => CreateTmp(c)
         /\ s = "fetch" => OpenTmp(c)
         /\ s = "parse" => Fetch(c)
         /\ s = "unlink" => pc[c] = "parse"
         /\ s = "uri" => pc[c] = "unlink"
  BY ReadsPc
<1>2. TypeOK'
  <2>1. got' \in [Clients -> PPDs \union {NoPPD}]
    BY ReadsFiles, <1>0, Constants DEF TypeOK, Files, NoFile, MyFile
  <2>2. pc' \in [Clients -> {"idle", "probe", "create", "open", "fetch",
                            "parse", "unlink", "init", "uri", "ppd", "file",
                            "info", "command", "delete"}]
    BY <1>1 DEF TypeOK
  <2> QED
    BY <2>1, <2>2, ReadsFrame, ReadsPc, ReadsFiles DEF TypeOK
<1>3. FileOwned'
  <2> SUFFICES ASSUME NEW d \in Clients, pc'[d] = "fetch", d \notin gone'
               PROVE  tmp'[MyQueue(d)].owner = user[d]
    BY ReadsFrame DEF FileOwned, MyFile, MyQueue
  <2>1. CASE d = c
    BY <2>1, <1>0, <1>1, ReadsFiles DEF TypeOK
  <2>2. CASE d # c
    <3>1. MyQueue(d) \in Queues /\ pc[d] = "fetch"
      BY <1>1, <2>2 DEF TypeOK, MyQueue, Requests
    <3>2. tmp[MyQueue(d)].owner = user[d] \/ d \in gone
      BY <3>1 DEF FileOwned, MyFile
    <3>3. user[d] # NoOwner
      BY DEF TypeOK
    <3> QED
      BY <2>2, <3>1, <3>2, <3>3, ReadsFiles DEF NoFile
  <2> QED
    BY <2>1, <2>2
<1>4. NowSeen'
  BY <1>1, ReadsFrame, ReadsPc DEF NowSeen, MyQueue, TypeOK
<1>5. FileSeen'
  <2> SUFFICES ASSUME NEW d \in Clients, pc'[d] \in {"open", "fetch", "parse"}
               PROVE  tmp'[MyQueue(d)].holds \in seen[d] \union {Empty}
    BY ReadsFrame DEF FileSeen, MyFile, MyQueue
  <2>1. MyQueue(d) \in Queues
    BY DEF TypeOK, MyQueue, Requests
  <2>2. CASE d = c /\ (CreateTmp(c) \/ OpenTmp(c))
    BY <2>2, ReadsFiles
  <2>3. pc[d] # "idle"
    BY <1>1, ReadsPc DEF TypeOK
  <2>4. \/ pc[d] \in {"open", "fetch", "parse"}
        \/ d = c /\ (CreateTmp(c) \/ OpenTmp(c))
    BY <1>1 DEF TypeOK, Fetch
  <2> QED
    BY <2>1, <2>2, <2>3, <2>4, ReadsFiles DEF NowSeen, FileSeen, MyFile
<1>6. PpdIsCurrent'
  BY ReadsFrame, ReadsFiles DEF PpdIsCurrent, FileSeen, TypeOK
<1>7. PpdGiven'
  BY <1>1, ReadsFrame DEF PpdGiven, TypeOK
<1>8. PpdBeforeUri'
  <2> SUFFICES ASSUME pdfExists, faults = 0, NEW d \in Clients,
                      pc'[d] \in {"parse", "unlink", "uri"},
                      MyQueue(d) \notin removed
               PROVE  queue[MyQueue(d)].ppd # NoPPD
    BY ReadsFrame DEF PpdBeforeUri, MyQueue
  <2>1. CASE pc[d] \in {"parse", "unlink", "uri"}
    BY <2>1 DEF PpdBeforeUri
  <2>2. CASE d = c /\ Fetch(c)
    BY <2>2 DEF Fetch
  <2> QED
    BY <1>1, <2>1, <2>2 DEF TypeOK
<1>9. SharedStays'
  BY ReadsFrame DEF SharedStays
<1> QED
  BY <1>2, <1>3, <1>4, <1>5, <1>6, <1>7, <1>8, <1>9

-----------------------------------------------------------------------------
(* The steps that change a queue.                                          *)

(* A record that is served in the place of queue q takes neither its PPD   *)
(* nor, where a URI never comes without a PPD, its sharing.                *)
Fits(q, r) == r # Absent =>
    /\ queue[q].ppd # NoPPD => r.ppd # NoPPD
    /\ pdfExists /\ faults = 0 /\ q \notin removed => r.shared

(* What all these steps, and Probe, have in common: r is what the queue    *)
(* becomes, if it is served, and s where the call goes on.                 *)
Shape(c, r, s) ==
    /\ Serve(MyQueue(c), r) \/ NotServed
    /\ UNCHANGED <<alone, faults>> \/ Fault(c)
    /\ pc[c] # "idle" /\ pc' = [pc EXCEPT ![c] = s]
    /\ ended' \in [Clients -> {"running", "return", "throw"}]
    /\ UNCHANGED requestKeeps

LEMMA ToModifyFits ==
    ASSUME TypeOK, SharedStays, NEW q \in Queues
    PROVE  /\ ToModify(q) \in Records /\ ToModify(q).ppd = queue[q].ppd
           /\ pdfExists /\ faults = 0 /\ q \notin removed => ToModify(q).shared
BY Constants DEF ToModify, TypeOK, SharedStays

LEMMA WithPpdFits ==
    ASSUME TypeOK, SharedStays, NEW q \in Queues, NEW p \in PPDs
    PROVE  /\ WithPpd(q, p) \in Records /\ WithPpd(q, p).ppd = p
           /\ Fits(q, WithPpd(q, p))
BY ToModifyFits, Constants DEF WithPpd, Fits, Records

LEMMA WithUriFits ==
    ASSUME TypeOK, SharedStays, NEW q \in Queues, NEW u \in URIs,
           pdfExists /\ faults = 0 /\ q \notin removed => queue[q].ppd # NoPPD
    PROVE  WithUri(q, u) \in Records /\ Fits(q, WithUri(q, u))
<1> DEFINE r == ToModify(q)
           new == [r EXCEPT !.uri = u,
                            !.shared = @ /\ (u \in RemoteURIs => r.ppd # NoPPD)]
<1>1. /\ r \in Records /\ r.ppd = queue[q].ppd
      /\ pdfExists /\ faults = 0 /\ q \notin removed => r.shared
  BY ToModifyFits
<1>2. new \in Records /\ new.ppd = r.ppd
      /\ (new.shared <=> r.shared /\ (u \in RemoteURIs => r.ppd # NoPPD))
  BY <1>1 DEF Records
<1>3. WithUri(q, u) = new
  BY DEF WithUri
<1> HIDE DEF new, r
<1> QED
  BY <1>1, <1>2, <1>3 DEF Fits

LEMMA ChangesShape ==
    ASSUME IInv, NEW c \in Clients, Changes(c) \/ Probe(c)
    PROVE  \E r \in Records \union {Absent},
              s \in {"idle", "create", "uri", "ppd"} :
              /\ Shape(c, r, s) /\ Fits(MyQueue(c), r)
              /\ s = "ppd" => call[c].ppd # NoPPD
              /\ \/ s # "uri" \/ ~pdfExists \/ faults' > 0
                 \/ Serve(MyQueue(c), r) /\ r.ppd # NoPPD
<1> DEFINE q == MyQueue(c)
<1>0. q \in Queues /\ call[c].uri \in URIs /\ faults \in Nat
      /\ call[c].ppd \in PPDs \union {NoPPD}
  BY Constants DEF IInv, TypeOK, MyQueue, Requests
<1> USE DEF Shape, Done, Failed, GoesOn, Ends, IInv
<1>1. CASE Probe(c)
  <2>1. Fits(q, Absent)
    BY DEF Fits
  <2> QED
    BY <1>1, <2>1 DEF Probe, TypeOK
<1>2. CASE InitPpd(c)
  <2>1. WithPpd(q, Default) \in Records /\ Fits(q, WithPpd(q, Default))
        /\ WithPpd(q, Default).ppd # NoPPD
    BY <1>0, WithPpdFits, Constants
  <2> QED
    BY <1>0, <1>2, <2>1 DEF InitPpd, TypeOK, Fault
<1>3. CASE InitNotFound(c)
  <2>1. Fits(q, Absent)
    BY DEF Fits
  <2> QED
    <3>1. Shape(c, Absent, "uri")
      BY <1>3 DEF InitNotFound, TypeOK
    <3>2. ~pdfExists
      BY <1>3 DEF InitNotFound
    <3> HIDE DEF Shape
    <3> QED
      BY <2>1, <3>1, <3>2
<1>4. CASE SetUri(c)
  <2>1. WithUri(q, call[c].uri) \in Records
        /\ Fits(q, WithUri(q, call[c].uri))
    BY <1>0, <1>4, WithUriFits DEF SetUri, PpdBeforeUri
  <2> QED
    BY <1>0, <1>4, <2>1 DEF SetUri, TypeOK
<1>5. CASE SetPpd(c) \/ SetPpdFromFile(c)
  <2>1. WithPpd(q, call[c].ppd) \in Records
        /\ Fits(q, WithPpd(q, call[c].ppd))
    BY <1>0, <1>5, WithPpdFits DEF SetPpd, SetPpdFromFile, PpdGiven
  <2> QED
    BY <1>0, <1>5, <2>1 DEF SetPpd, SetPpdFromFile, TypeOK
<1>6. CASE SetInfo(c)
  <2>1. ToModify(q) \in Records /\ Fits(q, ToModify(q))
    BY <1>0, ToModifyFits DEF Fits
  <2> QED
    BY <1>0, <1>6, <2>1 DEF SetInfo, TypeOK
<1>7. CASE SendPrinterCommand(c)
  <2> DEFINE r == ToModify(q)
             new == Commanded(r, call[c].kind)
  <2>1. r \in Records /\ Fits(q, r)
    BY <1>0, ToModifyFits DEF Fits
  <2>2. new \in Records /\ new.ppd = r.ppd /\ new.shared = r.shared
    BY <2>1 DEF Records, Commanded
  <2>3. Fits(q, new)
    BY <2>1, <2>2, Constants DEF Fits
  <2>4. OnExisting(c, new) /\ pc[c] # "idle"
    BY <1>7 DEF SendPrinterCommand
  <2> HIDE DEF new
  <2> QED
    BY <1>0, <2>2, <2>3, <2>4 DEF OnExisting, TypeOK
<1>8. CASE DeletePrinter(c)
  <2>1. Fits(q, Absent)
    BY DEF Fits
  <2> QED
    BY <1>8, <2>1 DEF DeletePrinter, OnExisting, TypeOK
<1> QED
  BY <1>1, <1>2, <1>3, <1>4, <1>5, <1>6, <1>7, <1>8 DEF Changes

LEMMA ChangesIInv ==
    ASSUME IInv, NEW c \in Clients, Changes(c) \/ Probe(c)
    PROVE  IInv'
<1> USE DEF IInv
<1> DEFINE q == MyQueue(c)
<1>0. q \in Queues
  BY DEF TypeOK, MyQueue, Requests
<1>1. PICK r \in Records \union {Absent},
           s \in {"idle", "create", "uri", "ppd"} :
         /\ Shape(c, r, s) /\ Fits(q, r)
         /\ s = "ppd" => call[c].ppd # NoPPD
         /\ \/ s # "uri" \/ ~pdfExists \/ faults' > 0
            \/ Serve(q, r) /\ r.ppd # NoPPD
  BY ChangesShape
<1>2. /\ pc[c] # "idle" /\ pc' = [pc EXCEPT ![c] = s]
      /\ ended' \in [Clients -> {"running", "return", "throw"}]
      /\ UNCHANGED <<pdfExists, user, tmp, gone, call, base, got, calls>>
  BY <1>1 DEF Shape, requestKeeps, keeps
<1>3. /\ faults' \in 0..MaxFaults /\ (faults' = 0 => faults = 0)
      /\ alone' \in [Clients -> BOOLEAN]
  <2>1. CASE UNCHANGED <<alone, faults>>
    BY <2>1 DEF TypeOK
  <2>2. CASE Fault(c)
    <3>1. alone' \in [Clients -> BOOLEAN]
      BY <2>2 DEF Fault, TypeOK
    <3> QED
      BY <2>2, <3>1 DEF Fault, TypeOK
  <2> QED
    BY <1>1, <2>1, <2>2 DEF Shape
<1>4. r.ppd \in PPDs \union {NoPPD}
  BY Constants DEF Records
<1>6. /\ queue' \in [Queues -> Records \union {Absent}]
      /\ removed' \subseteq Queues /\ removed \subseteq removed'
      /\ seen' \in [Clients -> SUBSET (PPDs \union {NoPPD})]
      /\ \A d \in Clients : seen[d] \subseteq seen'[d]
      /\ \A p \in Queues : p # q => queue'[p] = queue[p]
      /\ \/ queue'[q] = queue[q]
         \/ /\ queue'[q] = r /\ (r = Absent => q \in removed')
            /\ \A d \in Clients : pc[d] # "idle" /\ MyQueue(d) = q
                                     => r.ppd \in seen'[d]
  <2>1. CASE NotServed
    BY <2>1 DEF NotServed, TypeOK
  <2>2. CASE Serve(q, r)
    BY <2>2, <1>0, <1>4 DEF Serve, TypeOK
  <2> QED
    BY <1>1, <2>1, <2>2 DEF Shape
<1>7. TypeOK'
  <2>1. pc' \in [Clients -> {"idle", "probe", "create", "open", "fetch",
                            "parse", "unlink", "init", "uri", "ppd", "file",
                            "info", "command", "delete"}]
    BY <1>2 DEF TypeOK
  <2> QED
    BY <2>1, <1>2, <1>3, <1>6 DEF TypeOK
<1>8. \A d \in Clients : MyQueue(d) \in Queues /\ MyQueue(d)' = MyQueue(d)
  BY <1>2 DEF TypeOK, MyQueue, Requests
<1>9. FileOwned' /\ FileSeen'
  <2>1. \A d \in Clients :
          pc'[d] \in {"open", "fetch", "parse"} => pc'[d] = pc[d]
    BY <1>2 DEF TypeOK
  <2>2. \A d \in Clients : MyFile(d)' = MyFile(d)
    BY <1>2 DEF MyFile, MyQueue
  <2> QED
    BY <1>2, <1>6, <2>1, <2>2 DEF FileOwned, FileSeen
<1>10. NowSeen'
  BY <1>2, <1>6, <1>8 DEF NowSeen, TypeOK
<1>11. PpdIsCurrent'
  BY <1>2, <1>6 DEF PpdIsCurrent
<1>12. PpdGiven'
  BY <1>1, <1>2 DEF PpdGiven, TypeOK
<1>13. PpdBeforeUri'
  <2> SUFFICES ASSUME pdfExists, faults' = 0, NEW d \in Clients,
                      pc'[d] \in {"parse", "unlink", "uri"},
                      MyQueue(d) \notin removed'
               PROVE  queue'[MyQueue(d)].ppd # NoPPD
    BY <1>2, <1>8 DEF PpdBeforeUri
  <2>1. faults = 0 /\ MyQueue(d) \notin removed
    BY <1>3, <1>6
  <2>2. CASE d = c /\ s = "uri"
    <3>1. Serve(q, r) /\ r.ppd # NoPPD
      BY <1>1, <2>2
    <3> QED
      BY <1>0, <2>2, <3>1 DEF Serve, TypeOK
  <2>3. CASE pc[d] \in {"parse", "unlink", "uri"}
    <3>1. queue[MyQueue(d)].ppd # NoPPD
      BY <2>1, <2>3 DEF PpdBeforeUri
    <3> QED
      BY <1>1, <1>6, <1>8, <3>1 DEF Fits
  <2> QED
    BY <1>2, <2>2, <2>3 DEF TypeOK
<1>14. SharedStays'
  <2> SUFFICES ASSUME pdfExists, faults' = 0, NEW p \in Queues,
                      queue'[p] # Absent, p \notin removed'
               PROVE  queue'[p].shared
    BY <1>2 DEF SharedStays
  <2>1. faults = 0 /\ p \notin removed
    BY <1>3, <1>6
  <2>2. CASE queue'[p] = queue[p]
    BY <2>1, <2>2 DEF SharedStays
  <2>3. CASE p = q /\ queue'[q] = r
    BY <1>1, <2>1, <2>3 DEF Fits
  <2> QED
    BY <1>6, <2>2, <2>3
<1> QED
  BY <1>7, <1>9, <1>10, <1>11, <1>12, <1>13, <1>14

-----------------------------------------------------------------------------
LEMMA BeginIInv ==
    ASSUME IInv, NEW c \in Clients, Begin(c)
    PROVE  IInv'
<1> USE DEF IInv
<1>1. PICK k \in Kinds, q \in Queues, u \in URIs,
           p \in Models \union {NoPPD} :
         /\ k \notin Setters => u = CHOOSE v \in URIs : TRUE
         /\ k \in {"setPPD", "setPPDFromFile"} => p # NoPPD
         /\ k \notin {"addPrinter", "setPPD", "setPPDFromFile"} => p = NoPPD
         /\ call' = [call EXCEPT ![c] = [kind |-> k, queue |-> q, uri |-> u,
                                         ppd |-> p]]
         /\ pc' = [pc EXCEPT ![c] = FirstStep[k]]
         /\ base' = [base EXCEPT ![c] = queue[q]]
         /\ seen' = [seen EXCEPT ![c] = {queue[q].ppd}]
         /\ alone' = [d \in Clients |->
                         IF d = c THEN \A e \in Clients \ {c} :
                                         pc[e] = "idle" \/ MyQueue(e) # q
                         ELSE alone[d] /\ MyQueue(d) # q]
  BY Zenon DEF Begin
<1>2. /\ pc[c] = "idle" /\ got' = [got EXCEPT ![c] = NoPPD]
      /\ ended' = [ended EXCEPT ![c] = "running"]
      /\ calls' \in 0..MaxCalls
      /\ UNCHANGED <<queue, removed, pdfExists, user, tmp, gone, faults>>
  BY DEF Begin, cupsd, TypeOK
<1>3. /\ FirstStep[k] \in {"probe", "create", "ppd", "file", "info",
                           "command", "delete"}
      /\ FirstStep[k] \in {"ppd", "file"} => p # NoPPD
  <2>1. k \in {"setPPD", "setPPDFromFile"} \/ k \in
            {"addPrinter", "setDeviceURI", "setInfo", "accept", "reject",
             "enable", "disable", "deletePrinter", "getPPD", "getPPDOptions"}
    OBVIOUS
  <2>2. CASE k \in {"setPPD", "setPPDFromFile"}
    BY <1>1, <2>2 DEF FirstStep
  <2>3. CASE k \in {"addPrinter", "setDeviceURI", "setInfo", "accept",
                    "reject", "enable", "disable", "deletePrinter", "getPPD",
                    "getPPDOptions"}
    BY <2>3 DEF FirstStep
  <2> QED
    BY <2>1, <2>2, <2>3
<1>4. queue[q].ppd \in PPDs \union {NoPPD}
  BY Constants DEF TypeOK, Records
<1>5. TypeOK'
  <2>1. alone' \in [Clients -> BOOLEAN]
    BY <1>1, Zenon
  <2>2. call' \in [Clients -> Requests]
    BY <1>1 DEF TypeOK, Requests
  <2>3. pc' \in [Clients -> {"idle", "probe", "create", "open", "fetch",
                            "parse", "unlink", "init", "uri", "ppd", "file",
                            "info", "command", "delete"}]
    BY <1>1, <1>3 DEF TypeOK
  <2>4. seen' \in [Clients -> SUBSET (PPDs \union {NoPPD})]
    BY <1>1, <1>4 DEF TypeOK
  <2>5. /\ base' \in [Clients -> Records \union {Absent}]
        /\ got' \in [Clients -> PPDs \union {NoPPD}]
        /\ ended' \in [Clients -> {"running", "return", "throw"}]
    BY <1>1, <1>2 DEF TypeOK
  <2> QED
    BY <1>2, <2>1, <2>2, <2>3, <2>4, <2>5 DEF TypeOK
<1>6. \A d \in Clients \ {c} :
        /\ pc'[d] = pc[d] /\ call'[d] = call[d] /\ seen'[d] = seen[d]
        /\ got'[d] = got[d]
  BY <1>1, <1>2 DEF TypeOK
<1>7. /\ pc'[c] = FirstStep[k] /\ call'[c].queue = q /\ call'[c].ppd = p
      /\ seen'[c] = {queue[q].ppd} /\ got'[c] = NoPPD
  BY <1>1, <1>2 DEF TypeOK
<1>8. FileOwned' /\ FileSeen' /\ NowSeen'
  BY <1>2, <1>3, <1>6, <1>7 DEF FileOwned, FileSeen, NowSeen, MyFile, MyQueue
<1>9. PpdIsCurrent' /\ PpdGiven'
  BY <1>3, <1>6, <1>7 DEF PpdIsCurrent, PpdGiven
<1>10. PpdBeforeUri'
  BY <1>2, <1>3, <1>6, <1>7 DEF PpdBeforeUri, MyQueue
<1>11. SharedStays'
  BY <1>2 DEF SharedStays
<1> QED
  BY <1>5, <1>8, <1>9, <1>10, <1>11

LEMMA CleanTmpIInv ==
    ASSUME IInv, NEW q \in Queues, CleanTmp(q)
    PROVE  IInv'
<1> USE DEF IInv
<1>1. /\ tmp' = [tmp EXCEPT ![q] = NoFile]
      /\ gone' = gone \union {c \in Clients : MyQueue(c) = q}
      /\ faults' \in 0..MaxFaults /\ faults' # 0
      /\ UNCHANGED <<queue, removed, pdfExists, user, pc, ended, call, base,
                     got, seen, calls>>
  BY DEF CleanTmp, cupsd, keeps, TypeOK
<1>2. alone' \in [Clients -> BOOLEAN]
  BY Zenon DEF CleanTmp
<1>3. TypeOK'
  BY <1>1, <1>2 DEF TypeOK
<1>4. FileOwned' /\ FileSeen'
  BY <1>1, Constants DEF FileOwned, FileSeen, MyFile, MyQueue, TypeOK
<1>5. NowSeen' /\ PpdIsCurrent' /\ PpdGiven'
  BY <1>1 DEF NowSeen, PpdIsCurrent, PpdGiven, MyQueue
<1>6. PpdBeforeUri' /\ SharedStays'
  BY <1>1 DEF PpdBeforeUri, SharedStays
<1> QED
  BY <1>3, <1>4, <1>5, <1>6

LEMMA Inductive == IInv /\ [Next]_vars => IInv'
<1> SUFFICES ASSUME IInv, [Next]_vars PROVE IInv'
  OBVIOUS
<1>1. CASE \E c \in Clients : Begin(c) \/ Reads(c) \/ Probe(c) \/ Changes(c)
  BY <1>1, BeginIInv, ReadsIInv, ChangesIInv
<1>2. CASE \E q \in Queues : CleanTmp(q)
  BY <1>2, CleanTmpIInv
<1>3. CASE UNCHANGED vars
  BY <1>3 DEF vars, cupsd, client, IInv, TypeOK, FileOwned, NowSeen, FileSeen,
     PpdIsCurrent, PpdGiven, PpdBeforeUri, SharedStays, MyFile, MyQueue
<1> QED
  BY <1>1, <1>2, <1>3 DEF Next

LEMMA Invariance == Spec => []IInv
<1> QED
  BY InitIInv, Inductive, PTL DEF Spec

(* Whatever the programs do to the file they share, and whenever it is     *)
(* removed: a PPD that getPPD(), getPPDNickname(), getPPDOptions() or      *)
(* setDeviceURI() goes by is one the queue had since that call began.      *)
THEOREM PpdCurrent == Spec => [](TypeOK /\ PpdIsCurrent)
<1>1. IInv => TypeOK /\ PpdIsCurrent
  BY DEF IInv
<1> QED
  BY <1>1, Invariance, PTL

(* As long as no request fails, a queue that is not removed is never given *)
(* a URI before it has a PPD, by any number of programs: cupsd has no      *)
(* reason to take it for a remote queue without a filter and to end its    *)
(* sharing.                                                                *)
THEOREM SharingKept == Spec => []SharedStays
<1>1. IInv => SharedStays
  BY DEF IInv
<1> QED
  BY <1>1, Invariance, PTL

-----------------------------------------------------------------------------
(* What a call that is alone on its queue leaves, for ReturnedAsAsked.     *)

(* A call is at a step that its method has, with a PPD if it sets one.     *)
KindFits == \A c \in Clients :
    LET kind == call[c].kind IN
    /\ pc[c] = "probe" => kind = "addPrinter"
    /\ pc[c] \in {"create", "open", "fetch", "parse", "unlink"}
          => kind \in Setters \union {"getPPD", "getPPDOptions"}
    /\ pc[c] = "unlink" => kind # "getPPDOptions"
    /\ pc[c] \in {"init", "uri"} => kind \in Setters
    /\ pc[c] = "ppd" => kind \in {"addPrinter", "setPPD"}
    /\ pc[c] = "file" => kind = "setPPDFromFile"
    /\ pc[c] = "info" => kind = "setInfo"
    /\ pc[c] = "command" => kind \in {"accept", "reject", "enable", "disable"}
    /\ pc[c] = "delete" => kind = "deletePrinter"
    /\ kind \in {"setPPD", "setPPDFromFile"} => call[c].ppd # NoPPD
    /\ kind \notin {"addPrinter", "setPPD", "setPPDFromFile"}
          => call[c].ppd = NoPPD
    /\ pc[c] # "idle" => ended[c] = "running"

AloneOnQueue == \A c, d \in Clients :
    alone[c] /\ c # d /\ pc[d] # "idle" => MyQueue(d) # MyQueue(c)

OneOwner == OneUser => \A q \in Queues, c \in Clients :
    tmp[q] # NoFile => tmp[q].owner = user[c]

(* The queue has kept what setDeviceURI() and addPrinter() do not set.     *)
StillServes(c) == base[c] # Absent =>
    LET now == queue[MyQueue(c)] IN
    /\ now # Absent
    /\ now.accepting = base[c].accepting /\ now.enabled = base[c].enabled

(* A PPD that setDeviceURI() replaces.                                     *)
ToReplace(c) == base[c].ppd \in Nameless \union {NoPPD}

(* How far a call has come: up to its first change the queue is as it was, *)
(* and the file in /tmp is its own and holds what it has fetched.          *)
Reached(c) ==
    LET now == queue[MyQueue(c)] IN
    /\ pc[c] \notin {"idle", "uri"} /\ ~(pc[c] = "ppd" /\ call[c].kind = "addPrinter")
          => now = base[c]
    /\ pc[c] = "open" => MyFile(c) # NoFile
    /\ pc[c] = "fetch" => c \notin gone
    /\ pc[c] = "parse" => base[c].ppd # NoPPD /\ MyFile(c).holds = base[c].ppd
    /\ pc[c] = "unlink" => base[c].ppd # NoPPD /\ got[c] = base[c].ppd
    /\ pc[c] = "init" => ToReplace(c)
    /\ pc[c] = "uri" =>
          /\ now.ppd = IF ToReplace(c) /\ pdfExists THEN Default ELSE base[c].ppd
          /\ StillServes(c)
    /\ pc[c] = "ppd" /\ call[c].kind = "addPrinter" =>
          now # Absent /\ now.uri = call[c].uri /\ StillServes(c)

(* What ReturnedAsAsked says of one program.                               *)
AsAsked(c) ==
    LET now == queue[MyQueue(c)]  kind == call[c].kind IN
    /\ kind = "deletePrinter" => now = Absent
    /\ kind \in {"getPPD", "getPPDOptions"} => now = base[c]
    /\ kind \notin {"deletePrinter", "getPPD", "getPPDOptions"} =>
         /\ now # Absent
         /\ now.ppd = PpdAsked(c)
         /\ kind \in Setters => now.uri = call[c].uri
         /\ kind \notin Setters /\ base[c] # Absent => now.uri = base[c].uri
         /\ base[c] # Absent =>
              LET asked == Commanded(base[c], kind) IN
              now.accepting = asked.accepting /\ now.enabled = asked.enabled

OnItsWay == OneUser => \A c \in Clients : alone[c] =>
    Reached(c) /\ (ended[c] = "return" => AsAsked(c))

Asked == KindFits /\ AloneOnQueue /\ OneOwner /\ OnItsWay

LEMMA InitAsked == Init => Asked
<1> SUFFICES ASSUME Init PROVE Asked
  OBVIOUS
<1>1. KindFits
  BY DEF Init, KindFits
<1>2. AloneOnQueue /\ OneOwner /\ OnItsWay
  BY DEF Init, AloneOnQueue, OneOwner, OnItsWay
<1> QED
  BY <1>1, <1>2 DEF Asked

(* What a call has come to is about itself, its queue and the queue's file *)
(* only.                                                                   *)
LEMMA ReachedStays ==
    ASSUME NEW c \in Clients,
           pc'[c] = pc[c], call'[c] = call[c], base'[c] = base[c],
           got'[c] = got[c], ended'[c] = ended[c], pdfExists' = pdfExists,
           queue'[call[c].queue] = queue[call[c].queue],
           tmp'[call[c].queue] = tmp[call[c].queue],
           c \in gone' <=> c \in gone
    PROVE  /\ Reached(c) => Reached(c)'
           /\ AsAsked(c) => AsAsked(c)'
<1>1. Reached(c) => Reached(c)'
  BY DEF Reached, StillServes, ToReplace, MyFile, MyQueue
<1>2. AsAsked(c) => AsAsked(c)'
  BY DEF AsAsked, PpdAsked, Commanded, MyQueue
<1> QED
  BY <1>1, <1>2

(* A step of a call disturbs no other call that is alone on its queue.     *)
Disturbs(c) ==
    /\ pc[c] # "idle"
    /\ UNCHANGED <<user, call, base, pdfExists>>
    /\ \A d \in Clients : alone'[d] => alone[d]
    /\ \A d \in Clients \ {c} :
          /\ pc'[d] = pc[d] /\ ended'[d] = ended[d] /\ got'[d] = got[d]
          /\ MyQueue(d) # MyQueue(c) =>
                /\ queue'[MyQueue(d)] = queue[MyQueue(d)]
                /\ tmp'[MyQueue(d)] = tmp[MyQueue(d)]
                /\ d \in gone' <=> d \in gone

LEMMA FaultEndsAlone ==
    ASSUME TypeOK, NEW c \in Clients, Fault(c)
    PROVE  ~alone'[c] /\ \A d \in Clients : alone'[d] => alone[d]
BY DEF Fault, TypeOK

LEMMA UnlinkFrame ==
    ASSUME TypeOK, NEW c \in Clients, Unlink(c)
    PROVE  /\ \A d \in Clients : MyQueue(d) # MyQueue(c) =>
                /\ tmp'[MyQueue(d)] = tmp[MyQueue(d)]
                /\ d \in gone' <=> d \in gone
           /\ \A q \in Queues : tmp'[q] \in {tmp[q], NoFile}
<1>1. \A d \in Clients : MyQueue(d) \in Queues
  BY DEF TypeOK, MyQueue, Requests
<1> QED
  BY <1>1 DEF Unlink, TypeOK

LEMMA ReadsDisturb ==
    ASSUME IInv, NEW c \in Clients, Reads(c)
    PROVE  Disturbs(c)
<1> USE DEF IInv, cupsd, keeps, GoesOn, Ends, ReadFails
<1>0. \A d \in Clients : MyQueue(d) \in Queues
  BY DEF TypeOK, MyQueue, Requests
<1>1. pc[c] # "idle" /\ UNCHANGED <<queue, user, call, base, pdfExists>>
  BY ReadsPc, ReadsFrame
<1>2. \A d \in Clients : alone'[d] => alone[d]
  <2>1. UNCHANGED alone \/ Fault(c)
    BY DEF Reads, CreateTmp, CreateFails, OpenTmp, OpenFails, Fetch,
           FetchFails, Parse, ParseFails, UnlinkTmp
  <2> QED
    BY <2>1, FaultEndsAlone
<1>3. \A d \in Clients \ {c} :
         pc'[d] = pc[d] /\ ended'[d] = ended[d] /\ got'[d] = got[d]
  <2>1. CASE CreateTmp(c) \/ CreateFails(c) \/ OpenTmp(c) \/ OpenFails(c)
    BY <2>1 DEF CreateTmp, CreateFails, OpenTmp, OpenFails, TypeOK
  <2>2. CASE Fetch(c) \/ FetchFails(c)
    BY <2>2 DEF Fetch, FetchFails, TypeOK
  <2>3. CASE Parse(c) \/ ParseFails(c) \/ UnlinkTmp(c)
    BY <2>3 DEF Parse, ParseFails, UnlinkTmp, TypeOK
  <2> QED
    BY <2>1, <2>2, <2>3 DEF Reads
<1>4. \A d \in Clients \ {c} : MyQueue(d) # MyQueue(c) =>
         tmp'[MyQueue(d)] = tmp[MyQueue(d)] /\ (d \in gone' <=> d \in gone)
  <2>1. CASE CreateTmp(c) \/ CreateFails(c) \/ OpenTmp(c) \/ OpenFails(c)
    BY <1>0, <2>1 DEF CreateTmp, CreateFails, OpenTmp, OpenFails, TypeOK
  <2>2. CASE Fetch(c) \/ Parse(c) \/ ParseFails(c)
    BY <1>0, <2>2 DEF Fetch, Parse, ParseFails, TypeOK
  <2>3. CASE FetchFails(c) \/ UnlinkTmp(c)
    BY <2>3, UnlinkFrame DEF FetchFails, UnlinkTmp
  <2> QED
    BY <2>1, <2>2, <2>3 DEF Reads
<1> QED
  BY <1>1, <1>2, <1>3, <1>4 DEF Disturbs

LEMMA ChangesDisturb ==
    ASSUME IInv, NEW c \in Clients, Changes(c) \/ Probe(c)
    PROVE  Disturbs(c) /\ UNCHANGED <<tmp, gone, got>>
<1> USE DEF IInv
<1>0. \A d \in Clients : MyQueue(d) \in Queues
  BY DEF TypeOK, MyQueue, Requests
<1>1. PICK r \in Records \union {Absent},
           s \in {"idle", "create", "uri", "ppd"} : Shape(c, r, s)
  BY ChangesShape
<1>2. /\ pc[c] # "idle" /\ pc' = [pc EXCEPT ![c] = s]
      /\ UNCHANGED <<pdfExists, user, tmp, gone, call, base, got>>
  BY <1>1 DEF Shape, requestKeeps, keeps
<1>3. \A d \in Clients : alone'[d] => alone[d]
  BY <1>1, FaultEndsAlone DEF Shape
<1>4. \A q \in Queues : q # MyQueue(c) => queue'[q] = queue[q]
  BY <1>1 DEF Shape, Serve, NotServed, TypeOK
<1>5. \A d \in Clients \ {c} : ended'[d] = ended[d]
  <2>1. UNCHANGED ended \/ \E how \in {"return", "throw"} : Ends(c, how)
    BY DEF Changes, Probe, InitPpd, InitNotFound, SetUri, SetPpd,
       SetPpdFromFile, SetInfo, SendPrinterCommand, DeletePrinter, OnExisting,
       GoesOn
  <2> QED
    BY <2>1 DEF Ends, TypeOK
<1> QED
  BY <1>0, <1>2, <1>3, <1>4, <1>5 DEF Disturbs, TypeOK

(* The parts of Asked that a step leaves to be shown of its own call only. *)
LEMMA OthersOnTheirWay ==
    ASSUME TypeOK, Asked, NEW c \in Clients, Disturbs(c)
    PROVE  /\ AloneOnQueue'
           /\ OneUser' <=> OneUser
           /\ OneUser => \A d \in Clients \ {c} : alone'[d] =>
                 Reached(d)' /\ (ended'[d] = "return" => AsAsked(d)')
<1>1. AloneOnQueue'
  <2>1. \A d \in Clients : MyQueue(d)' = MyQueue(d)
                           /\ (pc'[d] # "idle" => pc[d] # "idle")
    BY DEF Disturbs, MyQueue
  <2> QED
    BY <2>1 DEF Asked, AloneOnQueue, Disturbs
<1>2. OneUser' <=> OneUser
  BY DEF OneUser, Disturbs
<1>3. ASSUME OneUser, NEW d \in Clients \ {c}, alone'[d]
      PROVE  Reached(d)' /\ (ended'[d] = "return" => AsAsked(d)')
  <2>1. alone[d]
    BY <1>3 DEF Disturbs
  <2>2. MyQueue(d) # MyQueue(c)
    BY <1>3, <2>1 DEF Disturbs, Asked, AloneOnQueue
  <2>3. Reached(d) /\ (ended[d] = "return" => AsAsked(d))
    BY <1>3, <2>1 DEF Asked, OnItsWay
  <2>4. /\ pc'[d] = pc[d] /\ call'[d] = call[d] /\ base'[d] = base[d]
        /\ got'[d] = got[d] /\ ended'[d] = ended[d] /\ pdfExists' = pdfExists
        /\ queue'[call[d].queue] = queue[call[d].queue]
        /\ tmp'[call[d].queue] = tmp[call[d].queue]
        /\ d \in gone' <=> d \in gone
    BY <2>2 DEF Disturbs, MyQueue
  <2> QED
    BY <2>3, <2>4, ReachedStays
<1> QED
  BY <1>1, <1>2, <1>3

-----------------------------------------------------------------------------
(* Where one user runs all programs, a program alone on its queue writes   *)
(* to the queue's file whenever it wants to, and reads it whenever the     *)
(* queue has a PPD.                                                        *)
LEMMA ReadsKindFits ==
    ASSUME IInv, Asked, NEW c \in Clients, Reads(c)
    PROVE  KindFits'
<1> USE DEF IInv, Asked
<1>1. UNCHANGED call /\ Disturbs(c)
  BY ReadsFrame, ReadsDisturb
<1>2. ASSUME NEW k, k = call[c].kind
      PROVE  /\ pc'[c] = "idle" \/ ended'[c] = "running"
             /\ pc'[c] \in {"idle", "open", "fetch", "parse", "unlink", "init",
                            "uri"}
             /\ pc'[c] \in {"open", "fetch", "parse", "unlink"}
                    => k \in Setters \union {"getPPD", "getPPDOptions"}
             /\ pc'[c] = "unlink" => k # "getPPDOptions"
             /\ pc'[c] \in {"init", "uri"} => k \in Setters
  <2> USE DEF TypeOK, GoesOn, Ends, ReadFails
  <2>1. pc[c] \in {"create", "open", "fetch", "parse", "unlink"}
        /\ k \in Setters \union {"getPPD", "getPPDOptions"}
        /\ ended[c] = "running"
    <3>1. pc[c] \in {"create", "open", "fetch", "parse", "unlink"}
      BY DEF Reads, CreateTmp, CreateFails, OpenTmp, OpenFails, Fetch,
             FetchFails, Parse, ParseFails, UnlinkTmp
    <3> QED
      BY <1>2, <3>1 DEF KindFits
  <2>2. CASE CreateTmp(c) \/ CreateFails(c) \/ OpenTmp(c) \/ OpenFails(c)
    BY <1>2, <2>1, <2>2 DEF CreateTmp, CreateFails, OpenTmp, OpenFails
  <2>3. CASE Fetch(c) \/ FetchFails(c)
    BY <1>2, <2>1, <2>3 DEF Fetch, FetchFails
  <2>4. CASE Parse(c) \/ ParseFails(c) \/ UnlinkTmp(c)
    BY <1>2, <2>1, <2>4 DEF Parse, ParseFails, UnlinkTmp
  <2> QED
    BY <2>2, <2>3, <2>4 DEF Reads
<1>3. \A d \in Clients \ {c} : pc'[d] = pc[d] /\ ended'[d] = ended[d]
  BY <1>1 DEF Disturbs
<1> QED
  BY <1>1, <1>2, <1>3 DEF KindFits

LEMMA ReadsOneOwner ==
    ASSUME IInv, Asked, NEW c \in Clients, Reads(c)
    PROVE  OneOwner'
<1> USE DEF IInv, Asked
<1> SUFFICES ASSUME OneUser, NEW q \in Queues, NEW d \in Clients,
                    tmp'[q] # NoFile
             PROVE  tmp'[q].owner = user[d]
  BY ReadsFrame DEF OneOwner, OneUser
<1>1. user[d] = user[c] /\ MyQueue(c) \in Queues
  BY DEF OneUser, TypeOK, MyQueue, Requests
<1>2. CASE tmp'[q] = tmp[q]
  BY <1>2 DEF OneOwner
<1>3. CASE CreateTmp(c)
  BY <1>1, <1>2, <1>3 DEF CreateTmp, TypeOK
<1>4. CASE OpenTmp(c)
  <2>1. q # MyQueue(c) => tmp'[q] = tmp[q]
    BY <1>4 DEF OpenTmp, TypeOK
  <2> QED
    BY <1>1, <1>2, <1>4, <2>1, ReadsFiles
<1>5. CASE Fetch(c)
  <2>1. CASE c \in gone
    BY <1>2, <1>5, <2>1 DEF Fetch
  <2>2. CASE c \notin gone
    <3>1. tmp[MyQueue(c)].owner = user[c]
      BY <1>5, <2>2 DEF Fetch, FileOwned, MyFile
    <3>2. q # MyQueue(c) => tmp'[q] = tmp[q]
      BY <1>5 DEF Fetch, TypeOK
    <3>3. tmp'[MyQueue(c)].owner = tmp[MyQueue(c)].owner
      BY <1>1, <1>5 DEF Fetch, TypeOK, Files, NoFile
    <3> QED
      BY <1>1, <1>2, <3>1, <3>2, <3>3
  <2> QED
    BY <2>1, <2>2
<1>6. CASE FetchFails(c) \/ UnlinkTmp(c)
  BY <1>2, <1>6, UnlinkFrame DEF FetchFails, UnlinkTmp
<1>7. CASE CreateFails(c) \/ OpenFails(c) \/ Parse(c) \/ ParseFails(c)
  BY <1>2, <1>7 DEF CreateFails, OpenFails, Parse, ParseFails
<1> QED
  BY <1>3, <1>4, <1>5, <1>6, <1>7 DEF Reads

LEMMA ReadsOnItsWay ==
    ASSUME IInv, Asked, OneUser, NEW c \in Clients, Reads(c), alone'[c]
    PROVE  Reached(c)' /\ (ended'[c] = "return" => AsAsked(c)')
<1> USE DEF IInv, Asked, TypeOK
<1> DEFINE q == MyQueue(c)
           was == base[c].ppd
           kind == call[c].kind
<1>0. /\ q \in Queues /\ Disturbs(c)
      /\ UNCHANGED <<queue, pdfExists, user, call, base>>
  BY ReadsFrame, ReadsDisturb DEF MyQueue, Requests
<1>1. /\ alone[c] /\ Reached(c) /\ pc[c] \notin {"idle", "uri", "ppd"}
      /\ queue[q] = base[c] /\ was = queue[q].ppd
  <2>1. pc[c] \in {"create", "open", "fetch", "parse", "unlink"}
    BY DEF Reads, CreateTmp, CreateFails, OpenTmp, OpenFails, Fetch,
           FetchFails, Parse, ParseFails, UnlinkTmp
  <2> QED
    BY <1>0, <2>1 DEF Disturbs, OnItsWay, Reached
<1>2. MayWrite(c)
  BY <1>0 DEF MayWrite, MyFile, OneOwner
<1>3. ~Fault(c)
  BY FaultEndsAlone
<1>4. /\ ended[c] = "running"
      /\ kind \in {"getPPD", "getPPDOptions"} => call[c].ppd = NoPPD
  BY <1>1 DEF KindFits
(* The step that it comes to, in terms of the queue as it was.             *)
<1>5. ASSUME /\ queue'[q] = base'[c]
             /\ pc'[c] \in {"open", "fetch", "parse", "unlink", "init"}
             /\ ended'[c] = "running"
             /\ pc'[c] = "open" => tmp'[q] # NoFile
             /\ pc'[c] = "fetch" => c \notin gone'
             /\ pc'[c] = "parse" => was # NoPPD /\ tmp'[q].holds = was
             /\ pc'[c] = "unlink" => was # NoPPD /\ got'[c] = was
             /\ pc'[c] = "init" => was \in Nameless \union {NoPPD}
      PROVE  Reached(c)' /\ (ended'[c] = "return" => AsAsked(c)')
  BY <1>0, <1>5 DEF Reached, MyFile, MyQueue, ToReplace
<1>6. CASE CreateTmp(c)
  <2>1. tmp'[q] = [owner |-> user[c], holds |-> Empty]
    BY <1>0, <1>6 DEF CreateTmp
  <2>2. tmp'[q].owner # NoFile.owner
    BY <2>1, NamesAssumption DEF NoFile
  <2> QED
    BY <1>0, <1>1, <1>4, <1>5, <1>6, <2>2 DEF CreateTmp, GoesOn
<1>7. CASE OpenTmp(c)
  BY <1>0, <1>1, <1>4, <1>5, <1>7 DEF OpenTmp, GoesOn
<1>8. CASE Fetch(c)
  <2>1. c \notin gone /\ tmp[q] # NoFile
    <3>1. c \notin gone
      BY <1>1, <1>8 DEF Fetch, Reached
    <3>2. tmp[q].owner = user[c]
      BY <1>8, <3>1 DEF Fetch, FileOwned, MyFile
    <3> QED
      BY <3>1, <3>2, NamesAssumption DEF NoFile
  <2>2. tmp'[q].holds = was /\ was # NoPPD
    BY <1>0, <1>1, <1>8, <2>1 DEF Fetch, Files
  <2> QED
    BY <1>0, <1>1, <1>4, <1>5, <1>8, <2>2 DEF Fetch, GoesOn
<1>9. CASE FetchFails(c)
  <2>1. was = NoPPD
    BY <1>1, <1>3, <1>9 DEF FetchFails
  <2>2. CASE GoesOn(c, "init")
    BY <1>0, <1>1, <1>4, <1>5, <2>1, <2>2 DEF GoesOn
  <2>3. CASE Ends(c, "throw")
    BY <2>3 DEF Ends, Reached
  <2> QED
    BY <1>9, <2>2, <2>3 DEF FetchFails, ReadFails
<1>10. CASE Parse(c)
  <2>1. was # NoPPD /\ got'[c] = was
    BY <1>1, <1>10 DEF Parse, Reached
  <2>2. CASE GoesOn(c, "unlink")
    BY <1>0, <1>1, <1>4, <1>5, <2>1, <2>2 DEF GoesOn
  <2>3. CASE Ends(c, "return") /\ kind = "getPPDOptions"
    BY <1>0, <1>1, <2>3 DEF Ends, Reached, AsAsked, MyQueue
  <2> QED
    BY <1>10, <2>2, <2>3 DEF Parse
<1>11. CASE UnlinkTmp(c)
  <2>1. was # NoPPD /\ got[c] = was
    BY <1>1, <1>11 DEF UnlinkTmp, Reached
  <2>2. CASE Ends(c, "return") /\ kind = "getPPD"
    BY <1>0, <1>1, <2>2 DEF Ends, Reached, AsAsked, MyQueue
  <2>3. CASE got[c] \in Nameless /\ GoesOn(c, "init")
    BY <1>0, <1>1, <1>4, <1>5, <2>1, <2>3 DEF GoesOn
  <2>4. CASE got[c] \notin Nameless /\ GoesOn(c, "uri")
    BY <1>0, <1>1, <1>4, <2>1, <2>4
       DEF GoesOn, Reached, ToReplace, StillServes, MyQueue
  <2> QED
    BY <1>11, <2>2, <2>3, <2>4 DEF UnlinkTmp
(* Nothing else can happen to a call that is alone.                        *)
<1>12. ~CreateFails(c) /\ ~OpenFails(c) /\ ~ParseFails(c)
  <2>1. ~CreateFails(c)
    BY <1>2 DEF CreateFails
  <2>2. ~OpenFails(c)
    BY <1>1, <1>2 DEF OpenFails, Reached
  <2>3. ~ParseFails(c)
    <3>1. was # Empty
      BY <1>1, Constants DEF Records
    <3> QED
      BY <1>1, <3>1 DEF ParseFails, Readable, Reached
  <2> QED
    BY <2>1, <2>2, <2>3
<1> QED
  BY <1>6, <1>7, <1>8, <1>9, <1>10, <1>11, <1>12 DEF Reads

-----------------------------------------------------------------------------
(* What the requests leave of the rest of a queue.                         *)
LEMMA RequestsKeep ==
    ASSUME TypeOK, NEW q \in Queues
    PROVE  /\ ToModify(q) \in Records /\ ToModify(q) # Absent
           /\ ToModify(q).ppd = queue[q].ppd
           /\ queue[q] # Absent => ToModify(q) = queue[q]
           /\ \A p \in PPDs : LET r == WithPpd(q, p) IN
                 /\ r # Absent /\ r.ppd = p /\ r.uri = ToModify(q).uri
                 /\ r.accepting = ToModify(q).accepting
                 /\ r.enabled = ToModify(q).enabled
           /\ \A u \in URIs : LET r == WithUri(q, u) IN
                 /\ r # Absent /\ r.uri = u /\ r.ppd = ToModify(q).ppd
                 /\ r.accepting = ToModify(q).accepting
                 /\ r.enabled = ToModify(q).enabled
<1> DEFINE old == ToModify(q)
<1>1. /\ old \in Records /\ old # Absent /\ old.ppd = queue[q].ppd
      /\ queue[q] # Absent => old = queue[q]
  BY Constants DEF ToModify, TypeOK
<1>2. ASSUME NEW p \in PPDs
      PROVE  LET r == WithPpd(q, p) IN
             /\ r # Absent /\ r.ppd = p /\ r.uri = old.uri
             /\ r.accepting = old.accepting /\ r.enabled = old.enabled
  <2>1. WithPpd(q, p) = [old EXCEPT !.ppd = p]
    BY DEF WithPpd
  <2> HIDE DEF old
  <2>2. WithPpd(q, p) \in Records
    BY <1>1, <2>1 DEF Records
  <2> QED
    BY <1>1, <2>1, <2>2, Constants DEF Records
<1>3. ASSUME NEW u \in URIs
      PROVE  LET r == WithUri(q, u) IN
             /\ r # Absent /\ r.uri = u /\ r.ppd = old.ppd
             /\ r.accepting = old.accepting /\ r.enabled = old.enabled
  <2>1. WithUri(q, u) =
          [old EXCEPT !.uri = u,
                      !.shared = @ /\ (u \in RemoteURIs => old.ppd # NoPPD)]
    BY DEF WithUri
  <2> HIDE DEF old
  <2>2. WithUri(q, u).uri = u
    BY <1>1, <2>1 DEF Records
  <2>3. u # Absent.uri
    BY NamesAssumption DEF Absent
  <2> QED
    BY <1>1, <2>1, <2>2, <2>3 DEF Records
<1> QED
  BY <1>1, <1>2, <1>3

LEMMA ChangesKindFits ==
    ASSUME IInv, Asked, NEW c \in Clients, Changes(c) \/ Probe(c)
    PROVE  KindFits'
<1> USE DEF IInv, Asked
<1>1. UNCHANGED call /\ Disturbs(c)
  BY ChangesDisturb DEF Disturbs
<1>2. \/ pc'[c] = "idle"
      \/ /\ ended'[c] = "running"
         /\ \/ pc'[c] \in {"create", "uri"} /\ call[c].kind \in Setters
            \/ pc'[c] = "ppd" /\ call[c].kind = "addPrinter"
  <2> USE DEF TypeOK, GoesOn, Ends
  <2>1. CASE Probe(c) \/ InitPpd(c) \/ InitNotFound(c)
    BY <2>1 DEF Probe, InitPpd, InitNotFound, KindFits, Setters
  <2>2. CASE SetUri(c)
    BY <2>2 DEF SetUri, KindFits, Setters
  <2>3. CASE SetPpd(c) \/ SetPpdFromFile(c) \/ SetInfo(c)
    BY <2>3 DEF SetPpd, SetPpdFromFile, SetInfo
  <2>4. CASE SendPrinterCommand(c) \/ DeletePrinter(c)
    BY <2>4 DEF SendPrinterCommand, DeletePrinter, OnExisting
  <2> QED
    BY <2>1, <2>2, <2>3, <2>4 DEF Changes
<1>3. \A d \in Clients \ {c} : pc'[d] = pc[d] /\ ended'[d] = ended[d]
  BY <1>1 DEF Disturbs
<1> QED
  BY <1>1, <1>2, <1>3 DEF KindFits

LEMMA ChangesOnItsWay ==
    ASSUME IInv, Asked, OneUser, NEW c \in Clients, Changes(c) \/ Probe(c),
           alone'[c]
    PROVE  Reached(c)' /\ (ended'[c] = "return" => AsAsked(c)')
<1> USE DEF IInv, Asked, TypeOK
<1> DEFINE q == MyQueue(c)
           was == base[c]
           kind == call[c].kind
           old == ToModify(q)
<1>0. /\ q \in Queues /\ call[c].uri \in URIs
      /\ call[c].ppd \in PPDs \union {NoPPD} /\ was \in Records \union {Absent}
      /\ Disturbs(c) /\ UNCHANGED <<pdfExists, call, base, tmp, gone, got>>
  BY ChangesDisturb, Constants DEF MyQueue, Requests, Disturbs
<1>1. ~Fault(c) /\ \A r : ~Failed(c, r)
  BY FaultEndsAlone DEF Failed
<1>2. \A r : Done(c, r) => queue'[q] = r
  BY <1>0 DEF Done, Serve
<1>3. NotServed => queue'[q] = queue[q]
  BY DEF NotServed
<1>4. alone[c] /\ Reached(c) /\ pc[c] # "idle" /\ ended[c] = "running"
  BY <1>0 DEF Disturbs, OnItsWay, KindFits
<1>5. Ends(c, "throw") => Reached(c)' /\ ended'[c] # "return"
  BY DEF Ends, Reached
<1>6. Ends(c, "return") => Reached(c)'
  BY DEF Ends, Reached
<1>7. /\ old # Absent /\ old.ppd = queue[q].ppd
      /\ queue[q] # Absent => old = queue[q]
      /\ \A p \in PPDs : LET r == WithPpd(q, p) IN
            /\ r # Absent /\ r.ppd = p /\ r.uri = old.uri
            /\ r.accepting = old.accepting /\ r.enabled = old.enabled
      /\ \A u \in URIs : LET r == WithUri(q, u) IN
            /\ r # Absent /\ r.uri = u /\ r.ppd = old.ppd
            /\ r.accepting = old.accepting /\ r.enabled = old.enabled
  BY <1>0, RequestsKeep
<1> HIDE DEF old
<1>8. CASE Probe(c)
  <2>1. GoesOn(c, "create") /\ queue'[q] = was
    BY <1>1, <1>3, <1>4, <1>8 DEF Probe, Reached
  <2> QED
    BY <1>0, <1>4, <2>1 DEF GoesOn, Reached, MyQueue
<1>9. CASE InitPpd(c) \/ InitNotFound(c)
  <2>1. queue[q] = was /\ ToReplace(c) /\ GoesOn(c, "uri")
    BY <1>4, <1>9 DEF InitPpd, InitNotFound, Reached
  <2>2. \/ pdfExists /\ queue'[q] = WithPpd(q, Default)
        \/ ~pdfExists /\ queue'[q] = was
    BY <1>1, <1>2, <1>3, <1>9, <2>1 DEF InitPpd, InitNotFound
  <2>3. queue'[q].ppd = IF pdfExists THEN Default ELSE was.ppd
    BY <1>7, <2>2, Constants
  <2>4. was # Absent => /\ queue'[q] # Absent
                        /\ queue'[q].accepting = was.accepting
                        /\ queue'[q].enabled = was.enabled
    BY <1>7, <2>1, <2>2, Constants
  <2> QED
    BY <1>0, <1>4, <2>1, <2>3, <2>4
       DEF GoesOn, Reached, ToReplace, StillServes, MyQueue
<1>10. CASE SetUri(c)
  <2>1. /\ queue'[q] = WithUri(q, call[c].uri) /\ kind \in Setters
        /\ \/ call[c].ppd = NoPPD /\ Ends(c, "return")
           \/ call[c].ppd # NoPPD /\ GoesOn(c, "ppd")
    BY <1>1, <1>2, <1>10 DEF SetUri, KindFits
  <2>2. /\ queue[q].ppd = IF ToReplace(c) /\ pdfExists THEN Default ELSE was.ppd
        /\ StillServes(c)
    BY <1>4, <1>10 DEF SetUri, Reached
  <2>3. /\ queue'[q] # Absent /\ queue'[q].uri = call[c].uri
        /\ queue'[q].ppd = queue[q].ppd
        /\ was # Absent => /\ queue'[q].accepting = was.accepting
                           /\ queue'[q].enabled = was.enabled
    BY <1>0, <1>7, <2>1, <2>2 DEF StillServes
  <2>4. CASE Ends(c, "return") /\ call[c].ppd = NoPPD
    BY <1>0, <1>6, <2>1, <2>2, <2>3, <2>4 DEF AsAsked, PpdAsked, ToReplace,
       Commanded, Setters, MyQueue, Records
  <2>5. CASE GoesOn(c, "ppd") /\ call[c].ppd # NoPPD
    <3>1. kind = "addPrinter"
      BY <2>1, <2>5 DEF KindFits, Setters
    <3> QED
      BY <1>0, <1>4, <2>3, <2>5, <3>1 DEF GoesOn, Reached, StillServes, MyQueue
  <2> QED
    BY <2>1, <2>4, <2>5
<1>11. CASE SetPpd(c)
  <2>1. /\ queue'[q] = WithPpd(q, call[c].ppd) /\ Ends(c, "return")
        /\ kind \in {"addPrinter", "setPPD"} /\ call[c].ppd # NoPPD
    BY <1>1, <1>2, <1>11 DEF SetPpd, KindFits, PpdGiven
  <2>2. /\ queue'[q] # Absent /\ queue'[q].ppd = call[c].ppd
        /\ queue'[q].uri = old.uri /\ queue'[q].accepting = old.accepting
        /\ queue'[q].enabled = old.enabled
    BY <1>0, <1>7, <2>1
  <2>3. CASE kind = "addPrinter"
    <3>1. queue[q] # Absent /\ queue[q].uri = call[c].uri /\ StillServes(c)
      BY <1>4, <1>11, <2>3 DEF SetPpd, Reached
    <3>2. old = queue[q]
      BY <1>7, <3>1
    <3> QED
      BY <1>0, <1>6, <2>1, <2>2, <2>3, <3>1, <3>2 DEF AsAsked, PpdAsked,
         StillServes, Commanded, Setters, MyQueue, Records
  <2>4. CASE kind = "setPPD"
    <3>1. queue[q] = was
      BY <1>4, <1>11, <2>4 DEF SetPpd, Reached
    <3> QED
      BY <1>0, <1>6, <1>7, <2>1, <2>2, <2>4, <3>1 DEF AsAsked, PpdAsked,
         Commanded, Setters, MyQueue, Records
  <2> QED
    BY <2>1, <2>3, <2>4
<1>12. CASE SetPpdFromFile(c)
  <2>1. kind = "setPPDFromFile" /\ call[c].ppd # NoPPD /\ queue[q] = was
    BY <1>4, <1>12 DEF SetPpdFromFile, KindFits, PpdGiven, Reached
  <2>2. CASE queue'[q] = WithPpd(q, call[c].ppd) /\ Ends(c, "return")
    <3>1. /\ queue'[q] # Absent /\ queue'[q].ppd = call[c].ppd
          /\ queue'[q].uri = old.uri /\ queue'[q].accepting = old.accepting
          /\ queue'[q].enabled = old.enabled
      BY <1>0, <1>7, <2>1, <2>2
    <3> QED
      BY <1>0, <1>6, <1>7, <2>1, <2>2, <3>1 DEF AsAsked, PpdAsked, Commanded,
         Setters, MyQueue, Records
  <2> QED
    BY <1>1, <1>2, <1>5, <1>12, <2>2 DEF SetPpdFromFile
<1>13. CASE SetInfo(c)
  <2>1. kind = "setInfo" /\ queue[q] = was /\ call[c].ppd = NoPPD
    BY <1>4, <1>13 DEF SetInfo, KindFits, Reached
  <2>2. queue'[q] = old /\ Ends(c, "return")
    BY <1>1, <1>2, <1>13 DEF SetInfo, old
  <2> QED
    BY <1>0, <1>6, <1>7, <2>1, <2>2 DEF AsAsked, PpdAsked, Commanded, Setters,
       MyQueue, Records
<1>14. CASE SendPrinterCommand(c)
  <2>1. /\ kind \in {"accept", "reject", "enable", "disable"}
        /\ queue[q] = was /\ call[c].ppd = NoPPD
    BY <1>4, <1>14 DEF SendPrinterCommand, KindFits, Reached
  <2>2. CASE was # Absent /\ Ends(c, "return")
             /\ queue'[q] = Commanded(was, kind)
    <3>1. /\ queue'[q] \in Records /\ queue'[q].ppd = was.ppd
          /\ queue'[q].uri = was.uri
      BY <1>0, <2>2 DEF Commanded, Records
    <3>2. queue'[q] # Absent
      BY <3>1, Constants
    <3> QED
      BY <1>0, <1>6, <2>1, <2>2, <3>1, <3>2 DEF AsAsked, PpdAsked, Setters,
         Commanded, MyQueue
  <2> QED
    BY <1>1, <1>2, <1>5, <1>7, <1>14, <2>1, <2>2
       DEF SendPrinterCommand, OnExisting, old
<1>15. CASE DeletePrinter(c)
  <2>1. kind = "deletePrinter"
    BY <1>15 DEF DeletePrinter, KindFits
  <2>2. CASE queue'[q] = Absent /\ Ends(c, "return")
    BY <1>0, <1>6, <2>1, <2>2 DEF AsAsked, MyQueue
  <2> QED
    BY <1>1, <1>2, <1>5, <1>15, <2>2 DEF DeletePrinter, OnExisting
<1> QED
  BY <1>8, <1>9, <1>10, <1>11, <1>12, <1>13, <1>14, <1>15 DEF Changes

(* The step that a call begins with.                                       *)
LEMMA FirstStepOf ==
    ASSUME NEW k \in Kinds
    PROVE  \/ k = "addPrinter" /\ FirstStep[k] = "probe"
           \/ /\ k \in {"setDeviceURI", "getPPD", "getPPDOptions"}
              /\ FirstStep[k] = "create"
           \/ k = "setPPD" /\ FirstStep[k] = "ppd"
           \/ k = "setPPDFromFile" /\ FirstStep[k] = "file"
           \/ k = "setInfo" /\ FirstStep[k] = "info"
           \/ /\ k \in {"accept", "reject", "enable", "disable"}
              /\ FirstStep[k] = "command"
           \/ k = "deletePrinter" /\ FirstStep[k] = "delete"
<1>1. CASE k \in {"setDeviceURI", "getPPD", "getPPDOptions"}
  BY <1>1 DEF FirstStep
<1>2. CASE k \in {"accept", "reject", "enable", "disable"}
  BY <1>2 DEF FirstStep
<1>3. CASE k \in {"addPrinter", "setPPD", "setPPDFromFile"}
  BY <1>3 DEF FirstStep
<1>4. CASE k \in {"setInfo", "deletePrinter"}
  BY <1>4 DEF FirstStep
<1> QED
  BY <1>1, <1>2, <1>3, <1>4, KindsAssumption

LEMMA BeginAsked ==
    ASSUME IInv, Asked, NEW c \in Clients, Begin(c)
    PROVE  Asked'
<1> USE DEF IInv, Asked
<1>1. PICK k \in Kinds, q \in Queues, u \in URIs,
           p \in Models \union {NoPPD} :
         /\ k \notin Setters => u = CHOOSE v \in URIs : TRUE
         /\ k \in {"setPPD", "setPPDFromFile"} => p # NoPPD
         /\ k \notin {"addPrinter", "setPPD", "setPPDFromFile"} => p = NoPPD
         /\ call' = [call EXCEPT ![c] = [kind |-> k, queue |-> q, uri |-> u,
                                         ppd |-> p]]
         /\ pc' = [pc EXCEPT ![c] = FirstStep[k]]
         /\ base' = [base EXCEPT ![c] = queue[q]]
         /\ seen' = [seen EXCEPT ![c] = {queue[q].ppd}]
         /\ alone' = [d \in Clients |->
                         IF d = c THEN \A e \in Clients \ {c} :
                                         pc[e] = "idle" \/ MyQueue(e) # q
                         ELSE alone[d] /\ MyQueue(d) # q]
  BY Zenon DEF Begin
<1>2. /\ pc[c] = "idle" /\ got' = [got EXCEPT ![c] = NoPPD]
      /\ ended' = [ended EXCEPT ![c] = "running"]
      /\ UNCHANGED <<queue, pdfExists, user, tmp, gone>>
  BY DEF Begin, cupsd
<1>3. /\ pc'[c] = FirstStep[k] /\ ended'[c] = "running"
      /\ call'[c].kind = k /\ call'[c].queue = q /\ call'[c].ppd = p
      /\ base'[c] = queue[q]
  BY <1>1, <1>2 DEF TypeOK
<1>4. \A d \in Clients \ {c} :
         /\ pc'[d] = pc[d] /\ ended'[d] = ended[d] /\ got'[d] = got[d]
         /\ call'[d] = call[d] /\ base'[d] = base[d]
  BY <1>1, <1>2 DEF TypeOK
<1>5. \A d \in Clients \ {c} : alone'[d] => alone[d] /\ MyQueue(d) # q
  BY <1>1, Zenon
<1>6. alone'[c] => \A e \in Clients \ {c} : pc[e] = "idle" \/ MyQueue(e) # q
  BY <1>1, Zenon
<1>7. \/ k = "addPrinter" /\ pc'[c] = "probe"
      \/ k \in {"setDeviceURI", "getPPD", "getPPDOptions"} /\ pc'[c] = "create"
      \/ k = "setPPD" /\ pc'[c] = "ppd"
      \/ k = "setPPDFromFile" /\ pc'[c] = "file"
      \/ k = "setInfo" /\ pc'[c] = "info"
      \/ k \in {"accept", "reject", "enable", "disable"} /\ pc'[c] = "command"
      \/ k = "deletePrinter" /\ pc'[c] = "delete"
  BY <1>3, FirstStepOf
<1>8. KindFits'
  BY <1>1, <1>3, <1>4, <1>7 DEF KindFits, Setters
<1>9. AloneOnQueue'
  BY <1>3, <1>4, <1>5, <1>6 DEF AloneOnQueue, MyQueue
<1>10. OneOwner' /\ (OneUser' <=> OneUser)
  BY <1>2 DEF OneOwner, OneUser
<1>11. OnItsWay'
  <2> SUFFICES ASSUME OneUser, NEW d \in Clients, alone'[d]
               PROVE  Reached(d)' /\ (ended'[d] = "return" => AsAsked(d)')
    BY <1>10 DEF OnItsWay
  <2>1. CASE d = c
    BY <1>2, <1>3, <1>7, <2>1 DEF Reached, MyQueue
  <2>2. CASE d # c
    BY <1>2, <1>4, <1>5, <2>2, ReachedStays DEF OnItsWay
  <2> QED
    BY <2>1, <2>2
<1> QED
  BY <1>8, <1>9, <1>10, <1>11

LEMMA CleanTmpAsked ==
    ASSUME IInv, Asked, NEW q \in Queues, CleanTmp(q)
    PROVE  Asked'
<1> USE DEF IInv, Asked
<1>1. /\ tmp' = [tmp EXCEPT ![q] = NoFile]
      /\ gone' = gone \union {c \in Clients : MyQueue(c) = q}
      /\ UNCHANGED <<queue, pdfExists, user, pc, ended, call, base, got>>
  BY DEF CleanTmp, cupsd, keeps
<1>2. \A d \in Clients : alone'[d] => alone[d] /\ MyQueue(d) # q
  BY Zenon DEF CleanTmp
<1>3. KindFits' /\ AloneOnQueue'
  BY <1>1, <1>2 DEF KindFits, AloneOnQueue, MyQueue
<1>4. OneOwner' /\ (OneUser' <=> OneUser)
  BY <1>1 DEF OneOwner, OneUser, TypeOK
<1>5. OnItsWay'
  <2> SUFFICES ASSUME OneUser, NEW d \in Clients, alone'[d]
               PROVE  Reached(d)' /\ (ended'[d] = "return" => AsAsked(d)')
    BY <1>4 DEF OnItsWay
  <2>1. /\ call[d].queue # q
        /\ queue'[call[d].queue] = queue[call[d].queue]
        /\ tmp'[call[d].queue] = tmp[call[d].queue]
        /\ d \in gone' <=> d \in gone
    BY <1>1, <1>2 DEF MyQueue, TypeOK, Requests
  <2> QED
    BY <1>1, <1>2, <2>1, ReachedStays DEF OnItsWay
<1> QED
  BY <1>3, <1>4, <1>5

LEMMA AskedInductive == IInv /\ Asked /\ [Next]_vars => Asked'
<1> SUFFICES ASSUME IInv, Asked, [Next]_vars PROVE Asked'
  OBVIOUS
<1>1. ASSUME NEW c \in Clients, Begin(c) PROVE Asked'
  BY <1>1, BeginAsked
<1>2. ASSUME NEW c \in Clients, Reads(c) \/ Changes(c) \/ Probe(c)
      PROVE  Asked'
  <2>1. Disturbs(c) /\ KindFits' /\ OneOwner'
    <3>1. CASE Reads(c)
      BY <3>1, ReadsDisturb, ReadsKindFits, ReadsOneOwner
    <3>2. CASE Changes(c) \/ Probe(c)
      <4>1. Disturbs(c) /\ UNCHANGED <<tmp, user>> /\ KindFits'
        BY <3>2, ChangesDisturb, ChangesKindFits DEF Disturbs
      <4> QED
        BY <4>1 DEF Asked, OneOwner, OneUser
    <3> QED
      BY <1>2, <3>1, <3>2
  <2>2. /\ AloneOnQueue'
        /\ OneUser' <=> OneUser
        /\ OneUser => \A d \in Clients \ {c} : alone'[d] =>
              Reached(d)' /\ (ended'[d] = "return" => AsAsked(d)')
    BY <2>1, OthersOnTheirWay DEF IInv
  <2>3. OneUser /\ alone'[c]
          => Reached(c)' /\ (ended'[c] = "return" => AsAsked(c)')
    BY <1>2, ReadsOnItsWay, ChangesOnItsWay
  <2> QED
    BY <2>1, <2>2, <2>3 DEF Asked, OnItsWay
<1>3. CASE \E q \in Queues : CleanTmp(q)
  BY <1>3, CleanTmpAsked
<1>4. CASE UNCHANGED vars
  <2>1. KindFits' /\ AloneOnQueue' /\ OneOwner' /\ (OneUser' <=> OneUser)
    BY <1>4 DEF vars, cupsd, client, Asked, KindFits, AloneOnQueue, OneOwner,
       OneUser, MyQueue
  <2>2. \A c \in Clients : /\ alone'[c] = alone[c] /\ ended'[c] = ended[c]
                           /\ Reached(c) => Reached(c)'
                           /\ AsAsked(c) => AsAsked(c)'
    BY <1>4, ReachedStays DEF vars, cupsd, client
  <2> QED
    BY <2>1, <2>2 DEF Asked, OnItsWay
<1> QED
  BY <1>1, <1>2, <1>3, <1>4 DEF Next

LEMMA AskedInvariance == Spec => []Asked
<1> QED
  BY Invariance, InitAsked, AskedInductive, PTL DEF Spec

(* A call that returned, alone on its queue and without a fault, has left  *)
(* the queue with what it was asked to set and everything else as it was,  *)
(* whatever number of programs work on other queues and whatever files     *)
(* earlier calls have left in /tmp.                                        *)
THEOREM ReturnsAsAsked == Spec => []ReturnedAsAsked
<1>1. Asked => ReturnedAsAsked
  BY DEF Asked, OnItsWay, AsAsked, ReturnedAsAsked
<1> QED
  BY <1>1, AskedInvariance, PTL

(* Every variable has its type in every state.                             *)
THEOREM TypeCorrect == Spec => []TypeOK
<1>1. IInv => TypeOK
  BY DEF IInv
<1> QED
  BY <1>1, Invariance, PTL

=============================================================================
