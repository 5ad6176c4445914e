--------------------------- MODULE DnsServerProofs ---------------------------
(***************************************************************************)
(* Type correctness, NothingLeaked, OnlyReceivedBytes and NameBounded of    *)
(* DnsServer, for every packet, limit and byte value.                       *)
(***************************************************************************)
EXTENDS DnsServer, TLAPS

(* What StartDns has acquired at each of its steps.                          *)
Acquired ==
    /\ app # "off" => handle
    /\ IF app \in {"off", "socket"} THEN ~sock ELSE sock

(* Where the parser can be at each of its steps.                             *)
Parsed ==
    /\ task = "skip" => HeaderSize <= pos
    /\ task = "qtype" => HeaderSize + 1 <= pos /\ pos <= Limit + 1
    /\ task \in {"build", "send"} => HeaderSize + 5 <= pos /\ pos <= len /\ pos <= Limit + 5

Inv == TypeOK /\ NothingLeaked /\ Acquired /\ Parsed

USE DnsAssumption

LEMMA InitInv == ASSUME Init PROVE Inv
<1>0. 0 \in 0..PacketMax /\ 0 \in Nat
  OBVIOUS
<1>1. TypeOK
  BY <1>0, Zenon DEF Init, TypeOK
<1>2. NothingLeaked /\ Acquired /\ Parsed
  BY DEF Init, NothingLeaked, Acquired, Parsed
<1> QED BY <1>1, <1>2 DEF Inv

(* The application's steps move no packet; the DNS task lives only between   *)
(* CreateTask and StopDns.                                                   *)
LEMMA AppInv ==
    ASSUME Inv, StartDns \/ DnsStart \/ StartFails \/ CreateTask \/ StopDns \/ DnsStop
    PROVE  Inv'
<1> USE DEF Inv, AppStep, packet
<1>1. TypeOK'
  BY DEF TypeOK, StartDns, DnsStart, StartFails, SocketFails, BindFails, CreateTaskFails,
         SocketAfterFailure, CreateTask, StopDns, DnsStop
<1>2. NothingLeaked' /\ Acquired'
  <2> USE DEF TypeOK, NothingLeaked, Acquired
  <2>1. CASE StartDns BY <2>1 DEF StartDns
  <2>2. CASE DnsStart BY <2>2 DEF DnsStart
  <2>3. CASE SocketFails BY <2>3 DEF SocketFails
  <2>4. CASE BindFails BY <2>4 DEF BindFails, SocketAfterFailure
  <2>5. CASE CreateTaskFails BY <2>5 DEF CreateTaskFails
  <2>6. CASE CreateTask BY <2>6 DEF CreateTask
  <2>7. CASE StopDns BY <2>7 DEF StopDns
  <2>8. CASE DnsStop BY <2>8 DEF DnsStop
  <2> QED BY <2>1, <2>2, <2>3, <2>4, <2>5, <2>6, <2>7, <2>8 DEF StartFails
<1>3. Parsed'
  BY DEF Parsed, Limit, StartDns, DnsStart, StartFails, SocketFails, BindFails, CreateTaskFails,
         CreateTask, StopDns, DnsStop
<1> QED BY <1>1, <1>2, <1>3

LEMMA PollInv == ASSUME Inv, DnsPoll PROVE Inv'
<1> USE DEF Inv, TaskStep, packet
<1>1. NothingLeaked' /\ Acquired'
  BY DEF NothingLeaked, Acquired, DnsPoll, Receive, ParseHeader, DiscardHeader, SkipQname,
         DiscardName, ParseType, DiscardType, Build, BuildNoAnswer, Send
<1>2. TypeOK' /\ Parsed'
  <2> USE DEF TypeOK, Parsed, Limit
  <2>1. CASE Receive BY <2>1 DEF Receive
  <2>2. CASE ParseHeader BY <2>2 DEF ParseHeader
  <2>3. CASE DiscardHeader BY <2>3 DEF DiscardHeader
  <2>4. CASE \E b \in Bytes : SkipQname(b)
    <3>1. PICK b \in Bytes : SkipQname(b)
      BY <2>4
    <3>2. b \in Nat
      OBVIOUS
    <3> QED BY <3>1, <3>2 DEF SkipQname
  <2>5. CASE DiscardName BY <2>5 DEF DiscardName
  <2>6. CASE ParseType BY <2>6 DEF ParseType, TypeFits
  <2>7. CASE DiscardType BY <2>7 DEF DiscardType
  <2>8. CASE Build BY <2>8 DEF Build, ReplyFits
  <2>9. CASE BuildNoAnswer BY <2>9 DEF BuildNoAnswer
  <2>10. CASE Send BY <2>10 DEF Send
  <2> QED BY <2>1, <2>2, <2>3, <2>4, <2>5, <2>6, <2>7, <2>8, <2>9, <2>10 DEF DnsPoll
<1> QED BY <1>1, <1>2

(* The strengthened invariant holds of every behaviour.                      *)
THEOREM DnsInvariant == Spec => []Inv
<1>1. Inv /\ [Next]_vars => Inv'
  <2> SUFFICES ASSUME Inv, [Next]_vars PROVE Inv'
    OBVIOUS
  <2>1. CASE UNCHANGED vars
    BY <2>1 DEF Inv, TypeOK, NothingLeaked, Acquired, Parsed, Limit, vars, packet
  <2>2. CASE Next BY <2>2, AppInv, PollInv DEF Next
  <2> QED BY <2>1, <2>2
<1>2. Init => Inv BY InitInv
<1> QED BY <1>1, <1>2, PTL DEF Spec

(* Every variable of the DNS server keeps its type: no reply is longer than  *)
(* the buffer it is built in (DnsBuildResponse).                             *)
THEOREM DnsTypeCorrect == Spec => []TypeOK
<1>1. Inv => TypeOK BY DEF Inv
<1> QED BY <1>1, DnsInvariant, PTL

(* StartDns, however it fails, and StopDns give back all they took.          *)
THEOREM DnsNothingLeaked == Spec => []NothingLeaked
<1>1. Inv => NothingLeaked BY DEF Inv
<1> QED BY <1>1, DnsInvariant, PTL

(* DnsParseQuery accepts only what the packet itself holds.                  *)
THEOREM DnsOnlyReceivedBytes == Spec => []OnlyReceivedBytes
<1>1. Inv => OnlyReceivedBytes BY DEF Inv, TypeOK, Parsed, OnlyReceivedBytes
<1> QED BY <1>1, DnsInvariant, PTL

(* DnsSkipQname bounds the names it accepts.                                 *)
THEOREM DnsNameBounded == Spec => []NameBounded
<1>1. Inv => NameBounded BY DEF Inv, TypeOK, Parsed, Limit, NameBounded
<1> QED BY <1>1, DnsInvariant, PTL
=============================================================================
