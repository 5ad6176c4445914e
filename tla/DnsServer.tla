------------------------------ MODULE DnsServer ------------------------------
(***************************************************************************)
(* The captive portal's DNS server (src/WiFiPan_Portal.cpp): StartDns and   *)
(* StopDns, called by ConfigViaAp, and the task that polls the socket,      *)
(* parses a query and builds the reply.                                     *)
(*                                                                          *)
(* The parser reads every byte of a packet at most once, so its value is    *)
(* chosen when it is read; what matters is where it reads.  The receive     *)
(* buffer is not cleared between packets: a byte at or beyond len is one of *)
(* an earlier packet.                                                       *)
(***************************************************************************)
EXTENDS Naturals

CONSTANTS
    Bytes,        \* the byte values that occur
    LabelMax,     \* kDnsLabelMaxLen
    Pointer,      \* DnsIsPtr: 192 and above start a compression pointer
    NameMax,      \* kDnsNameMaxLen
    HeaderSize,   \* kDnsHeaderSize
    AnswerSize,   \* sizeof(DnsAnswer)
    PacketMax     \* kDnsMaxPacketSize

ASSUME DnsAssumption ==
    /\ Bytes \subseteq Nat
    /\ LabelMax \in Nat /\ Pointer \in Nat /\ LabelMax < Pointer
    /\ NameMax \in Nat \ {0} /\ HeaderSize \in Nat \ {0} /\ AnswerSize \in Nat
    /\ PacketMax \in Nat /\ HeaderSize <= PacketMax

VARIABLES
    app,          \* where StartDns or StopDns is; "off" and "on" between them
    handle,       \* the DnsHandle is allocated
    sock,         \* sockfd is open
    task,         \* what the DNS task is doing, "none" without one
    len,          \* recv_len
    pos,          \* DnsSkipQname's position, then DnsParseQuery's
    resp          \* resp_len

vars == <<app, handle, sock, task, len, pos, resp>>
packet == <<len, pos, resp>>

TypeOK ==
    /\ app \in {"off", "socket", "bind", "task", "on", "close"}
    /\ handle \in BOOLEAN /\ sock \in BOOLEAN
    /\ task \in {"none", "poll", "header", "skip", "qtype", "build", "send"}
    /\ len \in 0..PacketMax /\ pos \in Nat /\ resp \in 0..PacketMax

Init ==
    /\ app = "off"
    /\ handle = FALSE /\ sock = FALSE
    /\ task = "none"
    /\ len = 0 /\ pos = 0 /\ resp = 0

-----------------------------------------------------------------------------
(* StartDns and StopDns *)

AppStep(from, to) == app = from /\ app' = to

(* new (std::nothrow), then DnsInit; a failure of either returns null.       *)
StartDns ==
    /\ AppStep("off", "socket")
    /\ handle' = TRUE
    /\ UNCHANGED <<sock, task, packet>>

DnsStart ==
    \/ /\ AppStep("socket", "bind")
       /\ sock' = TRUE
       /\ UNCHANGED <<handle, task, packet>>
    \/ /\ AppStep("bind", "task")
       /\ UNCHANGED <<handle, sock, task, packet>>

SocketFails ==
    /\ AppStep("socket", "off")
    /\ handle' = FALSE
    /\ UNCHANGED <<sock, task, packet>>

(* From here on there is a socket to give back, too.                         *)
SocketKept == sock
SocketAfterFailure == FALSE

BindFails ==
    /\ AppStep("bind", "off")
    /\ sock' = SocketAfterFailure /\ handle' = FALSE
    /\ UNCHANGED <<task, packet>>

CreateTaskFails ==
    /\ AppStep("task", "off")
    /\ sock' = FALSE /\ handle' = FALSE
    /\ UNCHANGED <<task, packet>>

StartFails == SocketFails \/ BindFails \/ CreateTaskFails

CreateTask ==
    /\ AppStep("task", "on")
    /\ task' = "poll"
    /\ UNCHANGED <<handle, sock, packet>>

(* vTaskDelete: wherever the task is, it is gone before its socket is.       *)
StopDns ==
    /\ AppStep("on", "close")
    /\ task' = "none"
    /\ UNCHANGED <<handle, sock, packet>>

DnsStop ==
    /\ AppStep("close", "off")
    /\ sock' = FALSE /\ handle' = FALSE
    /\ UNCHANGED <<task, packet>>

-----------------------------------------------------------------------------
(* DnsPoll *)

TaskStep(from, to) == task = from /\ task' = to /\ UNCHANGED <<app, handle, sock>>

(* With nothing to receive, or an error, DnsPoll returns: a stutter.         *)
Receive ==
    /\ TaskStep("poll", "header")
    /\ len' \in 0..PacketMax
    /\ UNCHANGED <<pos, resp>>

(* A whole header, of a query, of opcode 0, with a question.                 *)
ParseHeader ==
    /\ TaskStep("header", "skip")
    /\ len >= HeaderSize
    /\ pos' = HeaderSize
    /\ UNCHANGED <<len, resp>>

(* A response, an opcode or a header that is not served, or too few bytes.   *)
DiscardHeader ==
    /\ TaskStep("header", "poll")
    /\ UNCHANGED packet

NoLimit == PacketMax
Limit == HeaderSize + NameMax + 1

(* One turn of DnsSkipQname's loop, for byte b at pos.                       *)
SkipQname(b) ==
    /\ pos < len /\ pos < Limit
    /\ \/ b = 0 /\ TaskStep("skip", "qtype") /\ pos' = pos + 1
       \/ b >= Pointer /\ TaskStep("skip", "qtype") /\ pos' = pos + 2
       \/ b \in 1..LabelMax /\ TaskStep("skip", "skip") /\ pos' = pos + 1 + b
    /\ UNCHANGED <<len, resp>>

(* The name runs out of the packet or of the limit, or a label is too long.  *)
DiscardName ==
    /\ TaskStep("skip", "poll")
    /\ pos >= len \/ pos >= Limit \/ \E b \in Bytes : LabelMax < b /\ b < Pointer
    /\ UNCHANGED packet

TypeFitsByTwo == pos + 2 <= len
TypeFits == pos + 4 <= len

ParseType ==
    /\ TaskStep("qtype", "build")
    /\ TypeFits
    /\ pos' = pos + 4
    /\ UNCHANGED <<len, resp>>

DiscardType ==
    /\ TaskStep("qtype", "poll")
    /\ ~TypeFits
    /\ UNCHANGED packet

ReplyFitsWithoutAnswer(size) == size - AnswerSize <= PacketMax
ReplyFits(size) == size <= PacketMax

(* The reply repeats the question and, for A and ANY, adds one answer.       *)
Build ==
    LET size == pos + AnswerSize
    IN  /\ TaskStep("build", IF ReplyFits(size) THEN "send" ELSE "poll")
        /\ resp' = IF ReplyFits(size) THEN size ELSE resp
        /\ UNCHANGED <<len, pos>>

BuildNoAnswer ==
    /\ TaskStep("build", "send")
    /\ resp' = pos
    /\ UNCHANGED <<len, pos>>

Send ==
    /\ TaskStep("send", "poll")
    /\ UNCHANGED packet

DnsPoll ==
    \/ Receive \/ ParseHeader \/ DiscardHeader
    \/ (\E b \in Bytes : SkipQname(b)) \/ DiscardName
    \/ ParseType \/ DiscardType
    \/ Build \/ BuildNoAnswer \/ Send

Next ==
    \/ StartDns \/ DnsStart \/ StartFails \/ CreateTask \/ StopDns \/ DnsStop
    \/ DnsPoll

Spec == Init /\ [][Next]_vars

-----------------------------------------------------------------------------
(* Properties *)

(* Every failure of StartDns, and StopDns, give back the handle, the socket  *)
(* and the task; while the task exists it has both.                          *)
NothingLeaked ==
    /\ app = "off" => ~handle /\ ~sock
    /\ task # "none" => app = "on" /\ handle /\ sock

(* The type read and the question copied into the reply were received with   *)
(* this packet: nothing an earlier packet left in the buffer is used, even   *)
(* when a label or a pointer leads the parser beyond the packet's end.       *)
OnlyReceivedBytes ==
    task \in {"build", "send"} =>
        HeaderSize + 5 <= pos /\ pos <= len /\ resp <= PacketMax

(* The name of an accepted question is at most one byte longer than          *)
(* kDnsNameMaxLen, two when it ends in a pointer.                            *)
NameBounded == task \in {"build", "send"} => pos - 4 - HeaderSize <= NameMax + 2
=============================================================================
