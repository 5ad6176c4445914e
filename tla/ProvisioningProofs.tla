------------------------- MODULE ProvisioningProofs --------------------------
(***************************************************************************)
(* Type correctness, TornDown and ServedOverAp hold for every set of SSIDs, *)
(* retry number, queue length, heap and calling discipline; StoppedIsQuiet  *)
(* for an application that calls Stop() before it starts anything anew.     *)
(***************************************************************************)
EXTENDS Provisioning, TLAPS

(* Each function returns to one of its callers, and the list position stays *)
(* within the list being walked.                                             *)
Control ==
    /\ pc \in StartStaPoints => ret \in {"idle", "cfg_conn", "auto_conn"}
    /\ pc \in StartApPoints => ret \in {"idle", "cfg_wait"}
    /\ pc \in StopPoints => ret \in {"idle", "cfg_stopped", "cfg_begin"}
    /\ pc \in {"sta_reg", "ap_reg"} => idx \in 1..3
    /\ pc = "stop_unreg" => idx \in 1..6

(* A handle priv_ holds stands for a registered instance.                    *)
TrackedRegistered == \A k \in tracked : reg[k] >= 1

TypeInv == TypeOK /\ Control /\ TrackedRegistered

USE NoSsidAssumption, QueueLenAssumption, RetryNumAssumption, RegLimitAssumption,
    PromptLoopAssumption, AppAssumption

-----------------------------------------------------------------------------
(* The driver *)

LEMMA WhenType ==
    ASSUME NEW c \in BOOLEAN, NEW k \in EventKinds
    PROVE  When(c, k) \in Seq(EventKinds)
  BY DEF When

LEMMA StartEventsType ==
    ASSUME NEW m, NEW a \in BOOLEAN, NEW b \in BOOLEAN
    PROVE  StartEvents(m, a, b) \in Seq(EventKinds)
<1>1. "STA_START" \in EventKinds /\ "AP_START" \in EventKinds
  BY DEF EventKinds
<1>2. (HasSta(m) /\ ~a) \in BOOLEAN /\ (HasAp(m) /\ ~b) \in BOOLEAN
  BY DEF HasSta, HasAp
<1>3. /\ When(HasSta(m) /\ ~a, "STA_START") \in Seq(EventKinds)
      /\ When(HasAp(m) /\ ~b, "AP_START") \in Seq(EventKinds)
  BY <1>1, <1>2, WhenType
<1> QED BY <1>3 DEF StartEvents

LEMMA PostType ==
    ASSUME evq \in Seq(EventKinds), NEW e \in Seq(EventKinds), Post(e)
    PROVE  evq' \in Seq(EventKinds)
  BY DEF Post

LEMMA SetModeType == ASSUME DrvTypeOK, NEW m \in Modes, SetMode(m) PROVE DrvTypeOK'
<1> DEFINE lost == When(link # "idle" /\ ~HasSta(m), "STA_DISC")
           up == IF started THEN StartEvents(m, HasSta(mode), HasAp(mode)) ELSE <<>>
<1>1. lost \in Seq(EventKinds)
  BY WhenType DEF EventKinds, HasSta
<1>2. up \in Seq(EventKinds)
  <2>1. HasSta(mode) \in BOOLEAN /\ HasAp(mode) \in BOOLEAN
    BY DEF HasSta, HasAp
  <2> QED BY <2>1, StartEventsType
<1>3. evq' \in Seq(EventKinds)
  <2>1. lost \o up \in Seq(EventKinds)
    BY <1>1, <1>2
  <2> QED BY <2>1, PostType DEF SetMode, DrvTypeOK
<1> QED BY <1>3 DEF SetMode, DrvTypeOK, Links, Modes

LEMMA DriverStartType == ASSUME DrvTypeOK, DriverStart PROVE DrvTypeOK'
<1>1. StartEvents(mode, started, started) \in Seq(EventKinds)
  BY StartEventsType DEF DrvTypeOK
<1>2. evq' \in Seq(EventKinds)
  BY <1>1, PostType DEF DriverStart, DrvTypeOK
<1> QED BY <1>2 DEF DriverStart, DrvTypeOK

LEMMA LinkDropType == ASSUME DrvTypeOK, Disconnect \/ DriverStop PROVE DrvTypeOK'
<1>1. When(link # "idle", "STA_DISC") \in Seq(EventKinds)
  BY WhenType DEF EventKinds
<1>2. evq' \in Seq(EventKinds)
  BY <1>1, PostType DEF Disconnect, DriverStop, DrvTypeOK
<1> QED BY <1>2 DEF Disconnect, DriverStop, DrvTypeOK, Links

LEMMA AirType == ASSUME DrvTypeOK, Air PROVE DrvTypeOK'
<1>1. <<"GOT_IP">> \in Seq(EventKinds) /\ <<"STA_DISC">> \in Seq(EventKinds)
  BY DEF EventKinds
<1>2. evq' \in Seq(EventKinds)
  BY <1>1, PostType DEF Air, StaJoin, StaGotIp, StaLost, DrvTypeOK
<1> QED BY <1>2 DEF Air, StaJoin, StaGotIp, StaLost, DrvTypeOK, Links

-----------------------------------------------------------------------------
(* The event handlers *)

LEMMA UpdateBitsType ==
    ASSUME HdlTypeOK, NEW c \in SUBSET Bits, NEW s \in SUBSET Bits, UpdateBits(c, s)
    PROVE  bits' \in SUBSET Bits /\ woken' \in SUBSET Bits
  BY DEF HdlTypeOK, UpdateBits

LEMMA NextInstanceType == ASSUME HdlTypeOK PROVE NextInstance(running) \in Runs
<1>1. running \in Runs /\ NotRunning \in Runs
  BY DEF HdlTypeOK, NotRunning, Runs
<1>2. CASE running.left > 1
  <2>1. running.left \in 0..RegLimit /\ running.left - 1 \in 0..RegLimit
    BY <1>1, <1>2 DEF Runs
  <2>2. [running EXCEPT !.left = @ - 1, !.phase = "enter"] \in Runs
    BY <1>1, <2>1 DEF Runs
  <2> QED BY <1>2, <2>2 DEF NextInstance
<1>3. CASE ~(running.left > 1)
  BY <1>1, <1>3 DEF NextInstance
<1> QED BY <1>2, <1>3

LEMMA DispatchType ==
    ASSUME DrvTypeOK, HdlTypeOK, Dispatch
    PROVE  DrvTypeOK' /\ HdlTypeOK'
<1>1. Head(evq) \in EventKinds /\ Tail(evq) \in Seq(EventKinds)
  BY DEF Dispatch, DrvTypeOK
<1>2. reg[Head(evq)] \in 0..RegLimit
  BY <1>1 DEF HdlTypeOK, Kinds
<1>3. running' \in Runs
  BY <1>1, <1>2 DEF Dispatch, Runs, NotRunning
<1> QED BY <1>1, <1>3 DEF Dispatch, DrvTypeOK, HdlTypeOK

LEMMA EventLoopType ==
    ASSUME DrvTypeOK, HdlTypeOK, EventLoop
    PROVE  DrvTypeOK' /\ HdlTypeOK'
<1> USE DEF Bits
<1>1. NextInstance(running) \in Runs
  BY NextInstanceType
<1>2. CASE Dispatch BY <1>2, DispatchType
<1>3. CASE OnStaStart
  <2>1. bits' \in SUBSET Bits /\ woken' \in SUBSET Bits
    BY <1>3, UpdateBitsType DEF OnStaStart
  <2> QED BY <1>1, <1>3, <2>1 DEF OnStaStart, ConnectsTo, DrvTypeOK, HdlTypeOK, Links
<1>4. CASE OnStaDiscIgnored
  BY <1>1, <1>4 DEF OnStaDiscIgnored, drvVars, DrvTypeOK, HdlTypeOK
<1>5. CASE OnStaDiscBits
  <2>1. bits' \in SUBSET Bits /\ woken' \in SUBSET Bits
    BY <1>5, UpdateBitsType DEF OnStaDiscBits, DiscClears
  <2>2. running' \in Runs
    BY <1>5 DEF OnStaDiscBits, HdlTypeOK, Runs
  <2> QED BY <1>5, <2>1, <2>2 DEF OnStaDiscBits, drvVars, DrvTypeOK, HdlTypeOK
<1>6. CASE OnStaDiscRetry
  <2>1. retry' \in Int /\ attempts' \in Nat /\ link' \in Links
    BY <1>6 DEF OnStaDiscRetry, SpentRetry, CountAttempt, ConnectsTo, Links, HdlTypeOK, DrvTypeOK
  <2> QED BY <1>1, <1>6, <2>1 DEF OnStaDiscRetry, DrvTypeOK, HdlTypeOK
<1>7. CASE OnGotIp
  <2>1. bits' \in SUBSET Bits /\ woken' \in SUBSET Bits
    BY <1>7, UpdateBitsType DEF OnGotIp
  <2> QED BY <1>1, <1>7, <2>1 DEF OnGotIp, drvVars, DrvTypeOK, HdlTypeOK
<1>8. CASE OnApStart
  <2>1. bits' \in SUBSET Bits /\ woken' \in SUBSET Bits
    BY <1>8, UpdateBitsType DEF OnApStart
  <2> QED BY <1>1, <1>8, <2>1 DEF OnApStart, drvVars, DrvTypeOK, HdlTypeOK
<1> QED BY <1>2, <1>3, <1>4, <1>5, <1>6, <1>7, <1>8 DEF EventLoop

(* The handlers leave the instance counts alone.                             *)
LEMMA EventLoopReg == ASSUME EventLoop PROVE UNCHANGED reg
  BY DEF EventLoop, Dispatch, OnStaStart, OnStaDiscIgnored, OnStaDiscBits, OnStaDiscRetry,
         OnGotIp, OnApStart

-----------------------------------------------------------------------------
(* StartSta, StartAp and Stop *)

LEMMA PointsFacts ==
    /\ StartStaPoints \subseteq Points /\ StartApPoints \subseteq Points
    /\ StopPoints \subseteq Points /\ Returns \subseteq Points
    /\ "idle" \in Points /\ "idle" \in Returns
  BY DEF Points, Returns, PortalPoints, AutoPoints

(* Registering and unregistering keep the handles and the counts in step.    *)
LEMMA RegisterType ==
    ASSUME TypeInv, NEW next \in Points, NEW kinds \in {StaKinds, ApKinds},
           \/ pc = "sta_reg" /\ next = "sta_mode"
           \/ pc = "ap_reg" /\ next = "ap_mode",
           Register(kinds, next), UNCHANGED pvVars
    PROVE  TypeInv'
<1>1. idx \in 1..3 /\ Len(kinds) = 3 /\ kinds[idx] \in Kinds
  BY DEF TypeInv, Control, StaKinds, ApKinds, Kinds, EventKinds
<1>2. CASE Fail("WifiError") /\ UNCHANGED <<reg, tracked>>
  BY <1>2 DEF Register, Fail, Return, TypeInv, TypeOK, DrvTypeOK, HdlTypeOK, LcTypeOK, PvTypeOK,
     Control, TrackedRegistered, drvVars, pvVars, Points, Statuses, StartStaPoints, StartApPoints,
     StopPoints
<1>3. CASE ~(Fail("WifiError") /\ UNCHANGED <<reg, tracked>>)
  <2> DEFINE k == kinds[idx]
  <2>1. /\ reg[k] < RegLimit
        /\ reg' = [reg EXCEPT ![k] = @ + 1] /\ tracked' = tracked \cup {k}
        /\ idx' = idx + 1 /\ pc' = IF idx = Len(kinds) THEN next ELSE pc
        /\ UNCHANGED <<ret, status>>
        /\ UNCHANGED <<drvVars, bits, mask, woken, running, retry, attempts, netif, sta>>
    BY <1>3 DEF Register
  <2>2. /\ reg \in [Kinds -> 0..RegLimit] /\ tracked \subseteq Kinds
        /\ \A j \in tracked : reg[j] >= 1
    BY DEF TypeInv, TypeOK, HdlTypeOK, LcTypeOK, TrackedRegistered
  <2>3. reg' \in [Kinds -> 0..RegLimit] /\ tracked' \in SUBSET Kinds /\ TrackedRegistered'
    BY <1>1, <2>1, <2>2 DEF TrackedRegistered
  <2>4. /\ pc' \in Points /\ idx' \in 1..7
        /\ pc' \in {"sta_reg", "ap_reg"} => idx' \in 1..3
        /\ pc = "sta_reg" => pc' \in {"sta_reg", "sta_mode"}
        /\ pc = "ap_reg" => pc' \in {"ap_reg", "ap_mode"}
    BY <1>1, <2>1 DEF TypeInv, TypeOK, LcTypeOK
  <2>5. Control'
    BY <2>1, <2>4 DEF TypeInv, Control, StartStaPoints, StartApPoints, StopPoints
  <2>6. TypeOK'
    BY <2>1, <2>3, <2>4 DEF TypeInv, TypeOK, DrvTypeOK, HdlTypeOK, LcTypeOK, PvTypeOK,
       drvVars, pvVars
  <2> QED BY <2>3, <2>5, <2>6 DEF TypeInv
<1> QED BY <1>2, <1>3

(* A function that succeeds goes on at its caller.                           *)
LEMMA SucceedType ==
    ASSUME LcTypeOK, Control, Succeed, UNCHANGED <<netif, tracked, sta>>
    PROVE  LcTypeOK' /\ Control'
<1>1. /\ pc' = ret /\ ret' = ret /\ idx' = 1 /\ ret \in Returns
      /\ status' = "Ok" \/ status' = status
  BY DEF Succeed, Return, LcTypeOK
<1>2. pc' \notin StartStaPoints /\ pc' \notin StartApPoints /\ pc' \notin StopPoints
  BY <1>1 DEF Returns, StartStaPoints, StartApPoints, StopPoints
<1>3. pc' \in Points
  BY <1>1, PointsFacts
<1>4. Control'
  BY <1>1, <1>2 DEF Control, StartStaPoints, StartApPoints, StopPoints
<1> QED BY <1>1, <1>3, <1>4 DEF LcTypeOK, Statuses

LEMMA StartStaType == ASSUME TypeInv, StartSta, UNCHANGED pvVars PROVE TypeInv'
<1> USE DEF TypeInv, TypeOK, Control, TrackedRegistered, Statuses, Points, Returns,
        StartStaPoints, StartApPoints, StopPoints, LcTypeOK, Goto, Return, Fail, Succeed
<1>1. CASE StaBegin
  BY <1>1 DEF StaBegin, Clear, NewNetif, drvVars, pvVars, DrvTypeOK, HdlTypeOK, PvTypeOK
<1>2. CASE StaRegister
  <2>1. Register(StaKinds, "sta_mode") /\ pc = "sta_reg"
    BY <1>2 DEF StaRegister
  <2> QED BY <2>1, RegisterType
<1>3. CASE StaMode
  <2>1. DrvTypeOK'
    BY <1>3, SetModeType DEF StaMode, Modes, drvVars, DrvTypeOK
  <2> QED BY <1>3, <2>1 DEF StaMode, hdlVars, pvVars, HdlTypeOK, PvTypeOK
<1>4. CASE StaConfig
  <2>1. DrvTypeOK'
    BY <1>4 DEF StaConfig, SetStaConfig, HaveSsid, drvVars, DrvTypeOK
  <2> QED BY <1>4, <2>1 DEF StaConfig, ConfigFailure, hdlVars, pvVars, HdlTypeOK, PvTypeOK
<1>5. CASE StaGo
  <2>1. DrvTypeOK'
    BY <1>5, DriverStartType DEF StaGo, drvVars, DrvTypeOK
  <2>2. CASE Succeed
    <3>1. UNCHANGED <<hdlVars, netif, tracked, sta>>
      BY <1>5 DEF StaGo
    <3> QED BY <2>1, <2>2, <3>1, SucceedType DEF hdlVars, pvVars, HdlTypeOK, PvTypeOK
  <2>3. CASE Fail("WifiError")
    BY <1>5, <2>1, <2>3 DEF StaGo, hdlVars, pvVars, HdlTypeOK, PvTypeOK
  <2> QED BY <1>5, <2>2, <2>3 DEF StaGo
<1> QED BY <1>1, <1>2, <1>3, <1>4, <1>5 DEF StartSta

LEMMA StartApType == ASSUME TypeInv, StartAp, UNCHANGED pvVars PROVE TypeInv'
<1> USE DEF TypeInv, TypeOK, Control, TrackedRegistered, Statuses, Points, Returns,
        StartStaPoints, StartApPoints, StopPoints, LcTypeOK, Goto, Return, Fail, Succeed
<1>1. CASE ApBegin
  BY <1>1 DEF ApBegin, Clear, NewNetif, drvVars, pvVars, DrvTypeOK, HdlTypeOK, PvTypeOK
<1>2. CASE ApRegister
  <2>1. Register(ApKinds, "ap_mode") /\ pc = "ap_reg"
    BY <1>2 DEF ApRegister
  <2> QED BY <2>1, RegisterType
<1>3. CASE ApMode
  <2>1. DrvTypeOK'
    BY <1>3, SetModeType DEF ApMode, Modes, drvVars, DrvTypeOK
  <2> QED BY <1>3, <2>1 DEF ApMode, hdlVars, pvVars, HdlTypeOK, PvTypeOK
<1>4. CASE ApGo
  <2>1. DrvTypeOK'
    BY <1>4, DriverStartType DEF ApGo, drvVars, DrvTypeOK
  <2>2. CASE Succeed
    <3>1. UNCHANGED <<hdlVars, netif, tracked, sta>>
      BY <1>4 DEF ApGo
    <3> QED BY <2>1, <2>2, <3>1, SucceedType DEF hdlVars, pvVars, HdlTypeOK, PvTypeOK
  <2>3. CASE Fail("WifiError")
    BY <1>4, <2>1, <2>3 DEF ApGo, hdlVars, pvVars, HdlTypeOK, PvTypeOK
  <2> QED BY <1>4, <2>2, <2>3 DEF ApGo
<1> QED BY <1>1, <1>2, <1>3, <1>4 DEF StartAp

LEMMA StopType == ASSUME TypeInv, Stop, UNCHANGED pvVars PROVE TypeInv'
<1> USE DEF TypeInv, TypeOK, Control, TrackedRegistered, Statuses, Points, Returns,
        StartStaPoints, StartApPoints, StopPoints, LcTypeOK, Goto, Return, Succeed
<1>1. CASE StopDisconnect
  <2>1. DrvTypeOK'
    BY <1>1, LinkDropType DEF StopDisconnect, drvVars, DrvTypeOK
  <2> QED BY <1>1, <2>1 DEF StopDisconnect, hdlVars, pvVars, HdlTypeOK, PvTypeOK
<1>2. CASE StopDriver
  <2>1. DrvTypeOK'
    BY <1>2, LinkDropType DEF StopDriver
  <2> QED BY <1>2, <2>1 DEF StopDriver, hdlVars, pvVars, HdlTypeOK, PvTypeOK
<1>3. CASE StopUnregister
  <2> DEFINE k == AllKinds[idx]
  <2>1. idx \in 1..6 /\ Len(AllKinds) = 6 /\ k \in Kinds
    BY <1>3 DEF StopUnregister, AllKinds, ApKinds, StaKinds, Kinds, EventKinds
  <2>2. reg' = Unregistered(k) /\ tracked' = tracked \ {k}
    BY <1>3 DEF StopUnregister
  <2>3. reg' \in [Kinds -> 0..RegLimit] /\ tracked' \in SUBSET Kinds /\ TrackedRegistered'
    BY <2>1, <2>2 DEF Unregistered, HdlTypeOK
  <2>4. pc' \in {"stop_unreg", "stop_clear"} /\ idx' = idx + 1
        /\ pc' = "stop_unreg" => idx' \in 1..6
    BY <1>3, <2>1 DEF StopUnregister
  <2> QED BY <1>3, <2>1, <2>3, <2>4
      DEF StopUnregister, drvVars, pvVars, DrvTypeOK, HdlTypeOK, PvTypeOK
<1>4. CASE StopClear
  BY <1>4 DEF StopClear, Clear, drvVars, pvVars, DrvTypeOK, HdlTypeOK, PvTypeOK
<1>5. CASE StopNetif
  BY <1>5 DEF StopNetif, drvVars, hdlVars, pvVars, DrvTypeOK, HdlTypeOK, PvTypeOK
<1>6. CASE StopDelay
  <2>1. Succeed /\ UNCHANGED <<drvVars, hdlVars, netif, tracked, sta>>
    BY <1>6 DEF StopDelay
  <2> QED BY <2>1, SucceedType DEF drvVars, hdlVars, pvVars, DrvTypeOK, HdlTypeOK, PvTypeOK
<1> QED BY <1>1, <1>2, <1>3, <1>4, <1>5, <1>6 DEF Stop

-----------------------------------------------------------------------------
(* ConfigViaAp and AutoConnect *)

(* Starting and ending a wait touch nothing but the wait.                    *)
LEMMA WaitType ==
    ASSUME TypeInv, NEW m \in SUBSET Bits, NEW p \in PortalPoints \cup AutoPoints,
           AwaitBits(m, p)
    PROVE  TypeInv'
  BY DEF AwaitBits, Goto, Return, TypeInv, TypeOK, Control, TrackedRegistered, LcTypeOK,
     HdlTypeOK, DrvTypeOK, PvTypeOK, drvVars, pvVars, Points, PortalPoints, AutoPoints,
     StartStaPoints, StartApPoints, StopPoints

LEMMA EndWaitType ==
    ASSUME TypeInv, EndWait, pc' \in Points, ret' \in Returns, idx' = 1, status' \in Statuses,
           Control'
    PROVE  TypeInv'
  BY DEF EndWait, TypeInv, TypeOK, TrackedRegistered, LcTypeOK, HdlTypeOK, DrvTypeOK, PvTypeOK,
     drvVars, pvVars

(* A step of the application task alone.                                     *)
LEMMA LocalType ==
    ASSUME TypeInv, Local, UNCHANGED sta, PvTypeOK', Control',
           pc' \in Points, ret' \in Returns, idx' = 1, status' \in Statuses
    PROVE  TypeInv'
  BY DEF Local, TypeInv, TypeOK, TrackedRegistered, LcTypeOK, HdlTypeOK, DrvTypeOK, drvVars, hdlVars

LEMMA LocalGotoType ==
    ASSUME TypeInv, Local, UNCHANGED sta, PvTypeOK',
           NEW p \in PortalPoints \cup {"idle"}, NEW st \in Statuses, Return(p, st)
    PROVE  TypeInv'
<1>1. pc' = p /\ ret' = ret /\ idx' = 1 /\ status' = st /\ ret \in Returns
  BY DEF Return, TypeInv, TypeOK, LcTypeOK
<1>2. Control'
  BY <1>1 DEF Control, StartStaPoints, StartApPoints, StopPoints, PortalPoints
<1> QED BY <1>1, <1>2, LocalType DEF Points

LEMMA ConfigViaApType == ASSUME TypeInv, ConfigViaAp PROVE TypeInv'
<1> USE DEF TypeInv, TypeOK, Control, TrackedRegistered, LcTypeOK, HdlTypeOK, DrvTypeOK, PvTypeOK,
        Local, Goto, Return, Fail, Call, drvVars, hdlVars, pvVars,
        Statuses, Points, Returns, PortalPoints, StartStaPoints, StartApPoints, StopPoints
<1>1. CASE CfgBegin BY <1>1 DEF CfgBegin
<1>2. CASE CfgWait \/ CfgConn
  <2>1. {"ApStart"} \in SUBSET Bits /\ LinkBits \in SUBSET Bits
    BY DEF Bits, LinkBits
  <2> HIDE DEF TypeInv
  <2> QED BY <1>2, <2>1, WaitType DEF CfgWait, CfgConn
<1>3. CASE CfgApUp \/ CfgApTimeout
  BY <1>3, EndWaitType DEF CfgApUp, CfgApTimeout
<1>4. CASE CfgApSta
  <2>1. DrvTypeOK'
    <3> HIDE DEF DrvTypeOK
    <3>1. CASE UNCHANGED drvVars
      BY <3>1 DEF DrvTypeOK
    <3>2. CASE SetMode(PortalMode)
      <4>1. PortalMode \in Modes
        BY DEF PortalMode, Modes
      <4> QED BY <3>2, <4>1, SetModeType
    <3> QED BY <1>4, <3>1, <3>2 DEF CfgApSta
  <2> HIDE DEF DrvTypeOK
  <2> QED BY <1>4, <2>1 DEF CfgApSta
<1>5. CASE CfgServer \/ CfgDns \/ CfgArm \/ CfgDnsOff
  <2>1. PvTypeOK' /\ Local /\ UNCHANGED sta
    BY <1>5 DEF CfgServer, CfgDns, CfgArm, CfgDnsOff
  <2>2. \E p \in PortalPoints : Return(p, status)
    BY <1>5 DEF CfgServer, CfgDns, CfgArm, CfgDnsOff
  <2> HIDE DEF TypeInv, PvTypeOK, Local, Return, PortalPoints, Statuses
  <2>3. status \in Statuses
    BY DEF TypeInv
  <2> QED BY <2>1, <2>2, <2>3, LocalGotoType
<1>6. CASE CfgTake \/ CfgCheck
  <2>1. PvTypeOK' /\ Local /\ UNCHANGED sta
    BY <1>6 DEF CfgTake, CfgCheck
  <2>2. \E p \in PortalPoints, st \in Statuses : Return(p, st)
    BY <1>6 DEF CfgTake, CfgCheck
  <2> HIDE DEF TypeInv, PvTypeOK, Local, Return, PortalPoints, Statuses
  <2> QED BY <2>1, <2>2, LocalGotoType
<1>7. CASE CfgDisarm
  <2>1. PvTypeOK' /\ Local /\ UNCHANGED sta
    BY <1>7 DEF CfgDisarm
  <2>2. AfterTake(status) \in PortalPoints /\ Return(AfterTake(status), status)
    BY <1>7 DEF CfgDisarm, AfterTake
  <2> HIDE DEF TypeInv, PvTypeOK, Local, Return, PortalPoints, Statuses
  <2>3. status \in Statuses
    BY DEF TypeInv
  <2> QED BY <2>1, <2>2, <2>3, LocalGotoType
<1>8. CASE CfgWebOff
  <2>1. PvTypeOK' /\ Local /\ UNCHANGED sta /\ Control'
    BY <1>8 DEF CfgWebOff
  <2>2. pc' \in Points /\ ret' \in Returns /\ idx' = 1 /\ status' \in Statuses
    BY <1>8 DEF CfgWebOff
  <2> HIDE DEF TypeInv, PvTypeOK, Local, Control, Points, Returns, Statuses
  <2> QED BY <2>1, <2>2, LocalType
<1>9. CASE CfgStopped BY <1>9 DEF CfgStopped
<1>10. CASE CfgConnDone BY <1>10, EndWaitType DEF CfgConnDone, ConnResult
<1> QED BY <1>1, <1>2, <1>3, <1>4, <1>5, <1>6, <1>7, <1>8, <1>9, <1>10 DEF ConfigViaAp

LEMMA AutoConnectType == ASSUME TypeInv, AutoConnect PROVE TypeInv'
<1> USE DEF TypeInv, TypeOK, Control, TrackedRegistered, LcTypeOK, HdlTypeOK, DrvTypeOK, PvTypeOK,
        Local, Goto, Return, Call, drvVars, hdlVars, pvVars,
        Statuses, Points, Returns, PortalPoints, AutoPoints, StartStaPoints, StartApPoints,
        StopPoints
<1>1. CASE AutoLoad BY <1>1 DEF AutoLoad
<1>2. CASE AutoConn
  <2>1. LinkBits \in SUBSET Bits
    BY DEF Bits, LinkBits
  <2> HIDE DEF TypeInv
  <2> QED BY <1>2, <2>1, WaitType DEF AutoConn
<1>3. CASE AutoConnDone BY <1>3, EndWaitType DEF AutoConnDone, FallBack
<1> QED BY <1>1, <1>2, <1>3 DEF AutoConnect

-----------------------------------------------------------------------------
(* The HTTP server, the application, the device *)

LEMMA HttpType == ASSUME TypeInv, Http PROVE TypeInv'
<1> USE DEF TypeInv, TypeOK, Control, TrackedRegistered, LcTypeOK, HdlTypeOK, DrvTypeOK, PvTypeOK,
        HttpOnly, drvVars, hdlVars, lcVars, pvVars
<1>1. CASE \E s \in Ssids \cup {NoSsid} : PostWifi(s)
  BY <1>1 DEF PostWifi
<1>2. CASE \E s \in Ssids \cup {NoSsid} : PostConfigSave(s)
  BY <1>2 DEF PostConfigSave
<1>3. CASE NotifyCheck
  BY <1>3 DEF NotifyCheck
<1>4. CASE NotifyGive
  BY <1>4 DEF NotifyGive
<1>5. CASE PageBegin \/ PageEnd \/ UploadBegin \/ UploadEnd \/ HandlerResetGet
  BY <1>5 DEF PageBegin, PageEnd, UploadBegin, UploadEnd, HandlerResetGet
<1> QED BY <1>1, <1>2, <1>3, <1>4, <1>5 DEF Http, Finish

LEMMA AppCallType == ASSUME TypeInv, NEW c \in ApiCalls, AppCall(c) PROVE TypeInv'
<1>1. /\ EntryOf(c) \in Points
      /\ EntryOf(c) \notin {"sta_reg", "ap_reg", "stop_unreg"}
  BY DEF EntryOf, ApiCalls, Points, PortalPoints, AutoPoints, StartStaPoints, StartApPoints,
     StopPoints
<1>2. /\ pc' = EntryOf(c) /\ ret' = "idle" /\ idx' = 1 /\ status' = "none" /\ api' = c
      /\ submitted' = FALSE
      /\ UNCHANGED <<drvVars, hdlVars, netif, tracked, sta, server, dns, waiting, notify, http>>
  BY DEF AppCall, Call, Local
<1>3. Control'
  BY <1>1, <1>2 DEF Control
<1>4. DrvTypeOK' /\ HdlTypeOK' /\ TrackedRegistered'
  BY <1>2 DEF TypeInv, TypeOK, TrackedRegistered, HdlTypeOK, DrvTypeOK, drvVars, hdlVars
<1>5. LcTypeOK'
  BY <1>1, <1>2, PointsFacts DEF TypeInv, TypeOK, LcTypeOK, Statuses
<1>6. PvTypeOK'
  <2> HIDE DEF ApiCalls
  <2> QED BY <1>2 DEF TypeInv, TypeOK, PvTypeOK
<1> QED BY <1>3, <1>4, <1>5, <1>6 DEF TypeInv, TypeOK

LEMMA RestartType == ASSUME TypeInv, Restart PROVE TypeInv'
<1>1. NotRunning \in Runs /\ [k \in Kinds |-> 0] \in [Kinds -> 0..RegLimit]
  BY DEF NotRunning, Runs
<1>2. DrvTypeOK'
  <2>1. evq' \in Seq(EventKinds)
    BY DEF Restart, RamLost
  <2> QED BY <2>1 DEF TypeInv, TypeOK, Restart, RamLost, NvsReady, DrvTypeOK, Modes, Links
<1>3. HdlTypeOK'
  BY <1>1 DEF Restart, RamLost, HdlTypeOK
<1>4. PvTypeOK' /\ Control' /\ TrackedRegistered'
  BY DEF Restart, RamLost, PvTypeOK, Control, TrackedRegistered, StartStaPoints, StartApPoints,
     StopPoints
<1>5. LcTypeOK'
  BY PointsFacts DEF Restart, RamLost, LcTypeOK, Statuses
<1> QED BY <1>2, <1>3, <1>4, <1>5 DEF TypeInv, TypeOK

LEMMA InitType == Init => TypeInv
<1> SUFFICES ASSUME Init PROVE TypeInv
  OBVIOUS
<1>1. NotRunning \in Runs /\ [k \in Kinds |-> 0] \in [Kinds -> 0..RegLimit]
  BY DEF NotRunning, Runs
<1>2. DrvTypeOK
  <2>1. evq \in Seq(EventKinds)
    BY DEF Init, DrvInit
  <2> QED BY <2>1 DEF Init, DrvInit, DrvTypeOK, Modes, Links
<1>3. HdlTypeOK
  BY <1>1 DEF Init, HdlInit, HdlTypeOK
<1>4. PvTypeOK /\ Control /\ TrackedRegistered
  BY DEF Init, LcInit, PvInit, PvTypeOK, Control, TrackedRegistered, StartStaPoints,
     StartApPoints, StopPoints
<1>5. LcTypeOK
  BY PointsFacts DEF Init, LcInit, LcTypeOK, Statuses
<1> QED BY <1>2, <1>3, <1>4, <1>5 DEF TypeInv, TypeOK

LEMMA LoopType == ASSUME TypeInv, Loop PROVE TypeInv'
<1>1. DrvTypeOK' /\ HdlTypeOK' /\ UNCHANGED <<reg, lcVars, pvVars>>
  BY EventLoopType, EventLoopReg DEF Loop, TypeInv, TypeOK
<1> QED BY <1>1 DEF TypeInv, TypeOK, Control, TrackedRegistered, LcTypeOK, PvTypeOK, lcVars, pvVars

LEMMA DriverType == ASSUME TypeInv, Driver PROVE TypeInv'
<1>1. DrvTypeOK' /\ UNCHANGED <<hdlVars, lcVars, pvVars>>
  BY AirType DEF Driver, TypeInv, TypeOK
<1> QED BY <1>1 DEF TypeInv, TypeOK, Control, TrackedRegistered, HdlTypeOK, LcTypeOK, PvTypeOK,
        hdlVars, lcVars, pvVars

LEMMA StutterType == ASSUME TypeInv, UNCHANGED vars PROVE TypeInv'
  BY DEF TypeInv, TypeOK, Control, TrackedRegistered, HdlTypeOK, DrvTypeOK, LcTypeOK, PvTypeOK,
     vars, drvVars, hdlVars, lcVars, pvVars

LEMMA TypeStep == TypeInv /\ [Next]_vars => TypeInv'
<1> SUFFICES ASSUME TypeInv, [Next]_vars PROVE TypeInv'
  OBVIOUS
<1>1. CASE \E c \in AppCalls : AppCall(c) BY <1>1, AppCallType, AppAssumption
<1>2. CASE CallStep
  BY <1>2, StartStaType, StartApType, StopType, ConfigViaApType, AutoConnectType DEF CallStep
<1>3. CASE Loop BY <1>3, LoopType
<1>4. CASE Driver BY <1>4, DriverType
<1>5. CASE Http BY <1>5, HttpType
<1>6. CASE Restart BY <1>6, RestartType
<1>7. CASE UNCHANGED vars BY <1>7, StutterType
<1> QED BY <1>1, <1>2, <1>3, <1>4, <1>5, <1>6, <1>7 DEF Next

(* Type correctness; with it, control stays with the right caller and every  *)
(* handle priv_ holds stands for a registered instance.                      *)
THEOREM TypeCorrect == Spec => []TypeInv
  BY InitType, TypeStep, PTL DEF Spec

(* Every variable keeps to its type, whatever the constants.                 *)
THEOREM TypeCorrectness == Spec => []TypeOK
<1>1. TypeInv => TypeOK BY DEF TypeInv
<1> QED BY <1>1, TypeCorrect, PTL

-----------------------------------------------------------------------------
(* The portal's parts exist only between the points of ConfigViaAp that      *)
(* create and destroy them, and the access point they serve exists for       *)
(* longer on both sides.                                                     *)

WaitPoints == {"cfg_take", "cfg_disarm"}
DnsPoints == {"cfg_arm", "cfg_check", "cfg_dnsoff"} \cup WaitPoints
ServerPoints == {"cfg_dns", "cfg_weboff"} \cup DnsPoints
ApPoints == {"cfg_wait", "cfg_blocked", "cfg_apsta", "cfg_server"} \cup ServerPoints

PortalUp ==
    /\ server => pc \in ServerPoints
    /\ dns => pc \in DnsPoints
    /\ waiting => pc \in WaitPoints

ApUp ==
    /\ pc \in {"ap_reg", "ap_mode", "ap_go"} => netif = "AP"
    /\ pc = "ap_go" => mode = "AP"
    /\ pc \in ApPoints => netif = "AP" /\ started /\ HasAp(mode)

PortalInv == TypeInv /\ PortalUp /\ ApUp

LEMMA InitPortal == Init => PortalInv
  BY InitType DEF Init, LcInit, PvInit, PortalInv, PortalUp, ApUp, ApPoints, ServerPoints,
     DnsPoints, WaitPoints

-----------------------------------------------------------------------------
(* PortalUp *)

(* Outside ConfigViaAp's serving part there is nothing to tear down, and     *)
(* nothing but that part brings it up.                                       *)
LEMMA NotServing ==
    ASSUME PortalUp, UNCHANGED pvVars, pc \notin ServerPoints
    PROVE  PortalUp'
  BY DEF PortalUp, pvVars, ServerPoints, DnsPoints, WaitPoints

LEMMA CallPortalUp == ASSUME PortalUp, CallStep PROVE PortalUp'
<1>1. CASE (StartSta \/ StartAp \/ Stop) /\ UNCHANGED pvVars
  <2>1. pc \in StartStaPoints \cup StartApPoints \cup StopPoints
    BY <1>1 DEF StartSta, StaBegin, StaRegister, StaMode, StaConfig, StaGo, StartAp, ApBegin,
       ApRegister, ApMode, ApGo, Stop, StopDisconnect, StopDriver, StopUnregister, StopClear,
       StopNetif, StopDelay, StartStaPoints, StartApPoints, StopPoints
  <2>2. pc \notin ServerPoints
    BY <2>1 DEF StartStaPoints, StartApPoints, StopPoints, ServerPoints, DnsPoints, WaitPoints
  <2> QED BY <1>1, <2>2, NotServing
<1>2. CASE AutoConnect
  <2>1. pc \in AutoPoints /\ UNCHANGED pvVars
    BY <1>2 DEF AutoConnect, AutoLoad, AutoConn, AutoConnDone, AwaitBits, EndWait, AutoPoints
  <2>2. pc \notin ServerPoints
    BY <2>1 DEF AutoPoints, ServerPoints, DnsPoints, WaitPoints
  <2> QED BY <2>1, <2>2, NotServing
<1>3. CASE ConfigViaAp
  <2> USE DEF PortalUp, ServerPoints, DnsPoints, WaitPoints, Goto, Return, Call, pvVars
  <2>1. CASE CfgBegin \/ CfgWait \/ CfgApUp \/ CfgApTimeout \/ CfgStopped \/ CfgConn \/ CfgConnDone
    <3>1. pc \notin ServerPoints /\ UNCHANGED pvVars
      BY <2>1 DEF CfgBegin, CfgWait, CfgApUp, CfgApTimeout, CfgStopped, CfgConn, CfgConnDone,
         AwaitBits, EndWait
    <3> QED BY <3>1, NotServing
  <2>2. CASE CfgApSta BY <2>2 DEF CfgApSta
  <2>3. CASE CfgServer BY <2>3 DEF CfgServer
  <2>4. CASE CfgDns BY <2>4 DEF CfgDns
  <2>5. CASE CfgArm BY <2>5 DEF CfgArm
  <2>6. CASE CfgTake BY <2>6 DEF CfgTake
  <2>7. CASE CfgDisarm BY <2>7 DEF CfgDisarm, AfterTake
  <2>8. CASE CfgCheck BY <2>8 DEF CfgCheck
  <2>9. CASE CfgDnsOff BY <2>9 DEF CfgDnsOff
  <2>10. CASE CfgWebOff BY <2>10 DEF CfgWebOff
  <2> QED BY <1>3, <2>1, <2>2, <2>3, <2>4, <2>5, <2>6, <2>7, <2>8, <2>9, <2>10 DEF ConfigViaAp
<1> QED BY <1>1, <1>2, <1>3 DEF CallStep

LEMMA PortalUpStep == PortalUp /\ [Next]_vars => PortalUp'
<1> SUFFICES ASSUME PortalUp, [Next]_vars PROVE PortalUp'
  OBVIOUS
<1>1. CASE \E c \in AppCalls : AppCall(c)
  BY <1>1 DEF AppCall, PortalUp, ServerPoints, DnsPoints, WaitPoints
<1>2. CASE CallStep BY <1>2, CallPortalUp
<1>3. CASE Loop \/ Driver \/ Http \/ UNCHANGED vars
  <2>1. UNCHANGED <<pc, server, dns, waiting>>
    BY <1>3 DEF Loop, Driver, Http, PostWifi, PostConfigSave, Finish, NotifyCheck, NotifyGive, PageBegin, PageEnd,
       UploadBegin, UploadEnd, HandlerResetGet, HttpOnly, vars, lcVars, pvVars
  <2> QED BY <2>1 DEF PortalUp
<1>4. CASE Restart BY <1>4 DEF Restart, RamLost, PortalUp
<1> QED BY <1>1, <1>2, <1>3, <1>4 DEF Next

-----------------------------------------------------------------------------
(* ApUp *)

(* Where control goes to a point that promises nothing about the access point.*)
LEMMA NoApPromise ==
    ASSUME pc' \notin {"ap_reg", "ap_mode", "ap_go"}, pc' \notin ApPoints
    PROVE  ApUp'
  BY DEF ApUp

(* Where control stays among the portal's points and the access point is left *)
(* alone.                                                                     *)
LEMMA ApKept ==
    ASSUME ApUp, pc \in ApPoints, pc' \in ApPoints, UNCHANGED <<mode, started, netif>>
    PROVE  ApUp'
  BY DEF ApUp, ApPoints, ServerPoints, DnsPoints, WaitPoints, HasAp

LEMMA StartStaApUp == ASSUME TypeInv, StartSta PROVE ApUp'
<1>1. pc' \in {"sta_reg", "sta_mode", "sta_cfg", "sta_go", "idle", "cfg_conn", "auto_conn"}
  BY DEF StartSta, StaBegin, StaRegister, StaMode, StaConfig, ConfigFailure, StaGo, NewNetif, Register, Goto, Fail,
     Return, Succeed, TypeInv, Control, StartStaPoints
<1> QED BY <1>1, NoApPromise DEF ApPoints, ServerPoints, DnsPoints, WaitPoints

LEMMA StopApUp == ASSUME TypeInv, Stop PROVE ApUp'
<1>1. pc' \in StopPoints \cup {"idle", "cfg_stopped", "cfg_begin"}
  BY DEF Stop, StopDisconnect, StopDriver, StopUnregister, StopClear, StopNetif, StopDelay, Goto,
     Return, Succeed, TypeInv, Control, StopPoints
<1> QED BY <1>1, NoApPromise DEF StopPoints, ApPoints, ServerPoints, DnsPoints, WaitPoints

(* The access point is up by the time StartAp returns.                       *)
LEMMA StartApApUp == ASSUME TypeInv, ApUp, StartAp PROVE ApUp'
<1> USE DEF ApUp, ApPoints, ServerPoints, DnsPoints, WaitPoints
<1>1. CASE ApBegin
  BY <1>1 DEF ApBegin, NewNetif, Goto, Fail, Return
<1>2. CASE ApRegister
  BY <1>2 DEF ApRegister, Register, Fail, Return
<1>3. CASE ApMode
  BY <1>3 DEF ApMode, SetMode, Goto, Fail, Return
<1>4. CASE ApGo
  <2>1. CASE DriverStart /\ Succeed
    <3>1. pc' \in {"idle", "cfg_wait"} /\ started' /\ mode' = "AP" /\ netif' = "AP"
      BY <1>4, <2>1 DEF ApGo, DriverStart, Succeed, Return, TypeInv, Control, StartApPoints
    <3> QED BY <3>1 DEF HasAp
  <2>2. CASE Fail("WifiError")
    BY <2>2 DEF Fail, Return
  <2> QED BY <1>4, <2>1, <2>2 DEF ApGo
<1> QED BY <1>1, <1>2, <1>3, <1>4 DEF StartAp

LEMMA ConfigApUp == ASSUME TypeInv, ApUp, ConfigViaAp PROVE ApUp'
<1> USE DEF ApPoints, ServerPoints, DnsPoints, WaitPoints
<1>1. CASE CfgBegin \/ CfgApTimeout \/ CfgWebOff \/ CfgStopped \/ CfgConn \/ CfgConnDone
  <2>1. pc' \in {"idle", "ap_begin", "stop_disc", "sta_begin", "cfg_connwait"}
    BY <1>1 DEF CfgBegin, CfgApTimeout, CfgWebOff, CfgStopped, CfgConn, CfgConnDone, AwaitBits,
       Call, Goto, Fail, Return
  <2> QED BY <2>1, NoApPromise
<1>2. CASE CfgApSta
  <2>1. /\ pc = "cfg_apsta" /\ pc' = "cfg_server" /\ netif' = netif
        /\ SetMode(PortalMode) \/ UNCHANGED drvVars
    BY <1>2 DEF CfgApSta, Goto, Return
  <2>2. started' = started /\ (mode' = "APSTA" \/ mode' = mode)
    BY <2>1 DEF SetMode, PortalMode, drvVars
  <2> QED BY <2>1, <2>2 DEF ApUp, HasAp
<1>3. CASE CfgWait \/ CfgApUp \/ CfgServer \/ CfgDns \/ CfgArm \/ CfgTake \/ CfgDisarm \/ CfgCheck
           \/ CfgDnsOff
  <2>1. pc \in ApPoints /\ pc' \in ApPoints /\ UNCHANGED <<mode, started, netif>>
    BY <1>3 DEF CfgWait, CfgApUp, CfgServer, CfgDns, CfgArm, CfgTake, CfgDisarm, CfgCheck,
       CfgDnsOff, AfterTake, AwaitBits, EndWait, Local, Goto, Return, drvVars
  <2> QED BY <2>1, ApKept
<1> QED BY <1>1, <1>2, <1>3 DEF ConfigViaAp

LEMMA AutoApUp == ASSUME AutoConnect PROVE ApUp'
<1>1. pc' \in {"sta_begin", "cfg_begin", "auto_connwait", "idle", "stop_disc"}
  BY DEF AutoConnect, AutoLoad, AutoConn, AutoConnDone, AwaitBits, FallBack, Call, Goto, Return
<1> QED BY <1>1, NoApPromise DEF ApPoints, ServerPoints, DnsPoints, WaitPoints

LEMMA ApUpStep == TypeInv /\ ApUp /\ [Next]_vars => ApUp'
<1> SUFFICES ASSUME TypeInv, ApUp, [Next]_vars PROVE ApUp'
  OBVIOUS
<1>1. CASE \E c \in AppCalls : AppCall(c)
  <2>1. pc' \in {"auto_load", "cfg_begin", "sta_begin", "ap_begin", "stop_disc"}
    BY <1>1, AppAssumption DEF AppCall, Call, EntryOf, ApiCalls
  <2> QED BY <2>1, NoApPromise DEF ApPoints, ServerPoints, DnsPoints, WaitPoints
<1>2. CASE CallStep
  BY <1>2, StartStaApUp, StartApApUp, StopApUp, ConfigApUp, AutoApUp DEF CallStep
<1>3. CASE Loop \/ Driver \/ Http \/ UNCHANGED vars
  <2>1. UNCHANGED <<pc, netif, mode, started>>
    BY <1>3 DEF Loop, EventLoop, Dispatch, OnStaStart, OnStaDiscIgnored, OnStaDiscBits,
       OnStaDiscRetry, OnGotIp, OnApStart, Driver, Air, StaJoin, StaGotIp, StaLost, Http, PostWifi,
       PostConfigSave, Finish, NotifyCheck, NotifyGive, PageBegin, PageEnd, UploadBegin,
     UploadEnd, HandlerResetGet, HttpOnly,
       vars, drvVars, lcVars
  <2> QED BY <2>1 DEF ApUp, HasAp
<1>4. CASE Restart
  BY <1>4, NoApPromise DEF Restart, RamLost, ApPoints, ServerPoints, DnsPoints, WaitPoints
<1> QED BY <1>1, <1>2, <1>3, <1>4 DEF Next

-----------------------------------------------------------------------------
(* The portal's parts and its access point exist just where they should.     *)
THEOREM PortalBracketed == Spec => []PortalInv
<1>1. PortalInv /\ [Next]_vars => PortalInv'
  BY TypeStep, PortalUpStep, ApUpStep DEF PortalInv
<1> QED BY InitPortal, <1>1, PTL DEF Spec

(* However a call ends, the portal is gone.                                  *)
THEOREM PortalTornDown == Spec => []TornDown
<1>1. PortalInv => TornDown
  BY DEF PortalInv, PortalUp, TornDown, ServerPoints, DnsPoints, WaitPoints
<1> QED BY <1>1, PortalBracketed, PTL

(* The server runs only over an access point that is up.                     *)
THEOREM PortalServedOverAp == Spec => []ServedOverAp
<1>1. PortalInv => ServedOverAp
  BY DEF PortalInv, PortalUp, ApUp, ServedOverAp, ApPoints
<1> QED BY <1>1, PortalBracketed, PTL

-----------------------------------------------------------------------------
(* StoppedIsQuiet: the handles priv_ holds are exactly the registered        *)
(* instances, so Stop() leaves none behind.                                 *)

HandlersExact == \A k \in Kinds : reg[k] = IF k \in tracked THEN 1 ELSE 0

(* Nothing is registered where a function that registers may begin.          *)
BarePoints == {"auto_load", "cfg_begin", "cfg_stopped", "sta_begin", "ap_begin"}
Bare == pc \in BarePoints => tracked = {}

(* Along a list of handlers: those still to register are not yet registered, *)
(* and those already unregistered stay so.                                   *)
Walking ==
    /\ pc = "sta_reg" => \A i \in idx..3 : StaKinds[i] \notin tracked
    /\ pc = "ap_reg" => \A i \in idx..3 : ApKinds[i] \notin tracked
    /\ pc = "stop_unreg" => tracked \subseteq {AllKinds[i] : i \in idx..6}

(* What each step of Stop() has achieved, event handlers notwithstanding.    *)
ClearedPoints == {"stop_netif", "stop_delay"}
BarredPoints == {"stop_clear"} \cup ClearedPoints
Shutdown ==
    /\ pc \in {"stop_unreg"} \cup BarredPoints => ~started /\ link = "idle"
    /\ pc \in BarredPoints => tracked = {} /\ running = NotRunning
    /\ pc \in ClearedPoints => bits = {}

(* The application's own Stop() runs nothing but Stop.                       *)
StopCall ==
    api = "Stop" =>
        \/ pc = "idle"
        \/ pc \in StopPoints /\ ret = "idle" /\ status = "none"

Settled ==
    pc = "idle" /\ api = "Stop" /\ status = "Ok" =>
        ~started /\ link = "idle" /\ tracked = {} /\ running = NotRunning /\ bits = {}

StopInv == HandlersExact /\ Bare /\ Walking /\ Shutdown /\ StopCall /\ Settled

-----------------------------------------------------------------------------
LEMMA InitStop == Init => StopInv
  BY DEF Init, DrvInit, HdlInit, LcInit, PvInit, StopInv, HandlersExact, Bare, BarePoints, Walking,
     Shutdown, ClearedPoints, BarredPoints, StopCall, Settled

(* Where control goes to a point of which only Bare says anything.           *)
LEMMA Elsewhere ==
    ASSUME HandlersExact, UNCHANGED <<reg, tracked>>, Bare', api' # "Stop",
           pc' \notin {"sta_reg", "ap_reg", "stop_unreg"} \cup BarredPoints
    PROVE  StopInv'
  BY DEF StopInv, HandlersExact, Walking, Shutdown, BarredPoints, ClearedPoints, StopCall, Settled

(* Steps of other tasks keep control and the handles where they are.         *)
LEMMA Aside ==
    ASSUME StopInv, UNCHANGED <<reg, lcVars, started, api>>,
           link = "idle" /\ ~started => link' = "idle",
           tracked = {} /\ running = NotRunning => running' = NotRunning /\ bits' = bits
    PROVE  StopInv'
<1>1. HandlersExact' /\ Bare' /\ Walking' /\ StopCall'
  BY DEF StopInv, HandlersExact, Bare, Walking, StopCall, lcVars
<1>2. Shutdown'
  BY DEF StopInv, Shutdown, BarredPoints, ClearedPoints, lcVars
<1>3. Settled'
  BY DEF StopInv, Settled, lcVars
<1> QED BY <1>1, <1>2, <1>3 DEF StopInv

LEMMA LoopStop == ASSUME TypeInv, StopInv, Loop PROVE StopInv'
<1>1. UNCHANGED <<reg, lcVars, started, api>>
  BY DEF Loop, EventLoop, Dispatch, OnStaStart, OnStaDiscIgnored, OnStaDiscBits, OnStaDiscRetry,
     OnGotIp, OnApStart, drvVars, pvVars
<1>2. link = "idle" /\ ~started => link' = "idle"
  BY DEF Loop, EventLoop, Dispatch, OnStaStart, OnStaDiscIgnored, OnStaDiscBits, OnStaDiscRetry,
     OnGotIp, OnApStart, ConnectsTo, drvVars
<1>3. ASSUME tracked = {}, running = NotRunning PROVE running' = NotRunning /\ bits' = bits
  <2>1. Dispatch
    BY <1>3 DEF Loop, EventLoop, OnStaStart, OnStaDiscIgnored, OnStaDiscBits, OnStaDiscRetry,
       OnGotIp, OnApStart, Enter, NotRunning
  <2>2. Head(evq) \in Kinds
    BY <2>1 DEF Dispatch, TypeInv, TypeOK, DrvTypeOK, Kinds
  <2>3. reg[Head(evq)] = 0
    BY <1>3, <2>2 DEF StopInv, HandlersExact
  <2> QED BY <2>1, <2>3 DEF Dispatch
<1> QED BY <1>1, <1>2, <1>3, Aside

LEMMA OthersStop ==
    ASSUME StopInv, Driver \/ Http \/ UNCHANGED vars
    PROVE  StopInv'
<1>1. CASE Driver
  BY <1>1, Aside DEF Driver, Air, StaJoin, StaGotIp, StaLost, hdlVars, pvVars
<1>2. CASE UNCHANGED vars
  BY <1>2, Aside DEF vars, drvVars, hdlVars, pvVars
<1>3. CASE Http
  <2>1. UNCHANGED <<drvVars, hdlVars, pc, ret, idx, status, netif, tracked, api>>
    BY <1>3 DEF Http, PostWifi, PostConfigSave, Finish, NotifyCheck, NotifyGive, PageBegin, PageEnd, UploadBegin,
       UploadEnd, HandlerResetGet, HttpOnly, lcVars, pvVars
  <2> QED BY <2>1 DEF StopInv, HandlersExact, Bare, Walking, Shutdown, BarredPoints, ClearedPoints,
     StopCall, Settled, drvVars, hdlVars
<1> QED BY <1>1, <1>2, <1>3

LEMMA AppStop ==
    ASSUME TypeInv, StopInv, NEW c \in ApiCalls, AppCall(c), c # "Stop" => tracked = {}
    PROVE  StopInv'
<1>1. /\ pc' = EntryOf(c) /\ ret' = "idle" /\ status' = "none" /\ api' = c
      /\ UNCHANGED <<reg, tracked>>
  BY DEF AppCall, Call, Local, hdlVars
<1>2. CASE c = "Stop"
  <2>1. pc' = "stop_disc"
    BY <1>1, <1>2 DEF EntryOf
  <2> QED BY <1>1, <2>1 DEF StopInv, HandlersExact, Bare, BarePoints, Walking, Shutdown,
     BarredPoints, ClearedPoints, StopCall, StopPoints, Settled
<1>3. CASE c # "Stop"
  <2>1. pc' \in {"auto_load", "cfg_begin", "sta_begin", "ap_begin"} /\ tracked' = {}
    BY <1>1, <1>3 DEF EntryOf, ApiCalls
  <2> QED BY <1>1, <1>3, <2>1, Elsewhere DEF StopInv, Bare, BarredPoints, ClearedPoints
<1> QED BY <1>2, <1>3

LEMMA RestartStop == ASSUME Restart PROVE StopInv'
  BY DEF Restart, RamLost, StopInv, HandlersExact, Bare, BarePoints, Walking, Shutdown,
     ClearedPoints,
     BarredPoints, StopCall, Settled

-----------------------------------------------------------------------------
(* The application task *)

(* Registering the next kind of a list of which no later one is registered.  *)
LEMMA RegisterStop ==
    ASSUME TypeInv, StopInv, UNCHANGED pvVars, api # "Stop",
           NEW next \in {"sta_mode", "ap_mode"}, NEW kinds \in {StaKinds, ApKinds},
           \/ pc = "sta_reg" /\ kinds = StaKinds
           \/ pc = "ap_reg" /\ kinds = ApKinds,
           Register(kinds, next)
    PROVE  StopInv'
<1>1. idx \in 1..3 /\ Len(kinds) = 3 /\ \A i \in 1..3 : kinds[i] \in Kinds
  BY DEF TypeInv, Control, StaKinds, ApKinds, Kinds, EventKinds
<1>2. \A i, j \in 1..3 : i # j => kinds[i] # kinds[j]
  BY DEF StaKinds, ApKinds
<1>3. \A i \in idx..3 : kinds[i] \notin tracked
  BY DEF StopInv, Walking
<1>4. UNCHANGED api
  BY DEF pvVars
<1>5. CASE Fail("WifiError") /\ UNCHANGED <<reg, tracked>>
  <2>1. pc' = "idle"
    BY <1>5 DEF Fail, Return
  <2> QED BY <1>4, <1>5, <2>1, Elsewhere DEF StopInv, Bare, BarePoints, BarredPoints, ClearedPoints
<1>6. CASE ~(Fail("WifiError") /\ UNCHANGED <<reg, tracked>>)
  <2> DEFINE k == kinds[idx]
  <2>1. /\ reg' = [reg EXCEPT ![k] = @ + 1] /\ tracked' = tracked \cup {k}
        /\ idx' = idx + 1 /\ pc' = IF idx = 3 THEN next ELSE pc
    BY <1>1, <1>6 DEF Register
  <2>2. k \in Kinds /\ k \notin tracked /\ reg \in [Kinds -> 0..RegLimit]
    BY <1>1, <1>3 DEF TypeInv, TypeOK, HdlTypeOK
  <2>3. HandlersExact'
    BY <2>1, <2>2 DEF StopInv, HandlersExact
  <2>4. \A i \in idx'..3 : kinds[i] \notin tracked'
    BY <1>1, <1>2, <1>3, <2>1
  <2>5. /\ pc' \in {"sta_reg", "ap_reg", "sta_mode", "ap_mode"}
        /\ pc' \in {"sta_reg", "ap_reg"} => pc' = pc
    BY <2>1
  <2>6. Walking'
    BY <2>4, <2>5 DEF Walking
  <2> QED BY <1>4, <2>3, <2>5, <2>6
      DEF StopInv, Bare, BarePoints, Shutdown, BarredPoints, ClearedPoints, StopCall, Settled
<1> QED BY <1>5, <1>6

LEMMA StartStaStop == ASSUME TypeInv, StopInv, StartSta, UNCHANGED pvVars PROVE StopInv'
<1>1. pc \in StartStaPoints
  BY DEF StartSta, StaBegin, StaRegister, StaMode, StaConfig, StaGo, StartStaPoints
<1>2. api # "Stop" /\ api' # "Stop"
  BY <1>1 DEF StopInv, StopCall, StartStaPoints, StopPoints, pvVars
<1>3. CASE StaBegin
  <2>1. pc' \in {"sta_reg", "idle"} /\ idx' = 1 /\ tracked = {} /\ UNCHANGED <<reg, tracked>>
    BY <1>3 DEF StaBegin, Clear, NewNetif, Goto, Fail, Return, StopInv, Bare, BarePoints
  <2> QED BY <1>2, <2>1 DEF StopInv, HandlersExact, Bare, BarePoints, Walking, Shutdown,
     BarredPoints, ClearedPoints, StopCall, Settled
<1>4. CASE StaRegister
  <2>1. pc = "sta_reg" /\ Register(StaKinds, "sta_mode")
    BY <1>4 DEF StaRegister
  <2> QED BY <1>2, <2>1, RegisterStop
<1>5. CASE StaMode \/ StaConfig \/ StaGo
  <2>1. pc' \in {"sta_cfg", "sta_go", "idle", "cfg_conn", "auto_conn"} /\ UNCHANGED <<reg, tracked>>
    BY <1>1, <1>5 DEF StaMode, StaConfig, ConfigFailure, StaGo, Goto, Fail, Return, Succeed, TypeInv, Control, hdlVars
  <2> QED BY <1>2, <2>1, Elsewhere DEF StopInv, Bare, BarePoints, BarredPoints, ClearedPoints
<1> QED BY <1>3, <1>4, <1>5 DEF StartSta

LEMMA StartApStop == ASSUME TypeInv, StopInv, StartAp, UNCHANGED pvVars PROVE StopInv'
<1>1. pc \in StartApPoints
  BY DEF StartAp, ApBegin, ApRegister, ApMode, ApGo, StartApPoints
<1>2. api # "Stop" /\ api' # "Stop"
  BY <1>1 DEF StopInv, StopCall, StartApPoints, StopPoints, pvVars
<1>3. CASE ApBegin
  <2>1. pc' \in {"ap_reg", "idle"} /\ idx' = 1 /\ tracked = {} /\ UNCHANGED <<reg, tracked>>
    BY <1>3 DEF ApBegin, Clear, NewNetif, Goto, Fail, Return, StopInv, Bare, BarePoints
  <2> QED BY <1>2, <2>1 DEF StopInv, HandlersExact, Bare, BarePoints, Walking, Shutdown,
     BarredPoints, ClearedPoints, StopCall, Settled
<1>4. CASE ApRegister
  <2>1. pc = "ap_reg" /\ Register(ApKinds, "ap_mode")
    BY <1>4 DEF ApRegister
  <2> QED BY <1>2, <2>1, RegisterStop
<1>5. CASE ApMode \/ ApGo
  <2>1. pc' \in {"ap_go", "idle", "cfg_wait"} /\ UNCHANGED <<reg, tracked>>
    BY <1>1, <1>5 DEF ApMode, ApGo, Goto, Fail, Return, Succeed, TypeInv, Control, hdlVars
  <2> QED BY <1>2, <2>1, Elsewhere DEF StopInv, Bare, BarePoints, BarredPoints, ClearedPoints
<1> QED BY <1>3, <1>4, <1>5 DEF StartAp
LEMMA StopStop == ASSUME TypeInv, StopInv, Stop, UNCHANGED pvVars PROVE StopInv'
<1>1. UNCHANGED api /\ (api = "Stop" => ret = "idle" /\ status = "none") /\ pc \in StopPoints
  BY DEF Stop, StopDisconnect, StopDriver, StopUnregister, StopClear, StopNetif, StopDelay,
     StopInv, StopCall, StopPoints, pvVars
<1>2. CASE StopDisconnect
  <2>1. pc' = "stop_drv" /\ UNCHANGED <<reg, tracked, ret, status>>
    BY <1>2 DEF StopDisconnect, Goto, Return, hdlVars
  <2> QED BY <1>1, <2>1 DEF StopInv, HandlersExact, Bare, BarePoints, Walking, Shutdown,
     BarredPoints, ClearedPoints, StopCall, StopPoints, Settled
<1>3. CASE StopDriver
  <2>1. /\ pc' = "stop_unreg" /\ idx' = 1 /\ ~started' /\ link' = "idle"
        /\ UNCHANGED <<reg, tracked, ret, status>>
    BY <1>3 DEF StopDriver, DriverStop, Goto, Return, hdlVars
  <2>2. tracked \subseteq {AllKinds[i] : i \in 1..6}
    <3>1. Kinds = {AllKinds[1], AllKinds[2], AllKinds[3], AllKinds[4], AllKinds[5], AllKinds[6]}
      BY DEF AllKinds, ApKinds, StaKinds, Kinds, EventKinds
    <3>2. tracked \subseteq Kinds
      BY DEF TypeInv, TypeOK, LcTypeOK
    <3> QED BY <3>1, <3>2
  <2> QED BY <1>1, <2>1, <2>2 DEF StopInv, HandlersExact, Bare, BarePoints, Walking, Shutdown,
     BarredPoints, ClearedPoints, StopCall, StopPoints, Settled
<1>4. CASE StopUnregister
  <2> DEFINE k == AllKinds[idx]
  <2>1. /\ idx \in 1..6 /\ Len(AllKinds) = 6 /\ k \in Kinds
        /\ tracked \subseteq {AllKinds[i] : i \in idx..6}
        /\ ~started /\ link = "idle"
    BY <1>4 DEF StopUnregister, TypeInv, Control, StopInv, Walking, Shutdown, AllKinds, ApKinds,
       StaKinds, Kinds, EventKinds
  <2>2. /\ reg' = Unregistered(k) /\ tracked' = tracked \ {k} /\ idx' = idx + 1
        /\ pc' = IF idx = 6 THEN "stop_clear" ELSE "stop_unreg"
        /\ running = NotRunning /\ UNCHANGED <<started, link, running, ret, status>>
    BY <1>4, <2>1 DEF StopUnregister, drvVars
  <2>3. HandlersExact'
    <3>1. reg \in [Kinds -> 0..RegLimit]
      BY DEF TypeInv, TypeOK, HdlTypeOK
    <3> QED BY <2>1, <2>2, <3>1 DEF StopInv, HandlersExact, Unregistered
  <2>4. tracked' \subseteq {AllKinds[i] : i \in idx'..6}
    BY <2>1, <2>2
  <2>5. idx = 6 => tracked' = {}
    BY <2>1, <2>2
  <2> QED BY <1>1, <2>1, <2>2, <2>3, <2>4, <2>5 DEF StopInv, Bare, BarePoints, Walking, Shutdown,
     BarredPoints, ClearedPoints, StopCall, StopPoints, Settled
<1>5. CASE StopClear \/ StopNetif
  <2>1. /\ pc \in {"stop_clear", "stop_netif"} /\ pc' \in ClearedPoints
        /\ UNCHANGED <<started, link, reg, tracked, running, ret, status>>
        /\ bits' \subseteq bits /\ (pc = "stop_clear" => bits' = bits \ Bits)
    BY <1>5 DEF StopClear, StopNetif, Clear, Goto, Return, ClearedPoints, drvVars, hdlVars
  <2>2. bits' = {}
    BY <2>1 DEF StopInv, Shutdown, ClearedPoints, TypeInv, TypeOK, HdlTypeOK
  <2> QED BY <1>1, <2>1, <2>2 DEF StopInv, HandlersExact, Bare, BarePoints, Walking, Shutdown,
     BarredPoints, ClearedPoints, StopCall, StopPoints, Settled
<1>6. CASE StopDelay
  <2>1. /\ pc = "stop_delay" /\ pc' = ret
        /\ UNCHANGED <<started, link, reg, tracked, running, bits>>
    BY <1>6 DEF StopDelay, Succeed, Return, drvVars, hdlVars
  <2>2. ~started /\ link = "idle" /\ tracked = {} /\ running = NotRunning /\ bits = {}
    BY <2>1 DEF StopInv, Shutdown, BarredPoints, ClearedPoints
  <2>3. ret \in {"idle", "cfg_stopped", "cfg_begin"}
    BY <1>1 DEF TypeInv, Control
  <2> QED BY <1>1, <2>1, <2>2, <2>3 DEF StopInv, HandlersExact, Bare, BarePoints, Walking, Shutdown,
     BarredPoints, ClearedPoints, StopCall, Settled
<1> QED BY <1>2, <1>3, <1>4, <1>5, <1>6 DEF Stop

LEMMA ConfigStop == ASSUME StopInv, ConfigViaAp PROVE StopInv'
<1>1. /\ pc \in PortalPoints
      /\ pc' \in PortalPoints \cup {"idle", "ap_begin", "sta_begin", "stop_disc"}
      /\ pc' \notin {"cfg_begin"}
      /\ pc' \in BarePoints => pc \in BarePoints
      /\ UNCHANGED <<reg, tracked, api>>
  <2> USE DEF PortalPoints, BarePoints, Goto, Return, Fail, Call, Local, AwaitBits, EndWait, drvVars,
          hdlVars, pvVars
  <2>1. CASE CfgBegin \/ CfgWait \/ CfgApUp \/ CfgApTimeout \/ CfgApSta \/ CfgServer \/ CfgDns
    BY <2>1 DEF CfgBegin, CfgWait, CfgApUp, CfgApTimeout, CfgApSta, CfgServer, CfgDns
  <2>2. CASE CfgArm \/ CfgTake \/ CfgDisarm \/ CfgCheck \/ CfgDnsOff \/ CfgWebOff
    BY <2>2 DEF CfgArm, CfgTake, CfgDisarm, AfterTake, CfgCheck, CfgDnsOff, CfgWebOff
  <2>3. CASE CfgStopped \/ CfgConn \/ CfgConnDone
    BY <2>3 DEF CfgStopped, CfgConn, CfgConnDone
  <2> QED BY <2>1, <2>2, <2>3 DEF ConfigViaAp
<1>2. api' # "Stop"
  BY <1>1 DEF StopInv, StopCall, PortalPoints, StopPoints
<1>3. Bare'
  BY <1>1 DEF StopInv, Bare
<1> QED BY <1>1, <1>2, <1>3, Elsewhere DEF StopInv, PortalPoints, BarredPoints, ClearedPoints

LEMMA AutoStop == ASSUME StopInv, AutoConnect PROVE StopInv'
<1>1. /\ pc \in AutoPoints
      /\ pc' \in {"sta_begin", "cfg_begin", "auto_connwait", "idle", "stop_disc"}
      /\ pc' \in BarePoints => pc = "auto_load"
      /\ UNCHANGED <<reg, tracked, api>>
  BY DEF AutoConnect, AutoLoad, AutoConn, AutoConnDone, FallBack, AutoPoints, BarePoints, Goto,
     Return, Call, Local, AwaitBits, EndWait, hdlVars, pvVars
<1>2. api' # "Stop"
  BY <1>1 DEF StopInv, StopCall, AutoPoints, StopPoints
<1>3. Bare'
  BY <1>1 DEF StopInv, Bare, BarePoints
<1> QED BY <1>1, <1>2, <1>3, Elsewhere DEF StopInv, BarredPoints, ClearedPoints

LEMMA StopInvStep == ASSUME StopFirst PROVE TypeInv /\ StopInv /\ [Next]_vars => StopInv'
<1> SUFFICES ASSUME TypeInv, StopInv, [Next]_vars PROVE StopInv'
  OBVIOUS
<1>1. CASE \E c \in AppCalls : AppCall(c) BY <1>1, AppStop, AppAssumption DEF AppCall
<1>2. CASE CallStep
  BY <1>2, StartStaStop, StartApStop, StopStop, ConfigStop, AutoStop DEF CallStep
<1>3. CASE Loop BY <1>3, LoopStop
<1>4. CASE Driver \/ Http \/ UNCHANGED vars BY <1>4, OthersStop
<1>5. CASE Restart BY <1>5, RestartStop
<1> QED BY <1>1, <1>2, <1>3, <1>4, <1>5 DEF Next

-----------------------------------------------------------------------------
(* An application that calls Stop() before it starts anything anew finds,    *)
(* when that call has returned, no handler registered, no link and no bit    *)
(* set, and nothing sets one later.                                          *)
THEOREM StopIsQuiet == ASSUME StopFirst PROVE Spec => []StoppedIsQuiet
<1>1. TypeInv /\ StopInv /\ [Next]_vars => StopInv'
  BY StopInvStep
<1>2. StopInv => StoppedIsQuiet
  BY DEF StopInv, HandlersExact, Settled, StoppedIsQuiet
<1> QED BY InitStop, <1>1, <1>2, TypeCorrect, PTL DEF Spec

(* The one step that writes NVS, StartSta's esp_wifi_set_config, is taken    *)
(* with an SSID; no other step of any task but a restart's Init touches it.  *)
LEMMA SavedKept == ASSUME [Next]_vars, ~Restart, saved # NoSsid PROVE saved' # NoSsid
<1>1. CASE StartSta
  BY <1>1 DEF StartSta, StaBegin, StaRegister, Register, StaMode, SetMode, StaConfig, SetStaConfig,
     HaveSsid, StaGo, DriverStart, drvVars
<1>2. CASE StartAp \/ Stop
  BY <1>2 DEF StartAp, ApBegin, ApRegister, Register, ApMode, SetMode, ApGo, DriverStart, Stop,
     StopDisconnect, Disconnect, StopDriver, DriverStop, StopUnregister, StopClear, StopNetif,
     StopDelay, drvVars
<1>3. CASE ConfigViaAp
  BY <1>3 DEF ConfigViaAp, CfgBegin, CfgWait, CfgApUp, CfgApTimeout, CfgApSta, CfgServer, CfgDns,
     CfgArm, CfgTake, CfgDisarm, CfgCheck, CfgDnsOff, CfgWebOff, CfgStopped, CfgConn, CfgConnDone,
     SetMode, AwaitBits, EndWait, Local, drvVars
<1>4. CASE AutoConnect
  BY <1>4 DEF AutoConnect, AutoLoad, AutoConn, AutoConnDone, AwaitBits, EndWait, Local, drvVars
<1>5. CASE Loop \/ Driver
  BY <1>5 DEF Loop, EventLoop, Dispatch, OnStaStart, OnStaDiscIgnored, OnStaDiscBits,
     OnStaDiscRetry, OnGotIp, OnApStart, Driver, Air, StaJoin, StaGotIp, StaLost, drvVars
<1>6. CASE Http
  BY <1>6 DEF Http, PostWifi, PostConfigSave, Finish, NotifyCheck, NotifyGive, PageBegin, PageEnd, UploadBegin,
     UploadEnd, HandlerResetGet, HttpOnly, drvVars
<1>7. CASE (\E c \in AppCalls : AppCall(c)) \/ UNCHANGED vars
  BY <1>7 DEF AppCall, Local, vars, drvVars
<1> QED BY <1>1, <1>2, <1>3, <1>4, <1>5, <1>6, <1>7 DEF Next, CallStep
=============================================================================
