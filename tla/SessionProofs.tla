---------------------------- MODULE SessionProofs ----------------------------
(***************************************************************************)
(* What the calls' answers, the connection bits and the portal may be taken *)
(* to mean, for an application that calls Stop() before it starts anything  *)
(* anew and an event loop that catches up during Stop()'s final delay:      *)
(* OkIsSaved, PortalStationIdle, RetryBudget, OkIsFresh, ConnBitAccurate.   *)
(***************************************************************************)
EXTENDS ProvisioningProofs

CallPoints == StartStaPoints \cup StartApPoints \cup StopPoints
ConnPoints == {"cfg_conn", "cfg_connwait", "auto_conn", "auto_connwait"}
WaitingPoints == {"cfg_blocked", "cfg_connwait", "auto_connwait"}
Provisioned == {"AutoConnect", "ConfigViaAp"}

-----------------------------------------------------------------------------
(* The answer of a call, and the SSID it leaves in NVS *)

(* A call answers once, at its end; one that StartSta, StartAp or Stop       *)
(* returns straight to the application is none of the provisioning calls.    *)
Answers ==
    /\ pc # "idle" => status # "Ok"
    /\ pc \in CallPoints /\ ret = "idle" => api \notin Provisioned

(* From esp_wifi_set_config on nobody changes sta_config_.                   *)
Configured == pc \in {"sta_go"} \cup ConnPoints => sta \in {saved, NoSsid}

(* Bits are handed over only to a task that waits for them.                  *)
Awake == pc \notin WaitingPoints => mask = {} /\ woken = {}

AnswerInv == Answers /\ Configured /\ Awake

LEMMA InitAnswer == Init => AnswerInv
  BY DEF Init, DrvInit, HdlInit, LcInit, PvInit, AnswerInv, Answers, CallPoints, StartStaPoints,
     StartApPoints, StopPoints, Configured, ConnPoints, Awake

LEMMA StartStaAnswer == ASSUME TypeInv, AnswerInv, StartSta, UNCHANGED pvVars PROVE AnswerInv'
<1> USE DEF AnswerInv, Answers, CallPoints, StartStaPoints, StartApPoints, StopPoints, Configured,
        ConnPoints, Awake, WaitingPoints, Provisioned, pvVars, hdlVars, Goto, Return, Fail
<1>1. CASE StaBegin BY <1>1 DEF StaBegin, Clear, NewNetif
<1>2. CASE StaRegister BY <1>2 DEF StaRegister, Register
<1>3. CASE StaMode BY <1>3 DEF StaMode
<1>4. CASE StaConfig
  BY <1>4 DEF StaConfig, SetStaConfig, HaveSsid, ConfigFailure, drvVars
<1>5. CASE StaGo
  <2>1. ret \in {"idle", "cfg_conn", "auto_conn"} /\ sta \in {saved, NoSsid}
    BY <1>5 DEF StaGo, TypeInv, Control
  <2>2. saved' = saved /\ sta' = sta
    BY <1>5 DEF StaGo, DriverStart, drvVars
  <2> QED BY <1>5, <2>1, <2>2 DEF StaGo, Succeed
<1> QED BY <1>1, <1>2, <1>3, <1>4, <1>5 DEF StartSta

LEMMA StartApAnswer == ASSUME TypeInv, AnswerInv, StartAp, UNCHANGED pvVars PROVE AnswerInv'
<1> USE DEF AnswerInv, Answers, CallPoints, StartStaPoints, StartApPoints, StopPoints, Configured,
        ConnPoints, Awake, WaitingPoints, Provisioned, pvVars, hdlVars, Goto, Return, Fail
<1>1. CASE ApBegin BY <1>1 DEF ApBegin, Clear, NewNetif
<1>2. CASE ApRegister BY <1>2 DEF ApRegister, Register
<1>3. CASE ApMode BY <1>3 DEF ApMode
<1>4. CASE ApGo
  <2>1. ret \in {"idle", "cfg_wait"}
    BY <1>4 DEF ApGo, TypeInv, Control
  <2> QED BY <1>4, <2>1 DEF ApGo, Succeed
<1> QED BY <1>1, <1>2, <1>3, <1>4 DEF StartAp

LEMMA StopAnswer == ASSUME TypeInv, AnswerInv, Stop, UNCHANGED pvVars PROVE AnswerInv'
<1> USE DEF AnswerInv, Answers, CallPoints, StartStaPoints, StartApPoints, StopPoints, Configured,
        ConnPoints, Awake, WaitingPoints, Provisioned, pvVars, hdlVars, Goto, Return
<1>1. CASE StopDisconnect BY <1>1 DEF StopDisconnect
<1>2. CASE StopDriver BY <1>2 DEF StopDriver
<1>3. CASE StopUnregister BY <1>3 DEF StopUnregister
<1>4. CASE StopClear BY <1>4 DEF StopClear, Clear
<1>5. CASE StopNetif BY <1>5 DEF StopNetif
<1>6. CASE StopDelay
  <2>1. ret \in {"idle", "cfg_stopped", "cfg_begin"}
    BY <1>6 DEF StopDelay, TypeInv, Control
  <2> QED BY <1>6, <2>1 DEF StopDelay, Succeed
<1> QED BY <1>1, <1>2, <1>3, <1>4, <1>5, <1>6 DEF Stop

LEMMA ConfigAnswer == ASSUME AnswerInv, ConfigViaAp PROVE AnswerInv'
<1> USE DEF AnswerInv, Answers, CallPoints, StartStaPoints, StartApPoints, StopPoints, Configured,
        ConnPoints, Awake, WaitingPoints, Provisioned, pvVars, hdlVars, Goto, Return, Fail,
        Call, Local, drvVars
<1>1. CASE CfgBegin BY <1>1 DEF CfgBegin
<1>2. CASE CfgWait \/ CfgConn BY <1>2 DEF CfgWait, CfgConn, AwaitBits
<1>3. CASE CfgApUp \/ CfgApTimeout BY <1>3 DEF CfgApUp, CfgApTimeout, EndWait
<1>4. CASE CfgApSta BY <1>4 DEF CfgApSta
<1>5. CASE CfgServer \/ CfgDns \/ CfgArm \/ CfgTake \/ CfgDisarm
  BY <1>5 DEF CfgServer, CfgDns, CfgArm, CfgTake, CfgDisarm, AfterTake
<1>6. CASE CfgCheck \/ CfgDnsOff \/ CfgWebOff \/ CfgStopped
  BY <1>6 DEF CfgCheck, CfgDnsOff, CfgWebOff, CfgStopped
<1>7. CASE CfgConnDone BY <1>7 DEF CfgConnDone, EndWait
<1> QED BY <1>1, <1>2, <1>3, <1>4, <1>5, <1>6, <1>7 DEF ConfigViaAp

LEMMA AutoAnswer == ASSUME AnswerInv, AutoConnect PROVE AnswerInv'
<1> USE DEF AnswerInv, Answers, CallPoints, StartStaPoints, StartApPoints, StopPoints, Configured,
        ConnPoints, Awake, WaitingPoints, Provisioned, pvVars, hdlVars, Goto, Return, Call, Local,
        drvVars
<1>1. CASE AutoLoad BY <1>1 DEF AutoLoad
<1>2. CASE AutoConn BY <1>2 DEF AutoConn, AwaitBits
<1>3. CASE AutoConnDone BY <1>3 DEF AutoConnDone, FallBack, EndWait
<1> QED BY <1>1, <1>2, <1>3 DEF AutoConnect

(* A task that waits for nothing is not unblocked by an event handler.       *)
LEMMA LoopAnswer == ASSUME AnswerInv, Loop PROVE AnswerInv'
<1>1. UNCHANGED <<lcVars, pvVars, saved, mask>>
  BY DEF Loop, EventLoop, Dispatch, OnStaStart, OnStaDiscIgnored, OnStaDiscBits, OnStaDiscRetry,
     OnGotIp, OnApStart, drvVars
<1>2. mask = {} /\ woken = {} => woken' = {}
  BY DEF Loop, EventLoop, Dispatch, OnStaStart, OnStaDiscIgnored, OnStaDiscBits, OnStaDiscRetry,
     OnGotIp, OnApStart, UpdateBits
<1> QED BY <1>1, <1>2 DEF AnswerInv, Answers, Configured, Awake, lcVars, pvVars

LEMMA AppAnswer == ASSUME AnswerInv, NEW c \in ApiCalls, AppCall(c) PROVE AnswerInv'
<1>1. /\ pc = "idle" /\ pc' = EntryOf(c) /\ status' = "none" /\ api' = c
      /\ UNCHANGED <<mask, woken>>
  BY DEF AppCall, Call, Local, hdlVars
<1>2. /\ pc' \in {"auto_load", "cfg_begin", "sta_begin", "ap_begin", "stop_disc"}
      /\ pc' \in CallPoints => c \notin Provisioned
  BY <1>1 DEF EntryOf, ApiCalls, Provisioned, CallPoints, StartStaPoints, StartApPoints, StopPoints
<1> QED BY <1>1, <1>2 DEF AnswerInv, Answers, Configured, ConnPoints, Awake, WaitingPoints

(* A form may change sta_config_ only where no call relies on it.            *)
LEMMA HttpAnswer ==
    ASSUME AnswerInv, Http, server => pc \notin {"sta_go"} \cup ConnPoints
    PROVE  AnswerInv'
<1>1. /\ UNCHANGED <<saved, mask, woken, pc, ret, status, api>>
      /\ sta' # sta => server
  BY DEF Http, PostWifi, PostConfigSave, Finish, NotifyCheck, NotifyGive, PageBegin, PageEnd,
     UploadBegin, UploadEnd, HandlerResetGet, HttpOnly, drvVars, hdlVars, lcVars, pvVars
<1> QED BY <1>1 DEF AnswerInv, Answers, Configured, Awake

LEMMA OthersAnswer == ASSUME AnswerInv, Driver \/ UNCHANGED vars PROVE AnswerInv'
  BY DEF Driver, Air, StaJoin, StaGotIp, StaLost, vars, AnswerInv, Answers, Configured, Awake,
     drvVars, hdlVars, lcVars, pvVars

LEMMA RestartAnswer == ASSUME Restart PROVE AnswerInv'
  BY DEF Restart, RamLost, AnswerInv, Answers, CallPoints, StartStaPoints, StartApPoints,
     StopPoints,
     Configured, ConnPoints, Awake

LEMMA CallAnswer == ASSUME TypeInv, AnswerInv, CallStep PROVE AnswerInv'
  BY StartStaAnswer, StartApAnswer, StopAnswer, ConfigAnswer, AutoAnswer DEF CallStep

LEMMA AnswerStep == TypeInv /\ PortalUp /\ AnswerInv /\ [Next]_vars => AnswerInv'
<1> SUFFICES ASSUME TypeInv, PortalUp, AnswerInv, [Next]_vars PROVE AnswerInv'
  OBVIOUS
<1>1. CASE \E c \in AppCalls : AppCall(c) BY <1>1, AppAnswer, AppAssumption
<1>2. CASE Http
  <2>1. server => pc \notin {"sta_go"} \cup ConnPoints
    BY DEF PortalUp, ServerPoints, DnsPoints, WaitPoints, ConnPoints
  <2> QED BY <1>2, <2>1, HttpAnswer
<1> QED BY <1>1, <1>2, CallAnswer, LoopAnswer, OthersAnswer, RestartAnswer DEF Next

(* The two waits that end in Ok end with the connection bit.                 *)
LEMMA OkNeedsBit ==
    ASSUME TypeInv, Answers, CallStep, pc' = "idle", status' = "Ok", api' \in Provisioned
    PROVE  "StaConnected" \in woken /\ pc \in ConnPoints /\ UNCHANGED <<everUp, saved, sta>>
<1> USE DEF Answers, CallPoints, StartStaPoints, StartApPoints, StopPoints, Goto, Return, Fail, Call,
        Succeed, pvVars
<1>1. CASE (StartSta \/ StartAp \/ Stop) /\ UNCHANGED pvVars
  BY <1>1 DEF StartSta, StaBegin, NewNetif, StaRegister, Register, StaMode, StaConfig, ConfigFailure,
     StaGo, StartAp, ApBegin, ApRegister, ApMode, ApGo, Stop, StopDisconnect, StopDriver,
     StopUnregister, StopClear, StopNetif, StopDelay
<1>2. CASE ConfigViaAp
  BY <1>2 DEF ConfigViaAp, CfgBegin, CfgWait, CfgApUp, CfgApTimeout, CfgApSta, CfgServer, CfgDns,
     CfgArm, CfgTake, CfgDisarm, AfterTake, CfgCheck, CfgDnsOff, CfgWebOff, CfgStopped, CfgConn,
     CfgConnDone, ConnResult, AwaitBits, EndWait, ConnPoints, drvVars
<1>3. CASE AutoConnect
  BY <1>3 DEF AutoConnect, AutoLoad, AutoConn, AutoConnDone, FallBack, AwaitBits, EndWait,
     ConnPoints, drvVars
<1> QED BY <1>1, <1>2, <1>3 DEF CallStep

LEMMA SavedStep == TypeInv /\ PortalUp /\ AnswerInv /\ OkIsSaved /\ [Next]_vars => OkIsSaved'
<1> SUFFICES ASSUME TypeInv, PortalUp, AnswerInv, OkIsSaved, [Next]_vars,
                    pc' = "idle", status' = "Ok", api' \in Provisioned
             PROVE  sta' \in {saved', NoSsid}
  BY DEF OkIsSaved, Provisioned
<1>1. CASE CallStep
  <2>1. pc \in ConnPoints /\ UNCHANGED <<saved, sta>>
    BY <1>1, OkNeedsBit DEF AnswerInv
  <2> QED BY <2>1 DEF AnswerInv, Configured
<1>2. CASE (\E c \in AppCalls : AppCall(c)) \/ Restart
  BY <1>2 DEF AppCall, Restart, RamLost
<1>3. CASE Loop \/ Driver \/ UNCHANGED vars
  <2>1. UNCHANGED <<pc, status, api, sta, saved>>
    BY <1>3 DEF Loop, EventLoop, Dispatch, OnStaStart, OnStaDiscIgnored, OnStaDiscBits,
       OnStaDiscRetry, OnGotIp, OnApStart, Driver, Air, StaJoin, StaGotIp, StaLost, vars, drvVars,
       lcVars, pvVars
  <2> QED BY <2>1 DEF OkIsSaved, Provisioned
<1>4. CASE Http
  <2>1. UNCHANGED <<pc, status, api, saved>> /\ (sta' # sta => server)
    BY <1>4 DEF Http, PostWifi, PostConfigSave, Finish, NotifyCheck, NotifyGive, PageBegin, PageEnd,
       UploadBegin, UploadEnd, HandlerResetGet, HttpOnly, drvVars, lcVars, pvVars
  <2>2. pc = "idle" => ~server
    BY DEF PortalUp, ServerPoints, DnsPoints, WaitPoints
  <2> QED BY <2>1, <2>2 DEF OkIsSaved, Provisioned
<1> QED BY <1>1, <1>2, <1>3, <1>4 DEF Next

(* Whatever was submitted and whenever, a call that answers Ok leaves in NVS *)
(* the SSID the component holds.                                             *)
THEOREM OkLeavesSaved == Spec => []OkIsSaved
<1>1. PortalInv /\ AnswerInv /\ OkIsSaved /\ [Next]_vars => (AnswerInv /\ OkIsSaved)'
  BY AnswerStep, SavedStep DEF PortalInv
<1>2. Init => OkIsSaved
  BY DEF Init, LcInit, OkIsSaved
<1> QED BY InitAnswer, <1>1, <1>2, PortalBracketed, PTL DEF Spec

-----------------------------------------------------------------------------
(* Where nothing of an earlier session is left *)

StaSet == {"STA_START", "STA_DISC", "GOT_IP"}

Still == evq = <<>> /\ ~started /\ link = "idle" /\ running = NotRunning
StartPoints == BarePoints \cup {"sta_reg", "sta_mode", "sta_cfg", "sta_go", "ap_reg", "ap_mode", "ap_go"}

(* The application may start something only when nothing stirs, and nothing  *)
(* does until the driver is started.                                         *)
BeforeStart ==
    /\ pc \in StartPoints => Still
    /\ pc = "idle" /\ netif = "none" /\ tracked = {} => Still
    /\ pc \in ConnPoints \cup (StartStaPoints \ {"sta_begin"}) => netif = "STA"
    /\ pc \in {"sta_cfg", "sta_go"} => mode = "STA"

(* Without station handlers there is no station link: it is a handler that   *)
(* connects.  ConfigViaAp has none until it has stopped the access point.    *)
StaOff ==
    /\ tracked \cap StaSet = {} => link = "idle" /\ running.kind \notin StaSet
    /\ pc \in StartApPoints \cup ApPoints => tracked \cap StaSet = {}

(* A start that failed among its registrations has started nothing.          *)
DownPoints == {"stop_unreg", "stop_clear", "stop_netif", "stop_delay"}
AllOrNone ==
    /\ pc = "sta_reg" => \A i \in 1..3 : i < idx => StaKinds[i] \in tracked
    /\ pc \in {"sta_mode", "sta_cfg", "sta_go"} => StaSet \subseteq tracked
    /\ pc \notin DownPoints /\ tracked \cap StaSet \notin {{}, StaSet} => Still

StartInv == BeforeStart /\ StaOff /\ AllOrNone

LEMMA InitStart == Init => StartInv
  BY DEF Init, DrvInit, HdlInit, LcInit, PvInit, StartInv, BeforeStart, StartPoints, BarePoints,
     Still, ConnPoints, StartStaPoints, StaOff, StartApPoints, ApPoints, ServerPoints, DnsPoints,
     WaitPoints, StaSet, NotRunning, AllOrNone

(* Nothing happens in a still system.                                        *)
LEMMA StillKept == ASSUME Still, Loop \/ Driver PROVE FALSE
  BY DEF Still, Loop, EventLoop, Dispatch, OnStaStart, OnStaDiscIgnored, OnStaDiscBits,
     OnStaDiscRetry, OnGotIp, OnApStart, Enter, NotRunning, Driver, Air, StaJoin, StaGotIp, StaLost

LEMMA StartStaStart == ASSUME TypeInv, StopInv, StartInv, StartSta PROVE StartInv'
<1> USE DEF StartInv, BeforeStart, StartPoints, BarePoints, ConnPoints, StartStaPoints, StaOff,
        StartApPoints, ApPoints, ServerPoints, DnsPoints, WaitPoints, AllOrNone, DownPoints,
        Goto, Return, Fail
<1>1. CASE StaBegin
  <2>1. Still /\ Still' /\ tracked = {} /\ UNCHANGED tracked
    BY <1>1 DEF StaBegin, Clear, Still, drvVars, StopInv, Bare
  <2>2. pc' \in {"idle", "sta_reg"} /\ idx' = 1
    BY <1>1 DEF StaBegin, NewNetif
  <2> QED BY <1>1, <2>1, <2>2 DEF StaBegin, NewNetif, Still, StaSet, NotRunning
<1>2. CASE StaRegister
  <2>1. Still /\ Still' /\ netif = "STA" /\ netif' = netif
    BY <1>2 DEF StaRegister, Register, Still, drvVars
  <2>2. \/ pc' = "idle"
        \/ /\ idx' = idx + 1 /\ tracked' = tracked \cup {StaKinds[idx]}
           /\ pc' = IF idx = 3 THEN "sta_mode" ELSE "sta_reg"
    BY <1>2 DEF StaRegister, Register, StaKinds
  <2>3. idx \in 1..3 /\ \A i \in 1..3 : i < idx => StaKinds[i] \in tracked
    BY <1>2 DEF StaRegister, TypeInv, Control
  <2>4. pc' # "idle" => \A i \in 1..3 : i < idx' => StaKinds[i] \in tracked'
    BY <2>2, <2>3
  <2>5. pc' = "sta_mode" => StaSet \subseteq tracked'
    <3>1. pc' = "sta_mode" => idx = 3
      BY <2>2
    <3>2. StaSet = {StaKinds[1], StaKinds[2], StaKinds[3]}
      BY DEF StaSet, StaKinds
    <3> QED BY <2>2, <2>3, <3>1, <3>2
  <2>6. pc' \in {"idle", "sta_mode", "sta_reg"}
    BY <2>2
  <2> QED BY <2>1, <2>4, <2>5, <2>6 DEF Still, StaSet, NotRunning
<1>3. CASE StaMode
  <2>1. Still /\ netif = "STA" /\ UNCHANGED <<running, tracked, netif>> /\ pc' \in {"idle", "sta_cfg"}
    BY <1>3 DEF StaMode, hdlVars
  <2>2. Still' /\ StaSet \subseteq tracked /\ (pc' = "sta_cfg" => mode' = "STA")
    BY <1>3, <2>1 DEF StaMode, SetMode, Still, Post, When, drvVars, HasSta
  <2> QED BY <2>1, <2>2 DEF Still, StaSet, NotRunning
<1>4. CASE StaConfig
  <2>1. /\ Still /\ netif = "STA" /\ UNCHANGED <<running, tracked, netif>> /\ pc' \in {"idle", "sta_go"}
        /\ Still' /\ StaSet \subseteq tracked /\ mode = "STA" /\ mode' = mode
    BY <1>4 DEF StaConfig, SetStaConfig, ConfigFailure, Still, hdlVars, drvVars
  <2> QED BY <2>1 DEF Still, StaSet, NotRunning
<1>5. CASE StaGo
  <2>1. /\ Still /\ netif = "STA" /\ UNCHANGED <<link, running, tracked, netif>>
        /\ pc' \in {"idle", "cfg_conn", "auto_conn"} /\ StaSet \subseteq tracked
    BY <1>5 DEF StaGo, Succeed, DriverStart, TypeInv, Control, hdlVars, drvVars
  <2> QED BY <2>1 DEF Still, StaSet, NotRunning
<1> QED BY <1>1, <1>2, <1>3, <1>4, <1>5 DEF StartSta

LEMMA StartApStart == ASSUME TypeInv, StopInv, ApUp, StartInv, StartAp PROVE StartInv'
<1> USE DEF StartInv, BeforeStart, StartPoints, BarePoints, ConnPoints, StartStaPoints, StaOff,
        StartApPoints, ApPoints, ServerPoints, DnsPoints, WaitPoints, AllOrNone, DownPoints,
        Goto, Return, Fail
<1>1. CASE ApBegin
  <2>1. Still /\ Still' /\ tracked = {} /\ UNCHANGED tracked
    BY <1>1 DEF ApBegin, Clear, Still, drvVars, StopInv, Bare
  <2>2. pc' \in {"idle", "ap_reg"}
    BY <1>1 DEF ApBegin, NewNetif
  <2> QED BY <2>1, <2>2 DEF Still, StaSet, NotRunning
<1>2. CASE ApRegister
  <2>1. Still /\ Still' /\ netif = "AP" /\ netif' = netif
    BY <1>2 DEF ApRegister, Register, Still, drvVars, ApUp
  <2>2. /\ pc' \in {"idle", "ap_reg", "ap_mode"}
        /\ tracked' = tracked \/ tracked' = tracked \cup {ApKinds[idx]}
    BY <1>2 DEF ApRegister, Register
  <2>3. tracked' \cap StaSet = {}
    <3>1. idx \in 1..3 /\ tracked \cap StaSet = {}
      BY <1>2 DEF ApRegister, TypeInv, Control
    <3>2. ApKinds[idx] \notin StaSet
      BY <3>1 DEF ApKinds, StaSet
    <3> QED BY <2>2, <3>1, <3>2
  <2> QED BY <2>1, <2>2, <2>3 DEF Still, StaSet, NotRunning
<1>3. CASE ApMode
  <2>1. /\ Still /\ netif = "AP" /\ UNCHANGED <<running, tracked, netif>> /\ pc' \in {"idle", "ap_go"}
        /\ tracked \cap StaSet = {}
    BY <1>3 DEF ApMode, hdlVars, ApUp
  <2>2. Still'
    BY <1>3, <2>1 DEF ApMode, SetMode, Still, Post, When, drvVars, HasSta
  <2> QED BY <2>1, <2>2 DEF Still, StaSet, NotRunning
<1>4. CASE ApGo
  <2>1. /\ Still /\ netif = "AP" /\ UNCHANGED <<link, running, tracked, netif>>
        /\ pc' \in {"idle", "cfg_wait"} /\ tracked \cap StaSet = {}
    BY <1>4 DEF ApGo, Succeed, DriverStart, TypeInv, Control, hdlVars, drvVars, ApUp
  <2> QED BY <2>1 DEF Still, StaSet, NotRunning
<1> QED BY <1>1, <1>2, <1>3, <1>4 DEF StartAp

LEMMA StopStart ==
    ASSUME PromptLoop, TypeInv, StopInv, StartInv, Stop
    PROVE  StartInv'
<1> USE DEF StartInv, BeforeStart, StartPoints, BarePoints, ConnPoints, StartStaPoints, StaOff,
        StartApPoints, ApPoints, ServerPoints, DnsPoints, WaitPoints, AllOrNone, DownPoints,
        Goto, Return
<1>1. CASE StopDisconnect
  <2>1. /\ pc' = "stop_drv" /\ UNCHANGED <<started, running, tracked, netif>>
        /\ link' \in {"idle", link} /\ (link = "idle" => evq' = evq)
    BY <1>1 DEF StopDisconnect, Disconnect, Post, When, TypeInv, TypeOK, DrvTypeOK, drvVars, hdlVars
  <2> QED BY <1>1, <2>1 DEF StopDisconnect, Still
<1>2. CASE StopDriver
  <2>1. pc' = "stop_unreg" /\ UNCHANGED <<running, tracked>> /\ link' = "idle"
    BY <1>2 DEF StopDriver, DriverStop, hdlVars
  <2> QED BY <2>1
<1>3. CASE StopUnregister
  <2>1. /\ pc = "stop_unreg" /\ pc' \in {"stop_unreg", "stop_clear"}
        /\ link' = "idle" /\ running' = NotRunning
    BY <1>3 DEF StopUnregister, StopInv, Shutdown, drvVars
  <2> QED BY <2>1 DEF StaSet, NotRunning
<1>4. CASE StopClear \/ StopNetif
  <2>1. pc' \in {"stop_netif", "stop_delay"} /\ UNCHANGED <<link, running, tracked>>
    BY <1>4 DEF StopClear, StopNetif, Clear, drvVars, hdlVars
  <2> QED BY <2>1
<1>5. CASE StopDelay
  <2>1. pc' = ret /\ UNCHANGED <<evq, started, link, running, tracked, netif>>
    BY <1>5 DEF StopDelay, Succeed, drvVars, hdlVars
  <2>2. tracked = {} /\ ~started /\ link = "idle"
    BY <1>5 DEF StopDelay, StopInv, Shutdown, BarredPoints, ClearedPoints
  <2>3. evq = <<>> /\ running = NotRunning
    BY <1>5, PromptLoopAssumption DEF StopDelay
  <2>4. Still /\ Still'
    BY <2>1, <2>2, <2>3 DEF Still
  <2>5. ret \in {"idle", "cfg_stopped", "cfg_begin"}
    BY <1>5 DEF StopDelay, TypeInv, Control, StopPoints
  <2> QED BY <2>1, <2>2, <2>4, <2>5 DEF Still, StaSet, NotRunning
<1> QED BY <1>1, <1>2, <1>3, <1>4, <1>5 DEF Stop

(* Steps of the provisioning calls that leave driver and handlers alone, and *)
(* go to a point that promises no more than the one they come from.          *)
LEMMA CarryOn ==
    ASSUME StartInv, UNCHANGED <<evq, started, link, running, tracked, netif>>,
           pc' \notin {"sta_reg", "sta_mode", "sta_cfg", "sta_go"}, pc \notin DownPoints,
           pc' \in StartPoints \cup {"idle"} => pc \in StartPoints \/ (pc' = "idle" /\ netif # "none"),
           pc' \in ConnPoints => pc \in ConnPoints,
           pc' \in StartApPoints \cup ApPoints => tracked \cap StaSet = {}
    PROVE  StartInv'
<1> USE DEF StartInv, BeforeStart, StaOff, AllOrNone, Still
<1>1. BeforeStart'
  BY DEF StartPoints, BarePoints, StartStaPoints
<1>2. StaOff' /\ AllOrNone'
  OBVIOUS
<1> QED BY <1>1, <1>2

LEMMA ConfigStart == ASSUME TypeInv, StopInv, ApUp, StartInv, ConfigViaAp PROVE StartInv'
<1> USE DEF StartPoints, BarePoints, ConnPoints, StartApPoints, ApPoints, ServerPoints, DnsPoints,
        WaitPoints, DownPoints, Goto, Return, Fail, Call, Local, drvVars, hdlVars
<1>1. pc \in ApPoints => tracked \cap StaSet = {}
  BY DEF StartInv, StaOff
<1>2. CASE CfgBegin
  <2>1. tracked = {}
    BY <1>2 DEF CfgBegin, StopInv, Bare
  <2> QED BY <1>2, <2>1, CarryOn DEF CfgBegin
<1>3. CASE CfgWait BY <1>1, <1>3, CarryOn DEF CfgWait, AwaitBits
<1>4. CASE CfgApUp \/ CfgApTimeout
  BY <1>1, <1>4, CarryOn DEF CfgApUp, CfgApTimeout, EndWait
<1>5. CASE CfgApSta
  <2>1. /\ pc = "cfg_apsta" /\ pc' = "cfg_server" /\ tracked \cap StaSet = {}
        /\ link = "idle" /\ running.kind \notin StaSet
        /\ UNCHANGED <<running, tracked, netif>>
    BY <1>1, <1>5 DEF CfgApSta, StartInv, StaOff
  <2>2. link' = "idle"
    BY <1>5, <2>1 DEF CfgApSta, SetMode
  <2> QED BY <2>1, <2>2 DEF StartInv, BeforeStart, StaOff, AllOrNone, StartStaPoints
<1>6. CASE CfgServer \/ CfgDns \/ CfgArm \/ CfgTake
  BY <1>1, <1>6, CarryOn DEF CfgServer, CfgDns, CfgArm, CfgTake
<1>7. CASE CfgDisarm \/ CfgCheck \/ CfgDnsOff \/ CfgWebOff
  BY <1>1, <1>7, CarryOn DEF CfgDisarm, AfterTake, CfgCheck, CfgDnsOff, CfgWebOff
<1>8. CASE CfgStopped
  BY <1>1, <1>8, CarryOn DEF CfgStopped
<1>9. CASE CfgConn BY <1>9, CarryOn DEF CfgConn, AwaitBits
<1>10. CASE CfgConnDone
  <2>1. netif = "STA"
    BY <1>10 DEF CfgConnDone, StartInv, BeforeStart
  <2> QED BY <1>10, <2>1, CarryOn DEF CfgConnDone, EndWait
<1> QED BY <1>2, <1>3, <1>4, <1>5, <1>6, <1>7, <1>8, <1>9, <1>10 DEF ConfigViaAp

LEMMA AutoStart == ASSUME StopInv, StartInv, AutoConnect PROVE StartInv'
<1> USE DEF StartPoints, BarePoints, ConnPoints, StartApPoints, ApPoints, ServerPoints, DnsPoints,
        WaitPoints, DownPoints, Goto, Return, Call, Local, drvVars, hdlVars
<1>1. CASE AutoLoad
  BY <1>1, CarryOn DEF AutoLoad
<1>2. CASE AutoConn BY <1>2, CarryOn DEF AutoConn, AwaitBits
<1>3. CASE AutoConnDone
  <2>1. netif = "STA"
    BY <1>3 DEF AutoConnDone, StartInv, BeforeStart
  <2> QED BY <1>3, <2>1, CarryOn DEF AutoConnDone, FallBack, EndWait
<1> QED BY <1>1, <1>2, <1>3 DEF AutoConnect

(* One handler runs for an event, and only a disconnection's reconnects.     *)
OneHandler == running.left <= 1 /\ (running.phase = "retry" => running.kind = "STA_DISC")

LEMMA LoopOneHandler == ASSUME TypeInv, StopInv, OneHandler, Loop PROVE OneHandler'
<1> USE DEF OneHandler
<1>1. running \in Runs
  BY DEF TypeInv, TypeOK, HdlTypeOK
<1>2. CASE Dispatch
  <2>1. Head(evq) \in Kinds
    BY <1>2 DEF Dispatch, TypeInv, TypeOK, DrvTypeOK, Kinds
  <2>2. reg[Head(evq)] \in {0, 1}
    BY <2>1 DEF StopInv, HandlersExact
  <2> QED BY <1>2, <2>2 DEF Dispatch, NotRunning
<1>3. CASE OnStaDiscBits
  BY <1>1, <1>3 DEF OnStaDiscBits, Enter, Runs
<1>4. CASE OnStaStart \/ OnStaDiscIgnored \/ OnStaDiscRetry \/ OnGotIp \/ OnApStart
  <2>1. running' = NextInstance(running)
    BY <1>4 DEF OnStaStart, OnStaDiscIgnored, OnStaDiscRetry, OnGotIp, OnApStart
  <2> QED BY <1>1, <2>1 DEF NextInstance, NotRunning, Runs
<1> QED BY <1>2, <1>3, <1>4 DEF Loop, EventLoop

(* The handlers' own variables are theirs: a call only clears bits.          *)
LEMMA CallKeeps ==
    ASSUME CallStep
    PROVE  UNCHANGED <<running, retry, attempts>> /\ bits' \subseteq bits
  BY DEF CallStep, StartSta, StaBegin, StaRegister, Register, StaMode, StaConfig, StaGo, StartAp,
     ApBegin, ApRegister, ApMode, ApGo, Stop, StopDisconnect, StopDriver, StopUnregister, StopClear,
     StopNetif, StopDelay, Clear, ConfigViaAp, CfgBegin, CfgWait, CfgApUp, CfgApTimeout, CfgApSta,
     CfgServer, CfgDns, CfgArm, CfgTake, CfgDisarm, CfgCheck, CfgDnsOff, CfgWebOff, CfgStopped,
     CfgConn, CfgConnDone, AutoConnect, AutoLoad, AutoConn, AutoConnDone, AwaitBits, EndWait, Local,
     hdlVars

(* Steps that touch neither driver nor handlers, and do not go where the     *)
(* access point is awaited.                                                  *)
Apart ==
    /\ UNCHANGED <<mode, started, link, evq, everUp, hdlVars, tracked>>
    /\ pc' = pc \/ (pc = "idle" /\ pc' \in BarePoints \cup {"stop_disc"})

(* What a step may do as far as the handlers and the driver can see.         *)
SessionStep == CallStep \/ Loop \/ Driver \/ Restart \/ Apart

LEMMA AppCallApart == ASSUME NEW c \in ApiCalls, AppCall(c) PROVE Apart
  BY DEF Apart, AppCall, Call, EntryOf, ApiCalls, BarePoints, Local, drvVars

LEMMA HttpApart == ASSUME Http PROVE Apart
  BY DEF Apart, Http, PostWifi, PostConfigSave, Finish, NotifyCheck, NotifyGive, PageBegin,
     PageEnd, UploadBegin, UploadEnd, HandlerResetGet, HttpOnly, drvVars, lcVars

LEMMA NextSession == [Next]_vars => SessionStep
<1>1. UNCHANGED vars => Apart
  BY DEF Apart, vars, drvVars, lcVars
<1> QED BY <1>1, AppCallApart, HttpApart, AppAssumption DEF Next, SessionStep

LEMMA OneHandlerStep == TypeInv /\ StopInv /\ OneHandler /\ SessionStep => OneHandler'
<1> SUFFICES ASSUME TypeInv, StopInv, OneHandler, SessionStep PROVE OneHandler'
  OBVIOUS
<1>1. CASE CallStep \/ Driver \/ Apart
  <2>1. running' = running
    BY <1>1, CallKeeps DEF Driver, Apart, hdlVars
  <2> QED BY <2>1 DEF OneHandler
<1>2. CASE Restart BY <1>2 DEF Restart, RamLost, NotRunning, OneHandler
<1> QED BY <1>1, <1>2, LoopOneHandler DEF SessionStep

(* A handler that connects is a station handler.                             *)
LEMMA LoopStart == ASSUME TypeInv, StopInv, StartInv, OneHandler, Loop PROVE StartInv'
<1>1. UNCHANGED <<pc, idx, tracked, netif, started, mode>>
  BY DEF Loop, EventLoop, Dispatch, OnStaStart, OnStaDiscIgnored, OnStaDiscBits, OnStaDiscRetry,
     OnGotIp, OnApStart, lcVars, drvVars
<1>2. ~Still
  BY StillKept
<1>3. ASSUME tracked \cap StaSet = {} PROVE link' = "idle" /\ running'.kind \notin StaSet
  <2>1. link = "idle" /\ running.kind \notin StaSet
    BY <1>3 DEF StartInv, StaOff
  <2>2. CASE Dispatch
    <3>1. Head(evq) \in Kinds
      BY <2>2 DEF Dispatch, TypeInv, TypeOK, DrvTypeOK, Kinds
    <3>2. Head(evq) \in StaSet => reg[Head(evq)] = 0
      BY <1>3, <3>1 DEF StopInv, HandlersExact
    <3> QED BY <2>1, <2>2, <3>2 DEF Dispatch, NotRunning, StaSet
  <2>3. CASE OnApStart
    BY <2>1, <2>3 DEF OnApStart, NextInstance, NotRunning, Enter, drvVars, StaSet, TypeInv, TypeOK, HdlTypeOK, Runs
  <2> QED BY <2>1, <2>2, <2>3 DEF OneHandler, Loop, EventLoop, OnStaStart, OnStaDiscIgnored, OnStaDiscBits,
         OnStaDiscRetry, OnGotIp, Enter, StaSet
<1> QED BY <1>1, <1>2, <1>3 DEF StartInv, BeforeStart, StaOff, AllOrNone

LEMMA AppStart ==
    ASSUME StartInv, NEW c \in ApiCalls, AppCall(c), c # "Stop" => netif = "none" /\ tracked = {}
    PROVE  StartInv'
<1>1. pc = "idle" /\ pc' = EntryOf(c) /\ UNCHANGED <<evq, started, link, running, tracked, netif>>
  BY DEF AppCall, Call, Local, drvVars, hdlVars
<1> QED BY <1>1 DEF EntryOf, ApiCalls, StartInv, BeforeStart, StartPoints, BarePoints, ConnPoints,
     StartStaPoints, StaOff, StartApPoints, ApPoints, ServerPoints, DnsPoints, WaitPoints,
     AllOrNone, DownPoints, Still

LEMMA AirStart == ASSUME StartInv, Driver PROVE StartInv'
<1>1. /\ link # "idle" /\ UNCHANGED <<pc, idx, running, tracked, netif, mode>>
  BY DEF Driver, Air, StaJoin, StaGotIp, StaLost, hdlVars, lcVars
<1> QED BY <1>1 DEF StartInv, BeforeStart, StaOff, AllOrNone, Still

LEMMA AsideStart ==
    ASSUME StartInv, UNCHANGED <<evq, started, link, running, tracked, netif, mode, pc, idx>>
    PROVE  StartInv'
  BY DEF StartInv, BeforeStart, StaOff, AllOrNone, Still

LEMMA HttpStart == ASSUME StartInv, Http PROVE StartInv'
<1>1. UNCHANGED <<evq, started, link, running, tracked, netif, mode, pc, idx>>
  BY DEF Http, PostWifi, PostConfigSave, Finish, NotifyCheck, NotifyGive, PageBegin, PageEnd,
     UploadBegin, UploadEnd, HandlerResetGet, HttpOnly, drvVars, hdlVars, lcVars
<1> QED BY <1>1, AsideStart

LEMMA RestartStart == ASSUME Restart PROVE StartInv'
  BY DEF Restart, RamLost, StartInv, BeforeStart, StartPoints, BarePoints, Still, ConnPoints,
     StartStaPoints, StaOff, StartApPoints, ApPoints, ServerPoints, DnsPoints, WaitPoints, StaSet,
     NotRunning, AllOrNone

LEMMA CallStart ==
    ASSUME PromptLoop, TypeInv, ApUp, StopInv, StartInv, CallStep
    PROVE  StartInv'
  BY StartStaStart, StartApStart, StopStart, ConfigStart, AutoStart DEF CallStep

LEMMA StartStep ==
    ASSUME StopFirst, PromptLoop
    PROVE  TypeInv /\ ApUp /\ StopInv /\ OneHandler /\ StartInv /\ [Next]_vars => StartInv'
<1> SUFFICES ASSUME TypeInv, ApUp, StopInv, OneHandler, StartInv, [Next]_vars PROVE StartInv'
  OBVIOUS
<1>1. CASE \E c \in AppCalls : AppCall(c)
  BY <1>1, AppStart, AppAssumption DEF AppCall
<1>2. CASE UNCHANGED vars
  BY <1>2, AsideStart DEF vars, drvVars, hdlVars, lcVars
<1> QED BY <1>1, <1>2, CallStart, LoopStart, AirStart, HttpStart, RestartStart DEF Next

(* What every session starts from and ends in.                               *)
BaseInv == TypeInv /\ ApUp /\ StopInv /\ OneHandler /\ StartInv

LEMMA Base == ASSUME StopFirst, PromptLoop PROVE Spec => []BaseInv
<1>1. Init => BaseInv
  BY InitPortal, InitStop, InitStart DEF Init, HdlInit, NotRunning, OneHandler, PortalInv, BaseInv
<1>2. BaseInv /\ [Next]_vars => BaseInv'
  BY TypeStep, ApUpStep, StopInvStep, OneHandlerStep, StartStep, NextSession DEF BaseInv
<1> QED BY <1>1, <1>2, PTL DEF Spec

(* While the portal is served no station handler is registered, so that the  *)
(* station interface it scans with stays idle.                               *)
THEOREM PortalLeavesStation == ASSUME StopFirst, PromptLoop PROVE Spec => []PortalStationIdle
<1>1. BaseInv /\ PortalUp => PortalStationIdle
  <2> SUFFICES ASSUME BaseInv, PortalUp, server PROVE link = "idle"
    BY DEF PortalStationIdle
  <2>1. pc \in ApPoints
    BY DEF PortalUp, ApPoints
  <2> QED BY <2>1 DEF BaseInv, StartInv, StaOff
<1>2. PortalInv => PortalUp
  BY DEF PortalInv
<1> QED BY <1>1, <1>2, Base, PortalBracketed, PTL

-----------------------------------------------------------------------------
(* What is in the event queue *)

Has(q, k) == \E i \in 1..Len(q) : q[i] = k
Once(q, k) == \A i, j \in 1..Len(q) : q[i] = k /\ q[j] = k => i = j

LEMMA HasAppend ==
    ASSUME NEW q \in Seq(EventKinds), NEW e \in EventKinds, NEW k
    PROVE  /\ Has(q \o <<e>>, k) <=> Has(q, k) \/ e = k
           /\ Once(q, k) /\ ~(Has(q, k) /\ e = k) => Once(q \o <<e>>, k)
<1>1. /\ Len(q) \in Nat /\ Len(q \o <<e>>) = Len(q) + 1
      /\ \A i \in 1..Len(q) : (q \o <<e>>)[i] = q[i]
      /\ (q \o <<e>>)[Len(q) + 1] = e
  OBVIOUS
<1>2. 1..(Len(q) + 1) = 1..Len(q) \cup {Len(q) + 1}
  BY <1>1
<1> QED BY <1>1, <1>2 DEF Has, Once

LEMMA HasTail ==
    ASSUME NEW q \in Seq(EventKinds), q # <<>>, NEW k
    PROVE  /\ Has(Tail(q), k) => Has(q, k)
           /\ Has(q, Head(q))
           /\ Once(q, k) => Once(Tail(q), k) /\ (Head(q) = k => ~Has(Tail(q), k))
<1>1. /\ Len(q) \in Nat \ {0} /\ Len(Tail(q)) = Len(q) - 1 /\ Head(q) = q[1]
      /\ \A i \in 1..Len(Tail(q)) : Tail(q)[i] = q[i + 1] /\ i + 1 \in 1..Len(q)
  OBVIOUS
<1>2. 1 \in 1..Len(q)
  BY <1>1
<1>3. Has(Tail(q), k) => Has(q, k)
  BY <1>1 DEF Has
<1>4. ASSUME Once(q, k) PROVE Once(Tail(q), k)
  BY <1>1, <1>4 DEF Once
<1>5. ASSUME Once(q, k), Head(q) = k, Has(Tail(q), k) PROVE FALSE
  <2>1. PICK i \in 1..Len(Tail(q)) : Tail(q)[i] = k
    BY <1>5 DEF Has
  <2>2. i + 1 = 1
    BY <1>1, <1>2, <1>5, <2>1 DEF Once
  <2> QED BY <1>1, <2>1, <2>2
<1>6. Has(q, Head(q))
  BY <1>1, <1>2 DEF Has
<1> QED BY <1>3, <1>4, <1>5, <1>6

(* What a step of the application's call does to the link and the queue.     *)
QuietStep == UNCHANGED <<link, evq>>
StartingStep ==
    /\ Still /\ link' = link
    /\ \/ pc = "sta_go" /\ evq' = <<"STA_START">>
       \/ pc = "ap_go" /\ evq' = <<"AP_START">>
ScanningStep ==
    /\ pc = "cfg_apsta" /\ pc' = "cfg_server" /\ link = "idle" /\ link' = link
    /\ evq' = evq \o <<"STA_START">>
UnlinkingStep ==
    /\ pc \in {"stop_disc", "stop_drv"} /\ pc' \in {"stop_drv", "stop_unreg"}
    /\ link # "idle" /\ link' = "idle"
    /\ evq' = evq \o <<"STA_DISC">>

LEMMA StartEffect ==
    ASSUME BaseInv, StartSta \/ StartAp
    PROVE  QuietStep \/ StartingStep
<1>1. CASE StaBegin \/ StaRegister \/ StaConfig \/ ApBegin \/ ApRegister
  BY <1>1 DEF QuietStep, StaBegin, StaRegister, StaConfig, SetStaConfig, ApBegin, ApRegister,
     Register, drvVars
<1>2. CASE StaMode \/ ApMode
  <2>1. Still
    BY <1>2 DEF StaMode, ApMode, BaseInv, StartInv, BeforeStart, StartPoints
  <2>2. SetMode("STA") \/ SetMode("AP") \/ UNCHANGED drvVars
    BY <1>2 DEF StaMode, ApMode
  <2>3. evq' = evq /\ link' = link
    BY <2>1, <2>2 DEF SetMode, Post, When, Still, drvVars
  <2> QED BY <2>3 DEF QuietStep
<1>3. CASE StaGo \/ ApGo
  <2>1. Still /\ (pc = "ap_go" => mode = "AP") /\ (pc = "sta_go" => mode = "STA")
    BY <1>3 DEF StaGo, ApGo, BaseInv, ApUp, StartInv, BeforeStart, StartPoints
  <2>2. CASE UNCHANGED drvVars
    BY <2>2 DEF QuietStep, drvVars
  <2>3. CASE DriverStart
    <3>1. link' = link /\ evq' = <<>> \o StartEvents(mode, FALSE, FALSE)
      <4>1. started = FALSE /\ evq = <<>>
        BY <2>1 DEF Still, BaseInv, TypeInv, TypeOK, DrvTypeOK
      <4> QED BY <2>3, <4>1 DEF DriverStart, Post
    <3>2. pc = "ap_go" => StartEvents(mode, FALSE, FALSE) = <<"AP_START">>
      BY <2>1 DEF StartEvents, When, HasSta, HasAp
    <3>3. pc = "sta_go" => StartEvents(mode, FALSE, FALSE) = <<"STA_START">>
      <4>1. <<"STA_START">> \in Seq(EventKinds)
        BY DEF EventKinds
      <4>2. <<"STA_START">> \o <<>> = <<"STA_START">>
        BY <4>1
      <4> QED BY <2>1, <4>2 DEF StartEvents, When, HasSta, HasAp
    <3>4. evq' = StartEvents(mode, FALSE, FALSE)
      BY <1>3, <3>1, <3>2, <3>3 DEF StaGo, ApGo
    <3> QED BY <1>3, <2>1, <3>1, <3>2, <3>3, <3>4 DEF StaGo, ApGo, StartingStep
  <2> QED BY <1>3, <2>2, <2>3 DEF StaGo, ApGo
<1> QED BY <1>1, <1>2, <1>3 DEF StartSta, StartAp

LEMMA StopEffect == ASSUME TypeOK, Stop PROVE QuietStep \/ UnlinkingStep
<1>1. evq \in Seq(EventKinds) /\ evq \o <<>> = evq
  BY DEF TypeOK, DrvTypeOK
<1>2. CASE StopDisconnect
  BY <1>1, <1>2 DEF StopDisconnect, Disconnect, Post, When, Goto, Return, QuietStep, UnlinkingStep, drvVars
<1>3. CASE StopDriver
  BY <1>1, <1>3 DEF StopDriver, DriverStop, Post, When, Goto, Return, QuietStep, UnlinkingStep, drvVars
<1>4. CASE StopUnregister \/ StopClear \/ StopNetif \/ StopDelay
  BY <1>4 DEF StopUnregister, StopClear, StopNetif, StopDelay, QuietStep, drvVars
<1> QED BY <1>2, <1>3, <1>4 DEF Stop

LEMMA PortalEffect ==
    ASSUME BaseInv, ConfigViaAp \/ AutoConnect
    PROVE  QuietStep \/ ScanningStep
<1>1. CASE CfgApSta
  <2>1. link = "idle" /\ started /\ HasAp(mode)
    BY <1>1 DEF CfgApSta, BaseInv, ApUp, ApPoints, StartInv, StaOff
  <2>2. CASE SetMode(PortalMode)
    <3>1. evq' = evq \o (<<>> \o StartEvents("APSTA", HasSta(mode), HasAp(mode))) /\ link' = link
      BY <2>1, <2>2 DEF SetMode, PortalMode, Post, When, HasSta
    <3>2. StartEvents("APSTA", HasSta(mode), HasAp(mode)) \in {<<>>, <<"STA_START">>}
      BY <2>1 DEF StartEvents, When, HasSta
    <3>3. evq \in Seq(EventKinds)
      BY DEF BaseInv, TypeInv, TypeOK, DrvTypeOK
    <3>4. evq' = evq \/ evq' = evq \o <<"STA_START">>
      BY <3>1, <3>2, <3>3
    <3> QED BY <1>1, <2>1, <3>1, <3>4 DEF CfgApSta, Goto, Return, QuietStep, ScanningStep
  <2> QED BY <1>1, <2>2 DEF CfgApSta, QuietStep, drvVars
<1>2. CASE CfgBegin \/ CfgWait \/ CfgApUp \/ CfgApTimeout \/ CfgServer \/ CfgDns \/ CfgArm \/ CfgTake
  BY <1>2 DEF CfgBegin, CfgWait, CfgApUp, CfgApTimeout, CfgServer, CfgDns, CfgArm, CfgTake,
     AwaitBits, EndWait, Local, QuietStep, drvVars
<1>3. CASE CfgDisarm \/ CfgCheck \/ CfgDnsOff \/ CfgWebOff \/ CfgStopped \/ CfgConn \/ CfgConnDone
  BY <1>3 DEF CfgDisarm, CfgCheck, CfgDnsOff, CfgWebOff, CfgStopped, CfgConn, CfgConnDone,
     AwaitBits, EndWait, Local, QuietStep, drvVars
<1>4. CASE AutoConnect
  BY <1>4 DEF AutoConnect, AutoLoad, AutoConn, AutoConnDone, AwaitBits, EndWait, Local, QuietStep,
     drvVars
<1> QED BY <1>1, <1>2, <1>3, <1>4 DEF ConfigViaAp

LEMMA CallEffect ==
    ASSUME BaseInv, CallStep
    PROVE  QuietStep \/ StartingStep \/ ScanningStep \/ UnlinkingStep
  BY StartEffect, StopEffect, PortalEffect DEF CallStep, BaseInv, TypeInv

-----------------------------------------------------------------------------
(* News of the station link *)

DiscOut == Has(evq, "STA_DISC") \/ running.kind = "STA_DISC"
StartOut == Has(evq, "STA_START") \/ running.kind = "STA_START"

(* One session's link comes up after its STA_START has been handled, and is  *)
(* up again only after the disconnection of its last loss has.               *)
OneAtATime ==
    /\ link # "idle" => ~DiscOut
    /\ Once(evq, "STA_DISC") /\ (running.kind = "STA_DISC" => ~Has(evq, "STA_DISC"))
    /\ Once(evq, "STA_START") /\ (running.kind = "STA_START" => ~Has(evq, "STA_START"))
    /\ StartOut => link = "idle" /\ ~DiscOut
    /\ pc \in {"cfg_wait", "cfg_blocked", "cfg_apsta"} => ~StartOut /\ ~DiscOut

LEMMA InitOne == Init => OneAtATime
  BY DEF Init, DrvInit, HdlInit, LcInit, OneAtATime, DiscOut, StartOut, Has, Once, NotRunning

ApWaitPoints == {"cfg_wait", "cfg_blocked", "cfg_apsta"}

LEMMA ToApWait ==
    ASSUME TypeInv, CallStep, pc' \in ApWaitPoints
    PROVE  pc \in {"ap_go"} \cup ApWaitPoints
<1> USE DEF ApWaitPoints, Goto, Return, Fail, Call, Succeed
<1>1. CASE StartSta \/ StartAp \/ Stop
  BY <1>1 DEF StartSta, StaBegin, NewNetif, StaRegister, Register, StaMode, StaConfig, ConfigFailure,
     StaGo, StartAp, ApBegin, ApRegister, ApMode, ApGo, Stop, StopDisconnect, StopDriver,
     StopUnregister, StopClear, StopNetif, StopDelay, TypeInv, Control, StartStaPoints, StopPoints
<1>2. CASE ConfigViaAp
  BY <1>2 DEF ConfigViaAp, CfgBegin, CfgWait, CfgApUp, CfgApTimeout, CfgApSta, CfgServer, CfgDns,
     CfgArm, CfgTake, CfgDisarm, AfterTake, CfgCheck, CfgDnsOff, CfgWebOff, CfgStopped, CfgConn,
     CfgConnDone, AwaitBits
<1>3. CASE AutoConnect
  BY <1>3 DEF AutoConnect, AutoLoad, AutoConn, AutoConnDone, FallBack, AwaitBits
<1> QED BY <1>1, <1>2, <1>3 DEF CallStep

LEMMA CallOne == ASSUME BaseInv, OneAtATime, CallStep PROVE OneAtATime'
<1>1. /\ running' = running /\ evq \in Seq(EventKinds)
      /\ EventKinds = {"STA_START", "STA_DISC", "GOT_IP", "AP_START"}
  BY CallKeeps DEF BaseInv, TypeInv, TypeOK, DrvTypeOK, EventKinds
<1>2. pc' \in ApWaitPoints => pc \in {"ap_go"} \cup ApWaitPoints
  BY ToApWait DEF BaseInv
<1>3. Still => ~StartOut /\ ~DiscOut
  BY DEF Still, StartOut, DiscOut, Has, NotRunning
<1>4. pc = "ap_go" => Still
  BY DEF BaseInv, StartInv, BeforeStart, StartPoints
<1> USE DEF OneAtATime, StartOut, DiscOut, ApWaitPoints
<1>5. CASE QuietStep
  BY <1>1, <1>2, <1>3, <1>4, <1>5 DEF QuietStep
<1>6. CASE StartingStep
  <2>1. /\ link' = "idle" /\ running' = NotRunning /\ Once(evq', "STA_DISC") /\ Once(evq', "STA_START")
        /\ ~Has(evq', "STA_DISC") /\ (pc = "ap_go" => ~Has(evq', "STA_START"))
    BY <1>1, <1>6 DEF StartingStep, Still, Has, Once
  <2> QED BY <1>2, <1>6, <2>1 DEF StartingStep, NotRunning
<1>7. CASE ScanningStep
  <2>1. ~StartOut /\ ~DiscOut /\ evq' = evq \o <<"STA_START">> /\ link' = "idle" /\ pc' \notin ApWaitPoints
    BY <1>7 DEF ScanningStep
  <2>2. Once(evq', "STA_DISC") /\ Once(evq', "STA_START") /\ ~Has(evq', "STA_DISC")
    BY <1>1, <2>1, HasAppend
  <2> QED BY <1>1, <2>1, <2>2
<1>8. CASE UnlinkingStep
  <2>1. ~StartOut /\ ~DiscOut /\ evq' = evq \o <<"STA_DISC">> /\ link' = "idle" /\ pc' \notin ApWaitPoints
    BY <1>8 DEF UnlinkingStep
  <2>2. Once(evq', "STA_DISC") /\ Once(evq', "STA_START") /\ ~Has(evq', "STA_START")
    BY <1>1, <2>1, HasAppend
  <2> QED BY <1>1, <2>1, <2>2
<1> QED BY <1>5, <1>6, <1>7, <1>8, CallEffect

LEMMA DriverOne == ASSUME BaseInv, OneAtATime, Driver PROVE OneAtATime'
<1>1. /\ running' = running /\ pc' = pc /\ evq \in Seq(EventKinds)
      /\ EventKinds = {"STA_START", "STA_DISC", "GOT_IP", "AP_START"}
  BY DEF Driver, hdlVars, lcVars, BaseInv, TypeInv, TypeOK, DrvTypeOK, EventKinds
<1>2. pc \in ApPoints => link = "idle"
  BY DEF BaseInv, StartInv, StaOff
<1> USE DEF OneAtATime, StartOut, DiscOut
<1>3. CASE StaJoin BY <1>1, <1>3 DEF StaJoin
<1>4. CASE StaGotIp
  <2>1. evq' = evq \o <<"GOT_IP">> /\ link = "assoc" /\ link' = "up"
    BY <1>4 DEF StaGotIp, Post
  <2>2. /\ Once(evq', "STA_DISC") /\ Once(evq', "STA_START")
        /\ Has(evq', "STA_START") <=> Has(evq, "STA_START")
        /\ Has(evq', "STA_DISC") <=> Has(evq, "STA_DISC")
    BY <1>1, <2>1, HasAppend
  <2> QED BY <1>1, <2>1, <2>2
<1>5. CASE StaLost
  <2>1. evq' = evq \o <<"STA_DISC">> /\ link # "idle" /\ link' = "idle" /\ ~StartOut /\ ~DiscOut
    BY <1>5 DEF StaLost, Post
  <2>2. Once(evq', "STA_DISC") /\ Once(evq', "STA_START") /\ ~Has(evq', "STA_START")
    BY <1>1, <2>1, HasAppend
  <2> QED BY <1>1, <1>2, <2>1, <2>2 DEF ApPoints
<1> QED BY <1>3, <1>4, <1>5 DEF Driver, Air

LEMMA LoopOne == ASSUME BaseInv, OneAtATime, Loop PROVE OneAtATime'
<1>1. pc' = pc /\ evq \in Seq(EventKinds) /\ running \in Runs /\ OneHandler
  BY DEF Loop, lcVars, BaseInv, TypeInv, TypeOK, DrvTypeOK, HdlTypeOK
<1>2. NextInstance(running) = NotRunning
  BY <1>1 DEF NextInstance, OneHandler, Runs
<1> USE DEF OneAtATime, StartOut, DiscOut
<1>3. CASE Dispatch
  <2>1. /\ evq # <<>> /\ evq' = Tail(evq) /\ link' = link /\ running = NotRunning
        /\ running' = NotRunning \/ running'.kind = Head(evq)
    BY <1>3 DEF Dispatch
  <2>2. \A k \in {"STA_START", "STA_DISC"} :
            /\ Once(evq', k)
            /\ Has(evq', k) => Has(evq, k)
            /\ Head(evq) = k => Has(evq, k) /\ ~Has(evq', k)
    BY <1>1, <2>1, HasTail
  <2>3. running'.kind \in {"none", Head(evq)}
    BY <2>1 DEF NotRunning
  <2> QED BY <1>1, <2>1, <2>2, <2>3
<1>4. CASE OnStaStart
  <2>1. running.kind = "STA_START" /\ running' = NotRunning /\ evq' = evq
    BY <1>2, <1>4 DEF OnStaStart, Enter
  <2> QED BY <1>1, <2>1 DEF NotRunning
<1>5. CASE OnStaDiscBits
  <2>1. running'.kind = running.kind /\ evq' = evq /\ link' = link
    BY <1>1, <1>5 DEF OnStaDiscBits, drvVars, Runs
  <2> QED BY <1>1, <2>1
<1>6. CASE OnStaDiscRetry
  <2>1. running.kind = "STA_DISC" /\ running' = NotRunning /\ evq' = evq
    BY <1>1, <1>2, <1>6 DEF OnStaDiscRetry, OneHandler
  <2> QED BY <1>1, <2>1 DEF NotRunning
<1>7. CASE OnStaDiscIgnored \/ OnGotIp \/ OnApStart
  <2>1. running' = NotRunning /\ evq' = evq /\ link' = link
    BY <1>2, <1>7 DEF OnStaDiscIgnored, OnGotIp, OnApStart, drvVars
  <2> QED BY <1>1, <2>1 DEF NotRunning
<1> QED BY <1>3, <1>4, <1>5, <1>6, <1>7 DEF Loop, EventLoop

LEMMA OneStep == BaseInv /\ OneAtATime /\ SessionStep => OneAtATime'
<1> SUFFICES ASSUME BaseInv, OneAtATime, SessionStep PROVE OneAtATime'
  OBVIOUS
<1>1. CASE Apart
  BY <1>1 DEF Apart, BarePoints, OneAtATime, DiscOut, StartOut, drvVars, hdlVars
<1>2. CASE Restart
  BY <1>2 DEF Restart, RamLost, OneAtATime, DiscOut, StartOut, Has, Once, NotRunning
<1> QED BY <1>1, <1>2, CallOne, LoopOne, DriverOne DEF SessionStep

(* What was spent of the retry budget and what is left make up the budget,   *)
(* unless it is exhausted: then the link is down and no news of it will come *)
(* before the next start.                                                    *)
Budget ==
    RetryNum >= 0 =>
        /\ retry \in 0..RetryNum /\ attempts \in 0..RetryNum
        /\ attempts + retry <= RetryNum \/ (link = "idle" /\ ~DiscOut)

LEMMA BudgetStep == BaseInv /\ OneAtATime /\ Budget /\ SessionStep => Budget'
<1> SUFFICES ASSUME BaseInv, OneAtATime, Budget, SessionStep, RetryNum >= 0 PROVE Budget'
  BY DEF Budget
<1>1. evq \in Seq(EventKinds) /\ running \in Runs /\ OneHandler
  BY DEF BaseInv, TypeInv, TypeOK, DrvTypeOK, HdlTypeOK
<1>2. NextInstance(running) = NotRunning
  BY <1>1 DEF NextInstance, OneHandler, Runs
<1>3. CASE Apart
  BY <1>3 DEF Apart, Budget, DiscOut, drvVars, hdlVars
<1>4. CASE Restart
  BY <1>4 DEF Restart, RamLost, Budget, DiscOut, Has, NotRunning
<1>5. CASE CallStep
  <2>1. UNCHANGED <<running, retry, attempts>>
    BY <1>5, CallKeeps
  <2>2. ASSUME link = "idle", ~DiscOut PROVE link' = "idle" /\ ~DiscOut'
    <3>1. CASE QuietStep
      BY <2>1, <2>2, <3>1 DEF QuietStep, DiscOut
    <3>2. CASE StartingStep
      <4>1. ~Has(evq', "STA_DISC")
        BY <3>2 DEF StartingStep, Has
      <4> QED BY <2>1, <2>2, <3>2, <4>1 DEF StartingStep, DiscOut
    <3>3. CASE ScanningStep
      <4>1. ~Has(evq', "STA_DISC")
        BY <1>1, <2>2, <3>3, HasAppend DEF ScanningStep, DiscOut, EventKinds
      <4> QED BY <2>1, <2>2, <3>3, <4>1 DEF ScanningStep, DiscOut
    <3> QED BY <1>5, <2>2, <3>1, <3>2, <3>3, CallEffect DEF UnlinkingStep
  <2> QED BY <2>1, <2>2 DEF Budget
<1>6. CASE Driver
  <2>1. UNCHANGED <<running, retry, attempts>> /\ link # "idle"
    BY <1>6 DEF Driver, Air, StaJoin, StaGotIp, StaLost, hdlVars
  <2> QED BY <2>1 DEF Budget
<1>7. CASE Loop
  <2>1. CASE Dispatch
    <3>1. UNCHANGED <<link, retry, attempts>>
      BY <2>1 DEF Dispatch
    <3>2. ~DiscOut => ~DiscOut'
      BY <1>1, <2>1, HasTail DEF Dispatch, DiscOut, NotRunning
    <3> QED BY <3>1, <3>2 DEF Budget
  <2>2. CASE OnStaStart \/ OnGotIp
    <3>1. retry' = RetryNum /\ attempts' = 0
      BY <2>2 DEF OnStaStart, OnGotIp
    <3> QED BY <3>1, RetryNumAssumption DEF Budget
  <2>3. CASE OnStaDiscIgnored \/ OnApStart
    BY <1>2, <2>3 DEF OnStaDiscIgnored, OnApStart, Budget, DiscOut, NotRunning, drvVars
  <2>4. CASE OnStaDiscBits
    BY <1>1, <2>4 DEF OnStaDiscBits, Budget, DiscOut, drvVars, Runs, Enter
  <2>5. CASE OnStaDiscRetry
    <3>1. running.kind = "STA_DISC" /\ link = "idle" /\ ~Has(evq, "STA_DISC") /\ evq' = evq
      BY <1>1, <2>5 DEF OnStaDiscRetry, OneHandler, OneAtATime, DiscOut
    <3>2. running' = NotRunning
      BY <1>2, <2>5 DEF OnStaDiscRetry
    <3>3. attempts + retry <= RetryNum
      BY <3>1 DEF Budget, DiscOut
    <3>4. CASE RetryLeft
      <4>1. retry' = SpentRetry /\ attempts' = CountAttempt(attempts)
        BY <2>5, <3>4 DEF OnStaDiscRetry
      <4> QED BY <3>3, <3>4, <4>1, RetryNumAssumption DEF Budget, RetryLeft, SpentRetry, CountAttempt
    <3>5. CASE ~RetryLeft
      <4>1. retry' = RetryNum /\ attempts' = attempts /\ link' = link
        BY <2>5, <3>5 DEF OnStaDiscRetry
      <4> QED BY <3>1, <3>2, <4>1, RetryNumAssumption DEF Budget, DiscOut, NotRunning
    <3> QED BY <3>4, <3>5
  <2> QED BY <1>7, <2>1, <2>2, <2>3, <2>4, <2>5 DEF Loop, EventLoop
<1> QED BY <1>3, <1>4, <1>5, <1>6, <1>7 DEF SessionStep

(* Between two successes the disconnect handler reconnects at most           *)
(* SetStaRetryNum() times: while a disconnection is being handled there is   *)
(* no second one, so that none is charged to a budget already refilled.      *)
THEOREM RetriesBounded == ASSUME StopFirst, PromptLoop PROVE Spec => []RetryBudget
<1>1. Init => OneAtATime /\ Budget
  BY InitOne, RetryNumAssumption DEF Init, DrvInit, HdlInit, Budget, DiscOut, Has, NotRunning
<1>2. BaseInv /\ OneAtATime /\ Budget /\ [Next]_vars => (OneAtATime /\ Budget)'
  BY OneStep, BudgetStep, NextSession
<1>3. OneAtATime /\ Budget => RetryBudget
  BY RetryNumAssumption DEF Budget, RetryBudget
<1> QED BY <1>1, <1>2, <1>3, Base, PTL DEF Spec

-----------------------------------------------------------------------------
(* News of an address *)

AddressOut == Has(evq, "GOT_IP") \/ running.kind = "GOT_IP"

(* A link that is lost after its address was posted has its disconnection    *)
(* behind that address in the queue.                                         *)
LossFollows ==
    /\ \A i \in 1..Len(evq) :
           evq[i] = "GOT_IP" =>
               link = "up" \/ \E j \in 1..Len(evq) : i < j /\ evq[j] = "STA_DISC"
    /\ running.kind = "GOT_IP" => link = "up" \/ Has(evq, "STA_DISC")

LEMMA FollowsAppend ==
    ASSUME evq \in Seq(EventKinds), LossFollows, running' = running,
           NEW e \in EventKinds, evq' = evq \o <<e>>,
           \/ e = "STA_DISC"
           \/ e = "GOT_IP" /\ link' = "up"
           \/ e = "STA_START" /\ link' = link,
           link = "up" => link' = "up" \/ e = "STA_DISC"
    PROVE  LossFollows'
<1>1. /\ Len(evq) \in Nat /\ Len(evq') = Len(evq) + 1
      /\ \A i \in 1..Len(evq) : evq'[i] = evq[i]
      /\ evq'[Len(evq) + 1] = e
      /\ \A i \in 1..Len(evq') : i \in 1..Len(evq) \/ i = Len(evq) + 1
  OBVIOUS
<1>2. ASSUME NEW i \in 1..Len(evq'), evq'[i] = "GOT_IP"
      PROVE  link' = "up" \/ \E j \in 1..Len(evq') : i < j /\ evq'[j] = "STA_DISC"
  <2>1. CASE i = Len(evq) + 1
    BY <1>1, <1>2, <2>1
  <2>2. CASE i \in 1..Len(evq) /\ e = "STA_DISC"
    BY <1>1, <2>2
  <2>3. CASE i \in 1..Len(evq) /\ e # "STA_DISC"
    BY <1>1, <1>2, <2>3 DEF LossFollows
  <2> QED BY <1>1, <2>1, <2>2, <2>3
<1>3. ASSUME running'.kind = "GOT_IP" PROVE link' = "up" \/ Has(evq', "STA_DISC")
  BY <1>1, <1>3, HasAppend DEF LossFollows
<1> QED BY <1>2, <1>3 DEF LossFollows

LEMMA FollowsTail ==
    ASSUME evq \in Seq(EventKinds), evq # <<>>, LossFollows, evq' = Tail(evq), link' = link,
           running'.kind \in {"none", Head(evq)}
    PROVE  LossFollows'
<1>1. /\ Len(evq) \in Nat \ {0} /\ Len(evq') = Len(evq) - 1 /\ Head(evq) = evq[1]
      /\ \A i \in 1..Len(evq') : evq'[i] = evq[i + 1] /\ i + 1 \in 1..Len(evq)
  OBVIOUS
<1>2. ASSUME NEW i \in 1..Len(evq), i > 1 PROVE i - 1 \in 1..Len(evq') /\ evq'[i - 1] = evq[i]
  <2>1. i - 1 \in 1..Len(evq')
    BY <1>1, <1>2
  <2>2. (i - 1) + 1 = i
    BY <1>2
  <2> QED BY <1>1, <2>1, <2>2
<1>3. ASSUME NEW i \in 1..Len(evq'), evq'[i] = "GOT_IP", link # "up"
      PROVE  \E j \in 1..Len(evq') : i < j /\ evq'[j] = "STA_DISC"
  <2>1. PICK j \in 1..Len(evq) : i + 1 < j /\ evq[j] = "STA_DISC"
    BY <1>1, <1>3 DEF LossFollows
  <2>2. j - 1 \in 1..Len(evq') /\ i < j - 1 /\ evq'[j - 1] = "STA_DISC"
    BY <1>1, <1>2, <2>1
  <2> QED BY <2>2
<1>4. ASSUME running'.kind = "GOT_IP", link # "up" PROVE Has(evq', "STA_DISC")
  <2>1. PICK j \in 1..Len(evq) : 1 < j /\ evq[j] = "STA_DISC"
    BY <1>1, <1>4 DEF LossFollows
  <2> QED BY <1>2, <2>1 DEF Has
<1> QED BY <1>3, <1>4 DEF LossFollows

LEMMA FollowsStep == BaseInv /\ LossFollows /\ SessionStep => LossFollows'
<1> SUFFICES ASSUME BaseInv, LossFollows, SessionStep PROVE LossFollows'
  OBVIOUS
<1>1. evq \in Seq(EventKinds) /\ running \in Runs /\ OneHandler
  BY DEF BaseInv, TypeInv, TypeOK, DrvTypeOK, HdlTypeOK
<1>2. NextInstance(running) = NotRunning
  BY <1>1 DEF NextInstance, OneHandler, Runs
<1>3. {"STA_START", "STA_DISC", "GOT_IP"} \subseteq EventKinds
  BY DEF EventKinds
<1>4. CASE Apart
  BY <1>4 DEF Apart, LossFollows, Has, drvVars, hdlVars
<1>5. CASE Restart
  BY <1>5 DEF Restart, RamLost, LossFollows, NotRunning
<1>6. CASE CallStep
  <2>1. running' = running
    BY <1>6, CallKeeps
  <2>2. CASE QuietStep
    BY <2>1, <2>2 DEF QuietStep, LossFollows, Has
  <2>3. CASE StartingStep
    BY <2>1, <2>3 DEF StartingStep, Still, LossFollows, NotRunning
  <2>4. CASE ScanningStep
    <3>1. evq' = evq \o <<"STA_START">> /\ link' = link
      BY <2>4 DEF ScanningStep
    <3> QED BY <1>1, <1>3, <2>1, <3>1, FollowsAppend
  <2>5. CASE UnlinkingStep
    <3>1. evq' = evq \o <<"STA_DISC">>
      BY <2>5 DEF UnlinkingStep
    <3> QED BY <1>1, <1>3, <2>1, <3>1, FollowsAppend
  <2> QED BY <1>6, <2>2, <2>3, <2>4, <2>5, CallEffect
<1>7. CASE Driver
  <2>1. running' = running
    BY <1>7 DEF Driver, hdlVars
  <2>2. CASE StaJoin
    BY <2>1, <2>2 DEF StaJoin, LossFollows, Has
  <2>3. CASE StaGotIp
    <3>1. evq' = evq \o <<"GOT_IP">> /\ link' = "up"
      BY <2>3 DEF StaGotIp, Post
    <3> QED BY <1>1, <1>3, <2>1, <3>1, FollowsAppend
  <2>4. CASE StaLost
    <3>1. evq' = evq \o <<"STA_DISC">>
      BY <2>4 DEF StaLost, Post
    <3> QED BY <1>1, <1>3, <2>1, <3>1, FollowsAppend
  <2> QED BY <1>7, <2>2, <2>3, <2>4 DEF Driver, Air
<1>8. CASE Loop
  <2>1. CASE Dispatch
    <3>1. evq # <<>> /\ evq' = Tail(evq) /\ link' = link /\ running'.kind \in {"none", Head(evq)}
      BY <2>1 DEF Dispatch, NotRunning
    <3> QED BY <1>1, <3>1, FollowsTail
  <2>2. CASE OnStaStart \/ OnStaDiscRetry
    <3>1. running' = NotRunning /\ evq' = evq /\ (link = "up" => link' = "up")
      BY <1>2, <2>2 DEF OnStaStart, OnStaDiscRetry, ConnectsTo
    <3> QED BY <3>1 DEF LossFollows, NotRunning
  <2>3. CASE OnStaDiscBits \/ OnStaDiscIgnored \/ OnGotIp \/ OnApStart
    <3>1. running'.kind \in {running.kind, "none"} /\ evq' = evq /\ link' = link
      BY <1>1, <1>2, <2>3 DEF OnStaDiscBits, OnStaDiscIgnored, OnGotIp, OnApStart, drvVars, NotRunning, Runs
    <3> QED BY <3>1 DEF LossFollows, Has
  <2> QED BY <1>8, <2>1, <2>2, <2>3 DEF Loop, EventLoop
<1> QED BY <1>4, <1>5, <1>6, <1>7, <1>8 DEF SessionStep

(* The other effects of a step of the application's call.                    *)
LEMMA CallBits ==
    ASSUME BaseInv, CallStep
    PROVE  /\ "StaStart" \in bits => "StaStart" \in bits' \/ pc' = "stop_netif"
           /\ pc' = "stop_netif" => pc = "stop_clear" /\ bits' \cap Bits = {}
           /\ pc = "stop_clear" => pc' = "stop_netif"
           /\ pc = "stop_unreg" => pc' \in {"stop_unreg", "stop_clear"}
           /\ pc = "stop_netif" => pc' = "stop_delay"
           /\ tracked \subseteq tracked' \/ pc = "stop_unreg"
           /\ pc \in DownPoints => pc' \in DownPoints \/ (pc = "stop_delay" /\ UNCHANGED <<bits, woken>>)
           /\ woken' \subseteq woken \cup bits
           /\ everUp' = everUp \/ pc' = "stop_unreg"
<1> USE DEF DownPoints, Goto, Return, Fail, Call, drvVars, hdlVars, Clear
<1>1. TypeInv
  BY DEF BaseInv
<1>2. CASE StartSta
  <2>1. ret \in {"idle", "cfg_conn", "auto_conn"}
    BY <1>1, <1>2 DEF StartSta, StaBegin, StaRegister, StaMode, StaConfig, StaGo, TypeInv, Control,
       StartStaPoints
  <2> QED BY <1>2, <2>1 DEF StartSta, StaBegin, NewNetif, StaRegister, Register, StaMode, SetMode,
         StaConfig, SetStaConfig, ConfigFailure, StaGo, DriverStart, Succeed
<1>3. CASE StartAp
  <2>1. ret \in {"idle", "cfg_wait"}
    BY <1>1, <1>3 DEF StartAp, ApBegin, ApRegister, ApMode, ApGo, TypeInv, Control, StartApPoints
  <2> QED BY <1>3, <2>1 DEF StartAp, ApBegin, NewNetif, ApRegister, Register, ApMode, SetMode, ApGo,
         DriverStart, Succeed
<1>4. CASE StopDisconnect \/ StopDriver \/ StopClear \/ StopNetif
  BY <1>4 DEF StopDisconnect, Disconnect, StopDriver, DriverStop, StopClear, StopNetif, Bits
<1>5. CASE StopUnregister
  BY <1>5 DEF StopUnregister
<1>6. CASE StopDelay
  <2>1. ret \in {"idle", "cfg_stopped", "cfg_begin"}
    BY <1>1, <1>6 DEF StopDelay, TypeInv, Control, StopPoints
  <2> QED BY <1>6, <2>1 DEF StopDelay, Succeed
<1>7. CASE ConfigViaAp
  <2> USE DEF Local, AwaitBits, EndWait
  <2>1. CASE CfgBegin \/ CfgWait \/ CfgApUp \/ CfgApTimeout \/ CfgServer \/ CfgDns \/ CfgArm \/ CfgTake
    BY <2>1 DEF CfgBegin, CfgWait, CfgApUp, CfgApTimeout, CfgServer, CfgDns, CfgArm, CfgTake
  <2>2. CASE CfgApSta BY <2>2 DEF CfgApSta, SetMode
  <2>3. CASE CfgDisarm \/ CfgCheck \/ CfgDnsOff \/ CfgWebOff \/ CfgStopped \/ CfgConn \/ CfgConnDone
    BY <2>3 DEF CfgDisarm, AfterTake, CfgCheck, CfgDnsOff, CfgWebOff, CfgStopped, CfgConn, CfgConnDone
  <2> QED BY <1>7, <2>1, <2>2, <2>3 DEF ConfigViaAp
<1>8. CASE AutoConnect
  BY <1>8 DEF AutoConnect, AutoLoad, AutoConn, AutoConnDone, FallBack, Local, AwaitBits, EndWait
<1> QED BY <1>2, <1>3, <1>4, <1>5, <1>6, <1>7, <1>8 DEF CallStep, Stop

-----------------------------------------------------------------------------
(* The connection bit *)

(* A link, and any news of it, belongs to a station whose start was handled  *)
(* and whose handlers are all registered, until Stop() takes these away.     *)
Attached ==
    /\ link # "idle" \/ AddressOut \/ running.phase = "retry" \/ "StaConnected" \in bits =>
           "StaStart" \in bits \/ pc \in {"stop_netif", "stop_delay"}
    /\ link # "idle" \/ AddressOut \/ DiscOut \/ running.kind = "STA_START" \/ "StaConnected" \in bits =>
           StaSet \subseteq tracked \/ pc \in DownPoints

(* When Stop() gives the delay back nothing is left to be attached to.       *)
LEMMA Detached ==
    ASSUME PromptLoop, BaseInv, CallStep, pc = "stop_delay"
    PROVE  bits = {} /\ Still
<1>1. StopDelay
  BY DEF CallStep, StartSta, StaBegin, StaRegister, StaMode, StaConfig, StaGo, StartAp, ApBegin,
     ApRegister, ApMode, ApGo, Stop, StopDisconnect, StopDriver, StopUnregister, StopClear,
     StopNetif, ConfigViaAp, CfgBegin, CfgWait, CfgApUp, CfgApTimeout, CfgApSta, CfgServer, CfgDns,
     CfgArm, CfgTake, CfgDisarm, CfgCheck, CfgDnsOff, CfgWebOff, CfgStopped, CfgConn, CfgConnDone,
     AutoConnect, AutoLoad, AutoConn, AutoConnDone
<1>2. evq = <<>> /\ running = NotRunning
  BY <1>1, PromptLoopAssumption DEF StopDelay
<1> QED BY <1>2 DEF Still, BaseInv, StopInv, Shutdown, BarredPoints, ClearedPoints

LEMMA CallAttached ==
    ASSUME PromptLoop, BaseInv, OneAtATime, Attached, CallStep
    PROVE  Attached'
<1>1. /\ running' = running /\ bits' \subseteq bits /\ evq \in Seq(EventKinds)
      /\ {"STA_START", "STA_DISC", "GOT_IP"} \subseteq EventKinds
  BY CallKeeps DEF BaseInv, TypeInv, TypeOK, DrvTypeOK, EventKinds
<1>2. CASE pc = "stop_delay"
  <2>1. bits' = {} /\ Still
    BY <1>1, <1>2, Detached
  <2>2. QuietStep
    BY <1>2, CallEffect DEF StartingStep, ScanningStep, UnlinkingStep
  <2> QED BY <1>1, <2>1, <2>2 DEF QuietStep, Still, NotRunning, Attached, AddressOut, DiscOut, Has
<1>3. CASE pc # "stop_delay"
  <2>1. /\ link' # "idle" => link # "idle"
        /\ AddressOut' => AddressOut
        /\ DiscOut' => DiscOut \/ link # "idle"
    <3>1. CASE QuietStep
      BY <1>1, <3>1 DEF QuietStep, AddressOut, DiscOut
    <3>2. CASE StartingStep
      BY <1>1, <3>2 DEF StartingStep, AddressOut, DiscOut, Has
    <3>3. CASE ScanningStep
      BY <1>1, <3>3, HasAppend DEF ScanningStep, AddressOut, DiscOut
    <3>4. CASE UnlinkingStep
      BY <1>1, <3>4, HasAppend DEF UnlinkingStep, AddressOut
    <3> QED BY <3>1, <3>2, <3>3, <3>4, CallEffect
  <2>2. "StaStart" \in bits \/ pc \in {"stop_netif", "stop_delay"} =>
            "StaStart" \in bits' \/ pc' \in {"stop_netif", "stop_delay"}
    BY <1>3, CallBits
  <2>3. StaSet \subseteq tracked \/ pc \in DownPoints => StaSet \subseteq tracked' \/ pc' \in DownPoints
    BY <1>3, CallBits DEF DownPoints
  <2> QED BY <1>1, <2>1, <2>2, <2>3 DEF Attached
<1> QED BY <1>2, <1>3

LEMMA LoopAttached ==
    ASSUME BaseInv, OneAtATime, Attached, Loop
    PROVE  Attached'
<1>1. /\ UNCHANGED <<pc, tracked>> /\ evq \in Seq(EventKinds) /\ running \in Runs /\ OneHandler
  BY DEF Loop, lcVars, BaseInv, TypeInv, TypeOK, DrvTypeOK, HdlTypeOK
<1>2. NextInstance(running) = NotRunning
  BY <1>1 DEF NextInstance, OneHandler, Runs
<1>3. CASE Dispatch
  <2>1. /\ evq # <<>> /\ evq' = Tail(evq) /\ UNCHANGED <<link, bits>>
        /\ running' = NotRunning \/ (reg[Head(evq)] # 0 /\ running'.kind = Head(evq) /\ running'.phase = "enter")
    BY <1>3 DEF Dispatch
  <2>2. running'.kind \in {"none", Head(evq)} /\ running'.phase = "enter"
    BY <2>1 DEF NotRunning
  <2>3. (AddressOut' => AddressOut) /\ (DiscOut' => DiscOut)
    BY <1>1, <2>1, <2>2, HasTail DEF AddressOut, DiscOut
  <2>4. ASSUME running'.kind = "STA_START" PROVE StaSet \subseteq tracked \/ pc \in DownPoints
    <3>1. reg["STA_START"] # 0
      BY <2>1, <2>4 DEF NotRunning
    <3>2. "STA_START" \in tracked
      BY <3>1 DEF BaseInv, StopInv, HandlersExact, Kinds, EventKinds
    <3>3. ~Still
      BY <2>1 DEF Still
    <3> QED BY <3>2, <3>3 DEF BaseInv, StartInv, AllOrNone, StaSet
  <2> QED BY <1>1, <2>1, <2>2, <2>3, <2>4 DEF Attached
<1>4. CASE OnStaStart
  <2>1. running.kind = "STA_START" /\ running' = NotRunning /\ evq' = evq /\ bits' = bits \cup {"StaStart"}
    BY <1>2, <1>4 DEF OnStaStart, Enter, UpdateBits
  <2> QED BY <1>1, <2>1 DEF Attached, AddressOut, DiscOut, NotRunning
<1>5. CASE OnStaDiscBits
  <2>1. /\ running.kind = "STA_DISC" /\ running'.kind = running.kind /\ UNCHANGED <<evq, link>>
        /\ "StaStart" \in bits /\ bits' = (bits \ {"StaConnected"}) \cup {"StaDisconnected"}
    BY <1>1, <1>5 DEF OnStaDiscBits, Enter, drvVars, Runs, DiscIsStale, UpdateBits, DiscClears
  <2> QED BY <1>1, <2>1 DEF Attached, AddressOut, DiscOut
<1>6. CASE OnStaDiscRetry
  <2>1. /\ running.kind = "STA_DISC" /\ running.phase = "retry" /\ running' = NotRunning
        /\ UNCHANGED <<evq, bits>>
    BY <1>1, <1>2, <1>6 DEF OnStaDiscRetry, OneHandler
  <2> QED BY <1>1, <2>1 DEF Attached, AddressOut, DiscOut, NotRunning
<1>7. CASE OnGotIp
  <2>1. /\ running.kind = "GOT_IP" /\ running' = NotRunning /\ UNCHANGED <<evq, link>>
        /\ bits' = (bits \ {"StaDisconnected"}) \cup {"StaConnected"}
    BY <1>2, <1>7 DEF OnGotIp, Enter, UpdateBits, drvVars
  <2> QED BY <1>1, <2>1 DEF Attached, AddressOut, DiscOut, NotRunning
<1>8. CASE OnStaDiscIgnored \/ OnApStart
  <2>1. /\ running' = NotRunning /\ UNCHANGED <<evq, link>>
        /\ bits' = bits \/ bits' = bits \cup {"ApStart"}
    BY <1>2, <1>8 DEF OnStaDiscIgnored, OnApStart, UpdateBits, drvVars
  <2> QED BY <1>1, <2>1 DEF Attached, AddressOut, DiscOut, NotRunning
<1> QED BY <1>3, <1>4, <1>5, <1>6, <1>7, <1>8 DEF Loop, EventLoop

LEMMA AttachedStep ==
    ASSUME PromptLoop
    PROVE  BaseInv /\ OneAtATime /\ Attached /\ SessionStep => Attached'
<1> SUFFICES ASSUME BaseInv, OneAtATime, Attached, SessionStep PROVE Attached'
  OBVIOUS
<1>1. CASE Apart
  BY <1>1 DEF Apart, Attached, AddressOut, DiscOut, DownPoints, drvVars, hdlVars
<1>2. CASE Restart
  BY <1>2 DEF Restart, RamLost, Attached, AddressOut, DiscOut, Has, NotRunning
<1>3. CASE Driver
  <2>1. link # "idle" /\ UNCHANGED <<pc, tracked, bits, running>>
    BY <1>3 DEF Driver, Air, StaJoin, StaGotIp, StaLost, hdlVars, lcVars
  <2>2. running.kind # "STA_START"
    BY <2>1 DEF OneAtATime, StartOut
  <2> QED BY <2>1, <2>2 DEF Attached
<1> QED BY <1>1, <1>2, <1>3, CallAttached, LoopAttached DEF SessionStep

LEMMA ConnBitStep ==
    BaseInv /\ OneAtATime /\ LossFollows /\ Attached /\ ConnBitAccurate /\ SessionStep
        => ConnBitAccurate'
<1> SUFFICES ASSUME BaseInv, OneAtATime, LossFollows, Attached, ConnBitAccurate, SessionStep,
                    "StaConnected" \in bits'
             PROVE  \/ link' = "up" \/ Has(evq', "STA_DISC")
                    \/ running'.kind = "STA_DISC" /\ running'.phase = "enter"
                    \/ pc' \in {"stop_unreg", "stop_clear"}
  BY DEF ConnBitAccurate, DiscComing, Has, Enter
<1>1. "StaConnected" \in bits =>
          \/ link = "up" \/ Has(evq, "STA_DISC")
          \/ running.kind = "STA_DISC" /\ running.phase = "enter"
          \/ pc \in {"stop_unreg", "stop_clear"}
  BY DEF ConnBitAccurate, DiscComing, Has, Enter
<1>2. /\ evq \in Seq(EventKinds) /\ running \in Runs /\ OneHandler
      /\ {"STA_START", "STA_DISC", "GOT_IP"} \subseteq EventKinds
  BY DEF BaseInv, TypeInv, TypeOK, DrvTypeOK, HdlTypeOK, EventKinds
<1>3. CASE Apart
  BY <1>1, <1>3 DEF Apart, drvVars, hdlVars
<1>4. CASE Restart
  BY <1>4 DEF Restart, RamLost
<1>5. CASE CallStep
  <2>1. "StaConnected" \in bits /\ running' = running
    BY <1>5, CallKeeps
  <2>2. pc \in {"stop_unreg", "stop_clear"} => pc' \in {"stop_unreg", "stop_clear"}
    BY <1>5, CallBits DEF Bits
  <2>3. CASE QuietStep
    BY <1>1, <2>1, <2>2, <2>3 DEF QuietStep
  <2>4. CASE StartingStep
    BY <1>1, <2>1, <2>2, <2>4 DEF StartingStep, Still, Has, NotRunning
  <2>5. CASE ScanningStep
    BY <1>1, <1>2, <2>1, <2>2, <2>5, HasAppend DEF ScanningStep
  <2>6. CASE UnlinkingStep
    BY <1>2, <2>6, HasAppend DEF UnlinkingStep
  <2> QED BY <1>5, <2>3, <2>4, <2>5, <2>6, CallEffect
<1>6. CASE Driver
  <2>1. UNCHANGED <<bits, running, pc>>
    BY <1>6 DEF Driver, hdlVars, lcVars
  <2>2. CASE StaJoin BY <1>1, <2>1, <2>2 DEF StaJoin
  <2>3. CASE StaGotIp BY <2>3 DEF StaGotIp
  <2>4. CASE StaLost BY <1>2, <2>4, HasAppend DEF StaLost, Post
  <2> QED BY <1>6, <2>2, <2>3, <2>4 DEF Driver, Air
<1>7. CASE Loop
  <2>1. pc' = pc /\ NextInstance(running) = NotRunning
    BY <1>2, <1>7 DEF Loop, lcVars, NextInstance, OneHandler, Runs
  <2>2. CASE Dispatch
    <3>1. /\ evq # <<>> /\ evq' = Tail(evq) /\ link' = link /\ bits' = bits /\ running = NotRunning
          /\ reg[Head(evq)] # 0 => running'.kind = Head(evq) /\ running'.phase = "enter"
      BY <2>2 DEF Dispatch
    <3>2. Has(evq, "STA_DISC") => Has(evq', "STA_DISC") \/ Head(evq) = "STA_DISC"
      <4>1. ASSUME NEW i \in 1..Len(evq), evq[i] = "STA_DISC", Head(evq) # "STA_DISC"
            PROVE  Has(Tail(evq), "STA_DISC")
        <5>1. i # 1 /\ i - 1 \in 1..Len(Tail(evq)) /\ Tail(evq)[i - 1] = evq[i]
          BY <1>2, <3>1, <4>1
        <5> QED BY <4>1, <5>1 DEF Has
      <4> QED BY <3>1, <4>1 DEF Has
    <3>3. pc \notin {"stop_netif", "stop_delay"}
      BY <2>1, <3>1 DEF BaseInv, StopInv, Shutdown, BarredPoints, ClearedPoints
    <3>4. pc \notin DownPoints => reg["STA_DISC"] # 0
      BY <3>1 DEF Attached, StaSet, BaseInv, StopInv, HandlersExact, Kinds, EventKinds
    <3> QED BY <1>1, <2>1, <3>1, <3>2, <3>3, <3>4 DEF DownPoints, NotRunning
  <2>3. CASE OnStaStart
    <3>1. "StaConnected" \in bits /\ running.kind = "STA_START"
      BY <2>3 DEF OnStaStart, UpdateBits, Enter
    <3> QED BY <1>1, <2>1, <3>1 DEF OneAtATime, StartOut, DiscOut
  <2>4. CASE OnStaDiscIgnored
    <3>1. "StaConnected" \in bits /\ "StaStart" \notin bits
      BY <2>4 DEF OnStaDiscIgnored, DiscIsStale
    <3>2. pc \in {"stop_netif", "stop_delay"}
      BY <3>1 DEF Attached
    <3> QED BY <3>1, <3>2 DEF BaseInv, StopInv, Shutdown, ClearedPoints
  <2>5. CASE OnStaDiscBits
    BY <2>5 DEF OnStaDiscBits, UpdateBits, DiscClears
  <2>6. CASE OnStaDiscRetry
    <3>1. "StaConnected" \in bits /\ running.kind = "STA_DISC" /\ running.phase = "retry"
      BY <1>2, <2>6 DEF OnStaDiscRetry, OneHandler
    <3> QED BY <1>1, <2>1, <3>1 DEF OneAtATime, DiscOut
  <2>7. CASE OnGotIp
    <3>1. running.kind = "GOT_IP" /\ UNCHANGED <<evq, link>>
      BY <2>7 DEF OnGotIp, Enter, drvVars
    <3> QED BY <3>1 DEF LossFollows
  <2>8. CASE OnApStart
    <3>1. "StaConnected" \in bits /\ running.kind = "AP_START" /\ UNCHANGED <<evq, link>>
      BY <2>8 DEF OnApStart, Enter, UpdateBits, drvVars
    <3> QED BY <1>1, <2>1, <3>1
  <2> QED BY <1>7, <2>2, <2>3, <2>4, <2>5, <2>6, <2>7, <2>8 DEF Loop, EventLoop
<1> QED BY <1>3, <1>4, <1>5, <1>6, <1>7 DEF SessionStep

(* IsConnected() tells the truth but for news on its way and for Stop()      *)
(* itself: an address is never handled after the disconnection it precedes.  *)
THEOREM ConnBitTrue == ASSUME StopFirst, PromptLoop PROVE Spec => []ConnBitAccurate
<1>1. Init => OneAtATime /\ LossFollows /\ Attached /\ ConnBitAccurate
  <2>1. Init => LossFollows /\ Attached /\ ConnBitAccurate
    BY DEF Init, DrvInit, HdlInit, LossFollows, Attached, AddressOut, DiscOut, Has, NotRunning,
       ConnBitAccurate
  <2> QED BY <2>1, InitOne
<1>2. BaseInv /\ OneAtATime /\ LossFollows /\ Attached /\ ConnBitAccurate /\ [Next]_vars
          => (OneAtATime /\ LossFollows /\ Attached /\ ConnBitAccurate)'
  BY OneStep, FollowsStep, AttachedStep, ConnBitStep, NextSession
<1> QED BY <1>1, <1>2, Base, PTL DEF Spec

-----------------------------------------------------------------------------
(* The answer Ok *)

(* Between two calls of Stop() every sign of an address is of this session.  *)
Fresh ==
    AddressOut \/ "StaConnected" \in bits \cup woken => everUp \/ pc \in DownPoints

LEMMA FreshStep ==
    ASSUME PromptLoop
    PROVE  BaseInv /\ Awake /\ Fresh /\ SessionStep => Fresh'
<1> SUFFICES ASSUME BaseInv, Awake, Fresh, SessionStep PROVE Fresh'
  OBVIOUS
<1>1. /\ evq \in Seq(EventKinds) /\ running \in Runs /\ OneHandler
      /\ {"STA_START", "STA_DISC", "GOT_IP"} \subseteq EventKinds
  BY DEF BaseInv, TypeInv, TypeOK, DrvTypeOK, HdlTypeOK, EventKinds
<1>2. CASE Apart
  BY <1>2 DEF Apart, Fresh, AddressOut, DownPoints, drvVars, hdlVars
<1>3. CASE Restart
  BY <1>3 DEF Restart, RamLost, Fresh, AddressOut, Has, NotRunning
<1>4. CASE CallStep
  <2>1. running' = running /\ bits' \subseteq bits /\ woken' \subseteq woken \cup bits
    BY <1>4, CallKeeps, CallBits
  <2>2. AddressOut' => AddressOut
    <3>1. CASE QuietStep BY <2>1, <3>1 DEF QuietStep, AddressOut
    <3>2. CASE StartingStep BY <2>1, <3>2 DEF StartingStep, AddressOut, Has
    <3>3. CASE ScanningStep
      <4>1. evq' = evq \o <<"STA_START">> BY <3>3 DEF ScanningStep
      <4>2. Has(evq', "GOT_IP") => Has(evq, "GOT_IP") BY <1>1, <4>1, HasAppend
      <4> QED BY <2>1, <4>2 DEF AddressOut
    <3>4. CASE UnlinkingStep
      <4>1. evq' = evq \o <<"STA_DISC">> BY <3>4 DEF UnlinkingStep
      <4>2. Has(evq', "GOT_IP") => Has(evq, "GOT_IP") BY <1>1, <4>1, HasAppend
      <4> QED BY <2>1, <4>2 DEF AddressOut
    <3> QED BY <1>4, <3>1, <3>2, <3>3, <3>4, CallEffect
  <2>3. CASE pc = "stop_delay"
    <3>1. bits = {} /\ woken = {} /\ ~AddressOut
      BY <1>4, <2>3, Detached DEF Awake, WaitingPoints, Still, AddressOut, Has, NotRunning
    <3> QED BY <2>1, <2>2, <3>1 DEF Fresh
  <2>4. CASE pc # "stop_delay"
    <3>1. pc \in DownPoints => pc' \in DownPoints
      BY <1>4, <2>4, CallBits
    <3>2. everUp' = everUp \/ pc' \in DownPoints
      BY <1>4, CallBits DEF DownPoints
    <3> QED BY <2>1, <2>2, <3>1, <3>2 DEF Fresh
  <2> QED BY <2>3, <2>4
<1>5. CASE Driver
  <2>1. UNCHANGED <<bits, woken, running, pc>>
    BY <1>5 DEF Driver, hdlVars, lcVars
  <2>2. CASE StaJoin BY <2>1, <2>2 DEF StaJoin, Fresh, AddressOut
  <2>3. CASE StaGotIp BY <2>3 DEF StaGotIp, Fresh
  <2>4. CASE StaLost BY <1>1, <2>1, <2>4, HasAppend DEF StaLost, Post, Fresh, AddressOut
  <2> QED BY <1>5, <2>2, <2>3, <2>4 DEF Driver, Air
<1>6. CASE Loop
  <2>1. UNCHANGED <<pc, everUp>> /\ NextInstance(running) = NotRunning
    BY <1>1, <1>6 DEF Loop, EventLoop, Dispatch, OnStaStart, OnStaDiscIgnored, OnStaDiscBits,
       OnStaDiscRetry, OnGotIp, OnApStart, drvVars, lcVars, NextInstance, OneHandler, Runs
  <2>2. AddressOut' => AddressOut
    <3>1. CASE Dispatch
      BY <1>1, <3>1, HasTail DEF Dispatch, AddressOut, NotRunning
    <3>2. CASE ~Dispatch
      <4>1. evq' = evq /\ running'.kind \in {running.kind, "none"}
        BY <1>1, <1>6, <2>1, <3>2 DEF Loop, EventLoop, OnStaStart, OnStaDiscIgnored, OnStaDiscBits,
           OnStaDiscRetry, OnGotIp, OnApStart, NotRunning, Runs, drvVars
      <4> QED BY <4>1 DEF AddressOut
    <3> QED BY <3>1, <3>2
  <2>3. "StaConnected" \in bits' \cup woken' => "StaConnected" \in bits \cup woken \/ AddressOut
    BY <1>6 DEF Loop, EventLoop, Dispatch, OnStaStart, OnStaDiscIgnored, OnStaDiscBits,
       OnStaDiscRetry, OnGotIp, OnApStart, UpdateBits, Enter, AddressOut
  <2> QED BY <2>1, <2>2, <2>3 DEF Fresh
<1> QED BY <1>2, <1>3, <1>4, <1>5, <1>6 DEF SessionStep

LEMMA OkStep == BaseInv /\ Answers /\ Fresh /\ OkIsFresh /\ [Next]_vars => OkIsFresh'
<1> SUFFICES ASSUME BaseInv, Answers, Fresh, OkIsFresh, [Next]_vars,
                    pc' = "idle", status' = "Ok", api' \in Provisioned
             PROVE  everUp'
  BY DEF OkIsFresh, Provisioned
<1>1. CASE CallStep
  <2>1. "StaConnected" \in woken /\ pc \notin DownPoints /\ everUp' = everUp
    BY <1>1, OkNeedsBit DEF BaseInv, ConnPoints, DownPoints
  <2> QED BY <2>1 DEF Fresh
<1>2. CASE (\E c \in AppCalls : AppCall(c)) \/ Restart
  BY <1>2 DEF AppCall, Restart, RamLost
<1>3. CASE Loop \/ Driver \/ Http \/ UNCHANGED vars
  <2>1. UNCHANGED <<pc, status, api>> /\ (everUp => everUp')
    BY <1>3 DEF Loop, EventLoop, Dispatch, OnStaStart, OnStaDiscIgnored, OnStaDiscBits,
       OnStaDiscRetry, OnGotIp, OnApStart, Driver, Air, StaJoin, StaGotIp, StaLost, Http, PostWifi,
       PostConfigSave, Finish, NotifyCheck, NotifyGive, PageBegin, PageEnd, UploadBegin,
     UploadEnd, HandlerResetGet,
       HttpOnly, vars, drvVars, lcVars, pvVars
  <2> QED BY <2>1 DEF OkIsFresh, Provisioned
<1> QED BY <1>1, <1>2, <1>3 DEF Next

(* A call answers Ok only on an address obtained since the driver was last   *)
(* started: no event of an earlier session outlives Stop().                  *)
THEOREM OkMeansConnected == ASSUME StopFirst, PromptLoop PROVE Spec => []OkIsFresh
<1>1. Init => AnswerInv /\ Fresh /\ OkIsFresh
  <2>1. Init => Fresh /\ OkIsFresh
    BY DEF Init, DrvInit, HdlInit, LcInit, Fresh, AddressOut, Has, NotRunning, OkIsFresh
  <2> QED BY <2>1, InitAnswer
<1>2. BaseInv /\ PortalUp /\ AnswerInv /\ Fresh /\ OkIsFresh /\ [Next]_vars => (AnswerInv /\ Fresh /\ OkIsFresh)'
  BY AnswerStep, FreshStep, OkStep, NextSession DEF BaseInv, AnswerInv
<1>3. PortalInv => PortalUp
  BY DEF PortalInv
<1> QED BY <1>1, <1>2, <1>3, Base, PortalBracketed, PTL DEF Spec
=============================================================================
