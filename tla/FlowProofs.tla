----------------------------- MODULE FlowProofs ------------------------------
(***************************************************************************)
(* Provisioning implements ProvisioningFlow, for every set of SSIDs, retry  *)
(* number, queue length, heap and application: each step of a call, of the  *)
(* event loop, of the driver and of a handler is a step of the flow or      *)
(* leaves it as it is.                                                      *)
(***************************************************************************)
EXTENDS ProvisioningProofs

(* StartSta, called to try the saved credentials, finds them where           *)
(* LoadSavedCredsFromNvs put them.                                           *)
Trying == pc \in StartStaPoints /\ ret = "auto_conn" => sta = saved

(* The SSID is checked only by a call that has no answer yet.                *)
Verdict ==
    /\ pc = "cfg_disarm" => status \in {"none", "Timeout"}
    /\ pc = "cfg_check" => status = "none"

(* While NVS holds no name there is no link, nor any trace of an address.    *)
OtherEvents == EventKinds \ {"GOT_IP"}
Unlinked ==
    /\ link = "idle"
    /\ evq \in Seq(OtherEvents)
    /\ running.kind # "GOT_IP"
    /\ "StaConnected" \notin bits \cup woken

NamedLink == saved = NoSsid => Unlinked

FlowInv == TypeInv /\ PortalUp /\ Trying /\ Verdict /\ NamedLink

LEMMA InitFlow == Init => FlowInv
<1>1. <<>> \in Seq(OtherEvents)
  OBVIOUS
<1> QED
  BY InitPortal, <1>1 DEF PortalInv, Init, DrvInit, HdlInit, LcInit, FlowInv, Trying, Verdict, NamedLink, Unlinked,
     NotRunning, StartStaPoints

-----------------------------------------------------------------------------
(* Trying *)

LEMMA StartStaTrying == ASSUME TypeInv, Trying, StartSta PROVE Trying'
<1> USE DEF Trying, StartStaPoints
<1>1. CASE StaBegin \/ StaRegister \/ StaMode
  BY <1>1 DEF StaBegin, NewNetif, StaRegister, Register, StaMode, SetMode, Goto, Fail, Return, drvVars
<1>2. CASE StaConfig
  BY <1>2 DEF StaConfig, SetStaConfig, ConfigFailure, Goto, Fail, Return, drvVars
<1>3. CASE StaGo
  BY <1>3 DEF StaGo, Succeed, Fail, Return, TypeInv, Control
<1> QED BY <1>1, <1>2, <1>3 DEF StartSta

(* Only AutoConnect sends StartSta to the saved credentials.                 *)
LEMMA CallTrying == ASSUME TypeInv, Trying, CallStep PROVE Trying'
<1> USE DEF StartStaPoints
<1>1. CASE StartAp \/ Stop
  <2>1. pc' \notin StartStaPoints
    BY <1>1 DEF StartAp, ApBegin, ApRegister, ApMode, ApGo, NewNetif, Register, Stop,
       StopDisconnect, StopDriver, StopUnregister, StopClear, StopNetif, StopDelay, Goto, Fail,
       Return, Succeed, TypeInv, Control, StartApPoints, StopPoints
  <2> QED BY <2>1 DEF Trying
<1>2. CASE ConfigViaAp
  <2>1. pc' \in StartStaPoints => ret' = "cfg_conn"
    BY <1>2 DEF ConfigViaAp, CfgBegin, CfgWait, CfgApUp, CfgApTimeout, CfgApSta, CfgServer, CfgDns,
       CfgArm, CfgTake, CfgDisarm, CfgCheck, CfgDnsOff, CfgWebOff, CfgStopped, CfgConn, CfgConnDone,
       AwaitBits, AfterTake, Call, Goto, Fail, Return
  <2> QED BY <2>1 DEF Trying
<1>3. CASE AutoConnect
  BY <1>3 DEF AutoConnect, AutoLoad, AutoConn, AutoConnDone, FallBack, AwaitBits, Call, Goto, Return,
     Local, drvVars, Trying
<1> QED BY <1>1, <1>2, <1>3, StartStaTrying DEF CallStep

LEMMA TryingStep == TypeInv /\ PortalUp /\ Trying /\ [Next]_vars => Trying'
<1> SUFFICES ASSUME TypeInv, PortalUp, Trying, [Next]_vars PROVE Trying'
  OBVIOUS
<1>1. CASE \E c \in AppCalls : AppCall(c)
  BY <1>1 DEF AppCall, Call, Trying
<1>2. CASE CallStep BY <1>2, CallTrying
<1>3. CASE Loop \/ Driver \/ UNCHANGED vars
  <2>1. UNCHANGED <<pc, ret, sta, saved>>
    BY <1>3 DEF Loop, EventLoop, Dispatch, OnStaStart, OnStaDiscIgnored, OnStaDiscBits,
       OnStaDiscRetry, OnGotIp, OnApStart, Driver, Air, StaJoin, StaGotIp, StaLost, vars, lcVars,
       drvVars
  <2> QED BY <2>1 DEF Trying
<1>4. CASE Http
  <2>1. UNCHANGED <<pc, ret, saved>> /\ (sta' # sta => server)
    BY <1>4 DEF Http, PostWifi, PostConfigSave, Finish, NotifyCheck, NotifyGive, PageBegin, PageEnd,
       UploadBegin, UploadEnd, HandlerResetGet, HttpOnly, lcVars, drvVars
  <2> QED
    BY <2>1 DEF Trying, PortalUp, ServerPoints, DnsPoints, WaitPoints, StartStaPoints
<1>5. CASE Restart
  BY <1>5 DEF Restart, RamLost, Trying, StartStaPoints
<1> QED BY <1>1, <1>2, <1>3, <1>4, <1>5 DEF Next

-----------------------------------------------------------------------------
(* Verdict *)

LEMMA VerdictStep == TypeInv /\ Verdict /\ [Next]_vars => Verdict'
<1> SUFFICES ASSUME TypeInv, Verdict, [Next]_vars PROVE Verdict'
  OBVIOUS
<1>1. CASE \E c \in AppCalls : AppCall(c)
  BY <1>1, AppAssumption DEF AppCall, Call, EntryOf, ApiCalls, Verdict
<1>2. CASE StartSta \/ StartAp \/ Stop
  <2>1. pc' \notin {"cfg_disarm", "cfg_check"}
    BY <1>2 DEF StartSta, StaBegin, StaRegister, StaMode, StaConfig, StaGo, StartAp, ApBegin,
       ApRegister, ApMode, ApGo, NewNetif, Register, ConfigFailure, Stop, StopDisconnect, StopDriver,
       StopUnregister, StopClear, StopNetif, StopDelay, Goto, Fail, Return, Succeed, TypeInv, Control,
       StartStaPoints, StartApPoints, StopPoints
  <2> QED BY <2>1 DEF Verdict
<1>3. CASE ConfigViaAp
  BY <1>3 DEF ConfigViaAp, CfgBegin, CfgWait, CfgApUp, CfgApTimeout, CfgApSta, CfgServer, CfgDns,
     CfgArm, CfgTake, CfgDisarm, CfgCheck, CfgDnsOff, CfgWebOff, CfgStopped, CfgConn, CfgConnDone,
     AwaitBits, AfterTake, Call, Goto, Fail, Return, Verdict
<1>4. CASE AutoConnect
  BY <1>4 DEF AutoConnect, AutoLoad, AutoConn, AutoConnDone, FallBack, AwaitBits, Call, Goto, Return,
     Verdict
<1>5. CASE Loop \/ Driver \/ Http \/ UNCHANGED vars
  <2>1. UNCHANGED <<pc, status>>
    BY <1>5 DEF Loop, Driver, Http, PostWifi, PostConfigSave, Finish, NotifyCheck, NotifyGive,
       PageBegin, PageEnd, UploadBegin, UploadEnd, HandlerResetGet, HttpOnly, vars, lcVars
  <2> QED BY <2>1 DEF Verdict
<1>6. CASE Restart
  BY <1>6 DEF Restart, RamLost, Verdict
<1> QED BY <1>1, <1>2, <1>3, <1>4, <1>5, <1>6 DEF Next, CallStep

-----------------------------------------------------------------------------
(* NamedLink *)

LEMMA WhenOther ==
    ASSUME NEW c, NEW k \in OtherEvents
    PROVE  When(c, k) \in Seq(OtherEvents)
  BY DEF When

LEMMA StartEventsOther ==
    ASSUME NEW m, NEW a, NEW b
    PROVE  StartEvents(m, a, b) \in Seq(OtherEvents)
<1>1. "STA_START" \in OtherEvents /\ "AP_START" \in OtherEvents
  BY DEF OtherEvents, EventKinds
<1>2. /\ When(HasSta(m) /\ ~a, "STA_START") \in Seq(OtherEvents)
      /\ When(HasAp(m) /\ ~b, "AP_START") \in Seq(OtherEvents)
  BY <1>1, WhenOther
<1> QED BY <1>2 DEF StartEvents

(* What the component asks of the driver neither makes a link nor brings an  *)
(* address.                                                                  *)
LEMMA DriverUnlinked ==
    ASSUME Unlinked, NEW m, SetMode(m) \/ DriverStart \/ Disconnect \/ DriverStop
    PROVE  link' = "idle" /\ evq' \in Seq(OtherEvents)
<1>1. "STA_DISC" \in OtherEvents
  BY DEF OtherEvents, EventKinds
<1>2. /\ When(link # "idle" /\ ~HasSta(m), "STA_DISC") \in Seq(OtherEvents)
      /\ When(link # "idle", "STA_DISC") \in Seq(OtherEvents)
  BY <1>1, WhenOther
<1>3. /\ StartEvents(m, HasSta(mode), HasAp(mode)) \in Seq(OtherEvents)
      /\ StartEvents(mode, started, started) \in Seq(OtherEvents)
  BY StartEventsOther
<1>4. <<>> \in Seq(OtherEvents)
  OBVIOUS
<1>5. CASE SetMode(m)
  <2>1. (IF started THEN StartEvents(m, HasSta(mode), HasAp(mode)) ELSE <<>>) \in Seq(OtherEvents)
    BY <1>3, <1>4
  <2> QED BY <1>2, <1>5, <2>1 DEF SetMode, Post, Unlinked
<1>6. CASE DriverStart BY <1>3, <1>6 DEF DriverStart, Post, Unlinked
<1>7. CASE Disconnect BY <1>2, <1>7 DEF Disconnect, Post, Unlinked
<1>8. CASE DriverStop BY <1>2, <1>8 DEF DriverStop, Post, Unlinked
<1> QED BY <1>5, <1>6, <1>7, <1>8

(* The steps of a call leave the handlers and the connection bit alone.      *)
LEMMA CallUnlinked == ASSUME TypeInv, Unlinked, CallStep PROVE Unlinked'
<1>1. /\ \/ \E m \in Modes : SetMode(m) \/ DriverStart \/ Disconnect \/ DriverStop
         \/ UNCHANGED <<link, evq>>
      /\ running' = running /\ bits' \subseteq bits /\ woken' \subseteq bits \cup woken
  <2>1. CASE StartSta
    BY <2>1 DEF StartSta, StaBegin, StaRegister, Register, StaMode, StaConfig, SetStaConfig, StaGo,
       Clear, drvVars, hdlVars, Modes
  <2>2. CASE StartAp
    BY <2>2 DEF StartAp, ApBegin, ApRegister, Register, ApMode, ApGo, Clear, drvVars, hdlVars, Modes
  <2>3. CASE Stop
    BY <2>3 DEF Stop, StopDisconnect, StopDriver, StopUnregister, StopClear, StopNetif, StopDelay,
       Clear, drvVars, hdlVars, Modes
  <2>4. CASE ConfigViaAp
    BY <2>4 DEF ConfigViaAp, CfgBegin, CfgWait, CfgApUp, CfgApTimeout, CfgApSta, CfgServer, CfgDns,
       CfgArm, CfgTake, CfgDisarm, CfgCheck, CfgDnsOff, CfgWebOff, CfgStopped, CfgConn, CfgConnDone,
       AwaitBits, EndWait, Local, PortalMode, drvVars, hdlVars, Modes
  <2>5. CASE AutoConnect
    BY <2>5 DEF AutoConnect, AutoLoad, AutoConn, AutoConnDone, AwaitBits, EndWait, Local, drvVars, hdlVars
  <2> QED BY <2>1, <2>2, <2>3, <2>4, <2>5 DEF CallStep
<1>2. link' = "idle" /\ evq' \in Seq(OtherEvents)
  <2>1. CASE UNCHANGED <<link, evq>> BY <2>1 DEF Unlinked
  <2> QED BY <1>1, <2>1, DriverUnlinked
<1> QED BY <1>1, <1>2 DEF Unlinked

(* esp_wifi_connect() refuses to connect to no name.                         *)
LEMMA LoopUnlinked == ASSUME TypeInv, Unlinked, saved = NoSsid, Loop PROVE Unlinked'
<1>1. evq' \in Seq(OtherEvents) /\ (Dispatch => running'.kind # "GOT_IP")
  <2>1. CASE Dispatch
    <3>1. Head(evq) \in OtherEvents /\ Tail(evq) \in Seq(OtherEvents)
      BY <2>1 DEF Dispatch, Unlinked
    <3> QED BY <2>1, <3>1 DEF Dispatch, OtherEvents, NotRunning
  <2>2. CASE ~Dispatch
    BY <2>2 DEF Loop, EventLoop, OnStaStart, OnStaDiscIgnored, OnStaDiscBits, OnStaDiscRetry, OnGotIp,
       OnApStart, Unlinked, drvVars
  <2> QED BY <2>1, <2>2
<1>2. ~OnGotIp
  BY DEF OnGotIp, Enter, Unlinked
<1>3. link' = "idle"
  BY <1>2 DEF Loop, EventLoop, Dispatch, OnStaStart, OnStaDiscIgnored, OnStaDiscBits, OnStaDiscRetry,
     OnApStart, ConnectsTo, Unlinked, drvVars
<1>4. running'.kind # "GOT_IP"
  <2>1. running.kind # "GOT_IP" /\ running \in Runs
    BY DEF Unlinked, TypeInv, TypeOK, HdlTypeOK
  <2>2. NextInstance(running).kind # "GOT_IP" /\ [running EXCEPT !.phase = "retry"].kind # "GOT_IP"
    BY <2>1 DEF NextInstance, NotRunning, Runs
  <2> QED
    BY <1>1, <1>2, <2>2 DEF Loop, EventLoop, OnStaStart, OnStaDiscIgnored, OnStaDiscBits,
       OnStaDiscRetry, OnApStart
<1>5. "StaConnected" \notin bits' \cup woken'
  BY <1>2 DEF Loop, EventLoop, Dispatch, OnStaStart, OnStaDiscIgnored, OnStaDiscBits, OnStaDiscRetry,
     OnApStart, UpdateBits, DiscClears, Unlinked
<1> QED BY <1>1, <1>3, <1>4, <1>5 DEF Unlinked

LEMMA RestartUnlinked == ASSUME Restart PROVE Unlinked'
<1>1. <<>> \in Seq(OtherEvents)
  OBVIOUS
<1> QED BY <1>1 DEF Restart, RamLost, Unlinked, NotRunning

LEMMA NamedStep == TypeInv /\ NamedLink /\ [Next]_vars => NamedLink'
<1> SUFFICES ASSUME TypeInv, NamedLink, [Next]_vars, ~Restart, saved' = NoSsid PROVE Unlinked'
  BY RestartUnlinked DEF NamedLink
<1>1. saved = NoSsid /\ Unlinked
  BY SavedKept DEF NamedLink
<1>2. CASE CallStep BY <1>1, <1>2, CallUnlinked
<1>3. CASE Loop BY <1>1, <1>3, LoopUnlinked
<1>4. CASE Driver
  BY <1>1, <1>4 DEF Driver, Air, StaJoin, StaGotIp, StaLost, Unlinked
<1>5. CASE (\E c \in AppCalls : AppCall(c)) \/ Http \/ UNCHANGED vars
  <2>1. UNCHANGED <<link, evq, running, bits, woken>>
    BY <1>5 DEF AppCall, Local, Http, PostWifi, PostConfigSave, Finish, NotifyCheck, NotifyGive,
       PageBegin, PageEnd, UploadBegin, UploadEnd, HandlerResetGet, HttpOnly, vars, drvVars, hdlVars
  <2> QED BY <1>1, <2>1 DEF Unlinked
<1> QED BY <1>2, <1>3, <1>4, <1>5 DEF Next

LEMMA FlowInvStep == FlowInv /\ [Next]_vars => FlowInv'
  BY TypeStep, PortalUpStep, TryingStep, VerdictStep, NamedStep DEF FlowInv

-----------------------------------------------------------------------------
(* The steps *)

FlowStep == Flow!Next \/ UNCHANGED <<FlowStage, server, sta, saved, status>>

Untouched == UNCHANGED <<server, sta, saved>>

LEMMA StartStaFlows == ASSUME FlowInv, StartSta, UNCHANGED pvVars PROVE FlowStep
<1> USE DEF FlowStage, At, StartStaPoints, StartApPoints, StopPoints, pvVars
<1>1. pc \in StartStaPoints /\ ret \in {"idle", "cfg_conn", "auto_conn"} /\ ret' = ret
  BY DEF StartSta, StaBegin, StaRegister, Register, StaMode, StaConfig, StaGo, NewNetif, ConfigFailure,
     Goto, Fail, Return, Succeed, FlowInv, TypeInv, Control
<1>2. FlowStage \in {"station", "joining", "trying"}
  BY <1>1
<1>3. ASSUME Fail("WifiError") \/ Fail("NetifError"), Untouched PROVE Flow!Failed
  <2>1. FlowStage' = "rest" /\ status' \in Flow!DriverErrors
    BY <1>3 DEF Fail, Return, Flow!DriverErrors
  <2> QED BY <1>2, <1>3, <2>1 DEF Flow!Failed, Flow!End, Flow!Move, Untouched
<1>4. ASSUME pc' \in StartStaPoints, status' = status PROVE UNCHANGED <<FlowStage, status>>
  BY <1>1, <1>4
<1>5. CASE StaBegin \/ StaRegister \/ StaMode
  <2>1. Untouched
    BY <1>5 DEF StaBegin, StaRegister, Register, StaMode, SetMode, Untouched, drvVars
  <2>2. \/ Fail("WifiError") \/ Fail("NetifError")
        \/ pc' \in StartStaPoints /\ status' = status
    BY <1>5 DEF StaBegin, NewNetif, StaRegister, Register, StaMode, Goto, Return
  <2> QED BY <1>3, <1>4, <2>1, <2>2 DEF FlowStep, Flow!Next, Untouched
<1>6. CASE StaConfig
  <2>1. UNCHANGED <<sta, server>>
    BY <1>6 DEF StaConfig
  <2>2. CASE ConfigFailure /\ UNCHANGED drvVars
    BY <1>3, <2>1, <2>2 DEF ConfigFailure, Untouched, drvVars, FlowStep, Flow!Next
  <2>3. CASE Goto("sta_go")
    <3>1. UNCHANGED <<FlowStage, status>>
      BY <1>4, <2>3 DEF Goto, Return
    <3>2. CASE HaveSsid /\ SetStaConfig(sta)
      <4>1. saved' = sta /\ sta # NoSsid
        BY <3>2 DEF SetStaConfig, HaveSsid
      <4>2. FlowStage = "trying" => sta = saved
        BY <1>1 DEF FlowInv, Trying
      <4>3. CASE FlowStage = "trying" BY <2>1, <3>1, <4>1, <4>2, <4>3 DEF FlowStep
      <4>4. CASE FlowStage # "trying"
        BY <1>2, <2>1, <3>1, <4>1, <4>4 DEF Flow!Store, FlowStep, Flow!Next
      <4> QED BY <4>3, <4>4
    <3>3. CASE UNCHANGED drvVars
      BY <2>1, <3>1, <3>3 DEF drvVars, FlowStep
    <3> QED BY <1>6, <2>3, <3>2, <3>3 DEF StaConfig, ConfigFailure, Fail, Goto, Return
  <2> QED BY <1>6, <2>2, <2>3 DEF StaConfig
<1>7. CASE StaGo
  <2>1. Untouched
    BY <1>7 DEF StaGo, DriverStart, Untouched, drvVars
  <2>2. CASE Fail("WifiError") BY <1>3, <2>1, <2>2 DEF FlowStep, Flow!Next
  <2>3. CASE Succeed
    <3>1. CASE ret = "idle"
      <4>1. FlowStage = "station" /\ FlowStage' = "rest" /\ status' = "Ok"
        BY <1>1, <2>3, <3>1 DEF Succeed, Return
      <4> QED BY <2>1, <4>1 DEF FlowStep, Flow!Next, Flow!Done, Flow!End, Flow!Move, Untouched
    <3>2. CASE ret # "idle"
      BY <1>1, <2>1, <2>3, <3>2 DEF Succeed, Return, FlowStep, Untouched
    <3> QED BY <3>1, <3>2
  <2> QED BY <1>7, <2>2, <2>3 DEF StaGo
<1> QED BY <1>5, <1>6, <1>7 DEF StartSta

LEMMA StartApFlows == ASSUME FlowInv, StartAp, UNCHANGED pvVars PROVE FlowStep
<1> USE DEF FlowStage, At, StartStaPoints, StartApPoints, StopPoints, pvVars
<1>1. pc \in StartApPoints /\ ret \in {"idle", "cfg_wait"} /\ ret' = ret
  BY DEF StartAp, ApBegin, ApRegister, Register, ApMode, ApGo, NewNetif, Goto, Fail, Return, Succeed,
     FlowInv, TypeInv, Control
<1>2. FlowStage \in {"accesspoint", "opening"}
  BY <1>1
<1>3. Untouched
  BY DEF StartAp, ApBegin, ApRegister, Register, ApMode, ApGo, SetMode, DriverStart, Untouched, drvVars
<1>4. \/ Fail("WifiError") \/ Fail("NetifError")
      \/ pc' \in StartApPoints /\ status' = status
      \/ Succeed
  BY DEF StartAp, ApBegin, ApRegister, Register, ApMode, ApGo, NewNetif, Goto, Return
<1>5. CASE Fail("WifiError") \/ Fail("NetifError")
  <2>1. FlowStage' = "rest" /\ status' \in Flow!DriverErrors
    BY <1>5 DEF Fail, Return, Flow!DriverErrors
  <2> QED
    BY <1>2, <1>3, <2>1 DEF FlowStep, Flow!Next, Flow!Failed, Flow!End, Flow!Move, Untouched
<1>6. CASE pc' \in StartApPoints /\ status' = status
  BY <1>1, <1>3, <1>6 DEF FlowStep, Untouched
<1>7. CASE Succeed
  <2>1. CASE ret = "idle"
    <3>1. FlowStage = "accesspoint" /\ FlowStage' = "rest" /\ status' = "Ok"
      BY <1>1, <1>7, <2>1 DEF Succeed, Return
    <3> QED BY <1>3, <3>1 DEF FlowStep, Flow!Next, Flow!Done, Flow!End, Flow!Move, Untouched
  <2>2. CASE ret = "cfg_wait"
    BY <1>1, <1>3, <1>7, <2>2 DEF Succeed, Return, FlowStep, Untouched
  <2> QED BY <1>1, <2>1, <2>2
<1> QED BY <1>4, <1>5, <1>6, <1>7

(* ConfigViaAp stops the driver to close the portal, AutoConnect to open it. *)
LEMMA StopFlows == ASSUME FlowInv, Stop, UNCHANGED pvVars PROVE FlowStep
<1> USE DEF FlowStage, At, StartStaPoints, StartApPoints, StopPoints, pvVars
<1>1. pc \in StopPoints /\ ret \in {"idle", "cfg_stopped", "cfg_begin"} /\ ret' = ret
  BY DEF Stop, StopDisconnect, StopDriver, StopUnregister, StopClear, StopNetif, StopDelay, Goto,
     Return, Succeed, FlowInv, TypeInv, Control
<1>2. Untouched
  BY DEF Stop, StopDisconnect, Disconnect, StopDriver, DriverStop, StopUnregister, StopClear, StopNetif,
     StopDelay, Untouched, drvVars
<1>3. (pc' \in StopPoints /\ status' = status) \/ Succeed
  BY DEF Stop, StopDisconnect, StopDriver, StopUnregister, StopClear, StopNetif, StopDelay, Goto, Return
<1>4. CASE pc' \in StopPoints /\ status' = status
  BY <1>1, <1>2, <1>4 DEF FlowStep, Untouched
<1>5. CASE Succeed
  <2>1. CASE ret = "idle"
    <3>1. FlowStage = "stopping" /\ FlowStage' = "rest" /\ status' = "Ok"
      BY <1>1, <1>5, <2>1 DEF Succeed, Return
    <3> QED BY <1>2, <3>1 DEF FlowStep, Flow!Next, Flow!Done, Flow!End, Flow!Move, Untouched
  <2>2. CASE ret # "idle"
    BY <1>1, <1>2, <1>5, <2>2 DEF Succeed, Return, FlowStep, Untouched
  <2> QED BY <2>1, <2>2
<1> QED BY <1>3, <1>4, <1>5

(* Who is woken by the connection bit has a name in NVS.                     *)
LEMMA WokenNamed == ASSUME FlowInv, "StaConnected" \in woken PROVE saved # NoSsid
  BY DEF FlowInv, NamedLink, Unlinked

LEMMA ConfigFlows == ASSUME FlowInv, ConfigViaAp PROVE FlowStep
<1> USE DEF FlowStage, At, StartStaPoints, StartApPoints, StopPoints, Goto, Return, Call, Local, drvVars,
        FlowStep, Flow!Next, Flow!Move
<1>1. CASE CfgBegin
  <2>1. CASE Fail("WeakApPassword")
    BY <1>1, <2>1 DEF CfgBegin, Fail, pvVars, Flow!Failed, Flow!End
  <2>2. CASE Call("ap_begin", "cfg_wait") /\ UNCHANGED status
    BY <1>1, <2>2 DEF CfgBegin, pvVars
  <2> QED BY <1>1, <2>1, <2>2 DEF CfgBegin
<1>2. CASE CfgWait \/ CfgConn
  BY <1>2 DEF CfgWait, CfgConn, AwaitBits, pvVars
<1>3. CASE CfgApUp
  BY <1>3 DEF CfgApUp, EndWait, pvVars
<1>4. CASE CfgApTimeout
  BY <1>4 DEF CfgApTimeout, EndWait, pvVars, Flow!OpenTooLate
<1>5. CASE CfgApSta
  BY <1>5 DEF CfgApSta, SetMode, pvVars
<1>6. CASE CfgServer
  <2>1. server' \in BOOLEAN
    BY <1>6 DEF CfgServer, FlowInv, TypeInv, TypeOK, PvTypeOK
  <2> QED BY <1>6, <2>1 DEF CfgServer, Flow!Open
<1>7. CASE CfgDns \/ CfgArm \/ CfgDnsOff
  BY <1>7 DEF CfgDns, CfgArm, CfgDnsOff
<1>8. CASE CfgTake
  BY <1>8 DEF CfgTake, Flow!Served
<1>9. CASE CfgDisarm
  BY <1>9 DEF CfgDisarm, AfterTake
<1>10. CASE CfgCheck
  <2>1. status = "none"
    BY <1>10 DEF CfgCheck, FlowInv, Verdict
  <2> QED BY <1>10, <2>1 DEF CfgCheck, HaveSsid, pvVars, Flow!Reject
<1>11. CASE CfgWebOff
  BY <1>11 DEF CfgWebOff, Flow!Close
<1>12. CASE CfgStopped
  <2>1. ~server
    BY <1>12 DEF CfgStopped, FlowInv, PortalUp, ServerPoints, DnsPoints, WaitPoints
  <2> QED BY <1>12, <2>1 DEF CfgStopped, pvVars, Flow!Leave
<1>13. CASE CfgConnDone
  <2>1. (ConnResult(woken) = "Ok" /\ saved # NoSsid) \/ ConnResult(woken) = "ConnectFailed"
    BY WokenNamed DEF ConnResult
  <2> QED BY <1>13, <2>1 DEF CfgConnDone, EndWait, pvVars, Flow!Joined, Flow!Failed, Flow!End
<1> QED
  BY <1>1, <1>2, <1>3, <1>4, <1>5, <1>6, <1>7, <1>8, <1>9, <1>10, <1>11, <1>12, <1>13
  DEF ConfigViaAp

LEMMA AutoFlows == ASSUME FlowInv, AutoConnect PROVE FlowStep
<1> USE DEF FlowStage, At, StartStaPoints, StartApPoints, StopPoints, Goto, Return, Call, pvVars, drvVars,
        FlowStep, Flow!Next, Flow!Move
<1>1. CASE AutoLoad
  <2>1. CASE /\ saved \notin {NoSsid, ApName} /\ sta' = saved
             /\ Call("sta_begin", "auto_conn") /\ UNCHANGED status
    BY <1>1, <2>1 DEF AutoLoad, Local, Flow!TrySaved
  <2>2. CASE Goto("cfg_begin") /\ UNCHANGED sta
    BY <1>1, <2>2 DEF AutoLoad, Local, Flow!SkipSaved
  <2> QED BY <1>1, <2>1, <2>2 DEF AutoLoad
<1>2. CASE AutoConn
  BY <1>2 DEF AutoConn, AwaitBits
<1>3. CASE AutoConnDone
  <2>1. CASE "StaConnected" \in woken
    BY <1>3, <2>1, WokenNamed DEF AutoConnDone, EndWait, Flow!Joined, Flow!End
  <2>2. CASE "StaConnected" \notin woken
    BY <1>3, <2>2 DEF AutoConnDone, EndWait, FallBack, Flow!FallBack
  <2> QED BY <2>1, <2>2
<1> QED BY <1>1, <1>2, <1>3 DEF AutoConnect

(* A handler submits a name, or does not touch what the flow is about.       *)
LEMMA HttpFlows == ASSUME Http PROVE FlowStep
<1>1. UNCHANGED <<pc, ret, server, saved, status>>
  BY DEF Http, PostWifi, PostConfigSave, Finish, NotifyCheck, NotifyGive, PageBegin, PageEnd,
     UploadBegin, UploadEnd, HandlerResetGet, HttpOnly, pvVars, lcVars, drvVars
<1>2. FlowStage' = FlowStage
  BY <1>1 DEF FlowStage, At
<1>3. CASE sta' = sta
  BY <1>1, <1>2, <1>3 DEF FlowStep
<1>4. CASE sta' # sta
  <2>1. PICK s \in Ssids \cup {NoSsid} : server /\ sta' = s
    BY <1>4 DEF Http, PostWifi, PostConfigSave, Finish, NotifyCheck, NotifyGive, PageBegin, PageEnd,
       UploadBegin, UploadEnd, HandlerResetGet, HttpOnly, lcVars
  <2> QED BY <1>1, <1>2, <2>1 DEF Flow!Submit, FlowStep, Flow!Next
<1> QED BY <1>3, <1>4

LEMMA AppFlows == ASSUME FlowInv, NEW c \in ApiCalls, AppCall(c) PROVE FlowStep
<1>1. /\ pc = "idle" /\ pc' = EntryOf(c) /\ ret' = "idle" /\ status' = "none"
      /\ Untouched
  BY DEF AppCall, Call, Local, Untouched, drvVars
<1>2. pc' \in {"auto_load", "cfg_begin", "sta_begin", "ap_begin", "stop_disc"}
  BY <1>1 DEF EntryOf, ApiCalls
<1>3. FlowStage = "rest" /\ FlowStage' \in Flow!FirstStages
  BY <1>1, <1>2 DEF FlowStage, At, StartStaPoints, StartApPoints, StopPoints, Flow!FirstStages
<1> QED BY <1>1, <1>3 DEF Untouched, FlowStep, Flow!Next, Flow!Begin, Flow!Move

LEMMA OthersFlow == ASSUME Loop \/ Driver \/ UNCHANGED vars PROVE FlowStep
<1>1. UNCHANGED <<pc, ret, server, sta, saved, status>>
  BY DEF Loop, EventLoop, Dispatch, OnStaStart, OnStaDiscIgnored, OnStaDiscBits, OnStaDiscRetry, OnGotIp,
     OnApStart, Driver, Air, StaJoin, StaGotIp, StaLost, vars, pvVars, lcVars, drvVars
<1> QED BY <1>1 DEF FlowStep, FlowStage, At

LEMMA AtRest == pc = "idle" => FlowStage = "rest"
  BY DEF FlowStage, At, StartStaPoints, StartApPoints, StopPoints

LEMMA RestartFlows == ASSUME Restart PROVE FlowStep
<1>1. FlowStage' = "rest"
  BY DEF Restart, RamLost, FlowStage, At, StartStaPoints, StartApPoints, StopPoints
<1> QED BY <1>1 DEF Restart, RamLost, NvsReady, FlowStep, Flow!Next, Flow!PowerCut

LEMMA InitFlows == Init => Flow!Init
  BY AtRest DEF Init, DrvInit, LcInit, PvInit, Flow!Init

LEMMA NextFlows == FlowInv /\ [Next]_vars => FlowStep
<1> SUFFICES ASSUME FlowInv, [Next]_vars PROVE FlowStep
  OBVIOUS
<1>1. CASE \E c \in AppCalls : AppCall(c)
  BY <1>1, AppFlows, AppAssumption
<1>2. CASE CallStep
  BY <1>2, StartStaFlows, StartApFlows, StopFlows, ConfigFlows, AutoFlows DEF CallStep
<1>3. CASE Loop \/ Driver \/ UNCHANGED vars BY <1>3, OthersFlow
<1>4. CASE Http BY <1>4, HttpFlows
<1>5. CASE Restart BY <1>5, RestartFlows
<1> QED BY <1>1, <1>2, <1>3, <1>4, <1>5 DEF Next

(* The invariant that the simulation needs.                                  *)
THEOREM FlowInvariant == Spec => []FlowInv
  BY InitFlow, FlowInvStep, PTL DEF Spec

(* Provisioning implements ProvisioningFlow.                                 *)
THEOREM ProvisioningFlows == Spec => FlowBehaves
<1>1. FlowInv /\ [Next]_vars => [Flow!Next]_(Flow!flowVars)
  BY NextFlows DEF FlowStep, Flow!flowVars
<1> QED BY InitFlows, <1>1, FlowInvariant, PTL DEF Spec, FlowBehaves, Flow!Spec
=============================================================================
