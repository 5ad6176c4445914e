------------------------------ MODULE AppProofs ------------------------------
(***************************************************************************)
(* The example applications: they keep, by the order of their own calls,    *)
(* the discipline under which the calls of Provisioning are safe, and what  *)
(* they show with the LED is true.  For every set of SSIDs, retry number,   *)
(* queue length and choice of what the device may be unable to provide.     *)
(***************************************************************************)
EXTENDS ExampleApp, SessionProofs

(* Nothing of an earlier start is left.                                      *)
Clean == netif = "none" /\ tracked = {}

(* Init has succeeded and ~Manager has not been called.                      *)
ManagedStages == {"first", "serve", "watch", "quiet", "stopping", "portal"}
RestingStages == {"boot", "init", "inited", "destroy", "serve", "watch", "quiet"}

(* Where each stage of the application finds the calls it has made.          *)
Starting ==
    /\ main \in RestingStages => pc = "idle"
    /\ main \in {"boot", "init", "inited", "destroy"} => Clean
    /\ main \in {"boot", "init"} => have = {}
    /\ main = "inited" =>
           /\ api = "none"
           /\ \/ life = "init" /\ have = Acquired(4)
              \/ life = "none" /\ (status = "Ok" => have = Acquired(5))
    /\ main \notin {"inited", "over"} => life = "none"

Managed ==
    /\ main \in ManagedStages => have = Acquired(5)
    /\ main = "first" => api \in Provisioned
    /\ main = "stopping" => api = "Stop" /\ (pc = "idle" => Clean)
    /\ main = "portal" =>
           api = "ConfigViaAp" /\ pc \notin AutoPoints /\ ret \notin {"cfg_begin", "auto_conn"}

Ending ==
    /\ main = "over" =>
           /\ life \in {"none", "destroy"}
           /\ \/ pc = "idle" /\ Clean
              \/ pc \in StopPoints /\ ret = "idle" /\ life = "destroy"
    /\ pc = "stop_delay" => netif = "none"

StageInv == Starting /\ Managed /\ Ending

(* The web server runs in the portal, and while the application watches the  *)
(* button; a handler runs only while it does.                                *)
Served ==
    /\ server => pc \in ServerPoints \/ (main = "watch" /\ pc = "idle")
    /\ http # "idle" => server

AppVarsOK == LifeTypeOK /\ main \in Stages /\ led \in Colours

AppBase == TypeInv /\ StopInv /\ StageInv /\ Served /\ AppVarsOK

-----------------------------------------------------------------------------
(* What has been acquired once n of the five resources are there.            *)
LEMMA AcquiredFacts ==
    /\ \A n \in 0..5 : Acquired(n) \subseteq Acquired(5)
    /\ \A n \in 2..5 : "group" \in Acquired(n)
    /\ Acquired(4) \cup {"wifi"} = Acquired(5) /\ "wifi" \notin Acquired(4)
    /\ \A n \in 0..5 : "impl" \in Acquired(n)
<1>1. ASSUME NEW n \in 0..5 PROVE Acquired(n) \subseteq Acquired(5)
  BY DEF Acquired
<1>2. ASSUME NEW n \in 2..5 PROVE "group" \in Acquired(n)
  <2>1. 2 \in 1..n /\ Resources[2] = "group"
    BY DEF Resources
  <2> QED BY <2>1 DEF Acquired
<1>3. 1..5 = 1..4 \cup {5} /\ Resources[5] = "wifi" /\ \A i \in 1..4 : Resources[i] # "wifi"
  BY DEF Resources
<1> QED BY <1>1, <1>2, <1>3 DEF Acquired

-----------------------------------------------------------------------------
(* What a step of a call does to what the application relies on *)

LEMMA CallMoves ==
    ASSUME TypeInv, CallStep
    PROVE  /\ pc # "idle" /\ api' = api
           /\ pc' = "stop_delay" => netif' = "none"
           /\ pc = "stop_delay" => pc' = ret /\ ret' = ret /\ UNCHANGED <<netif, tracked>>
           /\ pc \in StopPoints \ {"stop_delay"} => pc' \in StopPoints /\ ret' = ret
           /\ pc \notin AutoPoints /\ ret \notin {"cfg_begin", "auto_conn"} =>
                  pc' \notin AutoPoints /\ ret' \notin {"cfg_begin", "auto_conn"}
<1> USE DEF Goto, Return, Fail, Call, Succeed, StopPoints, AutoPoints, pvVars
<1>1. CASE StartSta /\ UNCHANGED pvVars
  <2>1. ret \in {"idle", "cfg_conn", "auto_conn"}
    BY <1>1 DEF StartSta, StaBegin, StaRegister, StaMode, StaConfig, StaGo, TypeInv, Control,
       StartStaPoints
  <2> QED BY <1>1, <2>1 DEF StartSta, StaBegin, NewNetif, StaRegister, Register, StaMode,
     StaConfig, ConfigFailure, StaGo
<1>2. CASE StartAp /\ UNCHANGED pvVars
  <2>1. ret \in {"idle", "cfg_wait"}
    BY <1>2 DEF StartAp, ApBegin, ApRegister, ApMode, ApGo, TypeInv, Control, StartApPoints
  <2> QED BY <1>2, <2>1 DEF StartAp, ApBegin, NewNetif, ApRegister, Register, ApMode, ApGo
<1>3. CASE Stop /\ UNCHANGED pvVars
  <2>1. ret \in {"idle", "cfg_stopped", "cfg_begin"}
    BY <1>3 DEF Stop, StopDisconnect, StopDriver, StopUnregister, StopClear, StopNetif, StopDelay,
       TypeInv, Control
  <2> QED BY <1>3, <2>1 DEF Stop, StopDisconnect, StopDriver, StopUnregister, StopClear, StopNetif,
     StopDelay
<1>4. CASE ConfigViaAp
  BY <1>4 DEF ConfigViaAp, CfgBegin, CfgWait, CfgApUp, CfgApTimeout, CfgApSta, CfgServer, CfgDns,
     CfgArm, CfgTake, CfgDisarm, AfterTake, CfgCheck, CfgDnsOff, CfgWebOff, CfgStopped, CfgConn,
     CfgConnDone, AwaitBits, EndWait
<1>5. CASE AutoConnect
  BY <1>5 DEF AutoConnect, AutoLoad, AutoConn, AutoConnDone, FallBack, AwaitBits, EndWait
<1> QED BY <1>1, <1>2, <1>3, <1>4, <1>5 DEF CallStep

(* Event loop, air and HTTP server leave the application's call alone.       *)
LEMMA OthersMove ==
    ASSUME Loop \/ Driver \/ Http \/ UNCHANGED vars
    PROVE  UNCHANGED <<pc, ret, status, netif, tracked, api, server>>
  BY DEF Loop, Driver, Http, PostWifi, PostConfigSave, Finish, NotifyCheck, NotifyGive, PageBegin,
     PageEnd, UploadBegin, UploadEnd, HandlerResetGet, HttpOnly, vars, lcVars, pvVars

(* Only Stop() and a restart end a session.                                  *)
LEMMA OthersUp ==
    ASSUME Loop \/ Driver \/ Http \/ UNCHANGED vars
    PROVE  everUp => everUp'
  BY DEF Loop, EventLoop, Dispatch, OnStaStart, OnStaDiscIgnored, OnStaDiscBits, OnStaDiscRetry,
     OnGotIp, OnApStart, Driver, Air, StaJoin, StaGotIp, StaLost, Http, PostWifi, PostConfigSave,
     Finish, NotifyCheck, NotifyGive, PageBegin, PageEnd, UploadBegin, UploadEnd,
     HandlerResetGet, HttpOnly, vars, drvVars

-----------------------------------------------------------------------------
(* The stages *)

LEMMA StageAside ==
    ASSUME StageInv, UNCHANGED <<main, life, have, pc, ret, status, netif, tracked, api>>
    PROVE  StageInv'
  BY DEF StageInv, Starting, Managed, Ending, Clean

LEMMA MainStage == ASSUME TypeInv, StopInv, StageInv, AppMain PROVE StageInv'
<1> USE DEF StageInv, Starting, Managed, Ending, Clean, RestingStages, ManagedStages, Stage,
        AtRest, LightOnly, vars, lcVars, pvVars, lifeVars, Local
<1>1. CASE Boot BY <1>1 DEF Boot
<1>2. CASE InitManager
  <2>1. CASE \E n \in 1..4 : InitFails(n)
    <3>1. status' # "Ok" /\ api' = "none" /\ UNCHANGED <<pc, netif, tracked, life>>
      BY <2>1 DEF InitFails, Failure
    <3> QED BY <1>2, <3>1 DEF InitManager
  <2>2. CASE InitReachesDriver
    <3>1. have' = Acquired(4) /\ life' = "init" /\ api' = "none" /\ UNCHANGED <<pc, netif, tracked>>
      BY <1>2, <2>2 DEF InitManager, InitReachesDriver
    <3> QED BY <1>2, <3>1 DEF InitManager
  <2> QED BY <1>2, <2>1, <2>2 DEF InitManager, CallInit
<1>3. CASE InitFailed BY <1>3 DEF InitFailed
<1>4. CASE DestroyManager
  BY <1>4 DEF DestroyManager, CallDestroy, CallStop, Call, StopPoints
<1>5. CASE FirstCall
  BY <1>5 DEF FirstCall, AppCall, Call, EntryOf, Provisioned
<1>6. CASE FirstDone BY <1>6 DEF FirstDone
<1>7. CASE Serve BY <1>7 DEF Serve, StartWebServer
<1> QED BY <1>1, <1>2, <1>3, <1>4, <1>5, <1>6, <1>7 DEF AppMain

LEMMA ButtonStage == ASSUME TypeInv, StopInv, StageInv, ButtonMonitorTask PROVE StageInv'
<1> USE DEF StageInv, Starting, Managed, Ending, Clean, RestingStages, ManagedStages, Stage,
        AtRest, LightOnly, vars, lcVars, pvVars, lifeVars, Local
<1>1. CASE ButtonHeld BY <1>1 DEF ButtonHeld, ServerOff, StopWebServer
<1>2. CASE QuietFirst BY <1>2 DEF QuietFirst, StopCalled, AppCall, Call, EntryOf
<1>3. CASE Reprovision BY <1>3 DEF Reprovision, AppCall, Call, EntryOf, AutoPoints
<1>4. CASE ReprovisionDone BY <1>4 DEF ReprovisionDone
<1> QED BY <1>1, <1>2, <1>3, <1>4 DEF ButtonMonitorTask

(* Stop() has undone everything by the time it returns to the application.   *)
LEMMA CallStage == ASSUME TypeInv, StopInv, StageInv, CallStep, UNCHANGED <<main, life, have>> PROVE StageInv'
  BY CallMoves DEF StageInv, Starting, Managed, Ending, Clean, RestingStages, ManagedStages,
     StopInv, StopCall, Shutdown, BarredPoints, ClearedPoints, StopPoints

LEMMA LifeStage == ASSUME TypeInv, StopInv, StageInv, InitWifi \/ Release, UNCHANGED main PROVE StageInv'
<1> USE DEF StageInv, Starting, Managed, Ending, Clean, RestingStages, ManagedStages,
        vars, lcVars, pvVars, lifeVars, Local, PvKept
<1>1. CASE InitWifi
  <2>1. /\ main = "inited" /\ have = Acquired(4) /\ pc = "idle" /\ life' = "none"
        /\ UNCHANGED <<pc, ret, netif, tracked, api>>
        /\ status' = "Ok" => have' = have \cup {"wifi"}
    BY <1>1 DEF InitWifi, Failure
  <2>2. Acquired(4) \cup {"wifi"} = Acquired(5)
    BY AcquiredFacts
  <2> QED BY <1>1, <2>1, <2>2
<1>2. CASE Release
  <2>1. /\ main = "over" /\ pc = "idle" /\ life' = "none"
        /\ UNCHANGED <<pc, ret, netif, tracked>>
    BY <1>2 DEF Release
  <2> QED BY <1>2, <2>1 DEF StopPoints
<1> QED BY <1>1, <1>2

LEMMA StageStep == TypeInv /\ StopInv /\ StageInv /\ [AppNext]_appVars => StageInv'
<1> SUFFICES ASSUME TypeInv, StopInv, StageInv, [AppNext]_appVars PROVE StageInv'
  OBVIOUS
<1>1. CASE LifeCall /\ UNCHANGED main
  BY <1>1, CallStage DEF LifeCall, lifeVars
<1>2. CASE CurrentIpString /\ UNCHANGED main
  <2>1. UNCHANGED <<vars, life, have>>
    BY <1>2 DEF CurrentIpString, ReadNetif, UseNetif
  <2> QED BY <1>2, <2>1, StageAside DEF vars, lcVars, pvVars
<1>3. CASE (Loop \/ Driver \/ Http) /\ AppKept
  BY <1>3, OthersMove, StageAside DEF AppKept, lifeVars
<1>4. CASE Reboot /\ main' = "boot"
  BY <1>4 DEF Reboot, RamLost, StageInv, Starting, Managed, Ending, Clean, RestingStages,
     ManagedStages
<1>5. CASE UNCHANGED appVars
  BY <1>5, OthersMove, StageAside DEF appVars, lifeVars
<1> QED BY <1>1, <1>2, <1>3, <1>4, <1>5, MainStage, ButtonStage, LifeStage DEF AppNext

-----------------------------------------------------------------------------
(* Types and handlers, under the application's own order of calls *)

(* Steps that leave driver and handlers alone while no call is in progress;  *)
(* an Init may erase NVS.                                                    *)
Resting ==
    /\ pc = "idle"
    /\ DriverKept /\ NvsReady
    /\ UNCHANGED <<hdlVars, pc, ret, idx, netif, tracked, sta, dns, waiting, notify, http,
                   submitted>>
    /\ server' \in BOOLEAN
    /\ UNCHANGED <<status, api>> \/ (api' = "none" /\ status' \in Statuses)

(* ~Manager's call of Stop().                                                *)
LastStop ==
    /\ pc = "idle" /\ pc' = "stop_disc" /\ ret' = "idle" /\ idx' = 1
    /\ status' = "none" /\ api' = "none"
    /\ UNCHANGED <<drvVars, hdlVars, netif, tracked, sta, server, dns, waiting, notify, http, submitted>>

(* ~Manager gives back what Stop() left: by then nothing but the mode.       *)
GivenBack ==
    /\ pc = "idle" /\ Clean
    /\ mode' = "NULL" /\ evq' = <<>> /\ reg' = [k \in Kinds |-> 0]
    /\ UNCHANGED <<started, link, saved, everUp, bits, mask, woken, running, retry, attempts,
                   lcVars, pvVars>>

AppCalling(c) == AppCall(c) /\ (c # "Stop" => Clean)

(* What the application's step is for the variables of Provisioning.         *)
AppStepKinds ==
    \/ Resting \/ LastStop \/ GivenBack
    \/ \E c \in ApiCalls : AppCalling(c)
    \/ CallStep \/ Loop \/ Driver \/ Http \/ Restart \/ UNCHANGED vars

LEMMA AppSteps == TypeInv /\ StopInv /\ StageInv /\ [AppNext]_appVars => AppStepKinds
<1> SUFFICES ASSUME TypeInv, StopInv, StageInv, [AppNext]_appVars PROVE AppStepKinds
  OBVIOUS
<1>1. server \in BOOLEAN
  BY DEF TypeInv, TypeOK, PvTypeOK
<1>2. CASE AppMain
  <2> USE DEF AppStepKinds, Resting, DriverKept, NvsInit, NvsReady, AtRest, LightOnly, vars, drvVars,
          lcVars, pvVars, Local, PvKept, Stage
  <2>1. CASE Boot \/ InitFailed \/ FirstDone
    BY <2>1 DEF Boot, InitFailed, FirstDone
  <2>2. CASE InitManager
    <3>1. CASE \E n \in 1..4 : InitFails(n)
      <4>1. PICK n \in 1..4 : InitFails(n)
        BY <3>1
      <4>2. Failure[n] \in Statuses
        BY DEF Failure, Statuses
      <4> QED BY <1>1, <4>1, <4>2 DEF InitFails
    <3>2. CASE InitReachesDriver
      <4>1. "wifi" \notin have
        BY <2>2 DEF InitManager, StageInv, Starting
      <4>2. "none" \in Statuses
        BY DEF Statuses
      <4> QED BY <1>1, <3>2, <4>1, <4>2 DEF InitReachesDriver
    <3> QED BY <2>2, <3>1, <3>2 DEF InitManager, CallInit
  <2>3. CASE DestroyManager
    BY <2>3 DEF DestroyManager, CallDestroy, CallStop, Call, LastStop
  <2>4. CASE FirstCall
    <3>1. Clean
      BY <2>4 DEF FirstCall, StageInv, Starting
    <3>2. "ConfigViaAp" \in ApiCalls /\ "AutoConnect" \in ApiCalls
      BY DEF ApiCalls
    <3>3. \E c \in ApiCalls : AppCalling(c)
      BY <2>4, <3>1, <3>2 DEF FirstCall, AppCalling
    <3> QED BY <3>3
  <2>5. CASE Serve
    BY <1>1, <2>5 DEF Serve, StartWebServer
  <2> QED BY <1>2, <2>1, <2>2, <2>3, <2>4, <2>5 DEF AppMain
<1>3. CASE ButtonMonitorTask
  <2> USE DEF AppStepKinds, Resting, DriverKept, NvsReady, AtRest, LightOnly, vars, drvVars, lcVars,
          pvVars, Local, Stage
  <2>1. CASE ButtonHeld BY <2>1 DEF ButtonHeld, ServerOff, StopWebServer
  <2>2. CASE QuietFirst
    <3>1. "Stop" \in ApiCalls
      BY DEF ApiCalls
    <3>2. \E c \in ApiCalls : AppCalling(c)
      BY <2>2, <3>1 DEF QuietFirst, StopCalled, AppCalling
    <3> QED BY <3>2
  <2>3. CASE Reprovision
    <3>1. Clean
      BY <2>3 DEF Reprovision, AppCall, StageInv, Managed
    <3>2. "ConfigViaAp" \in ApiCalls
      BY DEF ApiCalls
    <3>3. \E c \in ApiCalls : AppCalling(c)
      BY <2>3, <3>1, <3>2 DEF Reprovision, AppCalling
    <3> QED BY <3>3
  <2>4. CASE ReprovisionDone BY <2>4 DEF ReprovisionDone
  <2> QED BY <1>3, <2>1, <2>2, <2>3, <2>4 DEF ButtonMonitorTask
<1>4. CASE InitWifi /\ UNCHANGED main
  <2>1. api = "none" /\ status' \in Statuses /\ pc = "idle"
    BY <1>4 DEF InitWifi, Failure, Statuses, StageInv, Starting, Ending
  <2> QED BY <1>1, <1>4, <2>1 DEF InitWifi, AppStepKinds, Resting, DriverKept, NvsReady, Local, PvKept,
     drvVars, pvVars
<1>5. CASE Release /\ UNCHANGED main
  <2>1. Clean
    BY <1>5 DEF Release, StageInv, Starting, Ending, StopPoints
  <2> QED BY <1>5, <2>1 DEF Release, AppStepKinds, GivenBack, PvKept, lcVars, pvVars
<1>6. CASE LifeCall \/ CurrentIpString
  BY <1>6 DEF LifeCall, CurrentIpString, ReadNetif, UseNetif, AppStepKinds
<1>7. CASE Reboot
  BY <1>7 DEF Reboot, Restart, NvsReady, AppStepKinds
<1> QED BY <1>2, <1>3, <1>4, <1>5, <1>6, <1>7 DEF AppNext, AppStepKinds, appVars

LEMMA RestingType == ASSUME TypeInv, Resting PROVE TypeInv'
<1>1. DrvTypeOK' /\ HdlTypeOK' /\ TrackedRegistered' /\ Control'
  BY DEF Resting, DriverKept, NvsReady, TypeInv, TypeOK, Control, TrackedRegistered, HdlTypeOK,
     DrvTypeOK, hdlVars
<1>2. LcTypeOK'
  BY DEF Resting, TypeInv, TypeOK, LcTypeOK
<1>3. PvTypeOK'
  BY DEF Resting, TypeInv, TypeOK, PvTypeOK
<1> QED BY <1>1, <1>2, <1>3 DEF TypeInv, TypeOK

LEMMA LastStopType == ASSUME TypeInv, LastStop PROVE TypeInv'
<1>1. DrvTypeOK' /\ HdlTypeOK' /\ TrackedRegistered'
  BY DEF LastStop, TypeInv, TypeOK, TrackedRegistered, HdlTypeOK, DrvTypeOK, drvVars, hdlVars
<1>2. Control'
  BY DEF LastStop, Control, StartStaPoints, StartApPoints, StopPoints
<1>3. LcTypeOK' /\ PvTypeOK'
  <2>1. "stop_disc" \in Points
    BY DEF Points, StopPoints
  <2> QED BY <2>1, PointsFacts DEF LastStop, TypeInv, TypeOK, LcTypeOK, PvTypeOK, Statuses
<1> QED BY <1>1, <1>2, <1>3 DEF TypeInv, TypeOK

LEMMA GivenBackType == ASSUME TypeInv, GivenBack PROVE TypeInv'
<1>1. evq' \in Seq(EventKinds) /\ [k \in Kinds |-> 0] \in [Kinds -> 0..RegLimit]
  BY RegLimitAssumption DEF GivenBack
<1>2. DrvTypeOK' /\ HdlTypeOK'
  BY <1>1 DEF GivenBack, TypeInv, TypeOK, DrvTypeOK, HdlTypeOK, Modes
<1>3. TrackedRegistered' /\ Control' /\ LcTypeOK' /\ PvTypeOK'
  BY DEF GivenBack, Clean, TypeInv, TypeOK, TrackedRegistered, Control, LcTypeOK, PvTypeOK, lcVars, pvVars
<1> QED BY <1>2, <1>3 DEF TypeInv, TypeOK

LEMMA AppTypeStep == TypeInv /\ AppStepKinds => TypeInv'
<1> SUFFICES ASSUME TypeInv, AppStepKinds PROVE TypeInv'
  OBVIOUS
<1>1. CASE \E c \in ApiCalls : AppCalling(c)
  BY <1>1, AppCallType DEF AppCalling
<1>2. CASE CallStep
  BY <1>2, StartStaType, StartApType, StopType, ConfigViaApType, AutoConnectType DEF CallStep
<1> QED BY <1>1, <1>2, RestingType, LastStopType, GivenBackType, LoopType, DriverType, HttpType,
     RestartType, StutterType DEF AppStepKinds

LEMMA RestingStop == ASSUME StopInv, Resting PROVE StopInv'
  BY DEF Resting, DriverKept, StopInv, HandlersExact, Bare, BarePoints, Walking, Shutdown, ClearedPoints,
     BarredPoints, StopCall, Settled, drvVars, hdlVars

LEMMA LastStopStop == ASSUME StopInv, LastStop PROVE StopInv'
  BY DEF LastStop, StopInv, HandlersExact, Bare, BarePoints, Walking, Shutdown, ClearedPoints,
     BarredPoints, StopCall, Settled, hdlVars

LEMMA GivenBackStop == ASSUME StopInv, GivenBack PROVE StopInv'
  BY DEF GivenBack, Clean, StopInv, HandlersExact, Bare, Walking, Shutdown, ClearedPoints,
     BarredPoints, StopCall, Settled, lcVars, pvVars

LEMMA AppStopStep == TypeInv /\ StopInv /\ AppStepKinds => StopInv'
<1> SUFFICES ASSUME TypeInv, StopInv, AppStepKinds PROVE StopInv'
  OBVIOUS
<1>1. CASE \E c \in ApiCalls : AppCalling(c)
  BY <1>1, AppStop DEF AppCalling, Clean
<1>2. CASE CallStep
  BY <1>2, StartStaStop, StartApStop, StopStop, ConfigStop, AutoStop DEF CallStep
<1> QED BY <1>1, <1>2, RestingStop, LastStopStop, GivenBackStop, LoopStop, OthersStop, RestartStop
     DEF AppStepKinds

-----------------------------------------------------------------------------
(* The application's own variables *)

LEMMA AppVarsStep == AppVarsOK /\ [AppNext]_appVars => AppVarsOK'
<1> SUFFICES ASSUME AppVarsOK, [AppNext]_appVars PROVE AppVarsOK'
  OBVIOUS
<1> USE DEF AppVarsOK, LifeTypeOK, Stages, Colours, Stage, LightOnly, lifeVars
<1>1. "impl" \in Acquired(5) /\ "wifi" \in Acquired(5)
  BY AcquiredFacts
<1>2. CASE Boot \/ InitFailed \/ DestroyManager \/ FirstCall \/ FirstDone \/ Serve
  BY <1>2 DEF Boot, InitFailed, DestroyManager, CallDestroy, FirstCall, FirstDone, Serve, StartWebServer
<1>3. CASE InitManager
  <2>1. CASE InitReachesDriver
    <3>1. have' \subseteq Acquired(5)
      BY <2>1, AcquiredFacts DEF InitReachesDriver
    <3> QED BY <1>3, <2>1, <3>1 DEF InitManager, InitReachesDriver
  <2>2. CASE \E n \in 1..4 : InitFails(n)
    <3>1. PICK n \in 1..4 : InitFails(n)
      BY <2>2
    <3>2. n - 1 \in 0..5
      BY <3>1
    <3>3. have' \subseteq Acquired(5)
      BY <3>1, <3>2, AcquiredFacts DEF InitFails
    <3> QED BY <1>3, <3>1, <3>3 DEF InitManager, InitFails
  <2> QED BY <1>3, <2>1, <2>2 DEF InitManager, CallInit
<1>4. CASE ButtonMonitorTask
  BY <1>4 DEF ButtonMonitorTask, ButtonHeld, ServerOff, StopWebServer, QuietFirst, Reprovision,
     ReprovisionDone, BlueFrom
<1>5. CASE (LifeCall \/ InitWifi \/ Release \/ CurrentIpString) /\ UNCHANGED <<main, led>>
  BY <1>1, <1>5 DEF LifeCall, InitWifi, Release, CurrentIpString, ReadNetif, UseNetif
<1>6. CASE \/ Loop /\ led' = Callback /\ AppKept
           \/ (Driver \/ Http) /\ UNCHANGED led /\ AppKept
           \/ Reboot /\ main' = "boot" /\ led' = "White"
           \/ UNCHANGED appVars
  BY <1>6 DEF Callback, AppKept, Reboot, appVars
<1> QED BY <1>2, <1>3, <1>4, <1>5, <1>6 DEF AppNext, AppMain

(* ConfigViaAp starts its server where it will stop it, and no other call    *)
(* touches it.                                                               *)
LEMMA CallServed ==
    ASSUME TypeInv, CallStep, server => pc \in ServerPoints, http # "idle" => server
    PROVE  (server' => pc' \in ServerPoints) /\ (http' # "idle" => server')
<1> USE DEF ServerPoints, DnsPoints, WaitPoints, Goto, Return, Call, pvVars
<1>1. CASE (StartSta \/ StartAp \/ Stop) /\ UNCHANGED pvVars
  <2>1. pc \in StartStaPoints \cup StartApPoints \cup StopPoints
    BY <1>1 DEF StartSta, StaBegin, StaRegister, StaMode, StaConfig, StaGo, StartAp, ApBegin,
       ApRegister, ApMode, ApGo, Stop, StopDisconnect, StopDriver, StopUnregister, StopClear,
       StopNetif, StopDelay, StartStaPoints, StartApPoints, StopPoints
  <2> QED BY <1>1, <2>1 DEF StartStaPoints, StartApPoints, StopPoints
<1>2. CASE AutoConnect
  BY <1>2 DEF AutoConnect, AutoLoad, AutoConn, AutoConnDone, AwaitBits, EndWait
<1>3. CASE CfgBegin \/ CfgWait \/ CfgApUp \/ CfgApTimeout \/ CfgStopped \/ CfgConn \/ CfgConnDone
  BY <1>3 DEF CfgBegin, CfgWait, CfgApUp, CfgApTimeout, CfgStopped, CfgConn, CfgConnDone, AwaitBits, EndWait
<1>4. CASE CfgApSta \/ CfgServer \/ CfgDns \/ CfgArm \/ CfgTake
  <2>1. CASE CfgServer
    <3>1. server => server'
      BY <2>1 DEF CfgServer
    <3> QED BY <2>1, <3>1 DEF CfgServer
  <2> QED BY <1>4, <2>1 DEF CfgApSta, CfgDns, CfgArm, CfgTake
<1>5. CASE CfgDisarm \/ CfgCheck \/ CfgDnsOff \/ CfgWebOff
  BY <1>5 DEF CfgDisarm, AfterTake, CfgCheck, CfgDnsOff, CfgWebOff
<1> QED BY <1>1, <1>2, <1>3, <1>4, <1>5 DEF CallStep, ConfigViaAp

LEMMA ServedStep == TypeInv /\ StageInv /\ Served /\ [AppNext]_appVars => Served'
<1> SUFFICES ASSUME TypeInv, StageInv, Served, [AppNext]_appVars PROVE Served'
  OBVIOUS
<1> USE DEF Served, Stage, LightOnly, AtRest, vars, pvVars, lcVars, lifeVars
<1>1. main # "watch" /\ pc = "idle" => ~server
  BY DEF ServerPoints, DnsPoints, WaitPoints
<1>2. CASE Boot \/ InitFailed \/ FirstDone \/ Serve
  <2>1. CASE Serve
    <3>1. server => server'
      BY <2>1 DEF Serve, StartWebServer
    <3> QED BY <2>1, <3>1 DEF Serve, StartWebServer
  <2> QED BY <1>1, <1>2, <2>1 DEF Boot, InitFailed, FirstDone
<1>3. CASE InitManager \/ DestroyManager \/ FirstCall
  BY <1>1, <1>3 DEF InitManager, CallInit, InitFails, InitReachesDriver, DestroyManager,
     CallDestroy, PvKept, FirstCall, AppCall, StageInv, Starting
<1>4. CASE ButtonMonitorTask
  BY <1>1, <1>4 DEF ButtonMonitorTask, ButtonHeld, ServerOff, StopWebServer, QuietFirst,
     StopCalled, Reprovision, ReprovisionDone, AppCall
<1>5. CASE LifeCall /\ UNCHANGED <<main, led>>
  BY <1>5, CallMoves, CallServed DEF LifeCall
<1>6. CASE (InitWifi \/ Release \/ CurrentIpString) /\ UNCHANGED <<main, led>>
  BY <1>6 DEF InitWifi, Release, PvKept, CurrentIpString, ReadNetif, UseNetif
<1>7. CASE (Loop \/ Driver) /\ AppKept
  BY <1>7 DEF AppKept, Loop, Driver
<1>8. CASE Http /\ AppKept
  BY <1>8 DEF AppKept, Http, PostWifi, PostConfigSave, Finish, NotifyCheck, NotifyGive, PageBegin,
     PageEnd, UploadBegin, UploadEnd, HandlerResetGet, HttpOnly
<1>9. CASE Reboot BY <1>9 DEF Reboot, RamLost
<1>10. CASE UNCHANGED appVars BY <1>10 DEF appVars
<1> QED BY <1>2, <1>3, <1>4, <1>5, <1>6, <1>7, <1>8, <1>9, <1>10 DEF AppNext, AppMain

-----------------------------------------------------------------------------
LEMMA InitApp == AppInit => AppBase
<1> SUFFICES ASSUME AppInit PROVE AppBase
  OBVIOUS
<1>1. TypeInv /\ StopInv
  BY InitType, InitStop DEF AppInit
<1>2. StageInv /\ Served /\ AppVarsOK
  BY DEF AppInit, Init, LcInit, PvInit, LifeInit, StageInv, Starting, Managed, Ending, Clean,
     RestingStages, ManagedStages, Served, AppVarsOK, LifeTypeOK, Stages, Colours
<1> QED BY <1>1, <1>2 DEF AppBase

LEMMA AppBaseStep == AppBase /\ [AppNext]_appVars => AppBase'
  BY StageStep, AppSteps, AppTypeStep, AppStopStep, ServedStep, AppVarsStep DEF AppBase

(* Every stage of the application finds what its calls left behind.          *)
THEOREM AppStages == AppSpec => []AppBase
  BY InitApp, AppBaseStep, PTL DEF AppSpec

(* Every variable of the application keeps to its type.                      *)
THEOREM AppTypes == AppSpec => []AppTypeOK
<1>1. AppBase => AppTypeOK
  BY DEF AppBase, TypeInv, AppVarsOK, AppTypeOK
<1> QED BY <1>1, AppStages, PTL

(* The applications keep the calling discipline without being told to: no    *)
(* call that starts something is made while an earlier one has left a netif  *)
(* or a handler.                                                             *)
THEOREM AppStopsFirst == AppSpec => StopsFirst
<1>1. AppBase /\ [AppNext]_appVars =>
          [pc = "idle" /\ pc' \in {"auto_load", "cfg_begin"} =>
               netif = "none" /\ tracked = {} /\ \A k \in Kinds : reg[k] = 0]_appVars
  <2> SUFFICES ASSUME AppBase, [AppNext]_appVars, pc = "idle", pc' \in {"auto_load", "cfg_begin"}
               PROVE  netif = "none" /\ tracked = {} /\ \A k \in Kinds : reg[k] = 0
    OBVIOUS
  <2>1. AppStepKinds
    BY AppSteps DEF AppBase
  <2>2. ~CallStep
    BY CallMoves DEF AppBase
  <2>3. \E c \in ApiCalls : AppCalling(c)
    <3>1. pc' = pc \/ pc' = "idle" => FALSE
      OBVIOUS
    <3>2. ~(Loop \/ Driver \/ Http \/ UNCHANGED vars)
      BY <3>1, OthersMove
    <3> QED BY <2>1, <2>2, <3>1, <3>2 DEF AppStepKinds, Resting, LastStop, GivenBack, lcVars,
     Restart, RamLost
  <2>4. Clean
    BY <2>3 DEF AppCalling, AppCall, Call, EntryOf
  <2> QED BY <2>4 DEF Clean, AppBase, StopInv, HandlersExact
<1> QED BY <1>1, AppStages, PTL DEF AppSpec, StopsFirst

(* The netif a GET handler has read is neither replaced nor destroyed while  *)
(* the handler runs.                                                         *)
THEOREM AppKeepsNetif == AppSpec => PageKeepsNetif
<1>1. AppBase /\ [AppNext]_appVars => [http = "page" /\ http' = "page" => netif' = netif]_vars
  <2> SUFFICES ASSUME AppBase, [AppNext]_appVars, http = "page", http' = "page"
               PROVE  netif' = netif
    OBVIOUS
  <2>1. AppStepKinds
    BY AppSteps DEF AppBase
  <2>2. pc \in ServerPoints \cup {"idle"}
    BY DEF AppBase, Served
  <2>3. CASE CallStep
    <3>1. pc \in ServerPoints
      BY <2>2, <2>3, CallMoves DEF AppBase
    <3>2. ConfigViaAp
      BY <2>3, <3>1 DEF CallStep, StartSta, StaBegin, StaRegister, StaMode, StaConfig, StaGo, StartAp,
         ApBegin, ApRegister, ApMode, ApGo, Stop, StopDisconnect, StopDriver, StopUnregister,
         StopClear, StopNetif, StopDelay, AutoConnect, AutoLoad, AutoConn, AutoConnDone,
         ServerPoints, DnsPoints, WaitPoints
    <3> QED BY <3>1, <3>2 DEF ConfigViaAp, CfgBegin, CfgWait, CfgApUp, CfgApTimeout, CfgApSta,
         CfgServer, CfgDns, CfgArm, CfgTake, CfgDisarm, CfgCheck, CfgDnsOff, CfgWebOff, CfgStopped,
         CfgConn, CfgConnDone, AwaitBits, EndWait, Local
  <2>4. CASE Loop \/ Driver \/ Http \/ UNCHANGED vars
    BY <2>4, OthersMove
  <2>5. ~Restart
    BY DEF Restart, RamLost
  <2> QED BY <2>1, <2>3, <2>4, <2>5 DEF AppStepKinds, Resting, LastStop, GivenBack, AppCalling, AppCall,
       Local, lcVars
<1> QED BY <1>1, AppStages, PTL DEF AppSpec, PageKeepsNetif

(* A Manager without a group has nothing that Init acquires after it, and    *)
(* none but its destructor calls anything.                                   *)
GroupKept ==
    "group" \notin have =>
        /\ have \subseteq {"impl", "netif"}
        /\ pc # "idle" => life = "destroy"

LEMMA GroupStep == AppBase /\ GroupKept /\ [AppNext]_appVars => GroupKept'
<1> SUFFICES ASSUME AppBase, GroupKept, [AppNext]_appVars PROVE GroupKept'
  OBVIOUS
<1> USE DEF GroupKept, Stage, LightOnly, AtRest, vars, lcVars, lifeVars
<1>1. "group" \in Acquired(4) /\ "group" \in Acquired(5)
  BY AcquiredFacts
<1>2. CASE Boot \/ InitFailed \/ FirstDone \/ Serve
  BY <1>2 DEF Boot, InitFailed, FirstDone, Serve, StartWebServer
<1>3. CASE InitManager
  <2>1. CASE InitReachesDriver
    <3>1. "group" \in have'
      BY <1>1, <2>1 DEF InitReachesDriver
    <3> QED BY <3>1
  <2>2. CASE \E n \in 1..4 : InitFails(n)
    <3>1. PICK n \in 1..4 : InitFails(n)
      BY <2>2
    <3>2. /\ have' = have \cup Acquired(n - 1)
          /\ pc = "idle" /\ UNCHANGED pc
      BY <3>1 DEF InitFails
    <3>3. "group" \in Acquired(n - 1) \/ Acquired(n - 1) \subseteq {"impl", "netif"}
      <4>1. CASE n \in {1, 2} BY <4>1 DEF Acquired, Resources
      <4>2. CASE n - 1 \in 2..5 BY <4>2, AcquiredFacts
      <4> QED BY <3>1, <4>1, <4>2
    <3> QED BY <3>2, <3>3
  <2> QED BY <1>3, <2>1, <2>2 DEF InitManager, CallInit
<1>4. CASE DestroyManager
  BY <1>4 DEF DestroyManager, CallDestroy
<1>5. CASE FirstCall \/ QuietFirst \/ Reprovision
  <2>1. have = Acquired(5) /\ have' = have
    BY <1>5 DEF FirstCall, QuietFirst, Reprovision, AppBase, StageInv, Starting, Managed, ManagedStages
  <2> QED BY <1>1, <2>1
<1>6. CASE ButtonHeld \/ ReprovisionDone
  BY <1>6 DEF ButtonHeld, ServerOff, StopWebServer, ReprovisionDone
<1>7. CASE LifeCall /\ UNCHANGED <<main, led>>
  BY <1>7, CallMoves DEF LifeCall, AppBase
<1>8. CASE (InitWifi \/ Release \/ CurrentIpString) /\ UNCHANGED <<main, led>>
  <2>1. CASE InitWifi
    <3>1. have = Acquired(4)
      BY <1>8, <2>1 DEF InitWifi, AppBase, StageInv, Starting, Ending
    <3> QED BY <1>1, <2>1, <3>1 DEF InitWifi
  <2>2. CASE Release BY <2>2 DEF Release
  <2>3. CASE CurrentIpString BY <2>3 DEF CurrentIpString, ReadNetif, UseNetif
  <2> QED BY <1>8, <2>1, <2>2, <2>3
<1>9. CASE (Loop \/ Driver \/ Http) /\ AppKept
  BY <1>9, OthersMove DEF AppKept
<1>10. CASE Reboot \/ UNCHANGED appVars
  BY <1>10 DEF Reboot, RamLost, appVars
<1> QED BY <1>2, <1>3, <1>4, <1>5, <1>6, <1>7, <1>8, <1>9, <1>10 DEF AppNext, AppMain, ButtonMonitorTask

(* Whatever Init may fail at: once it got past the event group every call    *)
(* has one, and where it did not only ~Manager's Stop() looks for one.       *)
THEOREM OnlyDestroyLacksGroup == AppSpec => []OnlyDestroyMissesGroup
<1>1. AppInit => GroupKept
  BY DEF AppInit, Init, LcInit, LifeInit, GroupKept
<1>2. AppBase /\ GroupKept /\ [AppNext]_appVars => GroupKept'
  BY GroupStep
<1>3. GroupKept => OnlyDestroyMissesGroup
  BY DEF GroupKept, OnlyDestroyMissesGroup, GroupPoints
<1> QED BY <1>1, <1>2, <1>3, AppStages, PTL DEF AppSpec

-----------------------------------------------------------------------------
(* The application's sessions, where the event loop is prompt *)

(* To handlers and driver a step of the application is a step of a session,  *)
(* but for the one by which ~Manager gives them back.                        *)
LEMMA AppSessionStep == AppStepKinds => SessionStep \/ GivenBack
<1>1. Resting \/ LastStop \/ UNCHANGED vars => Apart
  BY DEF Resting, DriverKept, LastStop, Apart, vars, drvVars, lcVars
<1> QED BY <1>1, AppCallApart, HttpApart DEF AppStepKinds, AppCalling, SessionStep

LEMMA GivenBackKeeps == ASSUME BaseInv, Fresh, GivenBack PROVE (OneHandler /\ StartInv /\ Fresh)'
<1>1. Still /\ UNCHANGED <<pc, running, bits, woken, everUp, tracked, netif, started, link>> /\ evq' = <<>>
  BY DEF GivenBack, Clean, BaseInv, StartInv, BeforeStart, lcVars
<1>2. OneHandler' /\ Fresh'
  BY <1>1 DEF BaseInv, OneHandler, Fresh, AddressOut, Has, Still, NotRunning
<1>3. pc = "idle"
  BY DEF GivenBack
<1> QED BY <1>1, <1>2, <1>3 DEF BaseInv, StartInv, BeforeStart, StartPoints, BarePoints, ConnPoints,
     StartStaPoints, StaOff, StartApPoints, ApPoints, ServerPoints, DnsPoints, WaitPoints, AllOrNone, Still

LEMMA AppApUp == ASSUME TypeInv, ApUp, AppStepKinds PROVE ApUp'
<1>1. CASE Resting \/ LastStop \/ GivenBack \/ Restart
  <2>1. pc' \in {"idle", "stop_disc"}
    BY <1>1 DEF Resting, LastStop, GivenBack, lcVars, Restart, RamLost
  <2> QED BY <2>1, NoApPromise DEF ApPoints, ServerPoints, DnsPoints, WaitPoints
<1>2. CASE \E c \in ApiCalls : AppCalling(c)
  <2>1. pc' \in {"auto_load", "cfg_begin", "sta_begin", "ap_begin", "stop_disc"}
    BY <1>2 DEF AppCalling, AppCall, Call, EntryOf, ApiCalls
  <2> QED BY <2>1, NoApPromise DEF ApPoints, ServerPoints, DnsPoints, WaitPoints
<1>3. CASE CallStep
  BY <1>3, StartStaApUp, StartApApUp, StopApUp, ConfigApUp, AutoApUp DEF CallStep
<1>4. CASE Loop \/ Driver \/ Http \/ UNCHANGED vars
  <2>1. UNCHANGED <<pc, netif, mode, started>>
    BY <1>4, OthersMove DEF Loop, EventLoop, Dispatch, OnStaStart, OnStaDiscIgnored, OnStaDiscBits,
       OnStaDiscRetry, OnGotIp, OnApStart, Driver, Air, StaJoin, StaGotIp, StaLost, Http, PostWifi,
       PostConfigSave, Finish, NotifyCheck, NotifyGive, PageBegin, PageEnd, UploadBegin, UploadEnd,
       HandlerResetGet, HttpOnly, vars, drvVars
  <2> QED BY <2>1 DEF ApUp, HasAp
<1> QED BY <1>1, <1>2, <1>3, <1>4 DEF AppStepKinds

LEMMA AppStartStep ==
    ASSUME PromptLoop, BaseInv, AppStepKinds, ~GivenBack
    PROVE  StartInv'
<1> USE DEF BaseInv
<1>1. CASE Resting \/ UNCHANGED vars
  BY <1>1, AsideStart DEF Resting, DriverKept, vars, drvVars, hdlVars, lcVars
<1>2. CASE LastStop
  BY <1>2 DEF LastStop, StartInv, BeforeStart, StartPoints, BarePoints, ConnPoints, StartStaPoints,
     StaOff, StartApPoints, ApPoints, ServerPoints, DnsPoints, WaitPoints, AllOrNone, DownPoints,
     Still, drvVars, hdlVars
<1>3. CASE \E c \in ApiCalls : AppCalling(c)
  BY <1>3, AppStart DEF AppCalling, Clean
<1> QED BY <1>1, <1>2, <1>3, CallStart, LoopStart, AirStart, HttpStart, RestartStart DEF AppStepKinds

LEMMA AppBaseInvStep ==
    ASSUME PromptLoop
    PROVE  BaseInv /\ Awake /\ Fresh /\ AppStepKinds => (BaseInv /\ Fresh)'
<1> SUFFICES ASSUME BaseInv, Awake, Fresh, AppStepKinds PROVE (BaseInv /\ Fresh)'
  OBVIOUS
<1>1. (TypeInv /\ StopInv /\ ApUp)'
  BY AppTypeStep, AppStopStep, AppApUp DEF BaseInv
<1>2. CASE GivenBack
  BY <1>1, <1>2, GivenBackKeeps DEF BaseInv
<1>3. CASE ~GivenBack
  BY <1>1, <1>3, AppSessionStep, OneHandlerStep, AppStartStep, FreshStep DEF BaseInv
<1> QED BY <1>2, <1>3

LEMMA AppAnswerStep == ASSUME BaseInv, Served, AnswerInv, AppStepKinds PROVE AnswerInv'
<1>1. CASE Resting \/ LastStop \/ GivenBack
  <2>1. /\ pc' \in {"idle", "stop_disc"} /\ UNCHANGED <<mask, woken>> /\ pc = "idle"
        /\ pc' = "stop_disc" => status' = "none" /\ api' = "none"
    BY <1>1 DEF Resting, LastStop, GivenBack, hdlVars, lcVars
  <2> QED BY <2>1 DEF AnswerInv, Answers, CallPoints, StartStaPoints, StartApPoints, StopPoints,
         Configured, ConnPoints, Awake, WaitingPoints, Provisioned
<1>2. CASE \E c \in ApiCalls : AppCalling(c)
  BY <1>2, AppAnswer DEF AppCalling
<1>3. CASE Http
  <2>1. server => pc \notin {"sta_go"} \cup ConnPoints
    BY DEF Served, ServerPoints, DnsPoints, WaitPoints, ConnPoints
  <2> QED BY <1>3, <2>1, HttpAnswer
<1> QED BY <1>1, <1>2, <1>3, CallAnswer, LoopAnswer, OthersAnswer, RestartAnswer DEF AppStepKinds, BaseInv

LEMMA AppOkStep == ASSUME BaseInv, Answers, Fresh, OkIsFresh, AppStepKinds PROVE OkIsFresh'
<1> SUFFICES ASSUME pc' = "idle", status' = "Ok", api' \in Provisioned
             PROVE  everUp'
  BY DEF OkIsFresh, Provisioned
<1>1. CASE Resting \/ GivenBack
  BY <1>1 DEF Resting, DriverKept, GivenBack, lcVars, pvVars, OkIsFresh, Provisioned
<1>2. CASE LastStop \/ (\E c \in ApiCalls : AppCalling(c)) \/ Restart
  BY <1>2 DEF LastStop, AppCalling, AppCall, Restart, RamLost
<1>3. CASE CallStep
  <2>1. "StaConnected" \in woken /\ pc \notin DownPoints /\ everUp' = everUp
    BY <1>3, OkNeedsBit DEF BaseInv, ConnPoints, DownPoints
  <2> QED BY <2>1 DEF Fresh
<1>4. CASE Loop \/ Driver \/ Http \/ UNCHANGED vars
  <2>1. everUp => everUp'
    BY <1>4, OthersUp
  <2> QED BY <1>4, <2>1, OthersMove DEF OkIsFresh, Provisioned
<1> QED BY <1>1, <1>2, <1>3, <1>4 DEF AppStepKinds

AppSession == BaseInv /\ AnswerInv /\ Fresh /\ OkIsFresh

LEMMA AppSessions == ASSUME PromptLoop PROVE AppSpec => []AppSession
<1>1. AppInit => AppSession
  <2>1. Init => Fresh /\ OkIsFresh /\ OneHandler
    BY DEF Init, DrvInit, HdlInit, LcInit, Fresh, AddressOut, Has, NotRunning, OkIsFresh, OneHandler
  <2> QED BY <2>1, InitPortal, InitStop, InitStart, InitAnswer DEF AppInit, AppSession, BaseInv, PortalInv
<1>2. AppBase /\ AppSession /\ [AppNext]_appVars => AppSession'
  <2>1. AppBase /\ AppSession /\ AppStepKinds => AppSession'
    BY AppBaseInvStep, AppAnswerStep, AppOkStep DEF AppBase, AppSession, AnswerInv
  <2> QED BY <2>1, AppSteps DEF AppBase
<1> QED BY <1>1, <1>2, AppStages, PTL DEF AppSpec

(* A call of the application answers Ok only on an address of this session.  *)
THEOREM AppOkMeansConnected == ASSUME PromptLoop PROVE AppSpec => []OkIsFresh
<1>1. AppSession => OkIsFresh
  BY DEF AppSession
<1> QED BY <1>1, AppSessions, PTL

-----------------------------------------------------------------------------
(* The LED *)

(* From the last Stop() before it to the end of the access point.            *)
ApSide == {"cfg_begin"} \cup StartApPoints \cup ApPoints

PortalLight == main = "portal" /\ pc \in ApSide => led = "Blue"

GreenLight == main \in {"serve", "watch"} /\ led = "Green" => everUp

(* Only what may follow AutoConnect comes back to the access point.          *)
LEMMA ToApSide ==
    ASSUME TypeInv, CallStep, pc' \in ApSide
    PROVE  pc \in ApSide \cup AutoPoints \/ ret = "cfg_begin"
<1> USE DEF ApSide, StartApPoints, ApPoints, ServerPoints, DnsPoints, WaitPoints, AutoPoints, Goto, Return,
        Fail, Call, Succeed
<1>1. CASE StartSta
  <2>1. pc' \in {"sta_reg", "sta_mode", "sta_cfg", "sta_go", "idle", "cfg_conn", "auto_conn"}
    BY <1>1 DEF StartSta, StaBegin, StaRegister, StaMode, StaConfig, ConfigFailure, StaGo, NewNetif,
       Register, TypeInv, Control, StartStaPoints
  <2> QED BY <2>1
<1>2. CASE StartAp
  BY <1>2 DEF StartAp, ApBegin, ApRegister, ApMode, ApGo
<1>3. CASE Stop
  <2>1. pc' \in StopPoints \cup {ret} /\ ret \in {"idle", "cfg_stopped", "cfg_begin"}
    BY <1>3 DEF Stop, StopDisconnect, StopDriver, StopUnregister, StopClear, StopNetif, StopDelay,
       TypeInv, Control, StopPoints
  <2> QED BY <2>1 DEF StopPoints
<1>4. CASE ConfigViaAp
  BY <1>4 DEF ConfigViaAp, CfgBegin, CfgWait, CfgApUp, CfgApTimeout, CfgApSta, CfgServer, CfgDns,
     CfgArm, CfgTake, CfgDisarm, AfterTake, CfgCheck, CfgDnsOff, CfgWebOff, CfgStopped, CfgConn,
     CfgConnDone, AwaitBits
<1>5. CASE AutoConnect
  BY <1>5 DEF AutoConnect, AutoLoad, AutoConn, AutoConnDone
<1> QED BY <1>1, <1>2, <1>3, <1>4, <1>5 DEF CallStep

(* While no station handler is registered no callback of one sets the LED.   *)
LEMMA NoCallback == ASSUME BaseInv, pc \in ApSide, Loop PROVE Callback = led
<1>1. pc \notin StartPoints
  BY StillKept DEF BaseInv, StartInv, BeforeStart
<1>2. pc \in ApPoints
  BY <1>1 DEF ApSide, StartApPoints, StartPoints, BarePoints
<1>3. running.kind \notin StaSet
  BY <1>2 DEF BaseInv, StartInv, StaOff
<1> QED BY <1>3 DEF Callback, Enter, StaSet

LEMMA PortalLightStep == AppBase /\ AppSession /\ PortalLight /\ [AppNext]_appVars => PortalLight'
<1> SUFFICES ASSUME AppBase, AppSession, PortalLight, [AppNext]_appVars, main' = "portal", pc' \in ApSide
             PROVE  led' = "Blue"
  BY DEF PortalLight
<1> USE DEF Stage, PortalLight
<1>1. CASE AppMain \/ ButtonMonitorTask
  BY <1>1 DEF AppMain, Boot, InitManager, InitFailed, DestroyManager, FirstCall, FirstDone, Serve,
     ButtonMonitorTask, ButtonHeld, QuietFirst, Reprovision, ReprovisionDone, BlueFrom
<1>2. CASE LifeCall /\ UNCHANGED <<main, led>>
  <2>1. pc \notin AutoPoints /\ ret # "cfg_begin"
    BY <1>2 DEF AppBase, StageInv, Managed
  <2>2. pc \in ApSide
    BY <1>2, <2>1, ToApSide DEF LifeCall, AppBase
  <2> QED BY <1>2, <2>2
<1>3. CASE (InitWifi \/ Release \/ CurrentIpString) /\ UNCHANGED <<main, led>>
  BY <1>3 DEF InitWifi, Release, CurrentIpString, ReadNetif, UseNetif, vars, lcVars
<1>4. CASE Loop /\ led' = Callback /\ AppKept
  BY <1>4, OthersMove, NoCallback DEF AppKept, AppSession
<1>5. CASE (Driver \/ Http) /\ UNCHANGED led /\ AppKept
  BY <1>5, OthersMove DEF AppKept
<1>6. CASE (Reboot /\ main' = "boot") \/ UNCHANGED appVars
  BY <1>6 DEF appVars, vars, lcVars
<1> QED BY <1>1, <1>2, <1>3, <1>4, <1>5, <1>6 DEF AppNext

LEMMA GreenLightStep == AppBase /\ AppSession /\ GreenLight /\ [AppNext]_appVars => GreenLight'
<1> SUFFICES ASSUME AppBase, AppSession, GreenLight, [AppNext]_appVars,
                    main' \in {"serve", "watch"}, led' = "Green"
             PROVE  everUp'
  BY DEF GreenLight
<1> USE DEF Stage, GreenLight, LightOnly, AtRest, vars, drvVars, Local
<1>1. main \in {"serve", "watch"} => pc = "idle"
  BY DEF AppBase, StageInv, Starting, RestingStages
<1>2. CASE Serve
  BY <1>2 DEF Serve, StartWebServer
<1>3. CASE FirstDone
  <2>1. status = "Ok" /\ pc = "idle" /\ api \in Provisioned /\ everUp' = everUp
    BY <1>3 DEF FirstDone, AppBase, StageInv, Managed
  <2> QED BY <2>1 DEF AppSession, OkIsFresh, Provisioned
<1>4. CASE ReprovisionDone
  <2>1. status = "Ok" /\ pc = "idle" /\ api \in Provisioned /\ everUp' = everUp
    BY <1>4 DEF ReprovisionDone, AppBase, StageInv, Managed, Provisioned
  <2> QED BY <2>1 DEF AppSession, OkIsFresh, Provisioned
<1>5. CASE Boot \/ InitManager \/ InitFailed \/ DestroyManager \/ FirstCall \/ ButtonHeld \/ QuietFirst
           \/ Reprovision
  BY <1>5 DEF Boot, InitManager, InitFailed, DestroyManager, FirstCall, ButtonHeld, QuietFirst, Reprovision
<1>6. CASE LifeCall /\ UNCHANGED <<main, led>>
  BY <1>1, <1>6, CallMoves DEF LifeCall, AppBase
<1>7. CASE (InitWifi \/ Release \/ CurrentIpString) /\ UNCHANGED <<main, led>>
  BY <1>7 DEF InitWifi, Release, CurrentIpString, ReadNetif, UseNetif
<1>8. CASE Loop /\ led' = Callback /\ AppKept
  <2>1. main' = main /\ (everUp => everUp')
    BY <1>8, OthersUp DEF AppKept
  <2>2. CASE led = "Green"
    BY <2>1, <2>2
  <2>3. CASE led # "Green"
    <3>1. running.kind = "GOT_IP"
      BY <1>8, <2>3 DEF Callback, Enter
    <3>2. everUp
      BY <1>1, <2>1, <3>1 DEF AppSession, Fresh, AddressOut, DownPoints
    <3> QED BY <2>1, <3>2
  <2> QED BY <2>2, <2>3
<1>9. CASE (Driver \/ Http) /\ UNCHANGED led /\ AppKept
  BY <1>9, OthersUp DEF AppKept
<1>10. CASE (Reboot /\ main' = "boot") \/ UNCHANGED appVars
  BY <1>10 DEF appVars
<1> QED BY <1>2, <1>3, <1>4, <1>5, <1>6, <1>7, <1>8, <1>9, <1>10 DEF AppNext, AppMain, ButtonMonitorTask

(* While the re-opened portal is served the LED is blue: the callbacks of    *)
(* the connection that Stop() ended have run by then.                        *)
THEOREM AppPortalIsBlue == ASSUME PromptLoop PROVE AppSpec => []PortalIsBlue
<1>1. AppInit => PortalLight
  BY DEF AppInit, PortalLight
<1>2. AppBase /\ AppSession /\ PortalLight /\ [AppNext]_appVars => PortalLight'
  BY PortalLightStep
<1>3. AppBase /\ PortalLight => PortalIsBlue
  BY DEF AppBase, Served, PortalLight, PortalIsBlue, ApSide, ApPoints
<1> QED BY <1>1, <1>2, <1>3, AppStages, AppSessions, PTL DEF AppSpec

(* A green LED, while the application watches the button, means an address   *)
(* obtained since the driver was last started.                               *)
THEOREM AppGreenWasConnected == ASSUME PromptLoop PROVE AppSpec => []GreenWasConnected
<1>1. AppInit => GreenLight
  BY DEF AppInit, GreenLight
<1>2. AppBase /\ AppSession /\ GreenLight /\ [AppNext]_appVars => GreenLight'
  BY GreenLightStep
<1>3. GreenLight => GreenWasConnected
  BY DEF GreenLight, GreenWasConnected
<1> QED BY <1>1, <1>2, <1>3, AppStages, AppSessions, PTL DEF AppSpec
=============================================================================
