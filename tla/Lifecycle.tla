------------------------------ MODULE Lifecycle ------------------------------
(***************************************************************************)
(* Manager::StartSta, StartAp and Stop (src/WiFiPan_Cpp.cpp), run by the    *)
(* application task, one action per call into the driver, the event loop or *)
(* the event group, so that event handlers run between any two of them.     *)
(* ret is where the running function returns to: "idle" is the application, *)
(* any other value a point of ConfigViaAp or AutoConnect (Provisioning).    *)
(***************************************************************************)
EXTENDS StaEvents

CONSTANT
    PromptLoop    \* the event loop catches up during Stop()'s final delay

ASSUME PromptLoopAssumption == PromptLoop \in BOOLEAN

VARIABLES
    pc,           \* control point of the application task
    ret,          \* where StartSta, StartAp or Stop returns to
    idx,          \* position in the list of handlers to (un)register
    status,       \* the Status the application's call returns
    netif,        \* priv_->netif
    tracked,      \* kinds whose handler instance priv_ holds
    sta           \* sta_config_.ssid

lcVars == <<pc, ret, idx, status, netif, tracked, sta>>

Statuses == {"none", "Ok", "Timeout", "NoCreds", "ConnectFailed",
             "WifiError", "NetifError", "WeakApPassword", "NoMem", "InitFailed"}

StaKinds == <<"STA_START", "STA_DISC", "GOT_IP">>
ApKinds == <<"AP_STACONN", "AP_STADISC", "AP_START">>
AllKindsButIp == ApKinds \o <<"STA_START", "STA_DISC">>
AllKinds == ApKinds \o StaKinds

StartStaPoints == {"sta_begin", "sta_reg", "sta_mode", "sta_cfg", "sta_go"}
StartApPoints == {"ap_begin", "ap_reg", "ap_mode", "ap_go"}
StopPoints == {"stop_disc", "stop_drv", "stop_unreg", "stop_clear", "stop_netif", "stop_delay"}
PortalPoints == {"cfg_begin", "cfg_wait", "cfg_blocked", "cfg_apsta", "cfg_server", "cfg_dns",
                 "cfg_arm", "cfg_take", "cfg_disarm", "cfg_check", "cfg_dnsoff", "cfg_weboff",
                 "cfg_stopped", "cfg_conn", "cfg_connwait"}
AutoPoints == {"auto_load", "auto_conn", "auto_connwait"}
Points == {"idle"} \cup StartStaPoints \cup StartApPoints \cup StopPoints
          \cup PortalPoints \cup AutoPoints
Returns == {"idle", "cfg_wait", "cfg_begin", "cfg_stopped", "cfg_conn", "auto_conn"}

LcTypeOK ==
    /\ pc \in Points
    /\ ret \in Returns
    /\ idx \in 1..7
    /\ status \in Statuses
    /\ netif \in {"none", "STA", "AP"}
    /\ tracked \in SUBSET Kinds
    /\ sta \in Ssids \cup {NoSsid}

LcInit ==
    /\ pc = "idle" /\ ret = "idle" /\ idx = 1
    /\ status = "none"
    /\ netif = "none"
    /\ tracked = {}
    /\ sta = NoSsid

(* Call f, to come back to point r.                                         *)
Call(f, r) == pc' = f /\ ret' = r /\ idx' = 1
Return(p, st) == pc' = p /\ status' = st /\ idx' = 1 /\ UNCHANGED ret
Goto(p) == Return(p, status)
Succeed == Return(ret, IF ret = "idle" THEN "Ok" ELSE status)
Fail(st) == Return("idle", st)

Clear(b) == bits' = bits \ b /\ UNCHANGED <<mask, woken, running, reg, retry, attempts>>

(* Registration overwrites the handle priv_ held.  It may fail for want of  *)
(* memory, and then leaves the earlier registrations in place.              *)
Register(kinds, next) ==
    /\ running = NotRunning
    /\ \/ /\ reg[kinds[idx]] < RegLimit
          /\ reg' = [reg EXCEPT ![kinds[idx]] = @ + 1]
          /\ tracked' = tracked \cup {kinds[idx]}
          /\ idx' = idx + 1
          /\ pc' = IF idx = Len(kinds) THEN next ELSE pc
          /\ UNCHANGED <<ret, status>>
       \/ /\ Fail("WifiError")
          /\ UNCHANGED <<reg, tracked>>
    /\ UNCHANGED <<drvVars, bits, mask, woken, running, retry, attempts, netif, sta>>

-----------------------------------------------------------------------------
(* StartSta *)

(* The netif of an earlier start is destroyed before a new one is created.  *)
NewNetif(kind, next) ==
    \/ netif' = kind /\ Goto(next)
    \/ netif' = "none" /\ Fail("NetifError")

StaBegin ==
    /\ pc = "sta_begin"
    /\ Clear({"StaConnected", "StaDisconnected"})
    /\ NewNetif("STA", "sta_reg")
    /\ UNCHANGED <<drvVars, tracked, sta>>

StaRegister ==
    /\ pc = "sta_reg"
    /\ Register(StaKinds, "sta_mode")

StaMode ==
    /\ pc = "sta_mode"
    /\ \/ SetMode("STA") /\ Goto("sta_cfg")
       \/ Fail("WifiError") /\ UNCHANGED drvVars
    /\ UNCHANGED <<hdlVars, netif, tracked, sta>>

(* A blank SSID leaves the driver's stored configuration alone.             *)
HaveSsid == sta # NoSsid

ConfigFailureIgnored == Goto("sta_go")
ConfigFailure == Fail("WifiError")

StaConfig ==
    /\ pc = "sta_cfg"
    /\ \/ HaveSsid /\ SetStaConfig(sta) /\ Goto("sta_go")
       \/ HaveSsid /\ ConfigFailure /\ UNCHANGED drvVars
       \/ ~HaveSsid /\ Goto("sta_go") /\ UNCHANGED drvVars
    /\ UNCHANGED <<hdlVars, netif, tracked, sta>>

StaGo ==
    /\ pc = "sta_go"
    /\ \/ DriverStart /\ Succeed
       \/ Fail("WifiError") /\ UNCHANGED drvVars
    /\ UNCHANGED <<hdlVars, netif, tracked, sta>>

StartSta == StaBegin \/ StaRegister \/ StaMode \/ StaConfig \/ StaGo

-----------------------------------------------------------------------------
(* StartAp *)

ApBegin ==
    /\ pc = "ap_begin"
    /\ Clear({"ApStart"})
    /\ NewNetif("AP", "ap_reg")
    /\ UNCHANGED <<drvVars, tracked, sta>>

ApRegister ==
    /\ pc = "ap_reg"
    /\ Register(ApKinds, "ap_mode")

(* esp_wifi_set_mode, then esp_wifi_set_config(WIFI_IF_AP), which touches    *)
(* nothing modelled here but may fail in turn.                               *)
ApMode ==
    /\ pc = "ap_mode"
    /\ \/ SetMode("AP") /\ (Goto("ap_go") \/ Fail("WifiError"))
       \/ Fail("WifiError") /\ UNCHANGED drvVars
    /\ UNCHANGED <<hdlVars, netif, tracked, sta>>

ApGo ==
    /\ pc = "ap_go"
    /\ \/ DriverStart /\ Succeed
       \/ Fail("WifiError") /\ UNCHANGED drvVars
    /\ UNCHANGED <<hdlVars, netif, tracked, sta>>

StartAp == ApBegin \/ ApRegister \/ ApMode \/ ApGo

-----------------------------------------------------------------------------
(* Stop *)

StopDisconnect ==
    /\ pc = "stop_disc"
    /\ IF HasSta(mode) THEN Disconnect ELSE UNCHANGED drvVars
    /\ Goto("stop_drv")
    /\ UNCHANGED <<hdlVars, netif, tracked, sta>>

StopDriver ==
    /\ pc = "stop_drv"
    /\ DriverStop
    /\ Goto("stop_unreg")
    /\ UNCHANGED <<hdlVars, netif, tracked, sta>>

(* unreg(): only the instance priv_ holds can be unregistered.               *)
UnregisteredBlindly(k) == [reg EXCEPT ![k] = @ - 1]
Unregistered(k) == IF k \in tracked THEN [reg EXCEPT ![k] = @ - 1] ELSE reg

StopUnregister ==
    /\ pc = "stop_unreg"
    /\ running = NotRunning
    /\ LET k == AllKinds[idx]
       IN  /\ reg' = Unregistered(k)
           /\ tracked' = tracked \ {k}
    /\ idx' = idx + 1
    /\ pc' = IF idx = Len(AllKinds) THEN "stop_clear" ELSE pc
    /\ UNCHANGED <<drvVars, bits, mask, woken, running, retry, attempts, ret, status, netif, sta>>

StopClear ==
    /\ pc = "stop_clear"
    /\ Clear(Bits)
    /\ Goto("stop_netif")
    /\ UNCHANGED <<drvVars, netif, tracked, sta>>

StopNetif ==
    /\ pc = "stop_netif"
    /\ netif' = "none"
    /\ Goto("stop_delay")
    /\ UNCHANGED <<drvVars, hdlVars, tracked, sta>>

StopDelay ==
    /\ pc = "stop_delay"
    /\ PromptLoop => evq = <<>> /\ running = NotRunning
    /\ Succeed
    /\ UNCHANGED <<drvVars, hdlVars, netif, tracked, sta>>

Stop == \/ StopDisconnect \/ StopDriver \/ StopUnregister
        \/ StopClear \/ StopNetif \/ StopDelay
=============================================================================
