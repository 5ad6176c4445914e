---------------------------- MODULE Provisioning -----------------------------
(***************************************************************************)
(* Manager::ConfigViaAp, AutoConnect and NotifyWifiSubmitted, and the HTTP  *)
(* handlers that reach the manager, on top of Lifecycle.                    *)
(*                                                                          *)
(* Three tasks interleave: the application task (one blocking call at a     *)
(* time, always the same task), the event loop task, and the HTTP server's  *)
(* single task, which runs one handler at a time.                           *)
(***************************************************************************)
EXTENDS Lifecycle

CONSTANTS
    ApName,       \* kApSsidDefault: never accepted as saved credentials
    AppCalls,     \* what the application calls
    StopFirst     \* it calls Stop() before it starts anything anew

ApiCalls == {"AutoConnect", "ConfigViaAp", "StartSta", "StartAp", "Stop"}

ASSUME AppAssumption ==
    StopFirst \in BOOLEAN /\ AppCalls \subseteq ApiCalls

VARIABLES
    api,          \* history: the application's last call
    server,       \* priv_->server
    dns,          \* the DNS task exists
    waiting,      \* priv_->portal_waiting_task
    notify,       \* the application task's notification, pending or not
    http,         \* what the HTTP server's task is doing
    submitted     \* history: POST / brought an SSID during this call

pvVars == <<api, server, dns, waiting, notify, http, submitted>>
vars == <<drvVars, hdlVars, lcVars, pvVars>>

PvTypeOK ==
    /\ api \in ApiCalls \cup {"none"}
    /\ server \in BOOLEAN /\ dns \in BOOLEAN /\ waiting \in BOOLEAN
    /\ notify \in BOOLEAN /\ submitted \in BOOLEAN
    /\ http \in {"idle", "check", "give", "page", "upload", "reset"}

TypeOK == DrvTypeOK /\ HdlTypeOK /\ LcTypeOK /\ PvTypeOK

PvInit ==
    /\ api = "none"
    /\ server = FALSE /\ dns = FALSE /\ waiting = FALSE
    /\ notify = FALSE /\ submitted = FALSE
    /\ http = "idle"

(* The application has called Init(), and it has succeeded.                 *)
Init == DrvInit /\ HdlInit /\ LcInit /\ PvInit

(* xEventGroupWaitBits: arm, then return with the bits that unblocked the   *)
(* task; {} stands for a timeout.                                           *)
AwaitBits(m, next) ==
    /\ mask' = m
    /\ woken' = IF m \cap bits # {} THEN bits ELSE {}
    /\ Goto(next)
    /\ UNCHANGED <<drvVars, bits, running, reg, retry, attempts, netif, tracked, sta, pvVars>>

EndWait ==
    /\ mask' = {} /\ woken' = {}
    /\ UNCHANGED <<drvVars, bits, running, reg, retry, attempts, netif, tracked, sta, pvVars>>

Local == UNCHANGED <<drvVars, hdlVars, netif, tracked>>

-----------------------------------------------------------------------------
(* ConfigViaAp *)

(* SetApConfig() may have been given a password of 1 to 7 characters.       *)
CfgBegin ==
    /\ pc = "cfg_begin"
    /\ \/ Fail("WeakApPassword")
       \/ Call("ap_begin", "cfg_wait") /\ UNCHANGED status
    /\ Local /\ UNCHANGED <<sta, pvVars>>

CfgWait == pc = "cfg_wait" /\ AwaitBits({"ApStart"}, "cfg_blocked")

CfgApUp ==
    /\ pc = "cfg_blocked"
    /\ woken # {}
    /\ Goto("cfg_apsta")
    /\ EndWait

CfgApTimeout ==
    /\ pc = "cfg_blocked"
    /\ woken = {}
    /\ Call("stop_disc", "cfg_stopped") /\ status' = "Timeout"
    /\ EndWait

PortalModeStaOnly == "STA"
PortalMode == "APSTA"

(* The scan needs a station interface; a failure here is ignored.           *)
CfgApSta ==
    /\ pc = "cfg_apsta"
    /\ SetMode(PortalMode) \/ UNCHANGED drvVars
    /\ Goto("cfg_server")
    /\ UNCHANGED <<hdlVars, netif, tracked, sta, pvVars>>

(* SetCaptivePortalUri and StartWebServer: both results are ignored.        *)
CfgServer ==
    /\ pc = "cfg_server"
    /\ server' \in {server, TRUE}
    /\ Goto("cfg_dns")
    /\ Local /\ UNCHANGED <<sta, api, dns, waiting, notify, http, submitted>>

CfgDns ==
    /\ pc = "cfg_dns"
    /\ dns' \in BOOLEAN
    /\ Goto("cfg_arm")
    /\ Local /\ UNCHANGED <<sta, api, server, waiting, notify, http, submitted>>

CfgArm ==
    /\ pc = "cfg_arm"
    /\ waiting' = TRUE
    /\ Goto("cfg_take")
    /\ Local /\ UNCHANGED <<sta, api, server, dns, notify, http, submitted>>

CfgTake ==
    /\ pc = "cfg_take"
    /\ notify' = FALSE
    /\ Return("cfg_disarm", IF notify THEN "none" ELSE "Timeout")
    /\ Local /\ UNCHANGED <<sta, api, server, dns, waiting, http, submitted>>

AfterTakeKeepingDns(st) == IF st = "Timeout" THEN "cfg_weboff" ELSE "cfg_check"
AfterTakeUnchecked(st) == "cfg_check"
AfterTake(st) == IF st = "Timeout" THEN "cfg_dnsoff" ELSE "cfg_check"

CfgDisarm ==
    /\ pc = "cfg_disarm"
    /\ waiting' = FALSE
    /\ Goto(AfterTake(status))
    /\ Local /\ UNCHANGED <<sta, api, server, dns, notify, http, submitted>>

CfgCheck ==
    /\ pc = "cfg_check"
    /\ Return("cfg_dnsoff", IF HaveSsid THEN "none" ELSE "NoCreds")
    /\ Local /\ UNCHANGED <<sta, pvVars>>

CfgDnsOff ==
    /\ pc = "cfg_dnsoff"
    /\ dns' = FALSE
    /\ Goto("cfg_weboff")
    /\ Local /\ UNCHANGED <<sta, api, server, waiting, notify, http, submitted>>

(* httpd_stop() waits until the server's task has finished its handler.     *)
CfgWebOff ==
    /\ pc = "cfg_weboff"
    /\ http = "idle"
    /\ server' = FALSE
    /\ Call("stop_disc", "cfg_stopped") /\ UNCHANGED status
    /\ Local /\ UNCHANGED <<sta, api, dns, waiting, notify, http, submitted>>

CfgStopped ==
    /\ pc = "cfg_stopped"
    /\ IF status = "none" THEN Call("sta_begin", "cfg_conn") /\ UNCHANGED status
       ELSE Goto("idle")
    /\ Local /\ UNCHANGED <<sta, pvVars>>

LinkBits == {"StaConnected", "StaDisconnected"}

CfgConn == pc = "cfg_conn" /\ AwaitBits(LinkBits, "cfg_connwait")

ConnResultTrusting(b) == IF "StaDisconnected" \in b THEN "ConnectFailed" ELSE "Ok"
ConnResult(b) == IF "StaConnected" \in b THEN "Ok" ELSE "ConnectFailed"

CfgConnDone ==
    /\ pc = "cfg_connwait"
    /\ Return("idle", ConnResult(woken))
    /\ EndWait

ConfigViaAp ==
    \/ CfgBegin \/ CfgWait \/ CfgApUp \/ CfgApTimeout \/ CfgApSta \/ CfgServer \/ CfgDns
    \/ CfgArm \/ CfgTake \/ CfgDisarm \/ CfgCheck \/ CfgDnsOff \/ CfgWebOff
    \/ CfgStopped \/ CfgConn \/ CfgConnDone

-----------------------------------------------------------------------------
(* AutoConnect *)

(* LoadSavedCredsFromNvs; esp_wifi_get_config may fail.                     *)
AutoLoad ==
    /\ pc = "auto_load"
    /\ \/ /\ saved \notin {NoSsid, ApName}
          /\ sta' = saved
          /\ Call("sta_begin", "auto_conn") /\ UNCHANGED status
       \/ /\ Goto("cfg_begin")
          /\ UNCHANGED sta
    /\ Local /\ UNCHANGED pvVars

AutoConn == pc = "auto_conn" /\ AwaitBits(LinkBits, "auto_connwait")

(* With sta_retry_num_ = -1 the wait has no timeout.                        *)
AutoWaitOverNever == woken # {}
AutoWaitOver == woken # {} \/ RetryNum # -1

FallBackRunning == Return("cfg_begin", status)
FallBack == Call("stop_disc", "cfg_begin") /\ UNCHANGED status

AutoConnDone ==
    /\ pc = "auto_connwait"
    /\ AutoWaitOver
    /\ IF "StaConnected" \in woken THEN Return("idle", "Ok") ELSE FallBack
    /\ EndWait

AutoConnect == AutoLoad \/ AutoConn \/ AutoConnDone

-----------------------------------------------------------------------------
(* The HTTP server's task *)

(* ParsePost: the body's ssid field, blank or not, goes to sta_config_.     *)
PostWifi(s) ==
    /\ server /\ http = "idle"
    /\ sta' = s
    /\ http' = IF s # NoSsid THEN "check" ELSE "idle"
    /\ submitted' = (submitted \/ s # NoSsid)
    /\ UNCHANGED <<drvVars, hdlVars, pc, ret, idx, status, netif, tracked,
                   api, server, dns, waiting, notify>>

(* /configsave parses its body in the same way and notifies nobody.         *)
PostConfigSave(s) ==
    /\ server /\ http = "idle"
    /\ sta' = s
    /\ UNCHANGED <<drvVars, hdlVars, pc, ret, idx, status, netif, tracked, pvVars>>

HttpOnly == UNCHANGED <<drvVars, hdlVars, lcVars, api, server, dns, waiting, submitted>>

(* NotifyWifiSubmitted reads portal_waiting_task twice, without a lock.     *)
NotifyCheck ==
    /\ http = "check"
    /\ http' = IF waiting THEN "give" ELSE "idle"
    /\ HttpOnly /\ UNCHANGED notify

NotifyGive ==
    /\ http = "give"
    /\ notify' = TRUE
    /\ http' = "idle"
    /\ HttpOnly

(* A GET handler answers with what it reads through priv_->netif: the       *)
(* dashboard, the captive-portal probes.                                     *)
PageBegin ==
    /\ server /\ http = "idle"
    /\ http' = "page"
    /\ HttpOnly /\ UNCHANGED notify

PageEnd ==
    /\ http = "page"
    /\ http' = "idle"
    /\ HttpOnly /\ UNCHANGED notify

UploadBegin ==
    /\ server /\ http = "idle"
    /\ http' = "upload"
    /\ HttpOnly /\ UNCHANGED notify

UploadEnd ==
    /\ http = "upload"
    /\ http' = "idle"
    /\ HttpOnly /\ UNCHANGED notify

(* /reset answers, waits for half a second and restarts.                     *)
HandlerResetGet ==
    /\ server /\ http = "idle"
    /\ http' = "reset"
    /\ HttpOnly /\ UNCHANGED notify

(* All that is in RAM is as after power-up.                                  *)
RamLost ==
    /\ mode' = "NULL" /\ started' = FALSE /\ link' = "idle" /\ evq' = <<>> /\ everUp' = FALSE
    /\ bits' = {} /\ mask' = {} /\ woken' = {} /\ running' = NotRunning
    /\ reg' = [k \in Kinds |-> 0] /\ retry' = 0 /\ attempts' = 0
    /\ pc' = "idle" /\ ret' = "idle" /\ idx' = 1 /\ status' = "none"
    /\ netif' = "none" /\ tracked' = {} /\ sta' = NoSsid
    /\ api' = "none" /\ server' = FALSE /\ dns' = FALSE /\ waiting' = FALSE
    /\ notify' = FALSE /\ http' = "idle" /\ submitted' = FALSE

(* Manager::Init erases an NVS partition that nvs_flash_init cannot use, and *)
(* with it the station's credentials.                                        *)
NvsReady == saved' \in {saved, NoSsid}

(* esp_restart (/reset, a finished upload), an assertion (a null second read *)
(* in NotifyWifiSubmitted) or a power cut, and the Init() that follows.      *)
Restart == RamLost /\ NvsReady
EndReset == http = "reset" /\ Restart

Finish == NotifyCheck \/ NotifyGive \/ PageEnd
Http == \/ \E s \in Ssids \cup {NoSsid} : PostWifi(s) \/ PostConfigSave(s)
        \/ Finish \/ PageBegin \/ UploadBegin \/ UploadEnd \/ HandlerResetGet

-----------------------------------------------------------------------------
(* The application *)

EntryOf(c) == CASE c = "AutoConnect" -> "auto_load"
                [] c = "ConfigViaAp" -> "cfg_begin"
                [] c = "StartSta" -> "sta_begin"
                [] c = "StartAp" -> "ap_begin"
                [] c = "Stop" -> "stop_disc"

AppCall(c) ==
    /\ pc = "idle"
    /\ StopFirst /\ c # "Stop" => netif = "none" /\ tracked = {}
    /\ Call(EntryOf(c), "idle")
    /\ status' = "none"
    /\ api' = c
    /\ submitted' = FALSE
    /\ Local /\ UNCHANGED <<sta, server, dns, waiting, notify, http>>

(* A step of the call in progress.                                          *)
CallStep == \/ (StartSta \/ StartAp \/ Stop) /\ UNCHANGED pvVars
            \/ ConfigViaAp \/ AutoConnect

Loop == EventLoop /\ UNCHANGED <<lcVars, pvVars>>
Driver == Air /\ UNCHANGED <<hdlVars, lcVars, pvVars>>

Next == \/ \E c \in AppCalls : AppCall(c)
        \/ CallStep \/ Loop \/ Driver \/ Http \/ Restart

Spec == Init /\ [][Next]_vars

(* The event loop and a handler that has its request are always scheduled.  *)
(* The application task is scheduled too; what it may wait for is served in *)
(* order (a blocked sender of the event queue, the loop's mutex) or at the  *)
(* head of every turn of the server's loop (httpd_stop's control message),  *)
(* so it is not passed over for ever: strong fairness.                      *)
FairSpec ==
    Spec /\ SF_vars(CallStep) /\ WF_vars(Loop) /\ WF_vars(Finish) /\ WF_vars(EndReset)

(* ... and whoever uploads firmware eventually ends or drops the upload.    *)
ClientFairSpec == FairSpec /\ WF_vars(UploadEnd)

-----------------------------------------------------------------------------
(* Properties *)

(* Whatever way a call ends, the portal is gone: no web server, no DNS task, *)
(* no task registered to be notified (ConfigViaAp's five exits).             *)
TornDown == pc = "idle" => ~server /\ ~dns /\ ~waiting

(* While the server can run a handler, the netif and the access point the    *)
(* handlers use exist: it starts after them and stops before them.           *)
ServedOverAp == server => netif = "AP" /\ started /\ HasAp(mode)

(* Once the application's Stop() has returned nothing stirs: no handler is   *)
(* left, no link, and no late event sets a bit again.                        *)
StoppedIsQuiet ==
    pc = "idle" /\ api = "Stop" /\ status = "Ok" =>
        ~started /\ link = "idle" /\ bits = {} /\ \A k \in Kinds : reg[k] = 0

(* Between two successes the disconnect handler reconnects at most           *)
(* SetStaRetryNum() times, and then gives up.                                *)
RetryBudget == RetryNum >= 0 => attempts <= RetryNum

(* A call answers Ok only if an address was obtained since the driver was    *)
(* last started, never on the strength of an event of an earlier session.    *)
OkIsFresh == pc = "idle" /\ status = "Ok" /\ api \in {"AutoConnect", "ConfigViaAp"} => everUp

(* A call that answers Ok leaves in NVS the SSID the component holds, which  *)
(* the next AutoConnect loads; only a form that blanked it parts the two.    *)
OkIsSaved ==
    pc = "idle" /\ status = "Ok" /\ api \in {"AutoConnect", "ConfigViaAp"} => sta \in {saved, NoSsid}

DiscComing ==
    \/ \E i \in 1..Len(evq) : evq[i] = "STA_DISC"
    \/ Enter("STA_DISC")

(* IsConnected() may lag behind the link only while the news is on its way   *)
(* or Stop() is between stopping the driver and clearing the bits.           *)
ConnBitAccurate ==
    "StaConnected" \in bits =>
        link = "up" \/ DiscComing \/ pc \in {"stop_unreg", "stop_clear"}

(* While the portal is served the station interface it needs for scanning    *)
(* never tries to join a network by itself.                                  *)
PortalStationIdle == server => link = "idle"

(* Every call returns.                                                       *)
CallsReturn == pc # "idle" ~> pc = "idle"

-----------------------------------------------------------------------------
(* What the calls add up to *)

(* StartSta, StartAp and Stop belong to the stage they return to.            *)
At(p) == pc = p \/ (pc \in StartStaPoints \cup StartApPoints \cup StopPoints /\ ret = p)

FlowStage ==
    CASE pc = "idle" -> "rest"
      [] ret = "idle" /\ pc \in StartStaPoints -> "station"
      [] ret = "idle" /\ pc \in StartApPoints -> "accesspoint"
      [] ret = "idle" /\ pc \in StopPoints -> "stopping"
      [] pc = "auto_load" -> "choosing"
      [] At("auto_conn") \/ At("auto_connwait") -> "trying"
      [] At("cfg_begin") \/ At("cfg_wait") \/ pc \in {"cfg_blocked", "cfg_apsta", "cfg_server"}
            -> "opening"
      [] pc \in {"cfg_dns", "cfg_arm", "cfg_take"} -> "serving"
      [] pc \in {"cfg_disarm", "cfg_check", "cfg_dnsoff", "cfg_weboff"} \/ At("cfg_stopped")
            -> "closing"
      [] At("cfg_conn") \/ pc = "cfg_connwait" -> "joining"

Flow == INSTANCE ProvisioningFlow WITH
          stage <- FlowStage, portal <- server, form <- sta, creds <- saved, answer <- status

(* The three tasks' steps add up to the flow that ProvisioningFlow states:   *)
(* saved credentials are tried once and unharmed, the portal is served once, *)
(* and closed before anything is joined or answered; only then, and only     *)
(* with what the last form said, is NVS written; Ok leaves a name in it.     *)
FlowBehaves == Flow!Spec

-----------------------------------------------------------------------------
(* What comments and documents say, and the interleavings refute             *)

(* Once ConfigViaAp waits for the form, a submission answered during this    *)
(* call is waiting for it ("Blocks until the form is submitted",             *)
(* WiFiPan.hpp): the notification is lost if the POST is handled after the   *)
(* server starts and before portal_waiting_task is set.                      *)
SubmissionPending == pc = "cfg_take" /\ http = "idle" /\ submitted => notify

(* ConfigViaAp wakes only once an SSID was submitted to it ("we only wake up *)
(* once an SSID has actually been submitted"), not on a notification that an *)
(* earlier call left behind.                                                 *)
WokenBySubmission == pc = "cfg_check" => submitted

(* ConfigViaAp never switches to STA with a blank SSID ("double-check here   *)
(* before switching to STA"): the server outlives the check by 300 ms.       *)
SwitchesWithSsid == pc = "sta_begin" /\ ret = "cfg_conn" => HaveSsid
=============================================================================
