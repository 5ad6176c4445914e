----------------------------- MODULE ManagerLife -----------------------------
(***************************************************************************)
(* Manager::Init and ~Manager around the calls of Provisioning, the web     *)
(* server as a public call, and CurrentIpString() from a task of its own.   *)
(* The application that makes these calls is ExampleApp.                     *)
(***************************************************************************)
EXTENDS Provisioning

(* What Init acquires after priv_, in this order, and what it answers when   *)
(* one of them fails.                                                        *)
LoopBeforeGroup == <<"netif", "loop", "group", "nvs", "wifi">>
Resources == <<"netif", "group", "loop", "nvs", "wifi">>
Failure == <<"NetifError", "NoMem", "InitFailed", "InitFailed", "WifiError">>
Acquired(n) == {"impl"} \cup {Resources[i] : i \in 1..n}

CONSTANT MayFail    \* what the device may be unable to provide

ASSUME MayFailAssumption == MayFail \subseteq {"netif", "group", "loop", "nvs", "wifi"}

VARIABLES
    life,     \* Init or ~Manager, while it waits for the Stop() it calls
    have,     \* what this Manager has acquired
    reader    \* the task in CurrentIpString: it holds priv_->netif or not

lifeVars == <<life, have, reader>>

LifeTypeOK ==
    /\ life \in {"none", "init", "destroy"}
    /\ have \subseteq Acquired(5)
    /\ reader \in {"absent", "idle", "holds"}

LifeInit == life = "none" /\ have = {} /\ reader = "absent"

AtRest == pc = "idle" /\ life = "none"
PvKept == UNCHANGED <<sta, server, dns, waiting, notify, http, submitted>>
CallStop == Call("stop_disc", "idle") /\ status' = "none"

(* NVS may have to be erased as long as this Manager has not initialised it. *)
DriverKept == UNCHANGED <<mode, started, link, evq, everUp>>
NvsInit == DriverKept /\ IF "nvs" \in have THEN UNCHANGED saved ELSE NvsReady

(* A failed Init keeps what it acquired, for the next one to go on from.  At *)
(* NVS it may fail before, in or after the erase.                            *)
InitFails(n) ==
    /\ AtRest
    /\ Resources[n] \in MayFail \ have
    /\ have' = have \cup Acquired(n - 1)
    /\ status' = Failure[n]
    /\ api' = "none"
    /\ IF Resources[n] = "nvs" THEN NvsInit ELSE UNCHANGED drvVars
    /\ PvKept /\ UNCHANGED <<hdlVars, netif, tracked, pc, ret, idx, life, reader>>

(* Init reaches the driver, and stops it first if it was installed already.  *)
InitReachesDriver ==
    /\ AtRest
    /\ have' = have \cup Acquired(4)
    /\ life' = "init"
    /\ IF "wifi" \in have THEN CallStop ELSE status' = "none" /\ UNCHANGED <<pc, ret, idx>>
    /\ api' = "none"
    /\ NvsInit
    /\ PvKept /\ UNCHANGED <<hdlVars, netif, tracked, reader>>

CallInit == InitReachesDriver \/ \E n \in 1..4 : InitFails(n)

InitWifi ==
    /\ life = "init" /\ pc = "idle"
    /\ life' = "none"
    /\ \/ have' = have \cup {"wifi"} /\ status' = "Ok"
       \/ "wifi" \in MayFail /\ status' = Failure[5] /\ UNCHANGED have
    /\ Local /\ PvKept /\ UNCHANGED <<pc, ret, idx, api, reader>>

CallDestroy ==
    /\ AtRest
    /\ "impl" \in have
    /\ life' = "destroy"
    /\ CallStop
    /\ api' = "none"
    /\ Local /\ PvKept /\ UNCHANGED <<have, reader>>

(* After its Stop() the destructor gives back the driver, NVS and the event  *)
(* loop, with whatever is queued or registered there; the group is leaked.   *)
Release ==
    /\ life = "destroy" /\ pc = "idle"
    /\ running = NotRunning
    /\ life' = "none"
    /\ have' = have \cap {"netif"}
    /\ mode' = "NULL" /\ evq' = <<>> /\ reg' = [k \in Kinds |-> 0]
    /\ PvKept /\ UNCHANGED <<started, link, saved, everUp, bits, mask, woken, running, retry, attempts,
                  pc, ret, idx, status, netif, tracked, api, reader>>

-----------------------------------------------------------------------------
(* The web server as the application starts and stops it *)

StartWebServer ==
    /\ AtRest
    /\ server' \in {server, TRUE}
    /\ Local /\ UNCHANGED <<pc, ret, idx, status, sta, api, dns, waiting, notify, http, submitted, life, have>>

StopWebServer ==
    /\ AtRest
    /\ http = "idle"
    /\ server' = FALSE
    /\ Local /\ UNCHANGED <<pc, ret, idx, status, sta, api, dns, waiting, notify, http, submitted, lifeVars>>

-----------------------------------------------------------------------------
(* CurrentIpString reads priv_->netif, then has the netif asked              *)

ReadNetif ==
    /\ reader = "idle"
    /\ netif # "none"
    /\ reader' = "holds"
    /\ UNCHANGED <<vars, life, have>>

UseNetif ==
    /\ reader = "holds"
    /\ reader' = "idle"
    /\ UNCHANGED <<vars, life, have>>

CurrentIpString == ReadNetif \/ UseNetif

-----------------------------------------------------------------------------
(* FreeRTOS asserts that an event group exists: the step is never taken      *)
(* without one, and the reboot that follows is Reboot.                       *)
GroupPoints == {"sta_begin", "ap_begin", "stop_clear"}

LifeCall ==
    /\ pc \in GroupPoints => "group" \in have
    /\ CallStep
    /\ UNCHANGED lifeVars

Reboot == RamLost /\ UNCHANGED saved /\ life' = "none" /\ have' = {} /\ reader' = "absent"

-----------------------------------------------------------------------------
(* Properties *)

(* An Init that got past the event group leaves one for every call after it, *)
(* whatever it failed at then.  Where it did not get that far one call does   *)
(* use the group there is not: the Stop() of ~Manager, which the C example    *)
(* runs into, against "behave identically" (examples/README.md).              *)
OnlyDestroyMissesGroup ==
    pc \in GroupPoints /\ "group" \notin have => life = "destroy" /\ have \subseteq {"impl", "netif"}

(* A netif is not replaced or destroyed while a GET handler that has read    *)
(* priv_->netif is running: servers stop before the netif they serve over.   *)
PageKeepsNetif == [][http = "page" /\ http' = "page" => netif' = netif]_vars

(* A task that asks CurrentIpString() holds a netif that still exists: "or   *)
(* 192.168.4.1 if netif isn't up yet" (WiFiPan.hpp).                         *)
StatusUsesLiveNetif == reader = "holds" => netif # "none"
=============================================================================
