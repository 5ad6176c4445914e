------------------------------ MODULE ExampleApp ------------------------------
(***************************************************************************)
(* The two example applications: app_main and, after it, the task that      *)
(* watches the BOOT button, which make all calls; the task that prints the  *)
(* status; and the LED, which the connection callbacks set too.             *)
(***************************************************************************)
EXTENDS ManagerLife

VARIABLES
    main,     \* where app_main, or later ButtonMonitorTask, is
    led       \* the colour last set

appVars == <<vars, lifeVars, main, led>>

Stages == {"boot", "init", "inited", "first", "serve", "watch", "quiet", "stopping", "portal",
           "destroy", "over"}
Colours == {"White", "Off", "Blue", "Yellow", "Green", "Red"}

AppTypeOK == TypeOK /\ LifeTypeOK /\ main \in Stages /\ led \in Colours

AppInit == Init /\ LifeInit /\ main = "boot" /\ led = "White"

Stage(from, to) == main = from /\ main' = to
LightOnly == UNCHANGED <<vars, life, have>>

-----------------------------------------------------------------------------
(* app_main *)

(* BootButtonHeldForConfig leaves the LED off if the button was down at all. *)
Boot ==
    /\ Stage("boot", "init")
    /\ led' \in {"White", "Off"}
    /\ LightOnly /\ UNCHANGED reader

InitManager == Stage("init", "inited") /\ CallInit /\ UNCHANGED led

(* The C++ application returns, the C application destroys the Manager.      *)
InitFailed ==
    /\ AtRest /\ status # "Ok"
    /\ Stage("inited", "over") \/ Stage("inited", "destroy")
    /\ led' = "Off"
    /\ LightOnly /\ UNCHANGED reader

DestroyManager == Stage("destroy", "over") /\ CallDestroy /\ UNCHANGED led

FirstCall ==
    /\ Stage("inited", "first")
    /\ life = "none" /\ status = "Ok"
    /\ \/ AppCall("ConfigViaAp") /\ led' = "Blue"
       \/ AppCall("AutoConnect") /\ led' = "Yellow"
    /\ UNCHANGED lifeVars

(* LedBlink ends with the LED off.  The status task starts in either case.   *)
FirstDone ==
    /\ AtRest
    /\ \/ status = "Ok" /\ Stage("first", "serve") /\ led' = "Green" /\ UNCHANGED reader
       \/ status # "Ok" /\ Stage("first", "watch") /\ led' = "Off" /\ reader' = "idle"
    /\ LightOnly

(* StartWebServer stands in both applications as a comment, with what it is  *)
(* for; that it may fail covers the applications as they are.                *)
Serve ==
    /\ Stage("serve", "watch")
    /\ StartWebServer
    /\ reader' = IF reader = "absent" THEN "idle" ELSE reader
    /\ UNCHANGED led

AppMain == Boot \/ InitManager \/ InitFailed \/ DestroyManager \/ FirstCall \/ FirstDone \/ Serve

-----------------------------------------------------------------------------
(* ButtonMonitorTask *)

ServerLeftOn == AtRest /\ UNCHANGED <<vars, lifeVars>>
ServerOff == StopWebServer

ButtonHeld == Stage("watch", "quiet") /\ ServerOff /\ UNCHANGED led

(* Stop() first, so that the calling discipline StopFirst is kept.           *)
StopSkipped == status' = "Ok" /\ AtRest /\ UNCHANGED <<drvVars, hdlVars, pc, ret, idx, netif, tracked, sta, pvVars>>
StopCalled == AppCall("Stop")

(* LedSet(Blue) stands between the two calls.                                *)
BlueBefore(stage) == IF stage = "stopping" THEN "Blue" ELSE led
BlueFrom(stage) == IF stage = "portal" THEN "Blue" ELSE led

QuietFirst ==
    /\ Stage("quiet", "stopping")
    /\ StopCalled
    /\ led' = BlueFrom("stopping")
    /\ UNCHANGED lifeVars

Reprovision ==
    /\ Stage("stopping", "portal")
    /\ AppCall("ConfigViaAp")
    /\ led' = BlueFrom("portal")
    /\ UNCHANGED lifeVars

ReprovisionDone ==
    /\ AtRest
    /\ \/ status = "Ok" /\ Stage("portal", "serve") /\ led' = "Green"
       \/ status # "Ok" /\ Stage("portal", "watch") /\ led' = "Red"
    /\ LightOnly /\ UNCHANGED reader

ButtonMonitorTask == ButtonHeld \/ QuietFirst \/ Reprovision \/ ReprovisionDone

-----------------------------------------------------------------------------
(* OnWifiConnected and OnWifiDisconnected, called from the event handlers.   *)
(* The second is called on the first of a row of disconnections only.        *)
Callback ==
    CASE Enter("GOT_IP") -> "Green"
      [] Enter("STA_DISC") /\ ~DiscIsStale /\ "StaDisconnected" \notin bits -> "Red"
      [] OTHER -> led

AppKept == UNCHANGED <<lifeVars, main>>

AppNext ==
    \/ AppMain \/ ButtonMonitorTask
    \/ (LifeCall \/ InitWifi \/ Release \/ CurrentIpString) /\ UNCHANGED <<main, led>>
    \/ Loop /\ led' = Callback /\ AppKept
    \/ (Driver \/ Http) /\ UNCHANGED led /\ AppKept
    \/ Reboot /\ main' = "boot" /\ led' = "White"

AppSpec == AppInit /\ [][AppNext]_appVars

-----------------------------------------------------------------------------
(* Properties *)

(* The applications keep the discipline under which Provisioning is checked: *)
(* nothing is started while an earlier start has left a netif or a handler.  *)
StopsFirst ==
    [][pc = "idle" /\ pc' \in {"auto_load", "cfg_begin"} =>
           netif = "none" /\ tracked = {} /\ \A k \in Kinds : reg[k] = 0]_appVars

(* While the re-opened portal is served the LED says so: the disconnection   *)
(* that Stop() causes has run its callback before, and none runs after.      *)
PortalIsBlue == main = "portal" /\ server => led = "Blue"

(* A green LED, once the application only watches the button, means that an  *)
(* address was obtained in the session that runs.                            *)
GreenWasConnected == main = "watch" /\ led = "Green" => everUp
=============================================================================
