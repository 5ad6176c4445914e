-------------------------- MODULE ProvisioningFlow ---------------------------
(***************************************************************************)
(* What provisioning promises whoever calls it, and whoever fills in the    *)
(* form: how a call goes from one stage to the next and how it may end,     *)
(* when the portal is open, what a form changes and what reaches NVS.       *)
(* Provisioning implements it.                                              *)
(***************************************************************************)

CONSTANTS
    Ssids,        \* the network names a user can submit
    NoSsid,       \* the blank one
    ApName        \* the default access point's: never taken for saved credentials

VARIABLES
    stage,        \* what the call in progress is doing
    portal,       \* the form can be submitted
    form,         \* the name that will be joined
    creds,        \* the name kept in NVS
    answer        \* of the call in progress, once it is decided, or of the last

flowVars == <<stage, portal, form, creds, answer>>

Init ==
    /\ stage = "rest" /\ answer = "none"
    /\ portal = FALSE
    /\ form = NoSsid
    /\ creds \in Ssids \cup {NoSsid}

Move(from, to) == stage = from /\ stage' = to

(* AutoConnect begins by choosing, ConfigViaAp by opening the portal.        *)
FirstStages == {"choosing", "opening", "station", "accesspoint", "stopping"}

Begin ==
    /\ \E first \in FirstStages : Move("rest", first)
    /\ answer' = "none"
    /\ UNCHANGED <<portal, form, creds>>

(* Saved credentials are tried once; they may be unreadable.                 *)
TrySaved ==
    /\ Move("choosing", "trying")
    /\ creds \notin {NoSsid, ApName}
    /\ form' = creds
    /\ UNCHANGED <<portal, creds, answer>>

SkipSaved == Move("choosing", "opening") /\ UNCHANGED <<portal, form, creds, answer>>
FallBack == Move("trying", "opening") /\ UNCHANGED <<portal, form, creds, answer>>

Open ==
    /\ Move("opening", "serving")
    /\ portal' \in BOOLEAN
    /\ UNCHANGED <<form, creds, answer>>

OpenTooLate ==
    /\ Move("opening", "closing")
    /\ answer' = "Timeout"
    /\ UNCHANGED <<portal, form, creds>>

Submit(s) == portal /\ form' = s /\ UNCHANGED <<stage, portal, creds, answer>>

(* A form has been submitted, or none in time.                               *)
Served ==
    /\ Move("serving", "closing")
    /\ answer' \in {"none", "Timeout"}
    /\ UNCHANGED <<portal, form, creds>>

Reject ==
    /\ stage = "closing" /\ answer = "none"
    /\ form = NoSsid
    /\ answer' = "NoCreds"
    /\ UNCHANGED <<stage, portal, form, creds>>

Close ==
    /\ stage = "closing"
    /\ portal' = FALSE
    /\ UNCHANGED <<stage, form, creds, answer>>

(* Only a portal that is closed is left, to join or to answer.               *)
Leave ==
    /\ Move("closing", IF answer = "none" THEN "joining" ELSE "rest")
    /\ ~portal
    /\ UNCHANGED <<portal, form, creds, answer>>

(* The one way into NVS; a blank name does not take it.                      *)
Store ==
    /\ stage \in {"joining", "station"}
    /\ form # NoSsid
    /\ creds' = form
    /\ UNCHANGED <<stage, portal, form, answer>>

End(from, answers) ==
    /\ Move(from, "rest")
    /\ answer' \in answers
    /\ UNCHANGED <<portal, form, creds>>

(* Who has joined leaves a name in NVS for the next AutoConnect.             *)
Joined == creds # NoSsid /\ (End("trying", {"Ok"}) \/ End("joining", {"Ok"}))

DriverErrors == {"WifiError", "NetifError"}

Failed ==
    \/ End("trying", DriverErrors)
    \/ End("opening", DriverErrors \cup {"WeakApPassword"})
    \/ End("joining", DriverErrors \cup {"ConnectFailed"})
    \/ End("station", DriverErrors)
    \/ End("accesspoint", DriverErrors)

Done == \E s \in {"station", "accesspoint", "stopping"} : End(s, {"Ok"})

(* Whatever was going on, NVS survives, unless the device has to erase it.   *)
PowerCut ==
    /\ stage' = "rest" /\ answer' = "none" /\ portal' = FALSE /\ form' = NoSsid
    /\ creds' \in {creds, NoSsid}

Next ==
    \/ Begin \/ TrySaved \/ SkipSaved \/ FallBack \/ Open \/ OpenTooLate
    \/ \E s \in Ssids \cup {NoSsid} : Submit(s)
    \/ Served \/ Reject \/ Close \/ Leave \/ Store \/ Joined \/ Failed \/ Done \/ PowerCut

Spec == Init /\ [][Next]_flowVars
=============================================================================
