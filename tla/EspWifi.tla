------------------------------- MODULE EspWifi -------------------------------
(***************************************************************************)
(* The ESP-IDF WiFi driver, its NVS copy of the STA configuration and the   *)
(* default event loop's queue, as src/WiFiPan_Cpp.cpp uses them.  None of   *)
(* this code is in the repository: the module is an environment model.      *)
(*                                                                          *)
(* Events reach the component through one FIFO queue.  The driver posts     *)
(* with an unbounded wait, so a post is enabled only while there is room.   *)
(* Only the four kinds whose handlers change state are queued; the          *)
(* AP_STACONNECTED/AP_STADISCONNECTED handlers only log.                    *)
(***************************************************************************)
EXTENDS Naturals, Sequences

CONSTANTS
    Ssids,      \* the network names a user can submit
    NoSsid,     \* the blank SSID
    QueueLen    \* room in the default event loop's queue (a bound of the model)

ASSUME NoSsidAssumption == NoSsid \notin Ssids
ASSUME QueueLenAssumption == QueueLen \in Nat \ {0}

VARIABLES
    mode,       \* esp_wifi_get_mode()
    started,    \* esp_wifi_start() has been called, esp_wifi_stop() has not
    link,       \* the station link
    saved,      \* the SSID of the STA configuration kept in NVS
    evq,        \* the default event loop's queue
    everUp      \* history: an address was obtained since the driver started

drvVars == <<mode, started, link, saved, evq, everUp>>

Modes == {"NULL", "STA", "AP", "APSTA"}
Links == {"idle", "joining", "assoc", "up"}
EventKinds == {"STA_START", "STA_DISC", "GOT_IP", "AP_START"}
HasSta(m) == m \in {"STA", "APSTA"}
HasAp(m) == m \in {"AP", "APSTA"}

DrvTypeOK ==
    /\ mode \in Modes
    /\ started \in BOOLEAN
    /\ link \in Links
    /\ saved \in Ssids \cup {NoSsid}
    /\ evq \in Seq(EventKinds)
    /\ everUp \in BOOLEAN

(* After power-up NVS holds whatever an earlier life of the device left.    *)
DrvInit ==
    /\ mode = "NULL"
    /\ started = FALSE
    /\ link = "idle"
    /\ saved \in Ssids \cup {NoSsid}
    /\ evq = <<>>
    /\ everUp = FALSE

Post(events) ==
    /\ Len(evq) + Len(events) <= QueueLen
    /\ evq' = evq \o events

When(cond, kind) == IF cond THEN <<kind>> ELSE <<>>

(* What bringing interfaces up under mode m posts, given those that were up.*)
StartEvents(m, staUp, apUp) ==
    When(HasSta(m) /\ ~staUp, "STA_START") \o When(HasAp(m) /\ ~apUp, "AP_START")

SetMode(m) ==
    /\ mode' = m
    /\ link' = IF HasSta(m) THEN link ELSE "idle"
    /\ Post(When(link # "idle" /\ ~HasSta(m), "STA_DISC")
            \o IF started THEN StartEvents(m, HasSta(mode), HasAp(mode)) ELSE <<>>)
    /\ UNCHANGED <<started, saved, everUp>>

SetStaConfig(s) ==
    /\ saved' = s
    /\ UNCHANGED <<mode, started, link, evq, everUp>>

DriverStart ==
    /\ started' = TRUE
    /\ Post(StartEvents(mode, started, started))
    /\ UNCHANGED <<mode, link, saved, everUp>>

Disconnect ==
    /\ link' = "idle"
    /\ Post(When(link # "idle", "STA_DISC"))
    /\ UNCHANGED <<mode, started, saved, everUp>>

DriverStop ==
    /\ started' = FALSE
    /\ link' = "idle"
    /\ Post(When(link # "idle", "STA_DISC"))
    /\ everUp' = FALSE
    /\ UNCHANGED <<mode, saved>>

(* esp_wifi_connect(): refused unless there is a started station interface,  *)
(* idle and configured; it may also fail for reasons of its own.             *)
ConnectsTo(l) ==
    \/ l = link
    \/ started /\ HasSta(mode) /\ link = "idle" /\ saved # NoSsid /\ l = "joining"

(* The air: association, DHCP, loss of the link.                             *)
StaJoin ==
    /\ link = "joining"
    /\ link' = "assoc"
    /\ UNCHANGED <<mode, started, saved, evq, everUp>>

StaGotIp ==
    /\ link = "assoc"
    /\ link' = "up"
    /\ everUp' = TRUE
    /\ Post(<<"GOT_IP">>)
    /\ UNCHANGED <<mode, started, saved>>

StaLost ==
    /\ link # "idle"
    /\ link' = "idle"
    /\ Post(<<"STA_DISC">>)
    /\ UNCHANGED <<mode, started, saved, everUp>>

Air == StaJoin \/ StaGotIp \/ StaLost
=============================================================================
