------------------------------ MODULE StaEvents ------------------------------
(***************************************************************************)
(* Manager::HandleStaEvent and HandleApEvent, run by the event loop task,   *)
(* and the FreeRTOS event group they share with the application task.       *)
(*                                                                          *)
(* The loop's mutex is held while an event is delivered, so registering and *)
(* unregistering handlers (module Lifecycle) wait for running = NotRunning. *)
(***************************************************************************)
EXTENDS EspWifi, Integers

CONSTANTS
    RetryNum,     \* SetStaRetryNum(): -1 retries for ever, n >= 0 n times
    RegLimit      \* handler instances of one kind the heap has room for

ASSUME RetryNumAssumption == RetryNum \in Int
ASSUME RegLimitAssumption == RegLimit \in Nat \ {0}

VARIABLES
    bits,         \* priv_->group
    mask,         \* the bits the application task is blocked on
    woken,        \* the bits it was unblocked with, {} while it is not
    running,      \* the event being delivered
    reg,          \* handler instances registered for each kind
    retry,        \* priv_->sta_retry_remaining
    attempts      \* history: reconnections since the budget was last refilled

hdlVars == <<bits, mask, woken, running, reg, retry, attempts>>

Bits == {"StaStart", "StaDisconnected", "StaConnected", "ApStart"}
Kinds == EventKinds \cup {"AP_STACONN", "AP_STADISC"}
NotRunning == [kind |-> "none", left |-> 0, phase |-> "enter"]
Runs == [kind : EventKinds \cup {"none"}, left : 0..RegLimit, phase : {"enter", "retry"}]

HdlTypeOK ==
    /\ bits \in SUBSET Bits
    /\ mask \in SUBSET Bits
    /\ woken \in SUBSET Bits
    /\ running \in Runs
    /\ reg \in [Kinds -> 0..RegLimit]
    /\ retry \in Int
    /\ attempts \in Nat

HdlInit ==
    /\ bits = {} /\ mask = {} /\ woken = {}
    /\ running = NotRunning
    /\ reg = [k \in Kinds |-> 0]
    /\ retry = 0
    /\ attempts = 0

(* xEventGroupSetBits/ClearBits.  Setting a bit a task waits for unblocks    *)
(* it with the value the group has at that moment.                           *)
UpdateBits(cleared, set) ==
    LET now == (bits \ cleared) \cup set
    IN  /\ bits' = now
        /\ woken' = IF woken = {} /\ mask \cap now # {} THEN now ELSE woken

Enter(kind) == running.kind = kind /\ running.phase = "enter"

(* This instance of the handler returns; the next one, if any, is called.    *)
NextInstance(run) ==
    IF run.left > 1 THEN [run EXCEPT !.left = @ - 1, !.phase = "enter"] ELSE NotRunning

(* History counter, saturating one past the largest budget a run uses.       *)
CountAttempt(n) == IF RetryNum >= 0 /\ n <= RetryNum THEN n + 1 ELSE n

(* The loop takes the oldest event; with no handler registered it is lost.   *)
Dispatch ==
    /\ running = NotRunning
    /\ evq # <<>>
    /\ evq' = Tail(evq)
    /\ running' = IF reg[Head(evq)] = 0 THEN NotRunning
                  ELSE [kind |-> Head(evq), left |-> reg[Head(evq)], phase |-> "enter"]
    /\ UNCHANGED <<mode, started, link, saved, everUp, bits, mask, woken, reg, retry, attempts>>

OnStaStart ==
    /\ Enter("STA_START")
    /\ UpdateBits({}, {"StaStart"})
    /\ retry' = RetryNum
    /\ attempts' = 0
    /\ ConnectsTo(link')
    /\ running' = NextInstance(running)
    /\ UNCHANGED <<mode, started, saved, evq, everUp, mask, reg>>

(* A disconnection that belongs to no started station is ignored.            *)
DiscIsStale == "StaStart" \notin bits

OnStaDiscIgnored ==
    /\ Enter("STA_DISC")
    /\ DiscIsStale
    /\ running' = NextInstance(running)
    /\ UNCHANGED <<drvVars, bits, mask, woken, reg, retry, attempts>>

DiscClearsNothing == {}
DiscClears == {"StaConnected"}

(* The bits are published first: the application task may wake, and even     *)
(* stop the driver, before the handler goes on to reconnect.                 *)
OnStaDiscBits ==
    /\ Enter("STA_DISC")
    /\ ~DiscIsStale
    /\ UpdateBits(DiscClears, {"StaDisconnected"})
    /\ running' = [running EXCEPT !.phase = "retry"]
    /\ UNCHANGED <<drvVars, mask, reg, retry, attempts>>

RetryLeft == retry # 0
UnspentRetry == retry
SpentRetry == IF retry > 0 THEN retry - 1 ELSE retry

OnStaDiscRetry ==
    /\ running.phase = "retry"
    /\ \/ /\ RetryLeft
          /\ retry' = SpentRetry
          /\ attempts' = CountAttempt(attempts)
          /\ ConnectsTo(link')
       \/ /\ ~RetryLeft
          /\ retry' = RetryNum
          /\ UNCHANGED <<attempts, link>>
    /\ running' = NextInstance(running)
    /\ UNCHANGED <<mode, started, saved, evq, everUp, bits, mask, woken, reg>>

OnGotIp ==
    /\ Enter("GOT_IP")
    /\ retry' = RetryNum
    /\ attempts' = 0
    /\ UpdateBits({"StaDisconnected"}, {"StaConnected"})
    /\ running' = NextInstance(running)
    /\ UNCHANGED <<drvVars, mask, reg>>

OnApStart ==
    /\ Enter("AP_START")
    /\ UpdateBits({}, {"ApStart"})
    /\ running' = NextInstance(running)
    /\ UNCHANGED <<drvVars, mask, reg, retry, attempts>>

EventLoop ==
    \/ Dispatch \/ OnStaStart \/ OnStaDiscIgnored \/ OnStaDiscBits
    \/ OnStaDiscRetry \/ OnGotIp \/ OnApStart
=============================================================================
