# WiFiPan: specifications, model checking and proofs

TLA+ models of the WiFiPan component (captive-portal WiFi provisioning for
ESP32 / ESP-IDF), the TLC configurations that check them on small instances,
and the theorems about them that TLAPS checks for every value of their
constants.  Source lines are relative to the repository root; `PROJECT.json`
maps every definition that models code to the lines it models.

## 1. The system

A `Manager` belongs to one application and is used by one of its tasks.  Up to
four tasks touch its state:

| task | runs | shared state it touches |
|------|------|-------------------------|
| application | the blocking calls `Init`, `StartSta`, `StartAp`, `Stop`, `ConfigViaAp`, `AutoConnect` | everything |
| default event loop | `HandleStaEvent`, `HandleApEvent` | the event group, `sta_retry_remaining`, the driver (`esp_wifi_connect`) |
| HTTP server (one task, one handler at a time) | the `Handler...` functions | `sta_config_`, the `Page`, `portal_waiting_task`, the OTA partition |
| DNS server | `DnsTaskEntry`, `DnsPoll` | its own socket and buffers |

Apart from the event group and the task notification there is no
synchronisation: `portal_waiting_task`, `sta_config_`, `netif` and `server` are
plain fields read by one task and written by another.

### Components

**Lifecycle** (`StartSta`, `StartAp`, `Stop`; `WiFiPan_Cpp.cpp`).  State: the
driver's mode and started flag, `netif`, six event handler instances.  Each
function is a sequence of driver calls of which each may fail, while event
handlers run between any two of them.  *Correct when* `Stop` really quiets the
component (no handler, no link, no bit set by an event that was on its way) and
handles and registrations stay in step.

**Event handlers and event group.**  State: four event bits, the retry budget.
The station's disconnect handler publishes its bits and then reconnects or gives
up; it must ignore the disconnection that `Stop` itself causes.  *Correct when*
the connected bit says what the link is, an event of an earlier session is never
taken for one of this session, and reconnections respect `SetStaRetryNum`.

**Provisioning** (`ConfigViaAp`, `AutoConnect`, `NotifyWifiSubmitted`).  State:
`server`, the DNS handle, `portal_waiting_task`, the task notification,
`sta_config_`, the credentials in NVS.  `ConfigViaAp` starts the access point,
the web server and the DNS task, waits for a form or a timeout, tears everything
down on each of its exits and joins the network.  *Correct when* every exit
leaves no portal behind, the handlers never outlive the access point they use,
a submission is neither lost nor invented, only a submitted name reaches NVS,
and every call returns.

**HTTP portal and form parsing** (`RecvBody`, `ParsePost`, `UrlDecode`, the
`Page`).  State: ten fixed-size parameters, the SSID and password fields.
*Correct when* a form is applied exactly as the user sent it.

**OTA upload** (`HandlerOtaPost`).  State: the OTA handle, the tail held back
because it may contain the closing delimiter.  *Correct when* the image, all of
it and nothing else, is flashed, and every failure releases the handle.

**DNS server.**  State: handle, socket, task, a receive buffer that is never
cleared.  *Correct when* a failed start gives back what it took and the parser
uses only bytes that were received.

**`Init` and `~Manager`.**  State: what the component has acquired, in order.
*Correct when* a failure part-way leaves something a later `Init` or the
destructor can work with, and no call uses what was never acquired.

**The `/config` and the scan page** (`Page::BuildConfigInject`,
`BuildScanInjectScript`, `WiFiPan_Html.h`).  State: what a browser shows and
what its scripts hold.  A value travels through a JSON string, an HTML
attribute, a form body and back, and stands inside an inline script on the way.
*Correct when* what the user sees is what is saved, what was not touched does not
change, the network picked is the one the device is given, and no text keeps
the page's script from running.

**Example applications** (C++ and C, the same program).  State: which call
comes next, the LED, the status task.  *Correct when* they make the calls in an
order the component supports, and the LED tells the truth.

**Others**: the C wrapper (one-line forwards), `SetCaptivePortalUri`, the
dashboard and the OTA page.  See section 8 for what is left out and why.

### Hard behaviours

`PROJECT.json` lists each hazard at its line.  They are of six kinds: two tasks
interleaving in an untested order (a form posted before the waiter has
registered, a notification given as the wait times out, an SSID changed between
its check and its use); driver events that arrive late, in the next session;
one call of a sequence failing; calls made in an order that leaves handlers
registered; byte-level boundaries of three parsers; and texts that cross four
syntaxes on their way to a browser and back.

## 2. The modules

| module | models | built on |
|--------|--------|----------|
| `EspWifi` | driver, NVS, event queue (environment) | |
| `StaEvents` | `HandleStaEvent`, `HandleApEvent`, event group | `EspWifi` |
| `Lifecycle` | `StartSta`, `StartAp`, `Stop` | `StaEvents` |
| `Provisioning` | `ConfigViaAp`, `AutoConnect`, HTTP handlers, application, restart | `Lifecycle` |
| `ManagerLife` | `Init`, `~Manager`, the web server as a public call, `CurrentIpString` | `Provisioning` |
| `ExampleApp` | `app_main`, `ButtonMonitorTask`, `PrintStatusTask`, the LED callbacks | `ManagerLife` |
| `FormPost` | one POST, from `recv` to the updated `Page` and `sta_config_` | |
| `Pages` | the `/config` and the scan page in a browser, and the forms they post | `FormPost` |
| `Settings` | abstract: a map from ids to values | refined by `FormPost` |
| `ProvisioningFlow` | abstract: the stages of a call, the portal, the form, NVS and the answer | refined by `Provisioning` |
| `OtaUpload` | `HandlerOtaPost` over byte offsets | |
| `DnsServer` | `StartDns`, `StopDns`, `DnsPoll` | |
| `ProvisioningProofs`, `SessionProofs` | theorems about `Provisioning` | |
| `FlowProofs` | its refinement of `ProvisioningFlow` | `ProvisioningProofs` |
| `AppProofs` | theorems about `ExampleApp`, on those about `Provisioning` | `SessionProofs` |
| `FormProofs` | theorems about `FormPost`, and its refinement of `Settings` | |
| `PagesProofs` | theorems about `Pages` | `FormProofs` |
| `OtaUploadProofs`, `DnsServerProofs` | theorems about those two | |
| `MC...` | values for the constants of the runs | |

`EspWifi`, `StaEvents`, `Lifecycle` and `Provisioning` extend one another and
form one state machine with the three tasks that race; `ManagerLife` and
`ExampleApp` compose it with `Init`, the destructor and the applications' own
tasks.  `FormPost` (with `Pages`), `OtaUpload` and `DnsServer` are machines of
their own, because they share only what `Provisioning` already
abstracts: an OTA upload is there an `http = "upload"` that keeps the server's
task, a form is a choice of an SSID, the DNS server is a Boolean.

### Provisioning and below

*Control.*  `pc` is the application task's control point, one per call into the
driver, the event loop, the event group or FreeRTOS, so that other tasks run
between any two.  `ret` is where `StartSta`, `StartAp` or `Stop` returns to,
since `ConfigViaAp` and `AutoConnect` call them.  `idx` walks the list of
handlers being registered or unregistered.  `status` is the result so far.

*Events.*  The driver posts to one FIFO (`evq`) and the loop delivers the oldest
to each registered instance in turn (`running`).  `OnStaDiscBits` and
`OnStaDiscRetry` are two actions because setting a bit wakes the application
task, which may run, and even stop the driver, before the handler goes on.
`xEventGroupWaitBits` is modelled as FreeRTOS does it: the waiter receives the
bits as they were when it was unblocked (`woken`), not as they are when it runs.
The loop's mutex is held during delivery, so registering and unregistering wait
for `running = NotRunning`.

*Registrations.*  `reg[k]` counts the registered instances of kind `k`;
`tracked` is the set of kinds for which `priv_` holds a handle.  A second start
without `Stop` raises the count and overwrites the handle.

*HTTP.*  `http` is what the server's one task does.  `NotifyWifiSubmitted` is
two actions, as it reads `portal_waiting_task` twice.  `httpd_stop` (`CfgWebOff`)
waits for the handler in progress.  A GET handler (`http = "page"`) changes
nothing but occupies the task and uses the netif.

*Failures.*  Every driver call, netif creation, registration, web server start
and DNS start may fail; waits may time out at any moment.  `esp_wifi_stop` is
taken to succeed, as it does once `Init` has.  `Restart` stands for a power cut,
`/reset`, the reboot after an upload and the failed assertion when the second
read of `portal_waiting_task` is null, and for the `Init` that follows: RAM is as
after power-up (`RamLost`), and NVS holds what it held, or no credentials, as
`Init` erases a partition that `nvs_flash_init` cannot use (`NvsReady`).
`HandlerResetGet` answers and keeps the server's task (`http = "reset"`) until the
restart, for which it alone may not wait for ever (`EndReset`).

*History variables* (`everUp`, `attempts`, `api`, `submitted`) are read by
properties only, except that `api` names the call in progress.

### ManagerLife and ExampleApp

`have` is what `Init` has acquired; a failed `Init` keeps it, as the code does,
and the next one goes on from there.  At NVS it may erase the credentials
(`NvsInit`), and a reboot keeps them here, as the `Init` after it is a call of its
own.  A second `Init` over an installed driver, and the destructor, run the
`Stop` of `Lifecycle` (`life` says who waits for it).  FreeRTOS asserts on a null
event group: `LifeCall` never takes such a step, and `OnlyDestroyMissesGroup` says
who can be about to: the destructor, after an `Init` that failed at the netif or at
the group itself, and nobody else.  `reader` is the status task between reading
`priv_->netif` and using it.

`main` walks through `app_main` and then `ButtonMonitorTask`, one stage per call
or LED change; both languages have the same stages, but for the C program's
`WiFiPan_Destroy` after a failed `Init`.  The callbacks run inside the event
handlers and set `led` in the same step as the bit they stand next to.
`StartWebServer` is commented out in both programs; it is modelled as a call
that may fail, which covers them with and without it.

### Pages

`tab` is `/config` in one browser: the pane shown, the scripts' `schema` and
`values`, and what each input holds.  One action per function of the page:
`SwitchTab`, `AddDefined` (`addField` and what the user then types),
`EditDefined`, `RemoveField`, `Enter`, `DoReset`, `DoSave`; `scan` is the scan
page, with `SelectNet`, `TypeSsid` and `DoConnect`.  Every embedding is applied by
what it does (`JsonEscape`, `HtmlEscape`, `Escaped`) and undone by what a browser or
`UrlDecode` does, so that an escape left out shows as another text.  The form is
handed to `FormPost`'s handlers.  `stale` marks that the device no longer holds
what the page was loaded with.

The device's texts stand in a literal of an inline `<script>`, of which only the
quote and the backslash are escaped.  So a page opens in one of three ways.  Its
script runs (`CanRun`) if every literal is one, which a line break in a text
prevents.  It does not run (`CanBreak`) if one is none, or if a text can close or
swallow the element (`Marked`: it has `</` or `<!`; which letters follow is left
open, so that such a page runs or not).  And if a text is `</script>` with a
script behind it, that script may set the values of `/config` to anything
(`OwnValues`).  `/config` then opens without the device's fields (`intact` is
false), and the scan page is dead (`page = "broken"`): its list and its buttons
are made by the script that did not run.

### FormPost, OtaUpload, DnsServer

`FormPost` builds the body a browser sends, cuts it where `httpd_req_recv` and
the buffer cut it, and runs the code's tokeniser and decoder on it.  A loop over
a text is a recursive function of its passes (`Replace`, `UrlDecode`,
`ParsePost`, `Encoded`), which TLC evaluates and the provers can unfold.  A field
of `sta_config_` is its text in all but the last byte, and that byte, which
`strncpy` never writes: `Held` is what the driver reads of the two.
`OtaUpload` identifies a byte with its offset in the body, so that "the image
was flashed" is a statement about intervals, for any content.  `DnsServer`
chooses the value of a byte when the parser reads it, which it does at most
once; what matters is where it reads.

## 3. Abstract specifications

`Settings` says what a `Page` promises: ids are added once and never removed,
and only the ids that were added change their value.  `FormPost!MapBehaves`
is its specification under the mapping *value of id = what `GetParam(id)`
answers*, checked as a property of the `form` run.

`ProvisioningFlow` says what provisioning promises its caller and whoever fills
in the form.  `AutoConnect` goes from `"choosing"` over `"trying"` (the saved
credentials, once) to `"opening"` the portal, where `ConfigViaAp` begins; then
`"serving"`, `"closing"`, and `"joining"` if nothing has been decided by then.
A stage is never gone back to.  A form can be submitted only while the portal is
open; the portal is closed before anything is joined or answered; NVS is written
only while the submitted name is joined (or by a `StartSta` of the application),
with that name, and never when it is blank; trying the saved credentials leaves
them as they are, and a restart does, unless NVS has to be erased; each stage has
the errors it may answer; and whoever answers `Ok` after joining leaves a name in
NVS for the next `AutoConnect`.
`Provisioning!FlowBehaves` is its specification under a mapping that has five
parts.  `portal` is `server`, `form` is `sta`, `creds` is `saved`, `answer` is
`status`, and `stage` is `FlowStage`: the stage of the control point or, inside
`StartSta`, `StartAp` and `Stop`, of the point they return to.  Most of the
model's steps, all of those of the event loop and of the driver among them, are
stuttering steps of the flow.

## 4. Runs

| run | question | properties |
|-----|----------|------------|
| `provision` | all five calls in any order an application that stops first can make them, failures, restarts and an erased NVS anywhere; does every call return? | `TypeOK`, `TornDown`, `ServedOverAp`, `StoppedIsQuiet`, `RetryBudget`, `OkIsFresh`, `ConnBitAccurate`, `PortalStationIdle`, `OkIsSaved`, `FlowBehaves`, `CallsReturn` |
| `app` | both example applications from power-on: `Init` failing at any of its steps, a public web server, the status task, the LED | `AppTypeOK`, `OnlyDestroyMissesGroup`, `PortalIsBlue`, `GreenWasConnected`, `StopsFirst`, `PageKeepsNetif` |
| `form` | every form of up to two fields, its body whole or cut anywhere | `TypeOK`, `WholeFormApplied`, `NotifiedWithSsid`, `MapBehaves` |
| `pages` | everything one browser can do with the two pages, while another client saves too | `PagesTypeOK`, `SavedAsShown`, `OnlyEditedChange`, `PlainPickIsStored` |
| `ota` | every way of cutting an upload into chunks, failures anywhere | `TypeOK`, `NoFirmwareLost`, `ExactImage`, `HandleClosed` |
| `dns` | every packet over five byte values; starts that fail, stops at any moment | `TypeOK`, `NothingLeaked`, `OnlyReceivedBytes`, `NameBounded` |
| six `violation` runs | what a comment or a document says and the code does not do (section 7) | one each |

Each property has a mutant in `PROJECT.json`: a plausible slip in one
definition (a handler left out of `Stop`, a retry that is not spent, a stale bit
not cleared, an abort that forgets the handle) that makes the run fail.

### Bounds, and why they suffice

- *Networks*: a home network and one called like the default access point,
  which `LoadSavedCredsFromNvs` refuses.  SSIDs are only compared, with each
  other, with the blank one and with that name.
- *Event queue*: `QueueLen = 3`.  Under the calling discipline of section 5 the
  queue never holds more than two events, so the bound is not reached there.
- *Handler instances*: `RegLimit = 1`: the application stops first, and no kind
  is ever registered twice then, which `HandlersExact` of `ProvisioningProofs` shows.
- *Retries*: 2 in `provision`, enough to tell spending, refilling and exhausting
  apart; 1 elsewhere.  `attempts` saturates one above the budget.
- *Forms*: one form of at most two fields per behaviour (`MaxForms`,
  `MaxFields`), over any initial `Page` of up to two parameters, duplicates
  included: two fields show the interaction of two keys and of two values of one
  key.  Texts have up to two characters, of which the browser escapes the two
  that end a token; field sizes are scaled so that a cut can fall inside an
  escape; of the two texts NVS may hold one fills the SSID, its last byte
  included.  `MaxForms` is a bound, so deadlock is not checked in this run.
- *Pages*: a text and a checkbox field, two parameters, which a user may redefine
  as a select and as a number and of which two may share an id.  One of the texts
  is a backslash followed by `</`, which may end the script; the three names have
  a quote, a space and an ampersand; a backslash and an apostrophe; a line break.
  A scan lists up to two of them.
  Fields hold three characters, as many as the longest text; a body of 15 holds
  that text escaped and a checkbox, and cuts a form of two such texts.  Of the
  values that markup may set there is one, for the checkbox.  Two forms, so that a
  save meets another client's or its own earlier one.
  `MaxForms` and `MaxSchema` are bounds, and a submitted network ends the session,
  so deadlock is not checked.  About 644,000 states.
- *Application*: `app` uses both networks and a retry budget of 2, and takes
  about 248,000 states; the calls repeat, so no further bound is needed.
- *OTA*: an image of 30 bytes, a delimiter of 3, a margin of 6, chunks of up to
  20: a chunk may be shorter than the trailer, shorter than what is held back or
  longer than both.  The handler ends, so deadlock is not checked.
- *DNS*: a header of 2 bytes, names of up to 4, packets of up to 13, and byte
  values for the end of a name, short and longest labels, a pointer and a value
  that is neither.

## 5. Assumptions

- **One call at a time, from one task**: nothing in the component would make
  overlapping calls safe.  In the examples the main task makes the first call
  and ends; the button task, which makes all later ones, is the one whose
  notification `stale_notify` is about.
- **`StopFirst`**: the application calls `Stop()` before it starts anything anew
  after a call that left the netif or a handler behind, as both example
  applications do: `StopsFirst` of run `app` checks that they do, from every state
  their first call can leave, with `StopFirst = FALSE` there, so that nothing but
  their own order of calls keeps the discipline.
- **`PromptLoop`**: the event loop, which runs at a higher priority than the
  application, catches up during the `vTaskDelay` of 10 ms at the end of `Stop`.
  `OkIsFresh`, `ConnBitAccurate` and `RetryBudget` need it: with
  `PromptLoop = FALSE` an event of one session is delivered in the next, where
  an old address makes a call answer `Ok`, and an old disconnection makes the
  handler give up, and refill its budget, while the station is still joining.
  The other invariants hold without it.
- **`MayFail`**: run `app` lets `Init` fail at each of its five steps, at NVS
  before, in or after the erase.
- **Callbacks** are one step with the bit they follow or precede; the code runs
  them a few instructions apart, in the same handler.
- **Fairness** (`FairSpec`), used by `CallsReturn` only.  Weak fairness of the
  event loop and of a handler that has its request: FreeRTOS always schedules
  them.  Strong fairness of the application's steps: what such a step waits for
  (room in the event queue, the loop's mutex, the server's control socket) is
  handed out in order, so it is not passed over for ever although other tasks
  keep taking it.  `ClientFairSpec` adds that a client ends or drops the upload
  it began, which the code does *not* enforce: `stalled_upload` is the same
  property without it, and fails.  A `/reset` that was answered does restart
  (`EndReset`: the handler's next call is `esp_restart`).  Nothing is assumed of the
  network, of users or of any other restart.
- **Form bodies** come from a browser, which escapes every "&", "=", "%" and "+"
  of a key or a value (`Code`).  An id is not empty and shorter than `kFieldLen`
  (`FormAssumption`): `CopyField` would cut a longer one, and no form could name
  it.  In the runs keys and ids are one character.  On `/config` a user gives
  every field a key, one of the device's ids (`PagesAssumption`).
- **Texts of the pages**: an HTML entity is one character and none that a user
  enters, as the pages escape every "&"; the texts of the pages' own ("0", "1",
  "on") are made of characters a text may have (`PageCharsAssumption`).  An input
  holds no line break (`Lines`), so one reaches the device only in another client's
  form, in a parameter the application added or in a network's name.  In a
  literal a backslash stands for the character behind it: `\n` and its like,
  which the code never writes, are not told apart.  Labels and placeholders,
  which the application chooses and nobody changes, are taken to be harmless.
  `Floats` are the texts that JavaScript takes for a number.  What a script behind
  `</script>` sets are values of the page's own ids (`OwnValues`).
- **OTA**: the delimiter does not occur inside the image (RFC 2046).

## 6. What is proved

| theorem | states |
|---------|--------|
| `ProvisioningProofs!TypeCorrectness` | `[]TypeOK` for every set of SSIDs, retry number, queue length, heap and calling discipline |
| `ProvisioningProofs!PortalTornDown` | `[]TornDown` |
| `ProvisioningProofs!PortalServedOverAp` | `[]ServedOverAp` |
| `ProvisioningProofs!StopIsQuiet` | `[]StoppedIsQuiet`, assuming `StopFirst` |
| `FlowProofs!ProvisioningFlows` | `FlowBehaves`, for every application: `Provisioning` implements `ProvisioningFlow` |
| `SessionProofs!OkLeavesSaved` | `[]OkIsSaved`, for every application |
| `SessionProofs!PortalLeavesStation` | `[]PortalStationIdle`, assuming `StopFirst` and `PromptLoop` |
| `SessionProofs!RetriesBounded` | `[]RetryBudget`, under the same two |
| `SessionProofs!ConnBitTrue` | `[]ConnBitAccurate`, under the same two |
| `SessionProofs!OkMeansConnected` | `[]OkIsFresh`, under the same two |
| `AppProofs!AppTypes` | `[]AppTypeOK` |
| `AppProofs!AppStopsFirst` | `StopsFirst`, for both example applications |
| `AppProofs!AppKeepsNetif` | `PageKeepsNetif` |
| `AppProofs!OnlyDestroyLacksGroup` | `[]OnlyDestroyMissesGroup`, whatever `Init` may fail at |
| `AppProofs!AppOkMeansConnected` | `[]OkIsFresh` of the applications, assuming `PromptLoop` only |
| `AppProofs!AppPortalIsBlue`, `AppGreenWasConnected` | `[]PortalIsBlue`, `[]GreenWasConnected`, assuming `PromptLoop` |
| `FormProofs!FormTypes` | `[]TypeOK` of `FormPost`, for any texts, fields, field sizes and buffer |
| `FormProofs!FormNotifies` | `[]NotifiedWithSsid` |
| `FormProofs!FormApplied` | `[]WholeFormApplied`, for any texts, any number of fields and any sizes |
| `FormProofs!PageIsMap` | `MapBehaves`: the Page implements `Settings` |
| `PagesProofs!PagesTypes` | `[]PagesTypeOK` of `Pages`, for any fields, options, networks, texts and redefinitions |
| `PagesProofs!SavedIsShown` | `[]SavedAsShown` |
| `PagesProofs!EditedOnlyChange` | `[]OnlyEditedChange` |
| `PagesProofs!PlainPicksStored` | `[]PlainPickIsStored` |
| `PagesProofs!PagesFormsApplied`, `PagesKeepMap` | `[]WholeFormApplied` and `MapBehaves` under the pages and other clients |
| `OtaUploadProofs!TypeCorrect`, `FirmwareKept`, `ImageExact`, `NoHandleLeft` | `[]TypeOK`, `[]NoFirmwareLost`, `[]ExactImage`, `[]HandleClosed` for every image, delimiter and chunk size |
| `DnsServerProofs!DnsTypeCorrect`, `DnsNothingLeaked`, `DnsOnlyReceivedBytes`, `DnsNameBounded` | `[]TypeOK` and the three safety properties for every packet and limit |

The proofs assume only the named `ASSUME`s of the modules (`NoSsid` is no SSID,
the limits are naturals, the OTA margin is at least 6, ...); TLC evaluates them
in every run.

*Types* (`TypeInv = TypeOK /\ Control /\ TrackedRegistered`).  `TypeOK` alone is
not inductive: `reg` could drop below zero, `idx` run past its list, and a
function return to a place that never called it.  `Control` bounds `idx` and
`ret` per function, and `TrackedRegistered` says that a handle `priv_` holds
stands for a registered instance.

*Portal* (`PortalInv = TypeInv /\ PortalUp /\ ApUp`).  Four nested sets of
control points, `WaitPoints` in `DnsPoints` in `ServerPoints` in `ApPoints`:
each part of the portal exists only within its set, and the access point during
all of `ApPoints`.  The event loop, the air and the HTTP tasks change none of
these, so only the application's own steps need an argument.

*Stop* (`StopInv`).  `HandlersExact`: under `StopFirst` the registered instances
are exactly those `priv_` can unregister, which needs `Bare` (nothing is
registered where a start may begin) and `Walking` (the handlers further down a
list are not registered yet, those already passed no longer are).  `Shutdown`
says what each step of `Stop` has achieved and why no event undoes it: once the
driver is stopped no handler can start a link, and once the last handler is
unregistered an event in the queue is dropped, so the bits cleared after that
stay cleared.  The order of `Stop` (driver, handlers, bits, netif) is what makes
it inductive.  `PromptLoop` is not needed.

*Flow* (`FlowInv = TypeInv /\ PortalUp /\ Trying /\ Verdict /\ NamedLink`).  The
stage of each control point is fixed, so most steps map by a look at where they
lead; four facts about reachable states are needed besides.  `PortalUp`: the
server is off where the portal is left.  `Trying`: what `StartSta` stores for
`AutoConnect` is what NVS holds, so the flow takes no `Store` step.  `Verdict`: the
SSID is checked only by a call that has not timed out, so the check cannot turn
a timeout into a submission.  `NamedLink`: while NVS holds no name the link is
idle and no address is queued, being handled, or has left its bit, so that a
call woken by the connection bit has a name in NVS; only a restart goes back to a
blank one, and it ends the link with it, so that neither `StopFirst` nor
`PromptLoop` is needed.

*Session* (`SessionProofs`).  What an answer or a bit means depends on which
events may still be on their way, so the invariants relate the queue, the
handler that runs and the link to the application's control point.

- `AnswerInv`: a call answers once, from `esp_wifi_set_config` on `sta_config_`
  is what NVS holds or blank, and bits are handed only to a task that waits.
  `OkIsSaved` is preserved on top of it (`SavedStep`), where the portal's
  `PortalUp` is needed besides: no form comes in after a call has answered.
- `StartInv`: where something may be started nothing stirs (`Still`: empty
  queue, no handler, no link), and nothing does until the driver is started; the
  station's handlers come and go all or none between calls, and while the portal
  is served they are not registered.
- `OneAtATime`: at most one disconnection and at most one `STA_START` exists, in
  the queue or being handled, never both, and only while the link is idle; and
  `Budget` ties `attempts` and `sta_retry_remaining` together: their sum is within
  `RetryNum` unless the link is idle and no disconnection is out.
- `LossFollows`: an address that is queued or being handled belongs to a link that
  is up, or its loss is queued behind it.
- `Attached`: whatever speaks of a link (an address, a retry, the connected bit, a
  link that is not idle) has `StaStart` set and the station's handlers registered,
  until the end of `Stop()`.

`StopFirst` gives `Still` at the start of a session only because `PromptLoop`
has the loop drained by the end of `Stop`; both are needed.

These invariants are stated for `SessionStep`: a step of the blocking calls, of
the event loop, of the driver, a restart, or anything that leaves all of these
apart.  The next-state relations of `Provisioning` and of `ExampleApp` are both
made of such steps, so each lemma serves both.

*Applications* (`AppBase = TypeInv /\ StopInv /\ StageInv /\ Served /\ AppVarsOK`).
`StageInv` says what each stage of `app_main` and `ButtonMonitorTask` finds: how
far `Init` has come (`have`), which call runs, and that where a first call or the
portal may begin the netif and the handles of an earlier start are gone
(`Clean`).  `StopsFirst` is not inductive without it: whether a call may begin
depends on what the stage before it left, and that on how it failed.  `Served`
places the web server, in the portal or while the application watches the
button, and a handler only while the server runs: with the order of
`ButtonMonitorTask` (server off, then `Stop`) that gives `PageKeepsNetif`.  So the
theorems of `Provisioning` that assume `StopFirst` hold of the applications
without it.  The LED needs the session invariants besides: `PortalLight` says
that it is Blue from the last step of `Stop()` to the end of the access point,
where the station's handlers, the only ones to set another colour, are neither
registered nor running (`PromptLoop`); `GreenLight` that it is Green outside a
call only after an `Ok`, which `OkIsFresh` makes an address of that session.

*Forms* (`TypeOK /\ NotifiedWithSsid`, with `SameFields` for each form).  What a
loop over a text returns is found in three steps that every loop repeats: each
of its passes keeps the loop's state in a set (`Parsed`, `Decodings`, the texts
over `Chars`); hence a function of the passes exists (`LoopExists`), so the
recursive definition denotes one; hence every pass, and the last, is in the set
(`LoopStays`).  The induction behind both is over a set of naturals
(`SetInduction`, from the well-foundedness of `<`).  `Parsed` carries what the
theorems say through the pairs of a body: the Page has the fields it had, at
their places, each value fits, and `ssid_set` is true only while the SSID has a
character.  It holds of any text the body is cut to, so that no theorem depends
on where `httpd_req_recv` stopped.  `PageIsMap` follows: a form is a `Save` of the
map that `GetParam` answers, and `AddParam` an `Add`, unless an earlier field has
its id; a Page that is not full has fewer ids than `kMaxParams` because each id
has a place of its own (`FewKnown`).  `SsidLen` is at least 2: a field of one byte
could hold no SSID.

`FormApplied` needs what the loops compute and not only its type.  `Pieces`
finds every piece of a text that a loop puts together at the place where it was
added; so the escape of the i-th character is where `UrlDecode` stands after i
passes, and undoes it (`DecodeEscaped`: what comes out is the text, cut to the
buffer), whatever the text is, a "%" or a delimiter included.  An escaped text
has no delimiter (`Undelimited`), so the tokens of a pair are its key and its value, or
only the key if the value is empty (`PairSplits`), and `ApplyPair` of a pair does
what the field asks for (`PairAssigns`).  The only place of a pair where
`strtok_r` begins one is its first character (`ParsePair`), hence `ParsePost` of the
body is `Assign` of the fields in turn (`ParseEncoded`).  The last step is an
induction over the fields: after k of them each destination holds what the last
that names it asks for, cut once to `kFieldLen` and once to its own size, and
what none names is unchanged (`AfterFields`).

*Pages* (`PageTypes /\ RanAsSent`).  Two lemmas invert the embeddings for every text:
`EmbeddedBack` (a script's literal read after `JsonEscape` is the text, and is valid
exactly if the text has no line break: each character is read in one pass, or in
two if it was escaped, and no quote ends the literal) and `HtmlBack` (the parser
undoes `HtmlEscape` character by character, because no character of a text is an
entity).  With them `LoadedIs` gives what
`/config` gets, `InputShows` what an input shows of it (and that it shows it again
when it is put in again), and `PlainReads` what an entry of the scan page passes on.
`SavedAsShown` and `PlainPickIsStored` follow from what a form does (`AfterFields`)
once the form is known: `doSave` posts each key once (`FormIs`), with what the
first of its inputs holds (`TakenIs`).  `OnlyEditedChange` says something of every
save from a page whose script ran, after earlier saves, resets and
redefinitions, and is not inductive.  `RanAsSent` says that only one of the two
pages is open (`OneTab`) and that a page whose script ran is `AsSent`, which is
about what it keeps of a field that nobody edited: `Kept` (its fields have the type
the device sent, it has a value, the device still has the field, and the value is
one its input can show or one the device need not cut), `Shown` (its inputs show
that value) and `Echoed` (the value is the device's, cut as the device cuts).
`Echoed` speaks only of values the input can show: a checkbox shows "true" as
checked and posts "1".  It needs `Kept` for fields that another client sets to
such a value.  Both sides of `stale` matter: after a save that was cut, or another
client's form, `Echoed` is false until `/config` is loaded anew, while `Kept` and
`Shown` still hold.  Of a page whose script did not run nothing of this holds: its
values may be those of someone's markup, and a save then changes fields that
nobody edited.  What the inputs show is still what is saved (`SavedIsShown`), so
that theorem has no such condition.  TLC checked each part of this invariant with
the constants of run `pages` before it was proved.

*OTA.*  The flash is a prefix of the body up to `tail.lo`, and the tail reaches
from there to what has been received; since at least the delimiter and six more
bytes are held back, the delimiter is in the tail whenever the last chunk brings
the whole trailer.  `HandleLife` ties the handle to the handler's progress.

*DNS.*  `pos` is at or beyond the header from `skip` on, and the check that
type and class fit bounds it by `len` afterwards; the life of the socket is a
sequence in which each failure point knows what is open.

*Only model-checked*: `CallsReturn`, which is liveness under fairness and out of
TLAPS' reach.  Every other property of the passing runs is stated by a theorem.

## 7. What the violation runs show

| run | the code |
|-----|----------|
| `lost_wakeup` | accepts forms before `portal_waiting_task` is set: a submission in between is answered OK and wakes nobody |
| `stale_notify` | a notification given just as the wait times out is taken by the next `ConfigViaAp`, with no form |
| `blank_resubmit` | checks the SSID 300 ms before the server, which may blank it, stops |
| `stalled_upload` | a stalled upload is retried for ever, so `httpd_stop` and `ConfigViaAp` do not return at the portal's timeout |
| `status_uaf` | the status task of the examples has read `priv_->netif` when the button task's `Stop` destroys it |
| `picked_ssid` | a network whose name has an apostrophe cannot be picked from the list, and one with a backslash is submitted under another name |

Each is tied in `PROJECT.json` to the line it contradicts.

Seen while modelling, without a run of their own:

- A second start without `Stop` overwrites the handler instances, and `Stop`
  then leaves the first ones registered (`StoppedIsQuiet` fails with
  `StopFirst = FALSE`, `RegLimit = 2`).
- A form longer than `kPortalBodySize - 1` bytes, or one that arrives in several
  segments, is cut, applied in part and answered OK.
- When the last chunk of an upload begins inside the trailer, CR LF and part of
  the delimiter are flashed behind the image; formats that carry their own
  length tolerate it.
- If `Init` fails at `esp_netif_init` or at the event group, the C example's
  `WiFiPan_Destroy` runs `Stop` and with it `xEventGroupClearBits` on a null
  group; the C++ example just returns.  examples/README.md:7 says the two behave
  identically.  Run `app` has these failures, and `OnlyDestroyMissesGroup` the one
  call that meets them; without its exception for the destructor it fails.
- Embedded texts are not safe in the script around them (README.md:115 says they
  are escaped): `JsonEscapeAppend` and `BuildScanInjectScript` escape the quote and
  the backslash only.  With a line break in it, or `</script>`, the name of one
  network in reach leaves the scan page without its list, its buttons and its
  script, and the value of one parameter leaves `/config` without its fields; a
  script behind `</script>` runs, and can set values that the next save posts for
  fields nobody edited.  `Pages` has these states (`"broken"`, `intact` false), and
  `OnlyEditedChange` and `PlainPickIsStored` are about the others.
- The LED: while `AutoConnect` falls back to the portal it stays Yellow, or Red
  after a disconnection; after a failed first call it ends Off although the
  handler may go on retrying; and the Green set after an `Ok` may overwrite the
  Red of a disconnection that came in between.
- A field added under "Define Fields" of `/config` exists in that browser only:
  saving posts its value, `SetParamValue` finds no such id, and the page reports
  "Configuration updated successfully" (`WiFiPan_Html.h:1640`).
- `doSave` keeps what it has read before it validates: a number refused, its
  field then removed, is posted by the next save.  Switching panes drops what
  was entered and not saved.
- A `/config` page is saved as a whole and overwrites what another client has
  saved since it was loaded (`OnlyEditedChange` excludes that by `stale`).
- Of two parameters with one id, `/config` shows the value of the last while
  `GetParam` and `SetParamValue` use the first.
- The OTA page posts to `/ota` without the admin token: with `SetAdminToken` set
  the page opens with `?token=` but its upload is refused.
- `/reset` is offered as "Reset all settings" (`WiFiPan_Html.h:417`) and listed as
  "erase saved WiFi + reboot to AP" (`example_esp32s3.cpp:339`,
  `example_esp32s3.c:355`), and only reboots; saved credentials stay in NVS, and
  the next `AutoConnect` uses them.
- `SetCaptivePortalUri` stops the DHCP server and leaves it stopped on any error
  behind that; its result is ignored.
- `ConfigViaAp` returns `ConnectFailed` on the first disconnection although the
  handler goes on retrying and may connect afterwards; README.md:130 says "STA
  never actually connected".
- `AutoConnect` returns an error of `StartSta` without trying the portal, where
  WiFiPan.hpp:120 says it "falls back to ConfigViaAp() on failure".
- `Init` erases the whole NVS partition, the application's own entries included,
  when it has no free pages or is of a newer version.
- With `SetStaRetryNum(-1)`, `AutoConnect` waits without a timeout: a network
  that associates and never gives an address keeps it for ever.
- `strncpy` of `sizeof - 1` bytes never writes the last byte of the SSID and the
  password: a 32-byte SSID (or 64-byte password) already in `sta_config_` leaves
  its last byte behind a new one that comes up to it.  `FormPost!Stored` and
  `Held` model it, and `WholeFormApplied` leaves out the fields it happens to.
- `DnsSkipQname` compares its limit before it takes a label or a pointer: a name
  may be one or two bytes longer than `kDnsNameMaxLen` (`NameBounded`).

## 8. Not modelled, and why

- What the dashboard and the OTA page show, styles and layout of all pages, and
  `Page::BuildFieldsHtml`, which no handler calls: text for the browser, which
  no state depends on.
- The scan itself: `Pages` starts from the names it finds.
- `SetCaptivePortalUri` and the DHCP option: the result is ignored and it
  touches no modelled state.
- `IsConnected` and `GetMode`: one read each.  `CurrentIpString` is modelled for
  what it reads, not for the text.
- The setters (`SetApConfig`, `SetStaConfig`, `SetStaRetryNum`, ...): called
  between `Init` and the first call; their values are the models' constants.
- `CheckAdminToken`: a refused upload is `Reject`; a refused `/reset` does
  nothing.
- The C wrapper beyond the calls of section 2: forwards and one string copy.
- LED hardware and the debouncing of the button.
- Content of DNS answers (flags, addresses, TTL) and of HTTP headers.
- `vTaskDelete` ending the DNS task inside an lwIP call, and ids of 128
  characters or more: the first is lwIP's state, the second a length no other
  property depends on.
- After a failed first call, an application that destroys the Manager while its
  own web server runs: `~Manager` does not stop it.  The examples do not do that.

## 9. Status

Done: the provisioning core first, because it holds the races; the three
parsers; `Init`, the destructor and the example applications; the pages.
Proved: every safety property and both refinements that the runs check, the
portal, `Stop` and the session properties, the calling discipline of the example
applications and what their LED shows, OTA, DNS, the forms byte by byte, and the
way of a text from the device through the pages and back.

Left to TLC: liveness (`CallsReturn`).  Eight hazards of `PROJECT.json` have no
property, for the reason in their note: events that arrive a session late
(section 5 excludes them), the wait that `SetStaRetryNum(-1)` makes endless, the
error of `StartSta` that opens no portal and the last byte of a full SSID (the
code does what section 7 says), a null second read of `portal_waiting_task` (it ends
in a reboot, which the model has as a `Restart`), and lwIP and the DHCP server, whose
state is not modelled.
