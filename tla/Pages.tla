-------------------------------- MODULE Pages ---------------------------------
(***************************************************************************)
(* The /config and the scan page: what the device writes into them          *)
(* (Page::BuildConfigInject, BuildScanInjectScript), what their scripts      *)
(* (src/WiFiPan_Html.h) make of it in a browser, and the form they post back *)
(* to FormPost.  Other clients post to the device at the same time.          *)
(*                                                                          *)
(* One browser shows one of the two.  An HTML entity is one character; of a  *)
(* page's look nothing is modelled.                                          *)
(***************************************************************************)
EXTENDS FormPost

CONSTANTS
    Kind,         \* the type of each id's field
    Options,      \* what a select field offers
    Names,        \* the networks in reach
    ScanMax,      \* networks a scan lists (max_count)
    Floats,       \* the texts that JavaScript takes for a number
    OwnValues,    \* values that markup in a field can set (see HandlerConfigGet)
    Defined,      \* what a user makes of a field under "Define Fields"
    MaxSchema     \* fields on that page (a bound of the model)

Kinds == {"str", "int", "flt", "bool", "sel", "pass"}

(* What an <input> can hold has no line break.                               *)
LineBreaks == {"CR", "LF"}
Lines == Seq(Chars \ LineBreaks)

(* A field of the schema that the browser keeps.                             *)
SchemaField == [key : Ids, kind : Kinds, default : Lines]

ASSUME PagesAssumption ==
    /\ Kind \in [Ids -> Kinds \ {"flt"}]
    /\ Options \in Seq(Lines) /\ Options # <<>>
    /\ Names \subseteq Seq(Chars) /\ ScanMax \in Nat
    /\ Floats \subseteq Lines /\ <<>> \in Floats
    /\ Defined \subseteq SchemaField
    /\ \A own \in OwnValues :
         \E ids \in SUBSET Ids : IsFiniteSet(ids) /\ own \in [ids -> Lines]
    /\ MaxSchema \in Nat

(* Some texts are the pages' own; an entity is none of a user's characters.  *)
ASSUME PageCharsAssumption ==
    /\ {"0", "1", "o", "n"} \subseteq Chars
    /\ Chars \cap {"&amp;", "&lt;", "&gt;", "&quot;", "&#39;"} = {}

VARIABLES
    tab,          \* the /config page in a browser
    scan,         \* the scan page in a browser
    from,         \* history: where the last form came from
    stale         \* history: since /config was loaded another client posted, or a save was cut

pageVars == <<vars, tab, scan, from, stale>>

(* /config as it opens; intact: the script the device wrote into it runs.    *)
Opened(intact, schema, values) ==
    [pane |-> "define", intact |-> intact, schema |-> schema, values |-> values,
     inputs |-> <<>>, edited |-> {}]
NoTab == [Opened(TRUE, <<>>, <<>>) EXCEPT !.pane = "none"]

ScanPage(page, listed, text) ==
    [page |-> page, listed |-> listed, box |-> text, picked |-> text]
NoScan == ScanPage("none", {}, <<>>)

PagesInit == Init /\ tab = NoTab /\ scan = NoScan /\ from = "none" /\ stale = FALSE

-----------------------------------------------------------------------------
(* Embedding a text in a page, and reading it there *)

JsonQuoteOnly == [c \in {"\""} |-> <<"\\", c>>]
JsonEscapes == [c \in {"\"", "\\"} |-> <<"\\", c>>]
JsonEscape(text) == Replace(JsonEscapes, text)

Entities ==
    [c \in {"&", "<", ">", "\"", "'"} |->
       CASE c = "&" -> <<"&amp;">> [] c = "<" -> <<"&lt;">> [] c = ">" -> <<"&gt;">>
         [] c = "\"" -> <<"&quot;">> [] c = "'" -> <<"&#39;">>]
HtmlEscape(text) == Replace(Entities, text)
HtmlText(text) ==
    [i \in 1..Len(text) |->
       IF <<text[i]>> \in Range(Entities) THEN CHOOSE c \in DOMAIN Entities : Entities[c] = <<text[i]>>
       ELSE text[i]]

(* A script's string literal: a quote of its own kind ends it early and so   *)
(* does the line, which are syntax errors; a backslash stands for the        *)
(* character behind it (\n and its like are not told apart), or continues    *)
(* the literal on the next line.                                             *)
Reading(read, c, quote) ==
    CASE read.escape ->
           [read EXCEPT !.escape = FALSE, !.value = IF c \in LineBreaks THEN @ ELSE Append(@, c)]
      [] ~read.escape /\ c = "\\" -> [read EXCEPT !.escape = TRUE]
      [] OTHER -> [read EXCEPT !.value = Append(@, c),
                               !.valid = @ /\ c \notin LineBreaks \cup {quote}]

Literal(text, quote) ==
    LET done[i \in 0..Len(text)] ==
          IF i = 0 THEN [value |-> <<>>, escape |-> FALSE, valid |-> TRUE]
          ELSE Reading(done[i - 1], text[i], quote)
        end == done[Len(text)]
    IN  [valid |-> end.valid /\ ~end.escape, value |-> end.value]

Embedded(text) == Literal(JsonEscape(text), "\"")

(* A <script> element is over at </script>, also within a literal, or not    *)
(* even there behind <!--<script>.  Which text follows "</" and "<!" is left *)
(* open: it may be that.                                                     *)
Markup(written) ==
    \E i \in 2..Len(written) : written[i - 1] = "<" /\ written[i] \in {"/", "!"}

(* An inline script that these texts stand in can run, or can fail to.       *)
Marked(texts) == \E text \in texts : Markup(JsonEscape(text))
CanRun(texts) == \A text \in texts : Embedded(text).valid
CanBreak(texts) == Marked(texts) \/ ~CanRun(texts)

-----------------------------------------------------------------------------
(* /config: its schema may be changed under "Define Fields", its values are  *)
(* entered and saved under "Fill Values"                                     *)

(* window.wifiparam_values: of two fields with one id the last counts.       *)
Loaded(page) == [id \in {page[i].id : i \in 1..Len(page)} |->
                   Embedded(page[Max(Matches(page, id))].val).value]

(* window.wifiparam_schema *)
Schema(page) == [i \in 1..Len(page) |-> [key |-> page[i].id, kind |-> Kind[page[i].id],
                                         default |-> Embedded(page[i].val).value]]

(* Once a network is submitted the portal closes.                            *)
Open == ~notified

NoForm == Open /\ reply' = "none" /\ notified' = FALSE /\ form' = <<>> /\ whole' = TRUE
          /\ before' = [params |-> params, sta |-> sta] /\ from' = "none"
          /\ UNCHANGED <<params, sta, posted>>

OnlyTab == NoForm /\ UNCHANGED <<scan, stale>>

Written == {params[i].id : i \in 1..Len(params)} \cup {params[i].val : i \in 1..Len(params)}

(* With no fields the browser is sent back to "/".  Without the device's     *)
(* script the page opens empty, unless what stands behind </script>, markup  *)
(* now, has a script of its own that sets values.                            *)
HandlerConfigGet ==
    /\ params # <<>>
    /\ \/ CanRun(Written) /\ tab' = Opened(TRUE, Schema(params), Loaded(params))
       \/ CanBreak(Written) /\ tab' = Opened(FALSE, <<>>, <<>>)
       \/ Marked(Written) /\ \E own \in OwnValues : tab' = Opened(FALSE, <<>>, own)
    /\ scan' = NoScan /\ stale' = FALSE
    /\ NoForm

(* What the input of a field comes to hold.  A checkbox is checked or not, a *)
(* select shows its first option for want of the right one.                  *)
Input(kind, v) ==
    CASE kind = "bool" -> IF v \in {<<"1">>, <<"t", "r", "u", "e">>} THEN <<"1">> ELSE <<"0">>
      [] kind = "sel" -> IF v \in Range(Options) THEN v ELSE Options[1]
      [] OTHER -> HtmlText(HtmlEscape(v))

RenderFill(schema, values) ==
    [i \in 1..Len(schema) |->
       Input(schema[i].kind, IF schema[i].key \in DOMAIN values THEN values[schema[i].key]
                             ELSE schema[i].default)]

(* What is entered but not saved is lost on the way to the other pane.       *)
SwitchTab(pane) ==
    /\ tab.pane # "none"
    /\ tab' = [tab EXCEPT !.pane = pane,
                          !.inputs = IF pane = "fill" THEN RenderFill(tab.schema, tab.values) ELSE <<>>]
    /\ OnlyTab

(* The schema lives in the browser only: nothing of it is ever posted.       *)
Define(schema, touched) ==
    /\ tab.pane = "define"
    /\ tab' = [tab EXCEPT !.schema = schema, !.edited = @ \cup touched]
    /\ OnlyTab

AddDefined(f) == Len(tab.schema) < MaxSchema /\ Define(Append(tab.schema, f), {f.key})
EditDefined(i, f) == Define([tab.schema EXCEPT ![i] = f], {tab.schema[i].key, f.key})
RemoveField(i) == Define(RemoveAt(tab.schema, i), {})

Enterable(kind) ==
    CASE kind = "bool" -> {<<"0">>, <<"1">>}
      [] kind = "sel" -> Range(Options)
      [] OTHER -> Texts \cap Lines

Enter(i, v) ==
    /\ tab.pane = "fill"
    /\ v \in Enterable(tab.schema[i].kind)
    /\ tab' = [tab EXCEPT !.inputs[i] = v, !.edited = @ \cup {tab.schema[i].key}]
    /\ OnlyTab

SchemaKeys == {tab.schema[i].key : i \in 1..Len(tab.schema)}
FieldsWith(key) == {i \in 1..Len(tab.schema) : tab.schema[i].key = key}

(* doReset goes back to the defaults of the schema.                          *)
DoReset ==
    LET defaults == [key \in SchemaKeys |-> tab.schema[Max(FieldsWith(key))].default]
    IN  /\ tab.pane = "fill"
        /\ tab' = [tab EXCEPT !.values = defaults, !.inputs = RenderFill(tab.schema, defaults),
                              !.edited = @ \cup {key \in DOMAIN defaults :
                                 key \notin DOMAIN tab.values \/ tab.values[key] # defaults[key]}]
        /\ OnlyTab

(* getElementById finds the first of two inputs with one id, which may be of *)
(* another type: a checkbox read as text says "on", a text is not checked.   *)
Taken(key) ==
    LET asked == tab.schema[Max(FieldsWith(key))].kind
        first == Min(FieldsWith(key))
        found == tab.schema[first].kind
    IN  CASE asked = "bool" /\ found # "bool" -> <<"0">>
          [] asked # "bool" /\ found = "bool" -> <<"o", "n">>
          [] OTHER -> tab.inputs[first]

(* The fields of the schema, and whatever the page holds for fields removed. *)
Filled == [key \in SchemaKeys \cup DOMAIN tab.values |->
             IF key \in SchemaKeys THEN Taken(key) ELSE tab.values[key]]

FilledForm ==
    LET keys == SetToSeq(DOMAIN Filled)
    IN  [n \in 1..Len(keys) |-> [key |-> keys[n], val |-> Filled[keys[n]]]]

Trim(text) ==
    LET solid == {i \in 1..Len(text) : text[i] # " "}
    IN  IF solid = {} THEN <<>> ELSE SubSeq(text, Min(solid), Max(solid))

(* The regular expression -?\d+                                              *)
Digits == {"0", "1", "2", "3", "4", "5", "6", "7", "8", "9"}
IsInteger(text) ==
    \E i \in {1, 2} : /\ i <= Len(text) /\ (i = 2 => text[1] = "-")
                     /\ \A j \in i..Len(text) : text[j] \in Digits

Valid == \A i \in 1..Len(tab.schema) :
           LET f == tab.schema[i]
               v == Filled[f.key]
           IN  v # <<>> => /\ f.kind = "int" => IsInteger(Trim(v))
                           /\ f.kind = "flt" => Trim(v) \in Floats

(* doSave keeps what it has read, and posts it unless a number is none.      *)
DoSave ==
    /\ Open /\ tab.pane = "fill"
    /\ tab' = [tab EXCEPT !.values = Filled]
    /\ UNCHANGED scan
    /\ \/ /\ Valid
          /\ HandlerConfigSavePost(FilledForm)
          /\ from' = "config"
       \/ ~Valid /\ NoForm
    /\ stale' = (stale \/ (reply' = "OK" /\ ~whole'))

ConfigPage ==
    \/ HandlerConfigGet \/ SwitchTab("define") \/ SwitchTab("fill") \/ DoReset \/ DoSave
    \/ \E f \in Defined : AddDefined(f) \/ \E i \in 1..Len(tab.schema) : EditDefined(i, f)
    \/ \E i \in 1..Len(tab.schema) :
         \/ RemoveField(i)
         \/ \E v \in Texts \cup Range(Options) \cup {<<"0">>, <<"1">>} : Enter(i, v)

-----------------------------------------------------------------------------
(* The scan page *)

(* The strongest network is selected to begin with.  With its script gone    *)
(* the page is dead: list and buttons are that script's.                     *)
HandlerScanGet(found) ==
    /\ Cardinality(found) <= ScanMax
    /\ \/ /\ CanRun(found)
          /\ \/ found = {} /\ scan' = ScanPage("runs", {}, <<>>)
             \/ \E strongest \in found : scan' = ScanPage("runs", found, Embedded(strongest).value)
       \/ CanBreak(found) /\ scan' = ScanPage("broken", {}, <<>>)
    /\ tab' = NoTab /\ stale' = FALSE
    /\ NoForm

(* A network's name is a literal inside the onclick attribute of its entry;  *)
(* an attribute that is no valid script does nothing.                        *)
OnClick(name) == Literal(HtmlText(HtmlEscape(Embedded(name).value)), "'")

SelectNet(name) ==
    /\ name \in scan.listed
    /\ scan' = [scan EXCEPT !.box = IF OnClick(name).valid THEN OnClick(name).value ELSE @,
                            !.picked = name]
    /\ NoForm /\ UNCHANGED <<tab, stale>>

TypeSsid(text) ==
    /\ scan.page = "runs"
    /\ scan' = [scan EXCEPT !.box = text, !.picked = text]
    /\ NoForm /\ UNCHANGED <<tab, stale>>

DoConnect(password) ==
    /\ Open /\ scan.page = "runs" /\ Trim(scan.box) # <<>>
    /\ HandlerWifiPost(<< [key |-> SsidKey, val |-> Trim(scan.box)],
                          [key |-> PasswordKey, val |-> password] >>)
    /\ from' = "scan"
    /\ UNCHANGED <<tab, scan, stale>>

Scan ==
    \/ \E found \in SUBSET Names : HandlerScanGet(found)
    \/ \E name \in Names : SelectNet(name)
    \/ \E text \in Texts \cap Lines : TypeSsid(text) \/ DoConnect(text)

-----------------------------------------------------------------------------
(* The application adds fields; while /config is open another client saves a *)
(* field (whatever else clients post is FormPost's).                         *)
AddField ==
    /\ Open /\ \E id \in Ids, v \in Texts : AddParam(id, v)
    /\ from' = "none"
    /\ UNCHANGED <<tab, scan, stale>>

OtherClient ==
    /\ Open /\ tab.pane # "none"
    /\ \E fields \in Forms : Len(fields) = 1 /\ fields[1].key \in Ids /\ HandlerConfigSavePost(fields)
    /\ from' = "other" /\ stale' = TRUE
    /\ UNCHANGED <<tab, scan>>

PagesNext == ConfigPage \/ Scan \/ AddField \/ OtherClient
PagesSpec == PagesInit /\ [][PagesNext]_pageVars

-----------------------------------------------------------------------------
(* Properties *)

PagesTypeOK ==
    /\ TypeOK
    /\ \E loaded \in SUBSET Ids :
         tab \in [pane : {"none", "define", "fill"}, intact : BOOLEAN, schema : Seq(SchemaField),
                 values : [loaded -> Lines], inputs : Seq(Lines), edited : SUBSET Ids]
    /\ Len(tab.inputs) = IF tab.pane = "fill" THEN Len(tab.schema) ELSE 0
    /\ Len(tab.schema) <= Max({MaxParams, MaxSchema})
    /\ scan \in [page : {"none", "runs", "broken"}, listed : SUBSET (Names \cap Lines),
                box : Lines, picked : Lines]
    /\ from \in {"none", "config", "scan", "other"} /\ stale \in BOOLEAN

Distinct(page) == \A i, j \in 1..Len(page) : page[i].id = page[j].id => i = j

(* What a checkbox or a select can show.                                     *)
Showable(id, v) == Kind[id] \in {"bool", "sel"} => v \in Enterable(Kind[id])

(* Saving /config gives every field that the device has the value its input  *)
(* shows, whatever characters it has ("saves those values", README.md); of   *)
(* several fields with one key the first, if they are of one type.           *)
SavedAsShown ==
    from = "config" /\ reply = "OK" /\ whole =>
        \A i \in 1..Len(tab.schema) :
            LET key == tab.schema[i].key
            IN  GetParam(before.params, key) # Unknown
                /\ (\A j \in FieldsWith(key) : tab.schema[j].kind = tab.schema[i].kind)
                => GetParam(params, key) = Cut(tab.inputs[Min(FieldsWith(key))], FieldLen - 1)

(* Saving /config changes no field that the user did not edit, not even one  *)
(* removed from the page: a value comes back from the browser as it was      *)
(* sent, if the page's script ran, unless ids are ambiguous, another client  *)
(* posted meanwhile, a save was cut, or the value is none its input can show.*)
OnlyEditedChange ==
    from = "config" /\ reply = "OK" /\ tab.intact /\ ~stale /\ Distinct(params) =>
        \A id \in Ids \ tab.edited :
            LET old == GetParam(before.params, id)
            IN  old # Unknown /\ Showable(id, old) /\ whole => GetParam(params, id) = old

(* The network selected or typed on the scan page is the text the device is  *)
(* given.                                                                    *)
PickedIsStored(names) ==
    from = "scan" /\ reply = "OK" /\ whole /\ scan.picked \in names =>
        sta.ssid.text = Cut(scan.picked, SsidLen - 1)

(* ... for texts whose literal in an onclick attribute needs no escape, and  *)
(* that do not begin or end with a space.                                    *)
IsPlain(text) == Range(text) \cap {"'", "\\"} = {} /\ Trim(text) = text
Plain == {text \in Names \cup Texts : IsPlain(text)}
PlainPickIsStored == PickedIsStored(Plain)

(* "Form input (SSID, extra params) is HTML/JS-escaped before being embedded *)
(* in portal pages" (README.md): a name is embedded a second time, in a      *)
(* script inside an attribute, and is not escaped for that.                  *)
AnyPickIsStored == PickedIsStored({n \in Names : Trim(n) = n})
=============================================================================
