------------------------------ MODULE FormPost -------------------------------
(***************************************************************************)
(* The Page (src/WiFiPan_Page.cpp) and the two POST handlers that fill it    *)
(* and sta_config_ from a form (src/WiFiPan_Portal.cpp), byte by byte: the   *)
(* receive buffer, strtok_r and UrlDecode decide what a form means.          *)
(*                                                                          *)
(* Texts are sequences of characters; a key or an id is one character.  A    *)
(* loop over a text is a recursive function of its passes.                   *)
(***************************************************************************)
EXTENDS Naturals, Sequences, SequencesExt

CONSTANTS
    Ids,          \* ids of the fields the application adds
    Texts,        \* texts a user enters
    Chars,        \* the characters of every text, escapes included
    NvsTexts,     \* texts sta_config_ may hold when the portal opens
    MaxFields,    \* fields in one form (a bound of the model)
    MaxForms,     \* forms posted (a bound of the model)
    Unknown,      \* GetParam's null pointer
    MaxParams,    \* kMaxParams
    FieldLen,     \* kFieldLen
    SsidLen,      \* sizeof(wifi_sta_config_t::ssid)
    PasswordLen,  \* sizeof(wifi_sta_config_t::password)
    BodySize,     \* kPortalBodySize
    ShortReads    \* httpd_req_recv may return less than was asked for

SsidKey == <<"s">>
PasswordKey == <<"w">>
Keys == Ids \cup {SsidKey, PasswordKey}

ASSUME FormAssumption ==
    /\ MaxFields \in Nat /\ MaxForms \in Nat /\ MaxParams \in Nat /\ FieldLen \in Nat \ {0}
    /\ SsidLen \in 2..FieldLen /\ PasswordLen \in 2..FieldLen
    /\ BodySize \in Nat \ {0} /\ ShortReads \in BOOLEAN
    /\ SsidKey \notin Ids /\ PasswordKey \notin Ids
    /\ \A id \in Ids : id # <<>> /\ Len(id) < FieldLen
    /\ Unknown \notin BoundedSeq(Chars, FieldLen - 1)

(* What encodeURIComponent escapes, of the characters a text may have; a     *)
(* line break is two of them at most, CR and LF.                             *)
Code ==
    [c \in {"&", "=", "%", "+", "\"", "\\", " ", "<", ">", "/", "LF", "CR"} |->
       CASE c = "&" -> <<"%", "2", "6">>
         [] c = "=" -> <<"%", "3", "D">>
         [] c = "%" -> <<"%", "2", "5">>
         [] c = "+" -> <<"%", "2", "B">>
         [] c = "\"" -> <<"%", "2", "2">>
         [] c = "\\" -> <<"%", "5", "C">>
         [] c = " " -> <<"%", "2", "0">>
         [] c = "<" -> <<"%", "3", "C">>
         [] c = ">" -> <<"%", "3", "E">>
         [] c = "/" -> <<"%", "2", "F">>
         [] c = "LF" -> <<"%", "0", "A">>
         [] c = "CR" -> <<"%", "0", "D">>]

ASSUME CharsAssumption ==
    /\ Keys \cup Texts \cup NvsTexts \cup Range(Code) \subseteq Seq(Chars)
    /\ DOMAIN Code \cup {"?"} \subseteq Chars

VARIABLES
    params,       \* Page::params_, of which used_ = Len(params)
    sta,          \* sta_config_: of its ssid and its password the text in all but
                  \* the last byte, and that byte, which a text may fill
    reply,        \* the answer to the last form
    notified,     \* and whether NotifyWifiSubmitted was called for it
    form,         \* history: the fields of the last form, as the user sent them
    whole,        \* history: its body reached the handler whole
    before,       \* history: params and sta when it arrived
    posted        \* history: forms posted so far

vars == <<params, sta, reply, notified, form, whole, before, posted>>

Field == [key : Keys, val : Texts]
StoredTexts == BoundedSeq(Chars, FieldLen - 1)
Forms == BoundedSeq(Field, MaxFields)

Cut(text, n) == SubSeq(text, 1, IF n < Len(text) THEN n ELSE Len(text))

(* What wifi_config_t holds of a text, and what the driver reads of it.      *)
StaField(text, size) ==
    [text |-> Cut(text, size - 1), last |-> IF Len(text) < size THEN <<>> ELSE <<text[size]>>]
Held(f, size) == IF Len(f.text) < size - 1 THEN f.text ELSE f.text \o f.last

Init ==
    /\ params = <<>>
    /\ sta \in [ssid : {StaField(t, SsidLen) : t \in NvsTexts},
                password : {StaField(t, PasswordLen) : t \in NvsTexts}]
    /\ reply = "none" /\ notified = FALSE
    /\ form = <<>> /\ whole = TRUE
    /\ before = [params |-> params, sta |-> sta]
    /\ posted = 0

-----------------------------------------------------------------------------
(* The Page *)

Matches(page, id) == {i \in 1..Len(page) : page[i].id = id}

GetParam(page, id) ==
    IF Matches(page, id) = {} THEN Unknown ELSE page[Min(Matches(page, id))].val

(* CopyField cuts what does not fit.                                         *)
SetParamAdding(page, id, v) ==
    IF Matches(page, id) = {} THEN Append(page, [id |-> id, val |-> v])
    ELSE [page EXCEPT ![Min(Matches(page, id))].val = v]
SetLastMatch(page, id, v) ==
    IF Matches(page, id) = {} THEN page
    ELSE [page EXCEPT ![Max(Matches(page, id))].val = Cut(v, FieldLen - 1)]
SetParamValue(page, id, v) ==
    IF Matches(page, id) = {} THEN page
    ELSE [page EXCEPT ![Min(Matches(page, id))].val = Cut(v, FieldLen - 1)]

PageFullLate == Len(params) > MaxParams
PageFull == Len(params) >= MaxParams

AddParam(id, v) ==
    /\ ~PageFull
    /\ params' = Append(params, [id |-> Cut(id, FieldLen - 1), val |-> Cut(v, FieldLen - 1)])
    /\ reply' = "none" /\ notified' = FALSE /\ form' = <<>> /\ whole' = TRUE
    /\ before' = [params |-> params', sta |-> sta]
    /\ UNCHANGED <<sta, posted>>

-----------------------------------------------------------------------------
(* Parsing *)

(* strtok_r: the non-empty pieces between delimiters, by where they begin.   *)
Begins(s, delim, i) == s[i] # delim /\ (i = 1 \/ s[i - 1] = delim)
Token(s, delim, i) ==
    SubSeq(s, i, Min({j \in i..Len(s) : j = Len(s) \/ s[j + 1] = delim}))

Replace(table, text) ==
    LET done[i \in 0..Len(text)] ==
          IF i = 0 THEN <<>>
          ELSE done[i - 1] \o (IF text[i] \in DOMAIN table THEN table[text[i]] ELSE <<text[i]>>)
    IN  done[Len(text)]

(* strtol of two digits.                                                     *)
FromHex(c, d) ==
    IF <<"%", c, d>> \in Range(Code) THEN CHOOSE ch \in DOMAIN Code : Code[ch] = <<"%", c, d>> ELSE "?"

EscapeMissedAtEnd(src, i) == src[i] = "%" /\ i + 2 < Len(src)
IsEscape(src, i) == src[i] = "%" /\ i + 2 <= Len(src)

DecodeOne(src, d) ==
    IF d.at > Len(src) THEN d
    ELSE IF IsEscape(src, d.at)
         THEN [at |-> d.at + 3, out |-> Append(d.out, FromHex(src[d.at + 1], src[d.at + 2]))]
         ELSE [at |-> d.at + 1,
               out |-> Append(d.out, IF src[d.at] = "+" THEN " " ELSE src[d.at])]

(* As many passes as dst has room for.                                       *)
UrlDecode(src, size) ==
    LET done[i \in 0..(size - 1)] ==
          IF i = 0 THEN [at |-> 1, out |-> <<>>] ELSE DecodeOne(src, done[i - 1])
    IN  done[size - 1].out

(* strncpy of size - 1 bytes: it pads with zeros and never writes the last   *)
(* byte, so that of a text that filled the field stays behind one that comes *)
(* up to it.                                                                 *)
Stored(v, old, size) == [old EXCEPT !.text = Cut(v, size - 1)]

(* One key=value pair; a pair with no key is skipped.                        *)
ApplyPair(st, pair) ==
    LET tokens == {i \in 1..Len(pair) : Begins(pair, "=", i)}
        behind == tokens \ {Min(tokens)}
        key == UrlDecode(Token(pair, "=", Min(tokens)), FieldLen)
        val == IF behind = {} THEN <<>> ELSE UrlDecode(Token(pair, "=", Min(behind)), FieldLen)
    IN  IF tokens = {} THEN st
        ELSE IF key = SsidKey
             THEN [st EXCEPT !.sta.ssid = Stored(val, @, SsidLen), !.ssid_set = val # <<>>]
        ELSE IF key = PasswordKey
             THEN [st EXCEPT !.sta.password = Stored(val, @, PasswordLen)]
        ELSE [st EXCEPT !.params = SetParamValue(@, key, val)]

ParsePost(body) ==
    LET done[i \in 0..Len(body)] ==
          CASE i = 0 -> [sta |-> sta, ssid_set |-> FALSE, params |-> params]
            [] i > 0 /\ Begins(body, "&", i) -> ApplyPair(done[i - 1], Token(body, "&", i))
            [] OTHER -> done[i - 1]
    IN  done[Len(body)]

-----------------------------------------------------------------------------
(* The browser and the handlers *)

Escaped(text) == Replace(Code, text)
Pair(f) == Escaped(f.key) \o <<"=">> \o Escaped(f.val)
Encoded(fields) ==
    LET done[i \in 0..Len(fields)] ==
          IF i = 0 THEN <<>>
          ELSE done[i - 1] \o (IF i = 1 THEN <<>> ELSE <<"&">>) \o Pair(fields[i])
    IN  done[Len(fields)]

(* RecvBody: one httpd_req_recv of at most what the buffer holds.            *)
Room(body) == IF Len(body) < BodySize - 1 THEN Len(body) ELSE BodySize - 1
RecvSizes(body) == IF ShortReads THEN 1..Room(body) ELSE {Room(body)}

NotifyAlways(path, ssid_set) == path = "/"
Notifies(path, ssid_set) == path = "/" /\ ssid_set

Accept(path, fields, n) ==
    LET st == ParsePost(SubSeq(Encoded(fields), 1, n))
    IN  /\ params' = st.params
        /\ sta' = st.sta
        /\ notified' = Notifies(path, st.ssid_set)
        /\ reply' = "OK"
        /\ whole' = (n = Len(Encoded(fields)))

(* An empty body, a receive error or a timeout: nothing is parsed.           *)
Refuse ==
    /\ reply' = "error" /\ notified' = FALSE /\ whole' = FALSE
    /\ UNCHANGED <<params, sta>>

Handler(path, fields) ==
    /\ posted < MaxForms
    /\ posted' = posted + 1
    /\ form' = fields
    /\ before' = [params |-> params, sta |-> sta]
    /\ \/ fields # <<>> /\ \E n \in RecvSizes(Encoded(fields)) : Accept(path, fields, n)
       \/ Refuse

HandlerWifiPost(fields) == Handler("/", fields)
HandlerConfigSavePost(fields) == Handler("/configsave", fields)

Next ==
    \/ \E id \in Ids, v \in Texts : AddParam(id, v)
    \/ \E fields \in Forms : HandlerWifiPost(fields) \/ HandlerConfigSavePost(fields)

Spec == Init /\ [][Next]_vars

-----------------------------------------------------------------------------
(* Properties *)

ParamLists == Seq([id : StoredTexts, val : StoredTexts])
SentForms == Seq([key : Keys, val : Seq(Chars)])
StaConfigs ==
    [ssid : [text : BoundedSeq(Chars, SsidLen - 1), last : BoundedSeq(Chars, 1)],
     password : [text : BoundedSeq(Chars, PasswordLen - 1), last : BoundedSeq(Chars, 1)]]

TypeOK ==
    /\ params \in ParamLists /\ Len(params) <= MaxParams
    /\ sta \in StaConfigs
    /\ before \in [params : ParamLists, sta : StaConfigs]
    /\ form \in SentForms
    /\ reply \in {"none", "OK", "error"}
    /\ notified \in BOOLEAN /\ whole \in BOOLEAN
    /\ posted \in 0..MaxForms

(* What a form asks for: the last field of a key counts, cut to what its     *)
(* destination holds, and what it does not name stays as it was.             *)
Asked(key, room, old) ==
    LET named == {i \in 1..Len(form) : form[i].key = key}
    IN  IF named = {} THEN old ELSE Cut(form[Max(named)].val, room)

AppliedAsAsked ==
    /\ before.sta.ssid.last = <<>> =>
         Held(sta.ssid, SsidLen) = Asked(SsidKey, SsidLen - 1, Held(before.sta.ssid, SsidLen))
    /\ before.sta.password.last = <<>> =>
         Held(sta.password, PasswordLen) =
           Asked(PasswordKey, PasswordLen - 1, Held(before.sta.password, PasswordLen))
    /\ \A id \in Ids :
         GetParam(params, id) =
           LET old == GetParam(before.params, id)
           IN  IF old = Unknown THEN Unknown ELSE Asked(id, FieldLen - 1, old)

(* A form whose body arrived whole is applied exactly as the user sent it,   *)
(* whatever its values contain and however many fields share a key, as long  *)
(* as the SSID or password it replaces had not filled its field (see Stored).*)
WholeFormApplied == reply = "OK" /\ whole => AppliedAsAsked

(* However a body is cut, the waiting task is woken only with an SSID.       *)
NotifiedWithSsid == notified => sta.ssid.text # <<>>

FieldValues == [id \in Ids |-> GetParam(params, id)]

(* What GetParam answers is a map that behaves as Settings says.             *)
Map == INSTANCE Settings WITH
         Texts <- StoredTexts,
         Absent <- Unknown, values <- FieldValues
MapBehaves == Map!Spec
=============================================================================
