----------------------------- MODULE PagesProofs ------------------------------
(***************************************************************************)
(* Proofs about Pages, for any texts, networks, fields, options and any way  *)
(* a user redefines the form: what the pages keep has its type, what is      *)
(* saved is what was shown, saving a page whose script ran changes nothing   *)
(* the user did not edit, and what is plain is stored as it was picked.      *)
(*                                                                          *)
(* They rest on two inverses: in a script that runs a literal undoes         *)
(* JsonEscape, and the browser's HTML parser undoes HtmlEscape.  A text with *)
(* markup or a line break in it may keep the script from running.            *)
(***************************************************************************)
EXTENDS Pages, FormProofs

-----------------------------------------------------------------------------
(* Reading a literal *)

ReadStart == [value |-> <<>>, escape |-> FALSE, valid |-> TRUE]
Readings(S) == [value : Seq(S), escape : BOOLEAN, valid : BOOLEAN]

LiteralRuns(S, text, quote) ==
    {d \in [0..Len(text) -> Readings(S)] :
       d[0] = ReadStart /\ \A i \in 1..Len(text) : d[i] = Reading(d[i - 1], text[i], quote)}

LEMMA ReadingType ==
    ASSUME NEW S, NEW read \in Readings(S), NEW c \in S, NEW quote
    PROVE  Reading(read, c, quote) \in Readings(S)
<1>1. read.value \in Seq(S) /\ read.escape \in BOOLEAN /\ read.valid \in BOOLEAN
  BY DEF Readings
<1> DEFINE more == Append(read.value, c)
           kept == IF c \in LineBreaks THEN read.value ELSE more
           ok == read.valid /\ c \notin LineBreaks \cup {quote}
<1>2. more \in Seq(S) /\ kept \in Seq(S) /\ ok \in BOOLEAN
  BY <1>1, AppendProperties
<1>3. \/ Reading(read, c, quote) = [read EXCEPT !.escape = FALSE, !.value = kept]
      \/ Reading(read, c, quote) = [read EXCEPT !.escape = TRUE]
      \/ Reading(read, c, quote) = [read EXCEPT !.value = more, !.valid = ok]
  BY Zenon DEF Reading, Readings
<1> HIDE DEF more, kept, ok
<1> QED BY <1>1, <1>2, <1>3 DEF Readings

(* Literal is the outcome of its last pass.                                  *)
LEMMA LiteralRun ==
    ASSUME NEW S, NEW text \in Seq(S), NEW quote
    PROVE  \E d \in LiteralRuns(S, text, quote) :
             Literal(text, quote) = [valid |-> d[Len(text)].valid /\ ~d[Len(text)].escape,
                                     value |-> d[Len(text)].value]
<1> DEFINE X == Readings(S)
           n == Len(text)
           start == ReadStart
           Pass(x, i) == Reading(x, text[i], quote)
           step == [i \in 1..n |-> [x \in X |-> Pass(x, i)]]
           IsRun(f) == f = [i \in 0..n |-> IF i = 0 THEN start ELSE Pass(f[i - 1], i)]
           done == CHOOSE f : IsRun(f)
<1>1. n \in Nat /\ start \in X
  BY EmptySeq, LenProperties DEF ReadStart, Readings
<1>2. \A i \in 1..n, x \in X : Pass(x, i) \in X
  BY ElementOfSeq, ReadingType
<1>3. Literal(text, quote) = [valid |-> done[n].valid /\ ~done[n].escape, value |-> done[n].value]
  BY DEF Literal, ReadStart
<1> HIDE DEF X, n, start, Pass
<1>4. PICK at \in Loops(X, n, start, step) : TRUE
  <2>1. step \in [1..n -> [X -> X]]
    BY <1>2
  <2> HIDE DEF step
  <2>2. Loops(X, n, start, step) # {}
    BY <1>1, <2>1, LoopExists
  <2> QED BY <2>2
<1>5. at \in [0..n -> X] /\ at[0] = start /\ \A i \in 1..n : at[i] = step[i][at[i - 1]]
  <2> HIDE DEF step
  <2> QED BY <1>4 DEF Loops
<1>6. ASSUME NEW i \in 1..n PROVE at[i] = Pass(at[i - 1], i)
  <2>1. i - 1 \in 0..n /\ at[i - 1] \in X
    BY <1>1, <1>5
  <2> QED BY <1>5, <2>1
<1>7. IsRun(at)
  BY <1>1, <1>5, <1>6
<1>8. IsRun(done)
  BY <1>7
<1> HIDE DEF done, step
<1>9. done[0] = start /\ \A i \in 1..n : done[i] = Pass(done[i - 1], i)
  BY <1>1, <1>8
<1>10. \A i \in 0..n : done[i] \in X
  BY <1>1, <1>2, <1>9, LoopStays
<1>11. done \in [0..n -> X]
  BY <1>8, <1>10
<1>12. done \in LiteralRuns(S, text, quote)
  BY <1>9, <1>11 DEF LiteralRuns, X, n, start, Pass
<1> QED BY <1>3, <1>12 DEF n

LEMMA LiteralType ==
    ASSUME NEW S, NEW text \in Seq(S), NEW quote
    PROVE  Literal(text, quote) \in [valid : BOOLEAN, value : Seq(S)]
<1>1. PICK d \in LiteralRuns(S, text, quote) :
        Literal(text, quote) = [valid |-> d[Len(text)].valid /\ ~d[Len(text)].escape,
                                value |-> d[Len(text)].value]
  BY LiteralRun
<1>2. Len(text) \in 0..Len(text)
  BY LenProperties
<1>3. d[Len(text)] \in Readings(S)
  BY <1>2 DEF LiteralRuns
<1> QED BY <1>1, <1>3 DEF Readings

(* A character that needs no escape, a backslash, and the character behind.  *)
LEMMA ReadingSteps ==
    ASSUME NEW v, NEW c, NEW quote, NEW ok \in BOOLEAN
    PROVE  LET read == [value |-> v, escape |-> FALSE, valid |-> ok]
               more == [value |-> Append(v, c), escape |-> FALSE, valid |-> ok]
               over == [value |-> Append(v, c), escape |-> FALSE, valid |-> ok /\ c \notin LineBreaks]
               behind == [value |-> v, escape |-> TRUE, valid |-> ok]
           IN  /\ c \notin {"\\", quote} => Reading(read, c, quote) = over
               /\ Reading(read, "\\", quote) = behind
               /\ c \notin LineBreaks => Reading(behind, c, quote) = more
<1> DEFINE read == [value |-> v, escape |-> FALSE, valid |-> ok]
           behind == [value |-> v, escape |-> TRUE, valid |-> ok]
<1>1. /\ read.value = v /\ read.escape = FALSE /\ read.valid = ok
      /\ behind.value = v /\ behind.escape = TRUE /\ behind.valid = ok
  OBVIOUS
<1>2. ASSUME c \notin {"\\", quote}
      PROVE  Reading(read, c, quote) = [read EXCEPT !.value = Append(@, c),
                                                    !.valid = @ /\ c \notin LineBreaks \cup {quote}]
  <2> HIDE DEF read
  <2> QED BY <1>1, <1>2 DEF Reading
<1>3. Reading(read, "\\", quote) = [read EXCEPT !.escape = TRUE]
  <2> HIDE DEF read
  <2> QED BY <1>1 DEF Reading
<1>4. ASSUME c \notin LineBreaks
      PROVE  Reading(behind, c, quote) = [behind EXCEPT !.escape = FALSE, !.value = Append(@, c)]
  <2> HIDE DEF behind
  <2> QED BY <1>1, <1>4 DEF Reading
<1>5. c \notin {"\\", quote} => (c \notin LineBreaks \cup {quote} <=> c \notin LineBreaks)
  OBVIOUS
<1> QED BY <1>2, <1>3, <1>4, <1>5

(* A line is a text without a line break.                                    *)
NoBreak(text, n) == \A k \in 1..n : text[k] \notin LineBreaks

LEMMA LineIs ==
    ASSUME NEW text \in Seq(Chars)
    PROVE  text \in Lines <=> NoBreak(text, Len(text))
<1>1. Len(text) \in Nat /\ text \in [1..Len(text) -> Chars]
  BY LenProperties
<1>2. ASSUME NoBreak(text, Len(text)) PROVE text \in Lines
  <2>1. text \in [1..Len(text) -> Chars \ LineBreaks]
    BY <1>1, <1>2 DEF NoBreak
  <2> QED BY <1>1, <2>1, IsSeq DEF Lines
<1>3. ASSUME text \in Lines PROVE NoBreak(text, Len(text))
  BY <1>3, ElementOfSeq DEF Lines, NoBreak
<1> QED BY <1>2, <1>3

LEMMA LineText == Lines \subseteq Seq(Chars) /\ <<>> \in Lines
<1>1. ASSUME NEW text \in Lines PROVE text \in Seq(Chars)
  <2>1. Len(text) \in Nat /\ text \in [1..Len(text) -> Chars \ LineBreaks]
    BY LenProperties DEF Lines
  <2>2. text \in [1..Len(text) -> Chars]
    BY <2>1
  <2> QED BY <2>1, <2>2, IsSeq
<1>2. <<>> \in Lines
  BY EmptySeq DEF Lines
<1> QED BY <1>1, <1>2

(* After i characters that need no escape the reader has just these.         *)
LEMMA CutNone == ASSUME NEW S, NEW t \in Seq(S) PROVE Cut(t, 0) = <<>> /\ Cut(t, Len(t)) = t
<1>1. Len(t) \in Nat
  BY LenProperties
<1>2. Cut(t, 0) = SubSeq(t, 1, 0) /\ Cut(t, Len(t)) = SubSeq(t, 1, Len(t))
  BY <1>1 DEF Cut
<1> QED BY <1>2, SubSeqEmpty, SubSeqFull

LEMMA LiteralPlain ==
    ASSUME NEW text \in Lines, NEW quote, \A i \in 1..Len(text) : text[i] \notin {"\\", quote}
    PROVE  Literal(text, quote) = [valid |-> TRUE, value |-> text]
<1> DEFINE N == Len(text)
           At(i) == [value |-> Cut(text, i), escape |-> FALSE, valid |-> TRUE]
<1>1. PICK d \in LiteralRuns(Chars, text, quote) :
        Literal(text, quote) = [valid |-> d[N].valid /\ ~d[N].escape, value |-> d[N].value]
  BY LineText, LiteralRun
<1>2. N \in Nat /\ \A i \in 1..N : text[i] \notin LineBreaks
  BY LenProperties, LineText, LineIs DEF NoBreak
<1>3. d[0] = ReadStart /\ \A i \in 1..N : d[i] = Reading(d[i - 1], text[i], quote)
  BY DEF LiteralRuns
<1> DEFINE T == {i \in Nat : i <= N => d[i] = At(i)}
<1>4. 0 \in T
  BY <1>3, CutNone, LineText DEF ReadStart
<1>5. ASSUME NEW i \in Nat, i \in T PROVE i + 1 \in T
  <2>1. SUFFICES ASSUME i + 1 <= N PROVE d[i + 1] = At(i + 1)
    OBVIOUS
  <2>2. i + 1 \in 1..N /\ (i + 1) - 1 = i /\ i < N /\ i <= N
    BY <1>2, <2>1
  <2>3. /\ d[i] = At(i) /\ d[i + 1] = Reading(d[i], text[i + 1], quote)
        /\ text[i + 1] \notin {"\\", quote} /\ text[i + 1] \notin LineBreaks
    BY <1>2, <1>3, <1>5, <2>2
  <2>4. Cut(text, i + 1) = Append(Cut(text, i), text[i + 1])
    BY <2>2, CutMore, LineText
  <2> DEFINE old == Cut(text, i)
             c == text[i + 1]
  <2>5. Reading([value |-> old, escape |-> FALSE, valid |-> TRUE], c, quote) =
          [value |-> Append(old, c), escape |-> FALSE, valid |-> TRUE]
    <3> HIDE DEF old
    <3> QED BY <2>3, ReadingSteps
  <2> QED BY <2>3, <2>4, <2>5
<1>6. N \in T
  <2> HIDE DEF T
  <2>1. Nat \subseteq T
    BY <1>4, <1>5, SetInduction
  <2> QED BY <1>2, <2>1
<1>7. d[N] = At(N) /\ Cut(text, N) = text
  BY <1>2, <1>6, CutNone, LineText
<1>8. d[N].valid = TRUE /\ d[N].escape = FALSE /\ d[N].value = text
  BY <1>7
<1> QED BY <1>1, <1>8

-----------------------------------------------------------------------------
(* The two inverses *)

(* A quote and a backslash are written with a backslash before them.         *)
Quote == "\""

LEMMA QuoteIs ==
    /\ Quote # "\\" /\ Quote \in DOMAIN Code /\ DOMAIN JsonEscapes = {Quote, "\\"}
    /\ Quote \notin LineBreaks /\ "\\" \notin LineBreaks
<1>1. Quote # "\\" /\ DOMAIN JsonEscapes = {Quote, "\\"}
  BY Zenon DEF Quote, JsonEscapes
<1>2. DOMAIN Code = {"&", "=", "%", "+", Quote, "\\", " ", "<", ">", "/", "LF", "CR"}
  BY Zenon DEF Code, Quote
<1>3. Quote \notin LineBreaks /\ "\\" \notin LineBreaks
  BY Zenon DEF Quote, LineBreaks
<1> QED BY <1>1, <1>2, <1>3

LEMMA JsonOne ==
    ASSUME NEW c \in Chars
    PROVE  /\ One(JsonEscapes, c) = IF c \in {Quote, "\\"} THEN <<"\\", c>> ELSE <<c>>
           /\ One(JsonEscapes, c) \in Seq(Chars)
<1>1. "\\" \in Chars
  <2>1. "\\" \in DOMAIN Code
    BY Zenon DEF Code
  <2> QED BY <2>1, CharsHave
<1>2. JsonEscapes = [ch \in {Quote, "\\"} |-> <<"\\", ch>>]
  BY Zenon DEF JsonEscapes, Quote
<1>3. One(JsonEscapes, c) = IF c \in {Quote, "\\"} THEN <<"\\", c>> ELSE <<c>>
  BY <1>2, QuoteIs DEF One
<1>4. <<"\\", c>> \in Seq(Chars) /\ <<c>> \in Seq(Chars)
  BY <1>1
<1> QED BY <1>3, <1>4

LEMMA JsonEscapeRun ==
    ASSUME NEW text \in Seq(Chars)
    PROVE  /\ \E d \in ReplaceRuns(Chars, JsonEscapes, text) : JsonEscape(text) = d[Len(text)]
           /\ JsonEscape(text) \in Seq(Chars)
<1>1. \A i \in 1..Len(text) : One(JsonEscapes, text[i]) \in Seq(Chars)
  BY ElementOfSeq, JsonOne
<1>2. Len(text) \in Nat /\ Len(text) \in 0..Len(text)
  BY LenProperties
<1>3. PICK d \in ReplaceRuns(Chars, JsonEscapes, text) : JsonEscape(text) = d[Len(text)]
  BY <1>1, <1>2, ReplaceRun DEF JsonEscape
<1> QED BY <1>2, <1>3 DEF ReplaceRuns

(* What BuildConfigInject and BuildScanInjectScript embed comes out of a     *)
(* script that runs as it went in; no script runs with a line break in it.   *)
LEMMA EmbeddedBack ==
    ASSUME NEW text \in Seq(Chars)
    PROVE  Embedded(text) = [valid |-> NoBreak(text, Len(text)), value |-> text]
<1> DEFINE N == Len(text)
           e == JsonEscape(text)
           piece == [i \in 1..N |-> One(JsonEscapes, text[i])]
           At(i) == [value |-> Cut(text, i), escape |-> FALSE, valid |-> NoBreak(text, i)]
<1>1. PICK E \in ReplaceRuns(Chars, JsonEscapes, text) : e = E[N]
  BY JsonEscapeRun
<1>2. N \in Nat /\ e \in Seq(Chars) /\ Len(e) \in Nat
  BY JsonEscapeRun, LenProperties
<1>3. PICK d \in LiteralRuns(Chars, e, Quote) :
        Literal(e, Quote) = [valid |-> d[Len(e)].valid /\ ~d[Len(e)].escape, value |-> d[Len(e)].value]
  BY <1>2, LiteralRun
<1>4. /\ E \in [0..N -> Seq(Chars)] /\ E[0] = <<>>
      /\ \A i \in 1..N : E[i] = E[i - 1] \o piece[i]
  BY DEF ReplaceRuns
<1>5. piece \in [1..N -> Seq(Chars)]
  BY ElementOfSeq, JsonOne
<1>6. d[0] = ReadStart /\ \A k \in 1..Len(e) : d[k] = Reading(d[k - 1], e[k], Quote)
  BY <1>3 DEF LiteralRuns
<1>7. \A i \in 1..N : piece[i] = One(JsonEscapes, text[i]) /\ text[i] \in Chars
  BY ElementOfSeq
<1> HIDE DEF piece, e, N
<1>8. ASSUME NEW i \in 1..N PROVE Added(e, E[i - 1], piece[i], E[i])
  <2>1. Joins(Chars, N, E, piece)
    BY <1>4, <1>5 DEF Joins
  <2> QED BY <1>1, <1>2, <2>1, Pieces
<1> DEFINE T == {i \in Nat : i <= N => d[Len(E[i])] = At(i)}
<1>9. 0 \in T
  <2>1. NoBreak(text, 0) = TRUE
    BY DEF NoBreak
  <2> QED BY <1>2, <1>4, <1>6, <2>1, EmptySeq, CutNone DEF ReadStart
<1>10. ASSUME NEW i \in Nat, i \in T PROVE i + 1 \in T
  <2>1. SUFFICES ASSUME i + 1 <= N PROVE d[Len(E[i + 1])] = At(i + 1)
    OBVIOUS
  <2> DEFINE old == Cut(text, i)
             c == text[i + 1]
             L == Len(E[i])
             ok == NoBreak(text, i)
             p == piece[i + 1]
  <2>2. i + 1 \in 1..N /\ (i + 1) - 1 = i /\ i < N /\ i <= N
    BY <1>2, <2>1
  <2>3. d[L] = [value |-> old, escape |-> FALSE, valid |-> ok] /\ Cut(text, i + 1) = Append(old, c)
    BY <1>10, <2>2, CutMore DEF N
  <2>8. ok \in BOOLEAN /\ NoBreak(text, i + 1) = (ok /\ c \notin LineBreaks)
    <3>1. i \in Nat /\ \A k : k \in 1..(i + 1) <=> k \in 1..i \/ k = i + 1
      BY <1>10
    <3> QED BY <3>1 DEF NoBreak
  <2>9. c \in {Quote, "\\"} => c \notin LineBreaks
    BY QuoteIs
  <2>4. /\ L \in Nat /\ Len(p) \in Nat /\ Len(E[i + 1]) = L + Len(p) /\ L + Len(p) <= Len(e)
        /\ \A k \in 1..Len(p) : e[L + k] = p[k]
    BY <1>8, <2>2 DEF Added
  <2>5. p = IF c \in {Quote, "\\"} THEN <<"\\", c>> ELSE <<c>>
    BY <1>7, <2>2, JsonOne
  <2> HIDE DEF old, c, L, p, At, ok
  <2>6. CASE c \in {Quote, "\\"}
    <3>1. Len(p) = 2 /\ p[1] = "\\" /\ p[2] = c
      BY <2>5, <2>6
    <3>2. e[L + 1] = "\\" /\ e[L + 2] = c /\ L + 1 \in 1..Len(e) /\ L + 2 \in 1..Len(e)
          /\ (L + 1) - 1 = L /\ (L + 2) - 1 = L + 1
      BY <1>2, <2>4, <3>1
    <3>3. d[L + 1] = [value |-> old, escape |-> TRUE, valid |-> ok]
      BY <1>6, <2>3, <2>8, <3>2, ReadingSteps
    <3>4. d[L + 2] = [value |-> Append(old, c), escape |-> FALSE, valid |-> ok]
      <4>1. d[L + 2] = Reading(d[L + 1], c, Quote)
        BY <1>6, <3>2
      <4>2. c \notin LineBreaks
        BY <2>6, <2>9
      <4>3. Reading([value |-> old, escape |-> TRUE, valid |-> ok], c, Quote) =
              [value |-> Append(old, c), escape |-> FALSE, valid |-> ok]
        BY <2>8, <4>2, ReadingSteps
      <4> QED BY <3>3, <4>1, <4>3
    <3>5. NoBreak(text, i + 1) = ok
      BY <2>6, <2>8, <2>9
    <3> QED BY <2>3, <2>4, <3>1, <3>4, <3>5 DEF At
  <2>7. CASE c \notin {Quote, "\\"}
    <3>1. Len(p) = 1 /\ p[1] = c
      BY <2>5, <2>7
    <3>2. e[L + 1] = c /\ L + 1 \in 1..Len(e) /\ (L + 1) - 1 = L
      BY <1>2, <2>4, <3>1
    <3>3. d[L + 1] = [value |-> Append(old, c), escape |-> FALSE, valid |-> ok /\ c \notin LineBreaks]
      <4>1. d[L + 1] = Reading(d[L], c, Quote)
        BY <1>6, <3>2
      <4>2. c \notin {"\\", Quote}
        BY <2>7
      <4>3. Reading([value |-> old, escape |-> FALSE, valid |-> ok], c, Quote) =
              [value |-> Append(old, c), escape |-> FALSE, valid |-> ok /\ c \notin LineBreaks]
        BY <2>8, <4>2, ReadingSteps
      <4> QED BY <2>3, <4>1, <4>3
    <3> QED BY <2>3, <2>4, <2>8, <3>1, <3>3 DEF At
  <2> QED BY <2>6, <2>7
<1>11. N \in T
  <2> HIDE DEF T
  <2>1. Nat \subseteq T
    BY <1>9, <1>10, SetInduction
  <2> QED BY <1>2, <2>1
<1>12. d[Len(e)] = At(N) /\ Cut(text, N) = text
  BY <1>1, <1>2, <1>11, CutNone DEF N
<1>13. d[Len(e)].valid = NoBreak(text, N) /\ d[Len(e)].escape = FALSE /\ d[Len(e)].value = text
  BY <1>12
<1>14. Embedded(text) = Literal(e, Quote)
  BY Zenon DEF Embedded, Quote, e
<1>15. NoBreak(text, N) \in BOOLEAN
  BY DEF NoBreak
<1> QED BY <1>3, <1>13, <1>14, <1>15 DEF N

LEMMA OneElement ==
    ASSUME NEW S, NEW x \in S
    PROVE  Len(<<x>>) = 1 /\ <<x>> \in Seq(S) /\ <<x>>[1] = x
OBVIOUS

(* Each entity stands for one character, and is none of a text's.            *)
EntityCodes == {"&amp;", "&lt;", "&gt;", "&quot;", "&#39;"}
EntityTexts == Chars \cup EntityCodes

LEMMA EntityOne ==
    ASSUME NEW c \in Chars
    PROVE  /\ Len(One(Entities, c)) = 1 /\ One(Entities, c) \in Seq(EntityTexts)
           /\ LET e == One(Entities, c)[1]
              IN  (IF <<e>> \in Range(Entities)
                   THEN CHOOSE ch \in DOMAIN Entities : Entities[ch] = <<e>> ELSE e) = c
<1> DEFINE dq == "\""
<1>1. /\ DOMAIN Entities = {"&", "<", ">", dq, "'"}
      /\ Entities["&"] = <<"&amp;">> /\ Entities["<"] = <<"&lt;">> /\ Entities[">"] = <<"&gt;">>
      /\ Entities[dq] = <<"&quot;">> /\ Entities["'"] = <<"&#39;">>
  BY Zenon DEF Entities
<1> HIDE DEF dq
<1>3. \A ch \in DOMAIN Entities : \E x \in EntityCodes : Entities[ch] = <<x>>
  BY <1>1 DEF EntityCodes
<1>4. \A ch, oth \in DOMAIN Entities : Entities[ch] = Entities[oth] => ch = oth
  <2>2. \A x : <<x>>[1] = x
    OBVIOUS
  <2>3. /\ Entities["&"][1] = "&amp;" /\ Entities["<"][1] = "&lt;" /\ Entities[">"][1] = "&gt;"
        /\ Entities[dq][1] = "&quot;" /\ Entities["'"][1] = "&#39;"
    BY <1>1, <2>2, Zenon
  <2>1. \A ch \in DOMAIN Entities :
          \/ ch = "&" /\ Entities[ch][1] = "&amp;"
          \/ ch = "<" /\ Entities[ch][1] = "&lt;"
          \/ ch = ">" /\ Entities[ch][1] = "&gt;"
          \/ ch = dq /\ Entities[ch][1] = "&quot;"
          \/ ch = "'" /\ Entities[ch][1] = "&#39;"
    BY <1>1, <2>3
  <2> QED BY <2>1
<1>5. CASE c \in DOMAIN Entities
  <2>1. PICK x \in EntityCodes : Entities[c] = <<x>>
    BY <1>3, <1>5
  <2>2. One(Entities, c) = <<x>> /\ <<x>> \in Range(Entities)
    BY <1>5, <2>1 DEF One, Range
  <2>3. (CHOOSE ch \in DOMAIN Entities : Entities[ch] = <<x>>) = c
    BY <1>4, <1>5, <2>1
  <2>4. Len(<<x>>) = 1 /\ <<x>> \in Seq(EntityTexts) /\ <<x>>[1] = x
    <3>1. x \in EntityTexts
      BY DEF EntityTexts
    <3> QED BY <3>1, OneElement
  <2> QED BY <2>2, <2>3, <2>4
<1>6. CASE c \notin DOMAIN Entities
  <2>1. One(Entities, c) = <<c>>
    BY <1>6 DEF One
  <2>2. Len(<<c>>) = 1 /\ <<c>> \in Seq(EntityTexts) /\ <<c>>[1] = c
    <3>1. c \in EntityTexts
      BY DEF EntityTexts
    <3> QED BY <3>1, OneElement
  <2>3. <<c>> \notin Range(Entities)
    <3>1. c \notin EntityCodes
      BY PageCharsAssumption DEF EntityCodes
    <3>2. \A x : <<x>> = <<c>> => x = c
      OBVIOUS
    <3> QED BY <1>3, <3>1, <3>2 DEF Range
  <2> QED BY <2>1, <2>2, <2>3
<1> QED BY <1>5, <1>6

(* What a page's script puts into an attribute the browser reads as it was.  *)
LEMMA HtmlBack ==
    ASSUME NEW text \in Seq(Chars)
    PROVE  HtmlText(HtmlEscape(text)) = text
<1> DEFINE N == Len(text)
           S == EntityTexts
           e == HtmlEscape(text)
           piece == [i \in 1..N |-> One(Entities, text[i])]
           Read(x) == IF <<x>> \in Range(Entities)
                      THEN CHOOSE ch \in DOMAIN Entities : Entities[ch] = <<x>> ELSE x
<1>1. N \in Nat /\ \A i \in 1..N : One(Entities, text[i]) \in Seq(S)
  BY ElementOfSeq, LenProperties, EntityOne
<1>2. PICK E \in ReplaceRuns(S, Entities, text) : e = E[N]
  BY <1>1, ReplaceRun DEF HtmlEscape
<1>3. /\ E \in [0..N -> Seq(S)] /\ E[0] = <<>>
      /\ \A i \in 1..N : E[i] = E[i - 1] \o piece[i]
  BY DEF ReplaceRuns
<1>4. /\ piece \in [1..N -> Seq(S)]
      /\ \A i \in 1..N : text[i] \in Chars /\ piece[i] = One(Entities, text[i])
  BY <1>1, ElementOfSeq
<1>5. \A i \in 1..N : Len(piece[i]) = 1 /\ Read(piece[i][1]) = text[i]
  BY <1>4, EntityOne
<1> HIDE DEF N, S, e, piece, Read
<1>6. ASSUME NEW i \in 1..N PROVE Added(e, E[i - 1], piece[i], E[i])
  <2>1. Joins(S, N, E, piece)
    BY <1>3, <1>4 DEF Joins
  <2> QED BY <1>1, <1>2, <2>1, Pieces
<1> DEFINE T == {i \in Nat : i <= N => Len(E[i]) = i}
<1>7. 0 \in T
  BY <1>3, EmptySeq
<1>8. ASSUME NEW i \in Nat, i \in T PROVE i + 1 \in T
  <2>1. SUFFICES ASSUME i + 1 <= N PROVE Len(E[i + 1]) = i + 1
    OBVIOUS
  <2>2. i + 1 \in 1..N /\ (i + 1) - 1 = i /\ i <= N
    BY <1>1, <2>1
  <2> QED BY <1>5, <1>6, <1>8, <2>2 DEF Added
<1>9. \A i \in 0..N : Len(E[i]) = i
  <2> HIDE DEF T
  <2>1. Nat \subseteq T
    BY <1>7, <1>8, SetInduction
  <2> QED BY <2>1, <1>1 DEF T
<1>10. Len(e) = N
  BY <1>1, <1>2, <1>9
<1>11. ASSUME NEW i \in 1..N PROVE e[i] = piece[i][1]
  <2>1. i - 1 \in 0..N /\ Len(E[i - 1]) + 1 = i /\ 1 \in 1..Len(piece[i])
    BY <1>1, <1>5, <1>9
  <2> QED BY <1>6, <2>1 DEF Added
<1>12. HtmlText(e) = [i \in 1..N |-> Read(e[i])]
  BY <1>10 DEF HtmlText, Read
<1>13. HtmlText(e) = [i \in 1..N |-> text[i]]
  BY <1>5, <1>11, <1>12
<1>14. text = [i \in 1..N |-> text[i]]
  BY LenProperties DEF N
<1> QED BY <1>13, <1>14 DEF e

-----------------------------------------------------------------------------
(* Numbers and finite sets *)

(* A set of naturals with a bound has a greatest, which Max finds.           *)
LEMMA Largest ==
    ASSUME NEW n \in Nat, NEW T \in SUBSET (0..n), T # {}
    PROVE  Max(T) \in T /\ \A y \in T : Max(T) >= y
<1> DEFINE U == {m \in Nat : \A y \in T : m >= y}
           m == Min(U)
<1>1. U \in SUBSET Nat /\ n \in U
  OBVIOUS
<1>2. m \in U /\ \A y \in U : m <= y
  <2> HIDE DEF U
  <2> QED BY <1>1, Smallest
<1>3. m \in T
  <2>1. SUFFICES ASSUME m \notin T PROVE FALSE
    OBVIOUS
  <2> HIDE DEF m
  <2>2. \A y \in T : m >= y /\ y # m /\ y \in Nat
    BY <1>2, <2>1
  <2>3. m \in Nat /\ m # 0 /\ \A y \in T : m - 1 >= y
    <3>1. PICK y \in T : m >= y /\ y # m /\ y \in Nat
      BY <2>2
    <3>2. m \in Nat /\ m # 0
      BY <1>2, <3>1
    <3> QED BY <2>2, <3>2
  <2>4. m - 1 \in U /\ ~(m <= m - 1)
    BY <2>3
  <2> QED BY <1>2, <2>4
<1> QED BY <1>2, <1>3 DEF Max

(* SetToSeq lists each element of a finite set.                              *)
LEMMA Listed ==
    ASSUME NEW S, IsFiniteSet(S)
    PROVE  /\ SetToSeq(S) \in Seq(S)
           /\ \A x \in S : \E n \in 1..Len(SetToSeq(S)) : SetToSeq(S)[n] = x
<1> DEFINE C == Cardinality(S)
           f == SetToSeq(S)
<1>1. C \in Nat /\ ExistsBijection(1..C, S)
  BY FS_CardinalityType
<1>2. \E g \in [1..C -> S] : IsInjective(g)
  BY <1>1 DEF ExistsBijection, Bijection, Injection
<1>3. f \in [1..C -> S] /\ IsInjective(f)
  BY <1>2 DEF SetToSeq
<1>4. IsFiniteSet(1..C) /\ Cardinality(1..C) = C
  BY <1>1, FS_Interval
<1> HIDE DEF f
<1>5. f \in Injection(1..C, S)
  BY <1>3 DEF Injection
<1>6. f \in Surjection(1..C, S)
  <2> HIDE DEF C
  <2> QED BY <1>4, <1>5, FS_Injection DEF C
<1>7. \A x \in S : \E n \in 1..C : f[n] = x
  BY <1>6 DEF Surjection
<1>8. f \in Seq(S) /\ Len(f) = C
  <2> HIDE DEF C
  <2> QED BY <1>1, <1>3, IsSeq
<1> QED BY <1>7, <1>8 DEF f

(* What the fields of a sequence are keyed by is finite.                     *)
LEMMA FewKeys ==
    ASSUME NEW n \in Nat, NEW f
    PROVE  IsFiniteSet({f[i] : i \in 1..n})
<1> DEFINE S == {f[i] : i \in 1..n}
           g == [i \in 1..n |-> f[i]]
<1>1. IsFiniteSet(1..n)
  BY FS_Interval
<1>2. g \in Surjection(1..n, S)
  BY DEF Surjection
<1>3. IsFiniteSet(S)
  <2> HIDE DEF S, g
  <2> QED BY <1>1, <1>2, FS_Surjection
<1> QED BY <1>3

LEMMA TrimType == ASSUME NEW text \in Lines PROVE Trim(text) \in Lines
<1> DEFINE solid == {i \in 1..Len(text) : text[i] # " "}
<1>1. text \in Seq(Chars \ LineBreaks) /\ Len(text) \in Nat /\ solid \subseteq 1..Len(text)
  BY LenProperties DEF Lines
<1>2. Trim(text) = IF solid = {} THEN <<>> ELSE SubSeq(text, Min(solid), Max(solid))
  BY DEF Trim
<1> HIDE DEF solid
<1>3. CASE solid = {}
  BY <1>2, <1>3, LineText
<1>4. CASE solid # {}
  <2>1. Min(solid) \in solid /\ Max(solid) \in solid
    <3>1. solid \in SUBSET Nat /\ solid \in SUBSET (0..Len(text))
      BY <1>1
    <3> QED BY <1>1, <1>4, <3>1, Smallest, Largest
  <2>2. Min(solid) \in 1..Len(text) /\ Max(solid) \in 1..Len(text)
    BY <1>1, <2>1
  <2>3. \A i \in Min(solid)..Max(solid) : text[i] \in Chars \ LineBreaks
    BY <1>1, <2>2, ElementOfSeq
  <2>4. SubSeq(text, Min(solid), Max(solid)) \in Seq(Chars \ LineBreaks)
    BY <1>1, <2>2, <2>3, SubSeqProperties
  <2> QED BY <1>2, <1>4, <2>4 DEF Lines
<1> QED BY <1>3, <1>4

-----------------------------------------------------------------------------
(* What the pages keep *)

Schemas == Seq(SchemaField)
Panes == {"none", "define", "fill"}
Tabs(loaded) ==
    [pane : Panes, intact : BOOLEAN, schema : Schemas, values : [loaded -> Lines], inputs : Seq(Lines),
     edited : SUBSET Ids]
Scans ==
    [page : {"none", "runs", "broken"}, listed : SUBSET (Names \cap Lines), box : Lines, picked : Lines]

(* The /config page in a browser, whose inputs are those of its schema.      *)
GoodTab(t) ==
    /\ \E loaded \in SUBSET Ids : IsFiniteSet(loaded) /\ t \in Tabs(loaded)
    /\ Len(t.inputs) = IF t.pane = "fill" THEN Len(t.schema) ELSE 0
    /\ Len(t.schema) <= Max({MaxParams, MaxSchema})

(* The Page's fields are those the application added.                        *)
OwnIds == \A i \in 1..Len(params) : params[i].id \in Ids

PageTypes ==
    /\ TypeOK /\ NotifiedWithSsid /\ OwnIds /\ GoodTab(tab)
    /\ scan \in Scans
    /\ from \in {"none", "config", "scan", "other"} /\ stale \in BOOLEAN

LEMMA TypesSuffice == PageTypes => PagesTypeOK
BY DEF PageTypes, GoodTab, Tabs, Panes, Schemas, Scans, PagesTypeOK

LEMMA GoodTabHas ==
    ASSUME NEW t, GoodTab(t)
    PROVE  /\ t = [pane |-> t.pane, intact |-> t.intact, schema |-> t.schema, values |-> t.values,
                   inputs |-> t.inputs, edited |-> t.edited]
           /\ t.pane \in Panes /\ t.intact \in BOOLEAN /\ t.schema \in Schemas /\ Len(t.schema) \in Nat
           /\ t.inputs \in Seq(Lines) /\ t.edited \in SUBSET Ids
           /\ IsFiniteSet(DOMAIN t.values) /\ DOMAIN t.values \subseteq Ids
           /\ t.values \in [DOMAIN t.values -> Lines]
           /\ \A i \in 1..Len(t.schema) : t.schema[i] \in SchemaField
<1>1. PICK loaded \in SUBSET Ids : IsFiniteSet(loaded) /\ t \in Tabs(loaded)
  BY DEF GoodTab
<1>2. /\ t = [pane |-> t.pane, intact |-> t.intact, schema |-> t.schema, values |-> t.values,
              inputs |-> t.inputs, edited |-> t.edited]
      /\ t.pane \in Panes /\ t.intact \in BOOLEAN /\ t.schema \in Schemas /\ t.inputs \in Seq(Lines)
      /\ t.edited \in SUBSET Ids /\ t.values \in [loaded -> Lines]
  BY <1>1 DEF Tabs
<1>3. DOMAIN t.values = loaded
  BY <1>2
<1>4. Len(t.schema) \in Nat /\ \A i \in 1..Len(t.schema) : t.schema[i] \in SchemaField
  BY <1>2, LenProperties, ElementOfSeq DEF Schemas
<1> QED BY <1>1, <1>2, <1>3, <1>4

(* A page that is put together of good parts is good.                        *)
LEMMA MakesGood ==
    ASSUME NEW pane \in Panes, NEW intact \in BOOLEAN, NEW schema \in Schemas, NEW inputs \in Seq(Lines),
           NEW edited \in SUBSET Ids, NEW loaded \in SUBSET Ids, IsFiniteSet(loaded),
           NEW values \in [loaded -> Lines],
           Len(inputs) = IF pane = "fill" THEN Len(schema) ELSE 0,
           Len(schema) <= Max({MaxParams, MaxSchema})
    PROVE  GoodTab([pane |-> pane, intact |-> intact, schema |-> schema, values |-> values, inputs |-> inputs,
                    edited |-> edited])
<1> DEFINE t == [pane |-> pane, intact |-> intact, schema |-> schema, values |-> values, inputs |-> inputs,
                 edited |-> edited]
<1>1. t \in Tabs(loaded) /\ t.inputs = inputs /\ t.pane = pane /\ t.schema = schema
  BY DEF Tabs
<1> HIDE DEF t
<1>2. GoodTab(t)
  BY <1>1 DEF GoodTab
<1> QED BY <1>2 DEF t

LEMMA MaxOfTwo ==
    /\ MaxParams <= Max({MaxParams, MaxSchema}) /\ MaxSchema <= Max({MaxParams, MaxSchema})
    /\ Max({MaxParams, MaxSchema}) \in Nat
<1>1. MaxParams \in Nat /\ MaxSchema \in Nat
  BY FormAssumption, PagesAssumption
<1> DEFINE T == {MaxParams, MaxSchema}
           n == MaxParams + MaxSchema
<1>2. n \in Nat /\ T \in SUBSET (0..n) /\ T # {}
  BY <1>1
<1>3. Max(T) \in T /\ \A y \in T : Max(T) >= y
  <2> HIDE DEF T, n
  <2> QED BY <1>2, Largest
<1> QED BY <1>1, <1>3

(* The texts the pages have of their own.                                    *)
LEMMA OwnTexts ==
    /\ <<"0">> \in Lines /\ <<"1">> \in Lines /\ <<"o", "n">> \in Lines
    /\ Range(Options) \subseteq Lines /\ Options[1] \in Range(Options)
    /\ <<"0">> # <<"1">>
<1>1. "0" \in Chars /\ "1" \in Chars /\ "o" \in Chars /\ "n" \in Chars
  BY PageCharsAssumption
<1>7. "0" \notin LineBreaks /\ "1" \notin LineBreaks /\ "o" \notin LineBreaks /\ "n" \notin LineBreaks
  BY DEF LineBreaks
<1>2. Options \in Seq(Lines) /\ Options # <<>>
  BY PagesAssumption
<1>3. DOMAIN Options = 1..Len(Options) /\ Len(Options) \in Nat \ {0}
  BY <1>2, EmptySeq, LenProperties
<1>4. Range(Options) \subseteq Lines
  <2>1. \A i \in 1..Len(Options) : Options[i] \in Lines
    BY <1>2, ElementOfSeq
  <2> QED BY <1>3, <2>1 DEF Range
<1>5. Options[1] \in Range(Options)
  BY <1>3 DEF Range
<1>6. <<"0">> # <<"1">>
  <2>1. <<"0">>[1] # <<"1">>[1]
    OBVIOUS
  <2> QED BY <2>1
<1>8. \A c, d \in Chars \ LineBreaks : <<c>> \in Lines /\ <<c, d>> \in Lines
  BY DEF Lines
<1> QED BY <1>1, <1>4, <1>5, <1>6, <1>7, <1>8

(* What an input shows is what was put in, if it can show that; and it shows *)
(* it again when it is put in again.                                         *)
LEMMA InputShows ==
    ASSUME NEW kind \in Kinds, NEW v \in Lines
    PROVE  /\ Input(kind, v) \in Lines
           /\ kind \in {"bool", "sel"} => Input(kind, v) \in Enterable(kind)
           /\ (kind \in {"bool", "sel"} => v \in Enterable(kind)) => Input(kind, v) = v
           /\ Input(kind, Input(kind, v)) = Input(kind, v)
<1>1. CASE kind = "bool"
  <2>1. Input(kind, v) \in {<<"0">>, <<"1">>} /\ Enterable(kind) = {<<"0">>, <<"1">>}
    BY <1>1 DEF Input, Enterable
  <2>2. \A x \in {<<"0">>, <<"1">>} : Input(kind, x) = x
    <3>1. <<"0">> # <<"t", "r", "u", "e">>
      <4>1. Len(<<"0">>) # Len(<<"t", "r", "u", "e">>)
        OBVIOUS
      <4> QED BY <4>1
    <3> QED BY <1>1, <3>1, OwnTexts DEF Input
  <2> QED BY <1>1, <2>1, <2>2, OwnTexts
<1>2. CASE kind = "sel"
  <2>1. kind # "bool"
    BY <1>2
  <2>2. \A x : Input(kind, x) = IF x \in Range(Options) THEN x ELSE Options[1]
    BY <1>2, <2>1 DEF Input
  <2>3. Enterable(kind) = Range(Options)
    BY <1>2, <2>1 DEF Enterable
  <2> QED BY <1>2, <2>2, <2>3, OwnTexts
<1>3. CASE kind \notin {"bool", "sel"}
  <2>1. Input(kind, v) = v
    BY <1>3, HtmlBack, LineText DEF Input
  <2> QED BY <1>3, <2>1
<1> QED BY <1>1, <1>2, <1>3

(* A script that can run has only lines in it.                               *)
LEMMA RunsLines ==
    ASSUME NEW texts \in SUBSET Seq(Chars), CanRun(texts)
    PROVE  texts \subseteq Lines
<1>1. ASSUME NEW text \in texts PROVE text \in Lines
  <2>1. Embedded(text).valid /\ Embedded(text) = [valid |-> NoBreak(text, Len(text)), value |-> text]
    BY EmbeddedBack DEF CanRun
  <2> QED BY <2>1, LineIs
<1> QED BY <1>1

(* window.wifiparam_values and window.wifiparam_schema are the Page's.       *)
LEMMA LoadedIs ==
    ASSUME NEW page \in ParamLists,
           \A i \in 1..Len(page) : page[i].id \in Ids /\ page[i].val \in Lines
    PROVE  /\ IsFiniteSet(DOMAIN Loaded(page)) /\ DOMAIN Loaded(page) \in SUBSET Ids
           /\ Loaded(page) \in [DOMAIN Loaded(page) -> Lines]
           /\ \A id \in DOMAIN Loaded(page) :
                \E m \in Matches(page, id) : Loaded(page)[id] = page[m].val
           /\ \A i \in 1..Len(page) : page[i].id \in DOMAIN Loaded(page)
<1> DEFINE D == {page[i].id : i \in 1..Len(page)}
           Value(id) == Embedded(page[Max(Matches(page, id))].val).value
<1>1. Len(page) \in Nat /\ \A i \in 1..Len(page) : page[i].val \in Lines
  BY LenProperties DEF ParamLists
<1>2. IsFiniteSet(D)
  <2> DEFINE f == [i \in 1..Len(page) |-> page[i].id]
  <2>1. IsFiniteSet({f[i] : i \in 1..Len(page)})
    <3> HIDE DEF f
    <3> QED BY <1>1, FewKeys
  <2>2. D = {f[i] : i \in 1..Len(page)}
    OBVIOUS
  <2> QED BY <2>1, <2>2
<1>3. D \in SUBSET Ids
  OBVIOUS
<1>4. ASSUME NEW id \in D
      PROVE  Max(Matches(page, id)) \in Matches(page, id)
             /\ Value(id) = page[Max(Matches(page, id))].val
  <2>1. Matches(page, id) # {} /\ Matches(page, id) \in SUBSET (0..Len(page))
        /\ Matches(page, id) \subseteq 1..Len(page)
    BY DEF Matches
  <2>2. Max(Matches(page, id)) \in Matches(page, id)
    BY <1>1, <2>1, Largest
  <2>3. page[Max(Matches(page, id))].val \in Lines
    BY <1>1, <2>1, <2>2
  <2> QED BY <2>2, <2>3, LineText, EmbeddedBack
<1>5. Loaded(page) = [id \in D |-> Value(id)]
  BY DEF Loaded
<1> HIDE DEF D, Value
<1>6. DOMAIN Loaded(page) = D /\ \A id \in D : Loaded(page)[id] = Value(id)
  BY <1>5
<1>7. \A id \in D : Value(id) \in Lines
  BY <1>1, <1>4 DEF Matches
<1>8. Loaded(page) \in [D -> Lines]
  BY <1>5, <1>7
<1>9. \A i \in 1..Len(page) : page[i].id \in D
  BY DEF D
<1> QED BY <1>2, <1>3, <1>4, <1>6, <1>8, <1>9

LEMMA SchemaIs ==
    ASSUME NEW page \in ParamLists,
           \A i \in 1..Len(page) : page[i].id \in Ids /\ page[i].val \in Lines
    PROVE  /\ Schema(page) \in Schemas /\ Len(Schema(page)) = Len(page)
           /\ \A i \in 1..Len(page) :
                Schema(page)[i].key = page[i].id /\ Schema(page)[i].kind = Kind[page[i].id]
<1> DEFINE Part(i) == [key |-> page[i].id, kind |-> Kind[page[i].id],
                       default |-> Embedded(page[i].val).value]
<1>1. Len(page) \in Nat
  BY LenProperties DEF ParamLists
<1>2. ASSUME NEW i \in 1..Len(page) PROVE Part(i) \in SchemaField
  <2>1. page[i].val \in Lines /\ page[i].val \in Seq(Chars)
    BY LineText
  <2>2. Embedded(page[i].val).value \in Lines
    BY <2>1, EmbeddedBack
  <2>3. Kind[page[i].id] \in Kinds
    BY PagesAssumption
  <2> QED BY <2>2, <2>3 DEF SchemaField
<1>3. Schema(page) = [i \in 1..Len(page) |-> Part(i)]
  BY DEF Schema
<1>4. \A i \in 1..Len(page) : Part(i).key = page[i].id /\ Part(i).kind = Kind[page[i].id]
  OBVIOUS
<1> HIDE DEF Part
<1>5. Schema(page) \in [1..Len(page) -> SchemaField]
  BY <1>2, <1>3
<1>6. Schema(page) \in Seq(SchemaField) /\ Len(Schema(page)) = Len(page)
  BY <1>1, <1>5, IsSeq
<1> QED BY <1>3, <1>4, <1>6 DEF Schemas

(* The inputs of "Fill Values" are texts, one of each field of the schema.   *)
LEMMA RenderIs ==
    ASSUME NEW schema \in Schemas, NEW values, values \in [DOMAIN values -> Lines]
    PROVE  /\ RenderFill(schema, values) \in Seq(Lines)
           /\ Len(RenderFill(schema, values)) = Len(schema)
           /\ \A i \in 1..Len(schema) :
                schema[i].key \in DOMAIN values =>
                  RenderFill(schema, values)[i] = Input(schema[i].kind, values[schema[i].key])
<1> DEFINE Value(i) == IF schema[i].key \in DOMAIN values THEN values[schema[i].key]
                       ELSE schema[i].default
           Part(i) == Input(schema[i].kind, Value(i))
           n == Len(schema)
<1>1. n \in Nat /\ \A i \in 1..n : schema[i] \in SchemaField
  BY LenProperties, ElementOfSeq DEF Schemas
<1>2. \A i \in 1..n : Value(i) \in Lines /\ schema[i].kind \in Kinds
  BY <1>1 DEF SchemaField
<1>3. RenderFill(schema, values) = [i \in 1..n |-> Part(i)]
  BY DEF RenderFill
<1>4. \A i \in 1..n : Part(i) \in Lines
  <2> HIDE DEF Value, n
  <2> QED BY <1>2, InputShows
<1>5. RenderFill(schema, values) \in [1..n -> Lines]
  <2> HIDE DEF Part
  <2> QED BY <1>3, <1>4
<1>6. RenderFill(schema, values) \in Seq(Lines) /\ Len(RenderFill(schema, values)) = n
  <2> HIDE DEF n
  <2> QED BY <1>1, <1>5, IsSeq
<1> QED BY <1>3, <1>6

(* A key of the schema has a first and a last field.                         *)
LEMMA FieldsFound ==
    ASSUME GoodTab(tab), NEW key \in SchemaKeys
    PROVE  /\ key \in Ids
           /\ Min(FieldsWith(key)) \in FieldsWith(key) /\ Max(FieldsWith(key)) \in FieldsWith(key)
           /\ \A i \in FieldsWith(key) :
                i \in 1..Len(tab.schema) /\ tab.schema[i] \in SchemaField /\ tab.schema[i].key = key
<1> DEFINE T == FieldsWith(key)
           n == Len(tab.schema)
<1>1. n \in Nat /\ \A i \in 1..n : tab.schema[i] \in SchemaField
  BY GoodTabHas
<1>2. T \subseteq 1..n /\ \A i \in T : tab.schema[i].key = key
  BY DEF FieldsWith
<1>3. T # {}
  BY DEF SchemaKeys, FieldsWith
<1> HIDE DEF T, n
<1>4. T \in SUBSET Nat /\ T \in SUBSET (0..n)
  BY <1>1, <1>2
<1>5. Min(T) \in T /\ Max(T) \in T
  BY <1>1, <1>3, <1>4, Smallest, Largest
<1>6. key \in Ids
  BY <1>1, <1>2, <1>3 DEF SchemaField
<1> QED BY <1>1, <1>2, <1>5, <1>6 DEF T, n

LEMMA KeysFinite == ASSUME Len(tab.schema) \in Nat PROVE IsFiniteSet(SchemaKeys)
<1> DEFINE f == [i \in 1..Len(tab.schema) |-> tab.schema[i].key]
<1>1. IsFiniteSet({f[i] : i \in 1..Len(tab.schema)})
  <2> HIDE DEF f
  <2> QED BY FewKeys
<1>2. SchemaKeys = {f[i] : i \in 1..Len(tab.schema)}
  BY DEF SchemaKeys
<1> QED BY <1>1, <1>2

(* doSave takes of a key a text, and if its fields are of one type what the  *)
(* first of them shows.                                                      *)
LEMMA TakenIs ==
    ASSUME GoodTab(tab), tab.pane = "fill", NEW key \in SchemaKeys
    PROVE  /\ Taken(key) \in Lines
           /\ (\A i, j \in FieldsWith(key) : tab.schema[i].kind = tab.schema[j].kind) =>
                Taken(key) = tab.inputs[Min(FieldsWith(key))]
<1> DEFINE first == Min(FieldsWith(key))
           last == Max(FieldsWith(key))
<1>1. first \in FieldsWith(key) /\ last \in FieldsWith(key)
      /\ first \in 1..Len(tab.schema)
  BY FieldsFound
<1>2. tab.inputs \in Seq(Lines) /\ Len(tab.inputs) = Len(tab.schema)
  BY GoodTabHas DEF GoodTab
<1>3. tab.inputs[first] \in Lines
  BY <1>1, <1>2, ElementOfSeq
<1> HIDE DEF first, last
<1>4. Taken(key) = CASE tab.schema[last].kind = "bool" /\ tab.schema[first].kind # "bool" -> <<"0">>
                     [] tab.schema[last].kind # "bool" /\ tab.schema[first].kind = "bool" -> <<"o", "n">>
                     [] OTHER -> tab.inputs[first]
  BY DEF Taken, first, last
<1>5. Taken(key) \in Lines
  BY <1>3, <1>4, OwnTexts
<1>6. tab.schema[last].kind = tab.schema[first].kind => Taken(key) = tab.inputs[first]
  BY <1>4
<1> QED BY <1>1, <1>5, <1>6 DEF first

(* What doSave keeps and posts: a text of every key it has.                  *)
LEMMA FilledIs ==
    ASSUME GoodTab(tab), tab.pane = "fill"
    PROVE  /\ IsFiniteSet(DOMAIN Filled) /\ DOMAIN Filled \in SUBSET Ids
           /\ Filled \in [DOMAIN Filled -> Lines]
           /\ DOMAIN Filled = SchemaKeys \cup DOMAIN tab.values
           /\ \A key \in DOMAIN Filled :
                Filled[key] = IF key \in SchemaKeys THEN Taken(key) ELSE tab.values[key]
<1> DEFINE D == SchemaKeys \cup DOMAIN tab.values
           Value(key) == IF key \in SchemaKeys THEN Taken(key) ELSE tab.values[key]
<1>1. /\ IsFiniteSet(DOMAIN tab.values) /\ DOMAIN tab.values \subseteq Ids /\ Len(tab.schema) \in Nat
      /\ \A key \in DOMAIN tab.values : tab.values[key] \in Lines
  BY GoodTabHas
<1>2. IsFiniteSet(SchemaKeys)
  BY <1>1, KeysFinite
<1>3. IsFiniteSet(D)
  BY <1>1, <1>2, FS_Union
<1>4. D \in SUBSET Ids
  BY <1>1, FieldsFound
<1>5. \A key \in D : Value(key) \in Lines
  BY <1>1, TakenIs
<1>6. Filled = [key \in D |-> Value(key)]
  BY DEF Filled
<1> HIDE DEF D, Value
<1>7. DOMAIN Filled = D /\ Filled \in [D -> Lines] /\ \A key \in D : Filled[key] = Value(key)
  BY <1>5, <1>6
<1> QED BY <1>3, <1>4, <1>7 DEF D, Value

(* The fields that name a key decide it if they agree.                       *)
LEMMA OutcomeOf ==
    ASSUME NEW fields \in SentForms, NEW key, NEW room, NEW old, NEW v,
           \A i \in 1..Len(fields) : fields[i].key = key => fields[i].val = v
    PROVE  Outcome(fields, Len(fields), key, room, old) =
             IF \E i \in 1..Len(fields) : fields[i].key = key THEN Cut(v, room) ELSE old
<1> DEFINE T == {i \in 1..Len(fields) : fields[i].key = key}
           n == Len(fields)
<1>1. n \in Nat
  BY LenProperties DEF SentForms
<1>2. CASE T = {}
  BY <1>2 DEF Outcome
<1>3. CASE T # {}
  <2>1. T \in SUBSET (0..n) /\ \A i \in T : i \in 1..n /\ fields[i].key = key
    BY <1>1
  <2>2. Max(T) \in T
    <3> HIDE DEF T, n
    <3> QED BY <1>1, <1>3, <2>1, Largest
  <2>3. fields[Max(T)].val = v
    <3> HIDE DEF T
    <3> QED BY <2>1, <2>2
  <2>4. \E i \in 1..Len(fields) : fields[i].key = key
    BY <1>3
  <2> QED BY <1>3, <2>3, <2>4 DEF Outcome
<1> QED BY <1>2, <1>3

(* doSave posts each key it has once.                                        *)
LEMMA FormIs ==
    ASSUME GoodTab(tab), tab.pane = "fill"
    PROVE  /\ FilledForm \in SentForms
           /\ \A key, room, old :
                Outcome(FilledForm, Len(FilledForm), key, room, old) =
                  IF key \in DOMAIN Filled THEN Cut(Filled[key], room) ELSE old
<1> DEFINE keys == SetToSeq(DOMAIN Filled)
           n == Len(keys)
           Part(i) == [key |-> keys[i], val |-> Filled[keys[i]]]
<1>1. keys \in Seq(DOMAIN Filled) /\ \A key \in DOMAIN Filled : \E i \in 1..n : keys[i] = key
  BY FilledIs, Listed
<1>2. FilledForm = [i \in 1..n |-> Part(i)]
  BY DEF FilledForm
<1> HIDE DEF keys
<1>3. n \in Nat /\ \A i \in 1..n : keys[i] \in DOMAIN Filled
  BY <1>1, LenProperties, ElementOfSeq
<1>4. DOMAIN Filled \subseteq Keys /\ \A key \in DOMAIN Filled : Filled[key] \in Seq(Chars)
  BY FilledIs, LineText DEF Keys
<1>5. \A i \in 1..n : Part(i) \in [key : Keys, val : Seq(Chars)]
  BY <1>3, <1>4
<1>6. FilledForm \in [1..n -> [key : Keys, val : Seq(Chars)]]
  <2> HIDE DEF Part
  <2> QED BY <1>2, <1>5
<1>7. FilledForm \in SentForms /\ Len(FilledForm) = n
  <2> HIDE DEF n
  <2> QED BY <1>3, <1>6, IsSeq DEF SentForms
<1>8. \A i \in 1..n : FilledForm[i].key = keys[i] /\ FilledForm[i].val = Filled[keys[i]]
  BY <1>2
<1> HIDE DEF n, Part
<1>9. ASSUME NEW key, NEW room, NEW old
      PROVE  Outcome(FilledForm, Len(FilledForm), key, room, old) =
               IF key \in DOMAIN Filled THEN Cut(Filled[key], room) ELSE old
  <2>1. \A i \in 1..Len(FilledForm) : FilledForm[i].key = key => FilledForm[i].val = Filled[key]
    BY <1>3, <1>7, <1>8
  <2>2. (\E i \in 1..Len(FilledForm) : FilledForm[i].key = key) <=> key \in DOMAIN Filled
    BY <1>1, <1>3, <1>7, <1>8 DEF n
  <2> DEFINE v == Filled[key]
  <2>3. \A i \in 1..Len(FilledForm) : FilledForm[i].key = key => FilledForm[i].val = v
    BY <2>1
  <2> HIDE DEF v
  <2>4. Outcome(FilledForm, Len(FilledForm), key, room, old) =
          IF \E i \in 1..Len(FilledForm) : FilledForm[i].key = key THEN Cut(v, room) ELSE old
    BY <1>7, <2>3, OutcomeOf
  <2> QED BY <2>2, <2>4 DEF v
<1> QED BY <1>7, <1>9

-----------------------------------------------------------------------------
(* Types: what a step does to the device, and to the page                    *)

DeviceTypes == TypeOK /\ NotifiedWithSsid /\ OwnIds

LEMMA NoFormKeeps ==
    ASSUME PageTypes, NoForm
    PROVE  DeviceTypes' /\ from' = "none"
<1>1. form' \in SentForms
  BY EmptySeq DEF NoForm, SentForms
<1> QED BY <1>1 DEF NoForm, PageTypes, DeviceTypes, TypeOK, NotifiedWithSsid, OwnIds

LEMMA HandlerKeeps ==
    ASSUME PageTypes, NEW path, NEW fields \in SentForms, Handler(path, fields)
    PROVE  DeviceTypes' /\ SameFields(params, params')
<1>1. TypeOK' /\ NotifiedWithSsid' /\ SameFields(params, params')
  BY HandlerStep DEF PageTypes
<1>2. OwnIds'
  BY <1>1 DEF PageTypes, OwnIds, SameFields
<1> QED BY <1>1, <1>2 DEF DeviceTypes

LEMMA AddedIs ==
    ASSUME TypeOK, NEW id \in Ids, NEW v \in Texts, AddParam(id, v)
    PROVE  \E p \in [id : StoredTexts, val : StoredTexts] : p.id = id /\ params' = Append(params, p)
<1> DEFINE p == [id |-> Cut(id, FieldLen - 1), val |-> Cut(v, FieldLen - 1)]
<1>1. id \in Seq(Chars) /\ v \in Seq(Chars) /\ FieldLen - 1 \in Nat /\ Len(id) < FieldLen
  <2>1. Keys \subseteq Seq(Chars) /\ Texts \subseteq Seq(Chars)
    BY CharsHave
  <2> QED BY <2>1, FormAssumption DEF Keys
<1>2. Cut(id, FieldLen - 1) \in StoredTexts /\ Cut(v, FieldLen - 1) \in StoredTexts
  BY <1>1, CutBounds DEF StoredTexts
<1>3. Cut(id, FieldLen - 1) = id
  <2>1. FieldLen - 1 >= Len(id)
    BY <1>1, FormAssumption, LenProperties
  <2> QED BY <1>1, <2>1, CutMore
<1>4. params' = Append(params, p)
  BY DEF AddParam
<1> QED BY <1>2, <1>3, <1>4

LEMMA AddKeeps ==
    ASSUME PageTypes, NEW id \in Ids, NEW v \in Texts, AddParam(id, v)
    PROVE  DeviceTypes'
<1>1. TypeOK' /\ NotifiedWithSsid'
  BY AddParamStep DEF PageTypes
<1>2. PICK p \in [id : StoredTexts, val : StoredTexts] : p.id = id /\ params' = Append(params, p)
  BY AddedIs DEF PageTypes
<1>3. params \in ParamLists
  BY DEF PageTypes, TypeOK
<1>4. OwnIds'
  BY <1>2, <1>3, AppendProperties, LenProperties DEF PageTypes, OwnIds, ParamLists
<1> QED BY <1>1, <1>4 DEF DeviceTypes

(* Without a field a schema has no other fields than it had.                 *)
LEMMA Removed ==
    ASSUME NEW schema \in Schemas, NEW i \in 1..Len(schema)
    PROVE  /\ RemoveAt(schema, i) \in Schemas /\ Len(RemoveAt(schema, i)) = Len(schema) - 1
           /\ \A j \in 1..Len(RemoveAt(schema, i)) :
                \E k \in 1..Len(schema) : RemoveAt(schema, i)[j] = schema[k]
<1> DEFINE n == Len(schema)
           left == SubSeq(schema, 1, i - 1)
           right == SubSeq(schema, i + 1, n)
<1>1. n \in Nat /\ i \in 1..n /\ \A k \in 1..n : schema[k] \in SchemaField
  BY LenProperties, ElementOfSeq DEF Schemas
<1>2. /\ left \in Seq(SchemaField) /\ Len(left) = i - 1
      /\ \A k \in 1..(i - 1) : left[k] = schema[k]
  <2>1. i - 1 \in Int /\ 1 \in Int /\ \A k \in 1..(i - 1) : schema[k] \in SchemaField
    BY <1>1
  <2>2. /\ left \in Seq(SchemaField) /\ Len(left) = IF 1 <= i - 1 THEN i - 1 - 1 + 1 ELSE 0
        /\ \A k \in 1..((i - 1) - 1 + 1) : left[k] = schema[1 + k - 1]
    BY <2>1, SubSeqProperties
  <2> HIDE DEF left
  <2> QED BY <1>1, <2>2
<1>3. /\ right \in Seq(SchemaField) /\ Len(right) = n - i
      /\ \A k \in 1..(n - i) : right[k] = schema[i + k]
  <2>1. i + 1 \in Int /\ n \in Int /\ \A k \in (i + 1)..n : schema[k] \in SchemaField
    BY <1>1
  <2>2. /\ right \in Seq(SchemaField) /\ Len(right) = IF i + 1 <= n THEN n - (i + 1) + 1 ELSE 0
        /\ \A k \in 1..(n - (i + 1) + 1) : right[k] = schema[(i + 1) + k - 1]
    BY <2>1, SubSeqProperties
  <2> HIDE DEF right, n
  <2>3. Len(right) = n - i
    BY <1>1, <2>2
  <2>4. ASSUME NEW k \in 1..(n - i) PROVE right[k] = schema[i + k]
    <3>1. k \in 1..(n - (i + 1) + 1) /\ (i + 1) + k - 1 = i + k
      BY <1>1
    <3> QED BY <2>2, <3>1
  <2> QED BY <2>2, <2>3, <2>4
<1>4. RemoveAt(schema, i) = left \o right
  BY DEF RemoveAt
<1> HIDE DEF left, right
<1>5. /\ left \o right \in Seq(SchemaField) /\ Len(left \o right) = Len(left) + Len(right)
      /\ \A k \in 1..Len(left) + Len(right) :
           (left \o right)[k] = IF k <= Len(left) THEN left[k] ELSE right[k - Len(left)]
  BY <1>2, <1>3, ConcatProperties
<1>6. ASSUME NEW j \in 1..(n - 1) PROVE \E k \in 1..n : (left \o right)[j] = schema[k]
  <2>1. CASE j <= i - 1
    <3>1. (left \o right)[j] = schema[j] /\ j \in 1..n
      BY <1>1, <1>2, <1>3, <1>5, <2>1
    <3> QED BY <3>1
  <2>2. CASE ~(j <= i - 1)
    <3>1. j - (i - 1) \in 1..(n - i) /\ i + (j - (i - 1)) = j + 1 /\ j + 1 \in 1..n
      BY <1>1, <2>2
    <3>2. (left \o right)[j] = right[j - (i - 1)]
      BY <1>1, <1>2, <1>3, <1>5, <2>2
    <3>3. (left \o right)[j] = schema[j + 1]
      BY <1>3, <3>1, <3>2
    <3> QED BY <3>1, <3>3
  <2> QED BY <2>1, <2>2
<1>7. Len(left \o right) = n - 1
  BY <1>1, <1>2, <1>3, <1>5
<1> QED BY <1>4, <1>5, <1>6, <1>7 DEF Schemas

-----------------------------------------------------------------------------
(* Types: the steps *)

(* A step within a page sends nothing to the device.                         *)
LEMMA OnlyTabTypes ==
    ASSUME PageTypes, OnlyTab, GoodTab(tab')
    PROVE  PageTypes'
<1>1. DeviceTypes' /\ from' = "none" /\ scan' = scan /\ stale' = stale
  BY NoFormKeeps DEF OnlyTab
<1>2. (GoodTab(tab))'
  BY DEF GoodTab
<1> QED BY <1>1, <1>2 DEF PageTypes, DeviceTypes

(* What the steps of a page replace of it.                                   *)
LEMMA TabPart ==
    ASSUME NEW pane, NEW intact, NEW schema, NEW values, NEW inputs, NEW edited, NEW x, NEW t,
           t = [pane |-> pane, intact |-> intact, schema |-> schema, values |-> values, inputs |-> inputs,
                edited |-> edited]
    PROVE  /\ [t EXCEPT !.pane = x] =
                [pane |-> x, intact |-> intact, schema |-> schema, values |-> values, inputs |-> inputs, edited |-> edited]
           /\ [t EXCEPT !.inputs = x] =
                [pane |-> pane, intact |-> intact, schema |-> schema, values |-> values, inputs |-> x, edited |-> edited]
           /\ [t EXCEPT !.edited = x] =
                [pane |-> pane, intact |-> intact, schema |-> schema, values |-> values, inputs |-> inputs, edited |-> x]
           /\ t.edited = edited /\ t.inputs = inputs
OBVIOUS

LEMMA TabParts ==
    ASSUME NEW pane, NEW intact, NEW schema, NEW values, NEW inputs, NEW edited, NEW x, NEW y, NEW z
    PROVE  LET t == [pane |-> pane, intact |-> intact, schema |-> schema, values |-> values, inputs |-> inputs,
                     edited |-> edited]
           IN  /\ [t EXCEPT !.pane = x, !.inputs = y] =
                    [pane |-> x, intact |-> intact, schema |-> schema, values |-> values, inputs |-> y, edited |-> edited]
               /\ [t EXCEPT !.schema = x, !.edited = @ \cup z] =
                    [pane |-> pane, intact |-> intact, schema |-> x, values |-> values, inputs |-> inputs,
                     edited |-> edited \cup z]
               /\ [t EXCEPT !.inputs[y] = x, !.edited = @ \cup z] =
                    [pane |-> pane, intact |-> intact, schema |-> schema, values |-> values,
                     inputs |-> [inputs EXCEPT ![y] = x], edited |-> edited \cup z]
               /\ [t EXCEPT !.values = x, !.inputs = y, !.edited = @ \cup z] =
                    [pane |-> pane, intact |-> intact, schema |-> schema, values |-> x, inputs |-> y,
                     edited |-> edited \cup z]
               /\ [t EXCEPT !.values = x] =
                    [pane |-> pane, intact |-> intact, schema |-> schema, values |-> x, inputs |-> inputs,
                     edited |-> edited]
<1> DEFINE t == [pane |-> pane, intact |-> intact, schema |-> schema, values |-> values, inputs |-> inputs,
                 edited |-> edited]
<1>1. [t EXCEPT !.values = x] =
        [pane |-> pane, intact |-> intact, schema |-> schema, values |-> x, inputs |-> inputs, edited |-> edited]
  OBVIOUS
<1>2. [t EXCEPT !.pane = x, !.inputs = y] =
        [pane |-> x, intact |-> intact, schema |-> schema, values |-> values, inputs |-> y, edited |-> edited]
  <2>1. [t EXCEPT !.pane = x] =
          [pane |-> x, intact |-> intact, schema |-> schema, values |-> values, inputs |-> inputs, edited |-> edited]
    OBVIOUS
  <2> HIDE DEF t
  <2> DEFINE u == [t EXCEPT !.pane = x]
  <2>2. [t EXCEPT !.pane = x, !.inputs = y] = [u EXCEPT !.inputs = y]
    OBVIOUS
  <2> HIDE DEF u
  <2>3. u = [pane |-> x, intact |-> intact, schema |-> schema, values |-> values, inputs |-> inputs, edited |-> edited]
    BY <2>1 DEF u
  <2> QED BY <2>2, <2>3, TabPart
<1>3. [t EXCEPT !.schema = x, !.edited = @ \cup z] =
        [pane |-> pane, intact |-> intact, schema |-> x, values |-> values, inputs |-> inputs, edited |-> edited \cup z]
  <2>1. [t EXCEPT !.schema = x] =
          [pane |-> pane, intact |-> intact, schema |-> x, values |-> values, inputs |-> inputs, edited |-> edited]
    OBVIOUS
  <2> HIDE DEF t
  <2> DEFINE u == [t EXCEPT !.schema = x]
  <2>2. [t EXCEPT !.schema = x, !.edited = @ \cup z] = [u EXCEPT !.edited = u.edited \cup z]
    OBVIOUS
  <2> HIDE DEF u
  <2>3. u = [pane |-> pane, intact |-> intact, schema |-> x, values |-> values, inputs |-> inputs, edited |-> edited]
    BY <2>1 DEF u
  <2> QED BY <2>2, <2>3, TabPart
<1>4. [t EXCEPT !.inputs[y] = x, !.edited = @ \cup z] =
        [pane |-> pane, intact |-> intact, schema |-> schema, values |-> values, inputs |-> [inputs EXCEPT ![y] = x],
         edited |-> edited \cup z]
  <2> HIDE DEF t
  <2> DEFINE u == [t EXCEPT !.inputs[y] = x]
  <2>1. [t EXCEPT !.inputs[y] = x, !.edited = @ \cup z] = [u EXCEPT !.edited = u.edited \cup z]
    OBVIOUS
  <2>2. u = [t EXCEPT !.inputs = [t.inputs EXCEPT ![y] = x]]
    OBVIOUS
  <2> HIDE DEF u
  <2> DEFINE new == [inputs EXCEPT ![y] = x]
  <2>3. u = [t EXCEPT !.inputs = new]
    BY <2>2 DEF t
  <2> HIDE DEF new
  <2>4. u = [pane |-> pane, intact |-> intact, schema |-> schema, values |-> values, inputs |-> new, edited |-> edited]
    BY <2>3, TabPart DEF t
  <2> QED BY <2>1, <2>4, TabPart DEF new
<1>5. [t EXCEPT !.values = x, !.inputs = y, !.edited = @ \cup z] =
        [pane |-> pane, intact |-> intact, schema |-> schema, values |-> x, inputs |-> y, edited |-> edited \cup z]
  <2> HIDE DEF t
  <2> DEFINE u == [t EXCEPT !.values = x]
             w == [u EXCEPT !.inputs = y]
  <2>1. [t EXCEPT !.values = x, !.inputs = y, !.edited = @ \cup z] = [w EXCEPT !.edited = w.edited \cup z]
    OBVIOUS
  <2> HIDE DEF u
  <2>2. u = [pane |-> pane, intact |-> intact, schema |-> schema, values |-> x, inputs |-> inputs, edited |-> edited]
    BY <1>1 DEF u
  <2>3. w = [pane |-> pane, intact |-> intact, schema |-> schema, values |-> x, inputs |-> y, edited |-> edited]
    BY <2>2, TabPart
  <2> HIDE DEF w
  <2> QED BY <2>1, <2>3, TabPart
<1> QED BY <1>1, <1>2, <1>3, <1>4, <1>5

LEMMA OpenedGood ==
    ASSUME NEW intact \in BOOLEAN, NEW schema \in Schemas, NEW loaded \in SUBSET Ids,
           IsFiniteSet(loaded), NEW values \in [loaded -> Lines],
           Len(schema) <= Max({MaxParams, MaxSchema})
    PROVE  GoodTab(Opened(intact, schema, values))
<1> DEFINE none == <<>>
           pane == "define"
<1>1. none \in Seq(Lines) /\ Len(none) = 0 /\ pane \in Panes /\ pane # "fill"
      /\ {} \in SUBSET Ids
  BY EmptySeq DEF Panes
<1> HIDE DEF none, pane
<1>2. GoodTab([pane |-> pane, intact |-> intact, schema |-> schema, values |-> values,
               inputs |-> none, edited |-> {}])
  BY <1>1, MakesGood
<1> QED BY <1>2 DEF Opened, none, pane

LEMMA NoneIs ==
    /\ <<>> \in Schemas /\ <<>> \in Seq(Lines) /\ <<>> \in Lines /\ Len(<<>>) = 0
    /\ <<>> \in [{} -> Lines] /\ IsFiniteSet({})
    /\ Len(<<>>) <= Max({MaxParams, MaxSchema})
<1>1. <<>> \in Schemas /\ <<>> \in Seq(Lines) /\ <<>> \in Lines /\ Len(<<>>) = 0
  BY EmptySeq, LineText DEF Schemas
<1>2. <<>> \in [{} -> Lines] /\ IsFiniteSet({})
  BY FS_EmptySet
<1>3. Len(<<>>) <= Max({MaxParams, MaxSchema})
  BY <1>1, MaxOfTwo, FormAssumption
<1> QED BY <1>1, <1>2, <1>3

LEMMA NoTabIs ==
    /\ NoTab = [pane |-> "none", intact |-> TRUE, schema |-> <<>>, values |-> <<>>,
                inputs |-> <<>>, edited |-> {}]
    /\ NoTab.pane = "none" /\ DOMAIN NoTab.values = {} /\ Len(NoTab.schema) = 0
<1> DEFINE empty == <<>>
           pane == "define"
           yes == TRUE
           nothing == {}
           open == [pane |-> pane, intact |-> yes, schema |-> empty, values |-> empty,
                    inputs |-> empty, edited |-> nothing]
<1>1. NoTab = [open EXCEPT !.pane = "none"]
  BY Zenon DEF NoTab, Opened
<1> HIDE DEF open
<1>2. open = [pane |-> pane, intact |-> yes, schema |-> empty, values |-> empty,
              inputs |-> empty, edited |-> nothing]
  BY DEF open
<1> HIDE DEF empty, pane, yes, nothing
<1>3. NoTab = [pane |-> "none", intact |-> yes, schema |-> empty, values |-> empty,
               inputs |-> empty, edited |-> nothing]
  BY <1>1, <1>2, TabPart
<1>4. DOMAIN empty = {} /\ Len(empty) = 0
  BY DEF empty
<1>5. NoTab.pane = "none" /\ DOMAIN NoTab.values = {} /\ Len(NoTab.schema) = 0
  BY <1>3, <1>4
<1> QED BY <1>3, <1>5 DEF empty, yes, nothing

LEMMA NoTabGood == GoodTab(NoTab) /\ NoScan \in Scans
<1> DEFINE empty == <<>>
           pane == "none"
<1>1. NoTab = [pane |-> pane, intact |-> TRUE, schema |-> empty, values |-> empty,
               inputs |-> empty, edited |-> {}]
  BY NoTabIs
<1>2. pane \in Panes /\ pane # "fill" /\ {} \in SUBSET Ids /\ TRUE \in BOOLEAN
  BY DEF Panes
<1>3. GoodTab(NoTab)
  <2> HIDE DEF empty, pane
  <2>1. Len(empty) = IF pane = "fill" THEN Len(empty) ELSE 0
    BY <1>2, NoneIs DEF empty
  <2> QED BY <1>1, <1>2, <2>1, NoneIs, MakesGood DEF empty
<1>4. NoScan \in Scans
  BY NoneIs DEF NoScan, ScanPage, Scans
<1> QED BY <1>3, <1>4

(* What the device writes into /config are texts; if its script can run, the *)
(* fields are lines.                                                         *)
LEMMA WrittenIs ==
    ASSUME PageTypes
    PROVE  /\ params \in ParamLists /\ Len(params) <= MaxParams /\ Len(params) \in Nat
           /\ CanRun(Written) =>
                \A i \in 1..Len(params) : params[i].id \in Ids /\ params[i].val \in Lines
<1>1. params \in ParamLists /\ Len(params) <= MaxParams /\ Len(params) \in Nat
  BY LenProperties DEF PageTypes, TypeOK, ParamLists
<1>2. \A i \in 1..Len(params) : params[i].id \in Seq(Chars) /\ params[i].val \in Seq(Chars)
  <2>1. \A i \in 1..Len(params) : params[i] \in [id : StoredTexts, val : StoredTexts]
    BY <1>1, ElementOfSeq DEF ParamLists
  <2>2. \A x \in StoredTexts : x \in Seq(Chars)
    BY FormAssumption, Bounded DEF StoredTexts
  <2> QED BY <2>1, <2>2
<1>3. Written \in SUBSET Seq(Chars) /\ \A i \in 1..Len(params) : params[i].val \in Written
  BY <1>2 DEF Written
<1>4. CanRun(Written) => Written \subseteq Lines
  BY <1>3, RunsLines
<1> QED BY <1>1, <1>3, <1>4 DEF PageTypes, OwnIds

LEMMA ConfigGetTypes ==
    ASSUME PageTypes, HandlerConfigGet
    PROVE  PageTypes'
<1> DEFINE none == <<>>
<1>1. ASSUME CanRun(Written), tab' = Opened(TRUE, Schema(params), Loaded(params)) PROVE GoodTab(tab')
  <2>1. \A i \in 1..Len(params) : params[i].id \in Ids /\ params[i].val \in Lines
    BY <1>1, WrittenIs
  <2>2. /\ IsFiniteSet(DOMAIN Loaded(params)) /\ DOMAIN Loaded(params) \in SUBSET Ids
        /\ Loaded(params) \in [DOMAIN Loaded(params) -> Lines]
    BY <2>1, LoadedIs, WrittenIs
  <2>3. Schema(params) \in Schemas /\ Len(Schema(params)) = Len(params)
    BY <2>1, SchemaIs, WrittenIs
  <2>4. Len(Schema(params)) <= Max({MaxParams, MaxSchema})
    BY <2>3, MaxOfTwo, FormAssumption, WrittenIs
  <2>5. GoodTab(Opened(TRUE, Schema(params), Loaded(params)))
    BY <2>2, <2>3, <2>4, OpenedGood
  <2> QED BY <1>1, <2>5
<1>2. /\ none \in Schemas /\ Len(none) <= Max({MaxParams, MaxSchema}) /\ FALSE \in BOOLEAN
      /\ {} \in SUBSET Ids /\ IsFiniteSet({}) /\ none \in [{} -> Lines]
  BY NoneIs
<1>3. ASSUME tab' = Opened(FALSE, none, none) PROVE GoodTab(tab')
  <2> HIDE DEF none
  <2>1. GoodTab(Opened(FALSE, none, none))
    BY <1>2, OpenedGood
  <2> QED BY <1>3, <2>1
<1>4. ASSUME NEW own \in OwnValues, tab' = Opened(FALSE, none, own) PROVE GoodTab(tab')
  <2>1. PICK ids \in SUBSET Ids : IsFiniteSet(ids) /\ own \in [ids -> Lines]
    BY PagesAssumption
  <2> HIDE DEF none
  <2>2. GoodTab(Opened(FALSE, none, own))
    BY <1>2, <2>1, OpenedGood
  <2> QED BY <1>4, <2>2
<1>5. GoodTab(tab')
  BY <1>1, <1>3, <1>4, Zenon DEF HandlerConfigGet
<1>6. (GoodTab(tab))'
  BY <1>5 DEF GoodTab
<1>7. DeviceTypes' /\ from' = "none"
  BY NoFormKeeps DEF HandlerConfigGet
<1> QED BY <1>6, <1>7, NoTabGood DEF HandlerConfigGet, PageTypes, DeviceTypes

LEMMA SwitchTypes ==
    ASSUME PageTypes, NEW pane \in {"define", "fill"}, SwitchTab(pane)
    PROVE  PageTypes'
<1> DEFINE inputs == IF pane = "fill" THEN RenderFill(tab.schema, tab.values) ELSE <<>>
<1>1. GoodTab(tab)
  BY DEF PageTypes
<1>2. tab' = [pane |-> pane, intact |-> tab.intact, schema |-> tab.schema, values |-> tab.values, inputs |-> inputs,
              edited |-> tab.edited]
  BY <1>1, GoodTabHas, TabParts DEF SwitchTab
<1>3. inputs \in Seq(Lines) /\ Len(inputs) = IF pane = "fill" THEN Len(tab.schema) ELSE 0
  <2>1. RenderFill(tab.schema, tab.values) \in Seq(Lines)
        /\ Len(RenderFill(tab.schema, tab.values)) = Len(tab.schema)
    BY <1>1, GoodTabHas, RenderIs
  <2>2. <<>> \in Seq(Lines) /\ Len(<<>>) = 0
    BY EmptySeq
  <2> QED BY <2>1, <2>2
<1> HIDE DEF inputs
<1>4. GoodTab(tab')
  <2>1. Len(tab.schema) <= Max({MaxParams, MaxSchema}) /\ pane \in Panes
    BY <1>1 DEF GoodTab, Panes
  <2> QED BY <1>1, <1>2, <1>3, <2>1, GoodTabHas, MakesGood
<1> QED BY <1>4, OnlyTabTypes DEF SwitchTab

LEMMA DefineTypes ==
    ASSUME PageTypes, NEW schema \in Schemas, NEW touched \in SUBSET Ids, Define(schema, touched),
           Len(schema) <= Max({MaxParams, MaxSchema})
    PROVE  PageTypes'
<1>1. GoodTab(tab)
  BY DEF PageTypes
<1>2. tab' = [pane |-> tab.pane, intact |-> tab.intact, schema |-> schema, values |-> tab.values, inputs |-> tab.inputs,
              edited |-> tab.edited \cup touched]
  BY <1>1, GoodTabHas, TabParts DEF Define
<1>3. tab.edited \cup touched \in SUBSET Ids /\ tab.pane # "fill" /\ Len(tab.inputs) = 0
  BY <1>1, GoodTabHas DEF Define, GoodTab
<1>4. GoodTab(tab')
  BY <1>1, <1>2, <1>3, GoodTabHas, MakesGood
<1> QED BY <1>4, OnlyTabTypes DEF Define

LEMMA AddDefinedTypes ==
    ASSUME PageTypes, NEW f \in Defined, AddDefined(f)
    PROVE  PageTypes'
<1> DEFINE schema == Append(tab.schema, f)
<1>1. f \in SchemaField /\ {f.key} \in SUBSET Ids
  BY PagesAssumption DEF SchemaField
<1>2. tab.schema \in Seq(SchemaField) /\ Len(tab.schema) \in Nat /\ Len(tab.schema) < MaxSchema
  BY GoodTabHas DEF PageTypes, Schemas, AddDefined
<1>3. schema \in Schemas /\ Len(schema) = Len(tab.schema) + 1
  BY <1>1, <1>2, AppendProperties DEF Schemas
<1>4. Len(schema) <= Max({MaxParams, MaxSchema})
  BY <1>2, <1>3, MaxOfTwo, PagesAssumption
<1>5. Define(schema, {f.key})
  BY DEF AddDefined
<1> HIDE DEF schema
<1> QED BY <1>1, <1>3, <1>4, <1>5, DefineTypes

LEMMA EditDefinedTypes ==
    ASSUME PageTypes, NEW i \in 1..Len(tab.schema), NEW f \in Defined, EditDefined(i, f)
    PROVE  PageTypes'
<1> DEFINE schema == [tab.schema EXCEPT ![i] = f]
           touched == {tab.schema[i].key, f.key}
<1>1. GoodTab(tab) /\ tab.schema[i] \in SchemaField /\ f \in SchemaField
  BY PagesAssumption, GoodTabHas DEF PageTypes
<1>2. touched \in SUBSET Ids
  BY <1>1 DEF SchemaField
<1>3. schema \in Schemas /\ Len(schema) = Len(tab.schema)
  BY <1>1, ExceptSeq, GoodTabHas DEF Schemas
<1>4. Len(schema) <= Max({MaxParams, MaxSchema})
  BY <1>1, <1>3 DEF GoodTab
<1>5. Define(schema, touched)
  BY DEF EditDefined
<1> HIDE DEF schema, touched
<1> QED BY <1>2, <1>3, <1>4, <1>5, DefineTypes

LEMMA RemoveTypes ==
    ASSUME PageTypes, NEW i \in 1..Len(tab.schema), RemoveField(i)
    PROVE  PageTypes'
<1> DEFINE schema == RemoveAt(tab.schema, i)
           none == {}
<1>1. GoodTab(tab) /\ tab.schema \in Schemas /\ Len(tab.schema) \in Nat /\ none \in SUBSET Ids
  BY GoodTabHas DEF PageTypes
<1>2. schema \in Schemas /\ Len(schema) = Len(tab.schema) - 1
  BY <1>1, Removed
<1>3. Len(schema) <= Max({MaxParams, MaxSchema})
  BY <1>1, <1>2, MaxOfTwo DEF GoodTab
<1>4. Define(schema, none)
  BY DEF RemoveField
<1> HIDE DEF schema, none
<1> QED BY <1>1, <1>2, <1>3, <1>4, DefineTypes

(* What can be entered is a line.                                            *)
LEMMA EnterableType == ASSUME NEW kind PROVE Enterable(kind) \subseteq Lines
BY OwnTexts DEF Enterable

LEMMA EnterTab ==
    ASSUME PageTypes, NEW i \in 1..Len(tab.schema), NEW v, Enter(i, v)
    PROVE  /\ PageTypes'
           /\ tab' = [pane |-> tab.pane, intact |-> tab.intact, schema |-> tab.schema, values |-> tab.values,
                      inputs |-> [tab.inputs EXCEPT ![i] = v],
                      edited |-> tab.edited \cup {tab.schema[i].key}]
<1> DEFINE inputs == [tab.inputs EXCEPT ![i] = v]
           edited == tab.edited \cup {tab.schema[i].key}
<1>1. GoodTab(tab) /\ tab.pane = "fill" /\ v \in Lines
  BY EnterableType DEF PageTypes, Enter
<1>2. Len(tab.inputs) = Len(tab.schema)
  BY <1>1 DEF GoodTab
<1>3. tab' = [pane |-> tab.pane, intact |-> tab.intact, schema |-> tab.schema, values |-> tab.values, inputs |-> inputs,
              edited |-> edited]
  BY <1>1, GoodTabHas, TabParts DEF Enter
<1>4. inputs \in Seq(Lines) /\ Len(inputs) = Len(tab.inputs)
  BY <1>1, <1>2, ExceptSeq, GoodTabHas
<1>5. edited \in SUBSET Ids
  <2>1. tab.schema[i].key \in Ids
    BY <1>1, GoodTabHas DEF SchemaField
  <2> QED BY <1>1, <2>1, GoodTabHas
<1>6. Len(tab.schema) <= Max({MaxParams, MaxSchema})
  BY <1>1 DEF GoodTab
<1> HIDE DEF inputs, edited
<1>7. GoodTab(tab')
  BY <1>1, <1>2, <1>3, <1>4, <1>5, <1>6, GoodTabHas, MakesGood
<1>8. PageTypes'
  BY <1>7, OnlyTabTypes DEF Enter
<1> QED BY <1>3, <1>8 DEF inputs, edited

(* What doReset goes back to, and what of it the user has not seen.          *)
Defaults == [key \in SchemaKeys |-> tab.schema[Max(FieldsWith(key))].default]
Renewed == {key \in SchemaKeys : key \notin DOMAIN tab.values \/ tab.values[key] # Defaults[key]}

LEMMA ResetTab ==
    ASSUME PageTypes, DoReset
    PROVE  /\ PageTypes'
           /\ Defaults \in [SchemaKeys -> Lines]
           /\ tab' = [pane |-> tab.pane, intact |-> tab.intact, schema |-> tab.schema, values |-> Defaults,
                      inputs |-> RenderFill(tab.schema, Defaults), edited |-> tab.edited \cup Renewed]
<1>1. GoodTab(tab) /\ tab.pane = "fill" /\ Len(tab.schema) <= Max({MaxParams, MaxSchema})
  BY DEF PageTypes, DoReset, GoodTab
<1>2. SchemaKeys \in SUBSET Ids /\ IsFiniteSet(SchemaKeys)
  BY <1>1, FieldsFound, GoodTabHas, KeysFinite
<1>3. Defaults \in [SchemaKeys -> Lines]
  <2>1. \A key \in SchemaKeys : tab.schema[Max(FieldsWith(key))].default \in Lines
    BY <1>1, FieldsFound DEF SchemaField
  <2> QED BY <2>1 DEF Defaults
<1>4. DOMAIN Defaults = SchemaKeys
  BY <1>3
<1>5. tab' = [tab EXCEPT !.values = Defaults, !.inputs = RenderFill(tab.schema, Defaults),
                         !.edited = @ \cup Renewed]
  <2>1. tab' = [tab EXCEPT !.values = Defaults, !.inputs = RenderFill(tab.schema, Defaults),
                           !.edited = @ \cup {key \in DOMAIN Defaults :
                               key \notin DOMAIN tab.values \/ tab.values[key] # Defaults[key]}]
    BY Zenon DEF DoReset, Defaults
  <2> QED BY <1>4, <2>1, Zenon DEF Renewed
<1> DEFINE inputs == RenderFill(tab.schema, Defaults)
           edited == tab.edited \cup Renewed
<1>6. tab' = [pane |-> tab.pane, intact |-> tab.intact, schema |-> tab.schema, values |-> Defaults, inputs |-> inputs,
              edited |-> edited]
  <2>1. tab = [pane |-> tab.pane, intact |-> tab.intact, schema |-> tab.schema, values |-> tab.values,
               inputs |-> tab.inputs, edited |-> tab.edited]
    BY <1>1, GoodTabHas
  <2> HIDE DEF inputs
  <2>2. tab' = [tab EXCEPT !.values = Defaults, !.inputs = inputs, !.edited = @ \cup Renewed]
    BY <1>5 DEF inputs
  <2> QED BY <2>1, <2>2, TabParts
<1>7. inputs \in Seq(Lines) /\ Len(inputs) = Len(tab.schema)
  BY <1>1, <1>3, <1>4, RenderIs, GoodTabHas
<1>8. edited \in SUBSET Ids
  BY <1>1, <1>2, GoodTabHas DEF Renewed
<1> HIDE DEF inputs, edited
<1>9. GoodTab(tab')
  BY <1>1, <1>2, <1>3, <1>6, <1>7, <1>8, GoodTabHas, MakesGood
<1>10. PageTypes'
  BY <1>9, OnlyTabTypes DEF DoReset
<1> QED BY <1>3, <1>6, <1>10 DEF inputs, edited

LEMMA SaveTab ==
    ASSUME PageTypes, DoSave
    PROVE  /\ PageTypes' /\ GoodTab(tab) /\ tab.pane = "fill" /\ SameFields(params, params')
           /\ tab' = [pane |-> tab.pane, intact |-> tab.intact, schema |-> tab.schema, values |-> Filled,
                      inputs |-> tab.inputs, edited |-> tab.edited]
<1>1. /\ GoodTab(tab) /\ tab.pane = "fill" /\ Len(tab.inputs) = Len(tab.schema)
      /\ Len(tab.schema) <= Max({MaxParams, MaxSchema})
  BY DEF PageTypes, DoSave, GoodTab
<1>2. tab' = [pane |-> tab.pane, intact |-> tab.intact, schema |-> tab.schema, values |-> Filled, inputs |-> tab.inputs,
              edited |-> tab.edited]
  <2>1. tab' = [tab EXCEPT !.values = Filled]
    BY DEF DoSave
  <2>2. tab = [pane |-> tab.pane, intact |-> tab.intact, schema |-> tab.schema, values |-> tab.values,
               inputs |-> tab.inputs, edited |-> tab.edited]
    BY <1>1, GoodTabHas
  <2> DEFINE new == Filled
  <2> HIDE DEF new
  <2> QED BY <2>1, <2>2, TabParts DEF new
<1>3. (GoodTab(tab))'
  <2>1. GoodTab(tab')
    BY <1>1, <1>2, FilledIs, GoodTabHas, MakesGood
  <2> QED BY <2>1 DEF GoodTab
<1>4. DeviceTypes' /\ SameFields(params, params') /\ from' \in {"none", "config"}
  <2>1. CASE HandlerConfigSavePost(FilledForm) /\ from' = "config"
    BY <1>1, <2>1, FormIs, HandlerKeeps DEF HandlerConfigSavePost
  <2>2. CASE NoForm
    <3>1. SameFields(params, params')
      BY <2>2 DEF NoForm, SameFields, PageTypes, TypeOK
    <3> QED BY <2>2, <3>1, NoFormKeeps
  <2> QED BY <2>1, <2>2 DEF DoSave
<1>5. scan' = scan /\ stale' \in BOOLEAN
  BY DEF DoSave, PageTypes
<1> QED BY <1>1, <1>2, <1>3, <1>4, <1>5 DEF PageTypes, DeviceTypes

LEMMA OnClickIs ==
    ASSUME NEW name \in Seq(Chars)
    PROVE  /\ OnClick(name) = Literal(name, "'")
           /\ name \in Lines => OnClick(name).value \in Lines
<1>1. Embedded(name).value = name
  BY EmbeddedBack
<1>2. HtmlText(HtmlEscape(name)) = name
  BY HtmlBack
<1>3. OnClick(name) = Literal(name, "'")
  BY <1>1, <1>2, Zenon DEF OnClick
<1>4. name \in Lines => Literal(name, "'") \in [valid : BOOLEAN, value : Lines]
  BY LiteralType DEF Lines
<1> QED BY <1>3, <1>4

LEMMA ScanGetTypes ==
    ASSUME PageTypes, NEW found \in SUBSET Names, HandlerScanGet(found)
    PROVE  /\ PageTypes'
           /\ \/ scan' = ScanPage("runs", {}, <<>>) \/ scan' = ScanPage("broken", {}, <<>>)
              \/ found \subseteq Lines /\ \E name \in found : scan' = ScanPage("runs", found, name)
<1>1. found \in SUBSET Seq(Chars)
  BY PagesAssumption
<1>2. tab' = NoTab /\ stale' = FALSE /\ NoForm
  BY DEF HandlerScanGet
<1>3. \/ scan' = ScanPage("runs", {}, <<>>) \/ scan' = ScanPage("broken", {}, <<>>)
      \/ CanRun(found) /\ \E name \in found : scan' = ScanPage("runs", found, Embedded(name).value)
  BY DEF HandlerScanGet
<1>4. CanRun(found) => found \subseteq Lines
  BY <1>1, RunsLines
<1>5. \A name \in found : Embedded(name).value = name
  BY <1>1, EmbeddedBack
<1>6. \/ scan' = ScanPage("runs", {}, <<>>) \/ scan' = ScanPage("broken", {}, <<>>)
      \/ found \subseteq Lines /\ \E name \in found : scan' = ScanPage("runs", found, name)
  BY <1>3, <1>4, <1>5
<1>7. scan' \in Scans
  BY <1>6, LineText DEF ScanPage, Scans
<1>8. (GoodTab(tab))'
  BY <1>2, NoTabGood DEF GoodTab
<1>9. DeviceTypes' /\ from' = "none"
  BY <1>2, NoFormKeeps
<1> QED BY <1>2, <1>6, <1>7, <1>8, <1>9 DEF PageTypes, DeviceTypes

(* What a click puts in the box is a line like the name.                     *)
LEMMA SelectTypes ==
    ASSUME PageTypes, NEW name \in Names, SelectNet(name)
    PROVE  PageTypes'
<1>1. name \in Lines /\ name \in Seq(Chars)
  BY LineText DEF SelectNet, PageTypes, Scans
<1>2. OnClick(name).value \in Lines
  BY <1>1, OnClickIs
<1>3. tab' = tab /\ stale' = stale /\ scan' \in Scans
  BY <1>1, <1>2 DEF SelectNet, PageTypes, Scans
<1>4. DeviceTypes' /\ from' = "none"
  BY NoFormKeeps DEF SelectNet
<1>5. (GoodTab(tab))'
  BY <1>3 DEF PageTypes, GoodTab
<1> QED BY <1>3, <1>4, <1>5 DEF PageTypes, DeviceTypes

LEMMA TypeSsidTypes ==
    ASSUME PageTypes, NEW text \in Texts \cap Lines, TypeSsid(text)
    PROVE  PageTypes'
<1>1. tab' = tab /\ stale' = stale /\ scan' \in Scans
  BY DEF TypeSsid, PageTypes, Scans
<1>2. DeviceTypes' /\ from' = "none"
  BY NoFormKeeps DEF TypeSsid
<1>3. (GoodTab(tab))'
  BY <1>1 DEF PageTypes, GoodTab
<1> QED BY <1>1, <1>2, <1>3 DEF PageTypes, DeviceTypes

(* What doConnect posts, and what is asked of the SSID by it.                *)
ConnectForm(ssid, password) ==
    << [key |-> SsidKey, val |-> ssid], [key |-> PasswordKey, val |-> password] >>

LEMMA ConnectFormIs ==
    ASSUME NEW ssid \in Seq(Chars), NEW password \in Seq(Chars)
    PROVE  LET fields == ConnectForm(ssid, password)
           IN  /\ fields \in SentForms
               /\ \A room, old : Outcome(fields, Len(fields), SsidKey, room, old) = Cut(ssid, room)
<1> DEFINE fields == ConnectForm(ssid, password)
           one == [key |-> SsidKey, val |-> ssid]
           two == [key |-> PasswordKey, val |-> password]
<1>1. one \in [key : Keys, val : Seq(Chars)] /\ two \in [key : Keys, val : Seq(Chars)]
  BY DEF Keys
<1>2. SsidKey # PasswordKey
  <2>1. <<"s">>[1] # <<"w">>[1]
    OBVIOUS
  <2> QED BY <2>1 DEF SsidKey, PasswordKey
<1>3. fields = <<one, two>> /\ one.key = SsidKey /\ one.val = ssid /\ two.key = PasswordKey
  BY DEF ConnectForm
<1> HIDE DEF one, two, fields
<1>4. fields \in SentForms /\ Len(fields) = 2 /\ fields[1] = one /\ fields[2] = two
  BY <1>1, <1>3 DEF SentForms
<1>5. \A i \in 1..Len(fields) : fields[i].key = SsidKey => fields[i].val = ssid
  <2>1. \A i \in 1..Len(fields) : i = 1 \/ i = 2
    BY <1>4
  <2> QED BY <1>2, <1>3, <1>4, <2>1
<1>6. \E i \in 1..Len(fields) : fields[i].key = SsidKey
  <2>1. 1 \in 1..Len(fields) /\ fields[1].key = SsidKey
    BY <1>3, <1>4
  <2> QED BY <2>1
<1>7. ASSUME NEW room, NEW old
      PROVE  Outcome(fields, Len(fields), SsidKey, room, old) = Cut(ssid, room)
  <2> DEFINE key == SsidKey
  <2>1. \A i \in 1..Len(fields) : fields[i].key = key => fields[i].val = ssid
    BY <1>5
  <2>2. \E i \in 1..Len(fields) : fields[i].key = key
    BY <1>6
  <2>3. fields \in SentForms
    BY <1>4
  <2> HIDE DEF key
  <2>4. Outcome(fields, Len(fields), key, room, old) =
          IF \E i \in 1..Len(fields) : fields[i].key = key THEN Cut(ssid, room) ELSE old
    BY <2>1, <2>3, OutcomeOf
  <2> QED BY <2>2, <2>4 DEF key
<1> QED BY <1>4, <1>7 DEF fields

LEMMA ConnectTypes ==
    ASSUME PageTypes, NEW password \in Texts \cap Lines, DoConnect(password)
    PROVE  PageTypes' /\ SameFields(params, params')
<1>1. Trim(scan.box) \in Seq(Chars) /\ password \in Seq(Chars)
  BY TrimType, LineText DEF PageTypes, Scans
<1> DEFINE fields == ConnectForm(Trim(scan.box), password)
<1>2. fields \in SentForms
  BY <1>1, ConnectFormIs
<1>3. Handler("/", fields)
  BY DEF DoConnect, HandlerWifiPost, ConnectForm
<1>4. tab' = tab /\ scan' = scan /\ stale' = stale /\ from' = "scan"
  BY DEF DoConnect
<1> HIDE DEF fields
<1>5. DeviceTypes' /\ SameFields(params, params')
  BY <1>2, <1>3, HandlerKeeps
<1>6. (GoodTab(tab))'
  BY <1>4 DEF PageTypes, GoodTab
<1> QED BY <1>4, <1>5, <1>6 DEF PageTypes, DeviceTypes

LEMMA AddFieldTypes ==
    ASSUME PageTypes, AddField
    PROVE  PageTypes'
<1>1. PICK id \in Ids, v \in Texts : AddParam(id, v)
  BY DEF AddField
<1>2. DeviceTypes'
  BY <1>1, AddKeeps
<1>3. tab' = tab /\ scan' = scan /\ stale' = stale /\ from' = "none"
  BY DEF AddField
<1>4. (GoodTab(tab))'
  BY <1>3 DEF PageTypes, GoodTab
<1> QED BY <1>2, <1>3, <1>4 DEF PageTypes, DeviceTypes

LEMMA OtherTypes ==
    ASSUME PageTypes, OtherClient
    PROVE  PageTypes' /\ SameFields(params, params')
<1>1. PICK fields \in Forms : HandlerConfigSavePost(fields)
  BY DEF OtherClient
<1>2. fields \in SentForms
  BY FormsAreSent
<1>3. DeviceTypes' /\ SameFields(params, params')
  BY <1>1, <1>2, HandlerKeeps DEF HandlerConfigSavePost
<1>4. tab' = tab /\ scan' = scan /\ stale' = TRUE /\ from' = "other"
  BY DEF OtherClient
<1>5. (GoodTab(tab))'
  BY <1>4 DEF PageTypes, GoodTab
<1> QED BY <1>3, <1>4, <1>5 DEF PageTypes, DeviceTypes

LEMMA UnchangedTypes ==
    ASSUME PageTypes, UNCHANGED pageVars
    PROVE  PageTypes'
BY DEF PageTypes, pageVars, vars, TypeOK, NotifiedWithSsid, OwnIds, GoodTab

(* Every step, one by one.                                                   *)
LEMMA PagesCases ==
    ASSUME PageTypes, [PagesNext]_pageVars
    PROVE  \/ HandlerConfigGet \/ DoReset \/ DoSave \/ AddField \/ OtherClient \/ UNCHANGED pageVars
           \/ \E pane \in {"define", "fill"} : SwitchTab(pane)
           \/ \E f \in Defined : AddDefined(f)
           \/ \E i \in 1..Len(tab.schema), f \in Defined : EditDefined(i, f)
           \/ \E i \in 1..Len(tab.schema) : RemoveField(i)
           \/ \E i \in 1..Len(tab.schema) : \E v : Enter(i, v)
           \/ \E found \in SUBSET Names : HandlerScanGet(found)
           \/ \E name \in Names : SelectNet(name)
           \/ \E text \in Texts \cap Lines : TypeSsid(text)
           \/ \E password \in Texts \cap Lines : DoConnect(password)
<1>1. CASE ConfigPage
  BY <1>1, Zenon DEF ConfigPage
<1>2. CASE Scan
  BY <1>2, Zenon DEF Scan
<1> QED BY <1>1, <1>2, Zenon DEF PagesNext

LEMMA PagesTypeStep == PageTypes /\ [PagesNext]_pageVars => PageTypes'
<1> SUFFICES ASSUME PageTypes, [PagesNext]_pageVars PROVE PageTypes'
  OBVIOUS
<1>1. CASE HandlerConfigGet \/ DoReset \/ DoSave
  BY <1>1, ConfigGetTypes, ResetTab, SaveTab
<1>2. CASE AddField \/ OtherClient \/ UNCHANGED pageVars
  BY <1>2, AddFieldTypes, OtherTypes, UnchangedTypes
<1>3. ASSUME NEW pane \in {"define", "fill"}, SwitchTab(pane) PROVE PageTypes'
  BY <1>3, SwitchTypes
<1>4. ASSUME NEW f \in Defined, AddDefined(f) PROVE PageTypes'
  BY <1>4, AddDefinedTypes
<1>5. ASSUME NEW i \in 1..Len(tab.schema), NEW f \in Defined, EditDefined(i, f) PROVE PageTypes'
  BY <1>5, EditDefinedTypes
<1>6. ASSUME NEW i \in 1..Len(tab.schema), RemoveField(i) PROVE PageTypes'
  BY <1>6, RemoveTypes
<1>7. ASSUME NEW i \in 1..Len(tab.schema), NEW v, Enter(i, v) PROVE PageTypes'
  BY <1>7, EnterTab
<1>8. ASSUME NEW found \in SUBSET Names, HandlerScanGet(found) PROVE PageTypes'
  BY <1>8, ScanGetTypes
<1>9. ASSUME NEW name \in Names, SelectNet(name) PROVE PageTypes'
  BY <1>9, SelectTypes
<1>10. ASSUME NEW text \in Texts \cap Lines, TypeSsid(text) PROVE PageTypes'
  BY <1>10, TypeSsidTypes
<1>11. ASSUME NEW password \in Texts \cap Lines, DoConnect(password) PROVE PageTypes'
  BY <1>11, ConnectTypes
<1> QED BY <1>1, <1>2, <1>3, <1>4, <1>5, <1>6, <1>7, <1>8, <1>9, <1>10, <1>11, PagesCases

LEMMA PagesInitTypes == PagesInit => PageTypes
<1> SUFFICES ASSUME PagesInit PROVE PageTypes
  OBVIOUS
<1>1. TypeOK /\ NotifiedWithSsid
  BY InitTypes DEF PagesInit
<1>2. OwnIds
  BY EmptySeq DEF PagesInit, Init, OwnIds
<1>3. tab = NoTab /\ scan = NoScan /\ from = "none" /\ stale = FALSE
  BY DEF PagesInit
<1> QED BY <1>1, <1>2, <1>3, NoTabGood DEF PageTypes

(* Whatever a user defines, enters, resets, saves and picks, in whatever     *)
(* order, and whatever other clients post meanwhile: the page in the browser *)
(* has an input for each field of its schema and no more fields than the two *)
(* bounds allow, and what it keeps and posts are texts under the             *)
(* application's own ids.                                                    *)
THEOREM PagesTypes == PagesSpec => []PagesTypeOK
<1>1. PagesSpec => []PageTypes
  BY PagesInitTypes, PagesTypeStep, PTL DEF PagesSpec
<1> QED BY <1>1, TypesSuffice, PTL

-----------------------------------------------------------------------------
(* The scan page *)

(* A name in quotes of its own kind is read as it is if no character of it   *)
(* needs an escape there.                                                    *)
LEMMA PlainReads ==
    ASSUME NEW text \in Lines, text \in Plain
    PROVE  OnClick(text) = [valid |-> TRUE, value |-> text] /\ Trim(text) = text
<1> DEFINE quote == "'"
<1>1. text \in Seq(Chars) /\ Trim(text) = text /\ Range(text) \cap {quote, "\\"} = {}
  BY LineText DEF Plain, IsPlain
<1>2. DOMAIN text = 1..Len(text)
  BY <1>1, LenProperties
<1>3. \A i \in 1..Len(text) : text[i] \notin {"\\", quote}
  <2> HIDE DEF quote
  <2> QED BY <1>1, <1>2 DEF Range
<1>4. OnClick(text) = Literal(text, quote)
  BY <1>1, OnClickIs
<1>5. Literal(text, quote) = [valid |-> TRUE, value |-> text]
  <2> HIDE DEF quote
  <2> QED BY <1>3, LiteralPlain
<1> QED BY <1>1, <1>4, <1>5

(* The box shows the plain text that was picked.                             *)
PlainBox == scan.picked \in Plain => scan.box = scan.picked

LEMMA PlainBoxStep ==
    ASSUME PageTypes, PlainBox, [PagesNext]_pageVars
    PROVE  PlainBox'
<1>1. CASE scan' = scan
  BY <1>1 DEF PlainBox
<1>2. ASSUME scan'.box = scan'.picked PROVE PlainBox'
  BY <1>2 DEF PlainBox
<1>3. ASSUME NEW page, NEW listed, NEW text, scan' = ScanPage(page, listed, text) PROVE PlainBox'
  BY <1>2, <1>3 DEF ScanPage
<1>4. CASE HandlerConfigGet
  BY <1>3, <1>4 DEF HandlerConfigGet, NoScan
<1>5. ASSUME NEW found \in SUBSET Names, HandlerScanGet(found) PROVE PlainBox'
  BY <1>3, <1>5, ScanGetTypes
<1>6. ASSUME NEW name \in Names, SelectNet(name) PROVE PlainBox'
  <2>1. scan'.picked = name /\ scan'.box = IF OnClick(name).valid THEN OnClick(name).value ELSE scan.box
    BY <1>6 DEF SelectNet, PageTypes, Scans
  <2>2. name \in Lines
    BY <1>6 DEF SelectNet, PageTypes, Scans
  <2>3. name \in Plain => OnClick(name).valid = TRUE /\ OnClick(name).value = name
    BY <2>2, PlainReads
  <2> QED BY <2>1, <2>3 DEF PlainBox
<1>7. ASSUME NEW text, TypeSsid(text) PROVE PlainBox'
  <2>1. scan'.box = text /\ scan'.picked = text
    BY <1>7 DEF TypeSsid, PageTypes, Scans
  <2> QED BY <1>2, <2>1
<1>8. CASE DoReset \/ DoSave \/ AddField \/ OtherClient \/ UNCHANGED pageVars
  BY <1>1, <1>8 DEF DoReset, DoSave, AddField, OtherClient, pageVars, OnlyTab
<1>9. ASSUME OnlyTab PROVE PlainBox'
  BY <1>1, <1>9 DEF OnlyTab
<1>10. ASSUME NEW password, DoConnect(password) PROVE PlainBox'
  BY <1>1, <1>10 DEF DoConnect
<1> QED BY <1>4, <1>5, <1>6, <1>7, <1>8, <1>9, <1>10, PagesCases
        DEF SwitchTab, AddDefined, EditDefined, RemoveField, Define, Enter

LEMMA PlainPickStep ==
    ASSUME PageTypes, PlainBox, PlainPickIsStored, [PagesNext]_pageVars
    PROVE  PlainPickIsStored'
<1>1. CASE from' # "scan"
  BY <1>1 DEF PlainPickIsStored, PickedIsStored
<1>2. ASSUME NEW password \in Texts \cap Lines, DoConnect(password) PROVE PlainPickIsStored'
  <2>1. SUFFICES ASSUME reply' = "OK", whole', scan.picked \in Plain
                 PROVE  sta'.ssid.text = Cut(scan.picked, SsidLen - 1)
    BY <1>2 DEF DoConnect, PlainPickIsStored, PickedIsStored
  <2>2. scan.picked \in Lines /\ scan.picked \in Seq(Chars)
    BY LineText DEF PageTypes, Scans
  <2>3. scan.box = scan.picked /\ Trim(scan.box) = scan.picked
    BY <2>1, <2>2, PlainReads DEF PlainBox
  <2> DEFINE fields == ConnectForm(scan.picked, password)
  <2>4. password \in Seq(Chars)
    BY CharsHave
  <2>5. fields \in SentForms
        /\ \A room, old : Outcome(fields, Len(fields), SsidKey, room, old) = Cut(scan.picked, room)
    BY <2>2, <2>4, ConnectFormIs
  <2>6. Handler("/", fields)
    BY <1>2, <2>3 DEF DoConnect, HandlerWifiPost, ConnectForm
  <2> HIDE DEF fields
  <2>7. PICK st : AfterFields(fields, Len(fields), st) /\ sta' = st.sta
    BY <2>1, <2>5, <2>6, HandlerParses DEF PageTypes
  <2>8. sta'.ssid.text = Outcome(fields, Len(fields), SsidKey, SsidLen - 1, sta.ssid.text)
    BY <2>7 DEF AfterFields
  <2> QED BY <2>5, <2>8
<1>3. CASE UNCHANGED pageVars
  BY <1>3 DEF pageVars, vars, PlainPickIsStored, PickedIsStored
<1>4. CASE DoSave \/ AddField \/ OtherClient
  BY <1>1, <1>4 DEF DoSave, AddField, OtherClient, NoForm
<1>5. ASSUME NoForm PROVE PlainPickIsStored'
  BY <1>1, <1>5 DEF NoForm
<1> QED BY <1>2, <1>3, <1>4, <1>5, PagesCases
        DEF SwitchTab, AddDefined, EditDefined, RemoveField, Define, Enter, DoReset, OnlyTab,
            HandlerConfigGet, HandlerScanGet, SelectNet, TypeSsid

(* On a scan page whose script runs, the network that was selected, or the   *)
(* text that was typed, is what the device keeps, as long as no character of *)
(* it needs an escape in the onclick attribute and Trim takes nothing of it. *)
(* (A page whose script does not run posts nothing: nothing is picked there.) *)
THEOREM PlainPicksStored == PagesSpec => []PlainPickIsStored
<1>1. PagesInit => PlainBox /\ PlainPickIsStored
  BY DEF PagesInit, NoScan, ScanPage, PlainBox, PlainPickIsStored, PickedIsStored
<1>2. PagesSpec => [](PageTypes /\ PlainBox /\ PlainPickIsStored)
  BY <1>1, PagesInitTypes, PagesTypeStep, PlainBoxStep, PlainPickStep, PTL DEF PagesSpec
<1> QED BY <1>2, PTL

-----------------------------------------------------------------------------
(* What is saved *)

(* "OK" to a whole form of doSave: every field the device has gets what the  *)
(* page held for it.                                                         *)
LEMMA SaveStores ==
    ASSUME PageTypes, DoSave, reply' = "OK", whole'
    PROVE  /\ from' = "config" /\ before' = [params |-> params, sta |-> sta]
           /\ \A id \in Ids :
                GetParam(params', id) =
                  IF GetParam(params, id) = Unknown THEN Unknown
                  ELSE IF id \in DOMAIN Filled THEN Cut(Filled[id], FieldLen - 1)
                  ELSE GetParam(params, id)
<1>1. GoodTab(tab) /\ tab.pane = "fill"
  BY SaveTab
<1>2. Handler("/configsave", FilledForm) /\ from' = "config"
  BY DEF DoSave, NoForm, HandlerConfigSavePost
<1> DEFINE fields == FilledForm
<1>3. /\ fields \in SentForms
      /\ \A key, room, old : Outcome(fields, Len(fields), key, room, old) =
                               IF key \in DOMAIN Filled THEN Cut(Filled[key], room) ELSE old
  BY <1>1, FormIs
<1> HIDE DEF fields
<1>4. Handler("/configsave", fields)
  BY <1>2 DEF fields
<1>5. PICK st : AfterFields(fields, Len(fields), st) /\ params' = st.params
  BY <1>3, <1>4, HandlerParses DEF PageTypes
<1>6. before' = [params |-> params, sta |-> sta]
  BY <1>3, <1>4, HandlerParses DEF PageTypes
<1>7. \A id \in Ids :
        GetParam(params', id) =
          IF GetParam(params, id) = Unknown THEN Unknown
          ELSE Outcome(fields, Len(fields), id, FieldLen - 1, GetParam(params, id))
  BY <1>5 DEF AfterFields
<1> QED BY <1>2, <1>3, <1>6, <1>7

LEMMA SavedStep ==
    ASSUME PageTypes, SavedAsShown, [PagesNext]_pageVars
    PROVE  SavedAsShown'
<1>1. CASE from' # "config"
  BY <1>1 DEF SavedAsShown
<1>2. CASE DoSave
  <2> SUFFICES ASSUME reply' = "OK", whole', NEW i \in 1..Len(tab'.schema),
                      GetParam(before'.params, tab'.schema[i].key) # Unknown,
                      \A j \in (FieldsWith(tab.schema[i].key))' : tab'.schema[j].kind = tab'.schema[i].kind
               PROVE  GetParam(params', tab'.schema[i].key) =
                        Cut(tab'.inputs[Min((FieldsWith(tab.schema[i].key))')], FieldLen - 1)
    BY DEF SavedAsShown
  <2>1. /\ GoodTab(tab) /\ tab.pane = "fill"
        /\ tab'.schema = tab.schema /\ tab'.inputs = tab.inputs
    BY <1>2, SaveTab
  <2> DEFINE key == tab.schema[i].key
             T == FieldsWith(key)
  <2>2. (FieldsWith(tab.schema[i].key))' = T /\ tab'.schema[i].key = key
    BY <2>1 DEF FieldsWith
  <2>3. i \in 1..Len(tab.schema) /\ key \in SchemaKeys /\ i \in T
    BY <2>1 DEF SchemaKeys, FieldsWith
  <2>4. \A j, k \in T : tab.schema[j].kind = tab.schema[k].kind
    BY <2>1, <2>2
  <2> HIDE DEF key, T
  <2>5. key \in Ids /\ key \in DOMAIN Filled /\ Filled[key] = Taken(key)
    BY <2>1, <2>3, FieldsFound, FilledIs
  <2>6. Taken(key) = tab.inputs[Min(T)]
    BY <2>1, <2>3, <2>4, TakenIs DEF T
  <2>7. GetParam(params, key) # Unknown
    <3>1. before'.params = params
      BY <1>2, SaveStores
    <3> QED BY <2>2, <3>1
  <2>8. GetParam(params', key) = Cut(Filled[key], FieldLen - 1)
    BY <1>2, <2>5, <2>7, SaveStores
  <2> QED BY <2>1, <2>2, <2>5, <2>6, <2>8
<1>3. CASE UNCHANGED pageVars
  BY <1>3 DEF pageVars, vars, SavedAsShown, FieldsWith
<1>4. CASE AddField \/ OtherClient \/ \E password \in Texts \cap Lines : DoConnect(password)
  BY <1>1, <1>4 DEF AddField, OtherClient, DoConnect
<1>5. ASSUME NoForm PROVE SavedAsShown'
  BY <1>1, <1>5 DEF NoForm
<1> QED BY <1>2, <1>3, <1>4, <1>5, PagesCases
        DEF SwitchTab, AddDefined, EditDefined, RemoveField, Define, Enter, DoReset, OnlyTab,
            HandlerConfigGet, HandlerScanGet, SelectNet, TypeSsid

(* What is saved is what the inputs showed, for any characters, any fields   *)
(* and whatever was defined, reset or saved before; of several fields with   *)
(* one key and one type it is the first.                                     *)
THEOREM SavedIsShown == PagesSpec => []SavedAsShown
<1>1. PagesInit => SavedAsShown
  BY DEF PagesInit, SavedAsShown
<1>2. PagesSpec => [](PageTypes /\ SavedAsShown)
  BY <1>1, PagesInitTypes, PagesTypeStep, SavedStep, PTL DEF PagesSpec
<1> QED BY <1>2, PTL

-----------------------------------------------------------------------------
(* What the user did not edit *)

(* One browser shows one of the two pages.                                   *)
OneTab == tab = NoTab \/ scan = NoScan

Unedited == Ids \ tab.edited

(* The fields with an id the user did not touch are as the device sent them, *)
(* and have a value; it is one the device can keep, or the input can show.   *)
Kept ==
    \A id \in Unedited :
        /\ \A i \in FieldsWith(id) : id \in DOMAIN tab.values /\ tab.schema[i].kind = Kind[id]
        /\ id \in DOMAIN tab.values =>
             /\ Matches(params, id) # {}
             /\ Showable(id, tab.values[id]) \/ Len(tab.values[id]) <= FieldLen - 1

(* Their inputs show the values.                                             *)
Shown ==
    tab.pane = "fill" =>
        \A id \in Unedited : \A i \in FieldsWith(id) : tab.inputs[i] = Input(Kind[id], tab.values[id])

(* The values are the device's, cut as it cuts them, wherever the device has *)
(* a value that the input can show.                                          *)
Echoed ==
    ~stale /\ Distinct(params) =>
        \A id \in Unedited \cap DOMAIN tab.values :
            Showable(id, GetParam(params, id)) =>
                Cut(tab.values[id], FieldLen - 1) = GetParam(params, id) /\ Showable(id, tab.values[id])

AsSent == Kept /\ Shown /\ Echoed

(* No page shows nothing that was not sent.                                  *)
LEMMA NoTabAsSent ==
    ASSUME tab = NoTab
    PROVE  AsSent
<1>1. DOMAIN tab.values = {} /\ (\A id : FieldsWith(id) = {}) /\ tab.pane # "fill"
  BY NoTabIs DEF FieldsWith
<1> QED BY <1>1 DEF AsSent, Kept, Shown, Echoed

LEMMA NoTabAsSentNext ==
    ASSUME tab' = NoTab
    PROVE  AsSent'
<1>1. DOMAIN tab'.values = {} /\ (\A id : (FieldsWith(id))' = {}) /\ tab'.pane # "fill"
  BY NoTabIs DEF FieldsWith
<1> QED BY <1>1 DEF AsSent, Kept, Shown, Echoed

(* A text the device keeps it does not cut.                                  *)
LEMMA CutStored ==
    ASSUME NEW v \in Seq(Chars), Len(v) <= FieldLen - 1
    PROVE  Cut(v, FieldLen - 1) = v
<1>1. FieldLen - 1 \in Nat /\ FieldLen - 1 >= Len(v)
  BY LenProperties, FormAssumption
<1> QED BY <1>1, CutMore

LEMMA StoredFits == \A v \in StoredTexts : v \in Seq(Chars) /\ Len(v) <= FieldLen - 1
BY FormAssumption, Bounded DEF StoredTexts

LEMMA ConfigGetAsSent ==
    ASSUME PageTypes, HandlerConfigGet, tab'.intact
    PROVE  AsSent'
<1> DEFINE none == <<>>
<1>1. /\ params' = params /\ stale' = FALSE /\ CanRun(Written)
      /\ tab'.pane = "define" /\ tab'.edited = {}
      /\ tab'.values = Loaded(params) /\ tab'.schema = Schema(params)
  <2>1. \/ CanRun(Written) /\ tab' = Opened(TRUE, Schema(params), Loaded(params))
        \/ tab' = Opened(FALSE, none, none) \/ \E own \in OwnValues : tab' = Opened(FALSE, none, own)
    BY Zenon DEF HandlerConfigGet
  <2> HIDE DEF none
  <2>2. \A own : tab' # Opened(FALSE, none, own)
    BY DEF Opened
  <2>3. CanRun(Written) /\ tab' = Opened(TRUE, Schema(params), Loaded(params))
    BY <2>1, <2>2
  <2> DEFINE schema == Schema(params)
             values == Loaded(params)
  <2> HIDE DEF schema, values
  <2>4. tab'.pane = "define" /\ tab'.edited = {} /\ tab'.schema = schema /\ tab'.values = values
    BY <2>3 DEF Opened, schema, values
  <2>5. params' = params /\ stale' = FALSE
    BY DEF HandlerConfigGet, NoForm
  <2> QED BY <2>3, <2>4, <2>5 DEF schema, values
<1>2. params \in ParamLists /\ \A i \in 1..Len(params) : params[i].id \in Ids /\ params[i].val \in Lines
  BY <1>1, WrittenIs
<1>3. ASSUME NEW id \in Ids, NEW i \in (FieldsWith(id))'
      PROVE  id \in DOMAIN Loaded(params) /\ Schema(params)[i].kind = Kind[id]
  <2>1. i \in 1..Len(Schema(params)) /\ Schema(params)[i].key = id
    BY <1>1 DEF FieldsWith
  <2>2. i \in 1..Len(params) /\ params[i].id = id /\ Schema(params)[i].kind = Kind[params[i].id]
    BY <1>2, <2>1, SchemaIs
  <2> QED BY <1>2, <2>2, LoadedIs
<1>4. ASSUME NEW id \in DOMAIN Loaded(params)
      PROVE  /\ Matches(params, id) # {} /\ Len(Loaded(params)[id]) <= FieldLen - 1
             /\ Distinct(params) => Cut(Loaded(params)[id], FieldLen - 1) = GetParam(params, id)
                                    /\ Loaded(params)[id] = GetParam(params, id)
  <2>1. PICK m \in Matches(params, id) : Loaded(params)[id] = params[m].val
    BY <1>2, LoadedIs
  <2>2. m \in 1..Len(params) /\ params[m].id = id
    BY DEF Matches
  <2>3. params[m].val \in StoredTexts
    <3>1. params[m] \in [id : StoredTexts, val : StoredTexts]
      BY <1>2, <2>2, ElementOfSeq DEF ParamLists
    <3> QED BY <3>1
  <2>4. Len(params[m].val) <= FieldLen - 1 /\ Cut(params[m].val, FieldLen - 1) = params[m].val
    BY <2>3, StoredFits, CutStored
  <2>5. ASSUME Distinct(params) PROVE params[m].val = GetParam(params, id)
    <3> DEFINE k == Min(Matches(params, id))
    <3>1. k \in 1..Len(params) /\ params[k].id = id /\ GetParam(params, id) = params[k].val
      BY <1>2, GetParamFinds
    <3> HIDE DEF k
    <3>2. k = m
      BY <2>2, <2>5, <3>1 DEF Distinct
    <3> QED BY <3>1, <3>2
  <2> QED BY <2>1, <2>4, <2>5
<1>5. Kept' /\ Shown'
  BY <1>1, <1>3, <1>4 DEF Kept, Shown, Unedited
<1>6. Echoed'
  BY <1>1, <1>4 DEF Echoed, Unedited
<1> QED BY <1>5, <1>6 DEF AsSent

(* A pane's inputs are made of the values of the fields nobody edited.       *)
LEMMA RenderShown ==
    ASSUME PageTypes, Kept, NEW values, values \in [DOMAIN values -> Lines], NEW id \in Unedited,
           NEW i \in FieldsWith(id), id \in DOMAIN values
    PROVE  RenderFill(tab.schema, values)[i] = Input(Kind[id], values[id])
<1>1. i \in 1..Len(tab.schema) /\ tab.schema[i].key = id /\ tab.schema[i].kind = Kind[id]
  BY DEF FieldsWith, Kept
<1>2. tab.schema \in Schemas
  BY GoodTabHas DEF PageTypes
<1> QED BY <1>1, <1>2, RenderIs

LEMMA SwitchAsSent ==
    ASSUME PageTypes, AsSent, NEW pane \in {"define", "fill"}, SwitchTab(pane)
    PROVE  AsSent'
<1>1. GoodTab(tab) /\ tab.pane # "none"
  BY DEF PageTypes, SwitchTab
<1>2. params' = params /\ stale' = stale
  BY DEF SwitchTab, OnlyTab, NoForm
<1> DEFINE inputs == IF pane = "fill" THEN RenderFill(tab.schema, tab.values) ELSE <<>>
<1>3. tab' = [pane |-> pane, intact |-> tab.intact, schema |-> tab.schema, values |-> tab.values, inputs |-> inputs,
              edited |-> tab.edited]
  BY <1>1, GoodTabHas, TabParts DEF SwitchTab
<1> HIDE DEF inputs
<1>4. /\ tab'.schema = tab.schema /\ tab'.values = tab.values /\ tab'.edited = tab.edited
      /\ tab'.pane = pane /\ tab'.inputs = inputs
  BY <1>3
<1>5. (\A id : (FieldsWith(id))' = FieldsWith(id)) /\ Unedited' = Unedited
  BY <1>4 DEF FieldsWith, Unedited
<1>6. Kept'
  BY <1>2, <1>4, <1>5 DEF AsSent, Kept
<1>7. Echoed'
  BY <1>2, <1>4, <1>5 DEF AsSent, Echoed
<1>8. Shown'
  <2>1. SUFFICES ASSUME pane = "fill", NEW id \in Unedited, NEW i \in FieldsWith(id)
                 PROVE  inputs[i] = Input(Kind[id], tab.values[id])
    BY <1>4, <1>5 DEF Shown
  <2>2. id \in DOMAIN tab.values /\ tab.values \in [DOMAIN tab.values -> Lines]
    BY <1>1, GoodTabHas DEF AsSent, Kept
  <2> QED BY <2>1, <2>2, RenderShown DEF inputs, AsSent
<1> QED BY <1>6, <1>7, <1>8 DEF AsSent

(* A schema of fields it had, or that the user touched.                      *)
LEMMA DefineAsSent ==
    ASSUME PageTypes, AsSent, NEW schema, NEW touched, Define(schema, touched),
           \A j \in 1..Len(schema) :
             schema[j].key \in touched \/ \E k \in 1..Len(tab.schema) : schema[j] = tab.schema[k]
    PROVE  AsSent'
<1>1. GoodTab(tab) /\ tab.pane = "define"
  BY DEF PageTypes, Define
<1>2. params' = params /\ stale' = stale
  BY DEF Define, OnlyTab, NoForm
<1>3. tab' = [pane |-> tab.pane, intact |-> tab.intact, schema |-> schema, values |-> tab.values, inputs |-> tab.inputs,
              edited |-> tab.edited \cup touched]
  BY <1>1, GoodTabHas, TabParts DEF Define
<1>4. /\ tab'.schema = schema /\ tab'.values = tab.values /\ tab'.edited = tab.edited \cup touched
      /\ tab'.pane = "define"
  BY <1>1, <1>3
<1>5. Unedited' \subseteq Unedited
  BY <1>4 DEF Unedited
<1>6. ASSUME NEW id \in Unedited', NEW i \in (FieldsWith(id))'
      PROVE  id \in DOMAIN tab.values /\ schema[i].kind = Kind[id]
  <2>1. i \in 1..Len(schema) /\ schema[i].key = id /\ id \notin touched
    BY <1>4 DEF FieldsWith, Unedited
  <2>2. PICK k \in 1..Len(tab.schema) : schema[i] = tab.schema[k]
    BY <2>1
  <2>3. k \in FieldsWith(id) /\ id \in Unedited
    BY <1>5, <2>1, <2>2 DEF FieldsWith
  <2> QED BY <2>2, <2>3 DEF AsSent, Kept
<1>7. Kept'
  BY <1>2, <1>4, <1>5, <1>6 DEF AsSent, Kept
<1>8. Echoed' /\ Shown'
  BY <1>2, <1>4, <1>5 DEF AsSent, Echoed, Shown
<1> QED BY <1>7, <1>8 DEF AsSent

LEMMA DefinedAsSent ==
    ASSUME PageTypes, AsSent,
           \/ \E f \in Defined : AddDefined(f)
           \/ \E i \in 1..Len(tab.schema), f \in Defined : EditDefined(i, f)
           \/ \E i \in 1..Len(tab.schema) : RemoveField(i)
    PROVE  AsSent'
<1>1. tab.schema \in Schemas /\ tab.schema \in Seq(SchemaField)
  BY GoodTabHas DEF PageTypes, Schemas
<1>2. ASSUME NEW f \in Defined, AddDefined(f) PROVE AsSent'
  <2> DEFINE schema == Append(tab.schema, f)
             touched == {f.key}
  <2>1. Define(schema, touched)
    BY <1>2 DEF AddDefined
  <2>2. f \in SchemaField /\ Len(tab.schema) \in Nat
    BY <1>1, PagesAssumption, LenProperties
  <2>3. /\ Len(schema) = Len(tab.schema) + 1 /\ schema[Len(tab.schema) + 1] = f
        /\ \A j \in 1..Len(tab.schema) : schema[j] = tab.schema[j]
    BY <1>1, <2>2, AppendProperties
  <2> HIDE DEF schema
  <2>4. ASSUME NEW j \in 1..Len(schema)
        PROVE  schema[j].key \in touched \/ \E k \in 1..Len(tab.schema) : schema[j] = tab.schema[k]
    <3>1. j = Len(tab.schema) + 1 \/ j \in 1..Len(tab.schema)
      BY <2>2, <2>3
    <3> QED BY <2>3, <3>1
  <2> HIDE DEF touched
  <2> QED BY <2>1, <2>4, DefineAsSent
<1>3. ASSUME NEW i \in 1..Len(tab.schema), NEW f \in Defined, EditDefined(i, f) PROVE AsSent'
  <2> DEFINE schema == [tab.schema EXCEPT ![i] = f]
             touched == {tab.schema[i].key, f.key}
  <2>1. Define(schema, touched)
    BY <1>3 DEF EditDefined
  <2>2. f \in SchemaField
    BY PagesAssumption
  <2>3. /\ Len(schema) = Len(tab.schema)
        /\ \A j \in 1..Len(tab.schema) : schema[j] = IF j = i THEN f ELSE tab.schema[j]
    BY <1>1, <2>2, ExceptSeq
  <2> HIDE DEF schema
  <2>4. \A j \in 1..Len(schema) :
          schema[j].key \in touched \/ \E k \in 1..Len(tab.schema) : schema[j] = tab.schema[k]
    BY <2>3
  <2> HIDE DEF touched
  <2> QED BY <2>1, <2>4, DefineAsSent
<1>4. ASSUME NEW i \in 1..Len(tab.schema), RemoveField(i) PROVE AsSent'
  <2> DEFINE schema == RemoveAt(tab.schema, i)
             none == {}
  <2>1. Define(schema, none)
    BY <1>4 DEF RemoveField
  <2>2. \A j \in 1..Len(schema) : \E k \in 1..Len(tab.schema) : schema[j] = tab.schema[k]
    BY <1>1, Removed
  <2> HIDE DEF schema, none
  <2> QED BY <2>1, <2>2, DefineAsSent
<1> QED BY <1>2, <1>3, <1>4

LEMMA EnterAsSent ==
    ASSUME PageTypes, AsSent, NEW i \in 1..Len(tab.schema), NEW v, Enter(i, v)
    PROVE  AsSent'
<1>1. GoodTab(tab) /\ tab.pane = "fill" /\ Len(tab.inputs) = Len(tab.schema)
      /\ tab.inputs \in Seq(Lines) /\ v \in Lines
  BY GoodTabHas, EnterableType DEF PageTypes, GoodTab, Enter
<1>2. params' = params /\ stale' = stale
  BY DEF Enter, OnlyTab, NoForm
<1> DEFINE inputs == [tab.inputs EXCEPT ![i] = v]
           edited == tab.edited \cup {tab.schema[i].key}
<1>3. tab' = [pane |-> tab.pane, intact |-> tab.intact, schema |-> tab.schema, values |-> tab.values, inputs |-> inputs,
              edited |-> edited]
  BY EnterTab
<1>4. \A j \in 1..Len(tab.schema) : j # i => inputs[j] = tab.inputs[j]
  BY <1>1, ExceptSeq
<1> HIDE DEF inputs
<1>5. /\ tab'.schema = tab.schema /\ tab'.values = tab.values /\ tab'.edited = edited
      /\ tab'.pane = "fill" /\ tab'.inputs = inputs
  BY <1>1, <1>3
<1>6. (\A id : (FieldsWith(id))' = FieldsWith(id)) /\ Unedited' = Unedited \ {tab.schema[i].key}
  BY <1>5 DEF FieldsWith, Unedited
<1>7. Kept'
  BY <1>2, <1>5, <1>6 DEF AsSent, Kept
<1>8. Echoed'
  BY <1>2, <1>5, <1>6 DEF AsSent, Echoed
<1>9. Shown'
  <2>1. SUFFICES ASSUME NEW id \in Unedited, id # tab.schema[i].key, NEW j \in FieldsWith(id)
                 PROVE  inputs[j] = Input(Kind[id], tab.values[id])
    BY <1>5, <1>6 DEF Shown
  <2>2. j \in 1..Len(tab.schema) /\ j # i
    BY <2>1 DEF FieldsWith
  <2> QED BY <1>1, <1>4, <2>2 DEF AsSent, Shown
<1> QED BY <1>7, <1>8, <1>9 DEF AsSent

LEMMA ResetAsSent ==
    ASSUME PageTypes, AsSent, DoReset
    PROVE  AsSent'
<1>1. tab.pane = "fill"
  BY DEF DoReset
<1>2. params' = params /\ stale' = stale
  BY DEF DoReset, OnlyTab, NoForm
<1> DEFINE inputs == RenderFill(tab.schema, Defaults)
<1>3. Defaults \in [SchemaKeys -> Lines] /\ DOMAIN Defaults = SchemaKeys
  BY ResetTab
<1>4. tab' = [pane |-> tab.pane, intact |-> tab.intact, schema |-> tab.schema, values |-> Defaults, inputs |-> inputs,
              edited |-> tab.edited \cup Renewed]
  BY ResetTab
<1> HIDE DEF inputs
<1>5. /\ tab'.schema = tab.schema /\ tab'.values = Defaults /\ tab'.inputs = inputs
      /\ tab'.edited = tab.edited \cup Renewed /\ tab'.pane = "fill"
  BY <1>1, <1>4
<1>6. (\A id : (FieldsWith(id))' = FieldsWith(id)) /\ Unedited' = Unedited \ Renewed
  BY <1>5 DEF FieldsWith, Unedited
<1>7. ASSUME NEW id \in Unedited', id \in SchemaKeys
      PROVE  id \in DOMAIN tab.values /\ Defaults[id] = tab.values[id] /\ id \in Unedited
  BY <1>6, <1>7 DEF Renewed
<1>8. \A id, i : i \in FieldsWith(id) => id \in SchemaKeys
  BY DEF FieldsWith, SchemaKeys
<1>9. Kept'
  BY <1>2, <1>3, <1>5, <1>6, <1>7, <1>8 DEF AsSent, Kept
<1>10. Echoed'
  BY <1>2, <1>3, <1>5, <1>7 DEF AsSent, Echoed
<1>11. Shown'
  <2>1. SUFFICES ASSUME NEW id \in Unedited', NEW i \in FieldsWith(id)
                 PROVE  inputs[i] = Input(Kind[id], Defaults[id])
    BY <1>5, <1>6 DEF Shown
  <2>2. id \in DOMAIN Defaults /\ id \in Unedited
    BY <1>3, <1>7, <1>8
  <2> QED BY <1>3, <2>2, RenderShown DEF inputs, AsSent
<1> QED BY <1>9, <1>10, <1>11 DEF AsSent

(* What doSave takes for an id that nobody edited: what its input shows, if  *)
(* it has one, or else the value it was sent.                                *)
LEMMA UneditedFilled ==
    ASSUME PageTypes, Kept, Shown, tab.pane = "fill", NEW id \in Unedited, id \in DOMAIN Filled
    PROVE  /\ id \in DOMAIN tab.values /\ Filled[id] \in Lines /\ tab.values[id] \in Lines
           /\ id \in SchemaKeys => Filled[id] = Input(Kind[id], tab.values[id])
           /\ id \notin SchemaKeys => Filled[id] = tab.values[id]
<1>1. GoodTab(tab)
  BY DEF PageTypes
<1>2. /\ Filled[id] \in Lines /\ (id \in SchemaKeys \/ id \in DOMAIN tab.values)
      /\ Filled[id] = IF id \in SchemaKeys THEN Taken(id) ELSE tab.values[id]
  BY <1>1, FilledIs
<1>3. CASE id \notin SchemaKeys
  BY <1>2, <1>3
<1>4. CASE id \in SchemaKeys
  <2> DEFINE T == FieldsWith(id)
             first == Min(T)
  <2>1. first \in T
    BY <1>1, <1>4, FieldsFound
  <2>2. id \in DOMAIN tab.values /\ \A i \in T : tab.schema[i].kind = Kind[id]
    BY <2>1 DEF Kept
  <2>3. Taken(id) = tab.inputs[first]
    BY <1>1, <1>4, <2>2, TakenIs
  <2>4. tab.inputs[first] = Input(Kind[id], tab.values[id])
    BY <2>1 DEF Shown
  <2>5. tab.values[id] \in Lines
    BY <1>1, <2>2, GoodTabHas
  <2> QED BY <1>2, <1>4, <2>2, <2>3, <2>4, <2>5
<1> QED BY <1>1, <1>2, <1>3, <1>4, GoodTabHas

(* ... which its input can show, and does when it is put in again; and it is *)
(* the value that was sent if the input can show that.                       *)
LEMMA UneditedShows ==
    ASSUME PageTypes, Kept, Shown, tab.pane = "fill", NEW id \in Unedited, id \in DOMAIN Filled
    PROVE  /\ id \in SchemaKeys => Showable(id, Filled[id]) /\ Input(Kind[id], Filled[id]) = Filled[id]
           /\ Showable(id, tab.values[id]) => Filled[id] = tab.values[id]
<1>1. /\ Filled[id] \in Lines /\ tab.values[id] \in Lines
      /\ id \in SchemaKeys => Filled[id] = Input(Kind[id], tab.values[id])
      /\ id \notin SchemaKeys => Filled[id] = tab.values[id]
  BY UneditedFilled
<1>2. Kind[id] \in Kinds
  <2>1. id \in Ids
    BY DEF Unedited
  <2> QED BY <2>1, PagesAssumption
<1> DEFINE kind == Kind[id]
           v == tab.values[id]
<1> HIDE DEF kind, v
<1>3. /\ kind \in {"bool", "sel"} => Input(kind, v) \in Enterable(kind)
      /\ (kind \in {"bool", "sel"} => v \in Enterable(kind)) => Input(kind, v) = v
      /\ Input(kind, Input(kind, v)) = Input(kind, v)
  BY <1>1, <1>2, InputShows DEF kind, v
<1> QED BY <1>1, <1>3 DEF Showable, kind, v

(* Nothing changes on the device unless a form is answered with "OK".        *)
LEMMA NotSaved ==
    ASSUME DoSave, reply' # "OK"
    PROVE  params' = params
BY DEF DoSave, NoForm, HandlerConfigSavePost, Handler, Accept, Refuse

LEMMA SaveEchoes ==
    ASSUME PageTypes, AsSent, DoSave, ~stale', Distinct(params),
           NEW id \in Unedited, id \in DOMAIN Filled,
           Showable(id, GetParam(params', id))
    PROVE  Cut(Filled[id], FieldLen - 1) = GetParam(params', id) /\ Showable(id, Filled[id])
<1>1. tab.pane = "fill" /\ ~stale /\ (reply' = "OK" => whole') /\ id \in Ids
  BY DEF DoSave, PageTypes, TypeOK, Unedited
<1>2. /\ id \in DOMAIN tab.values /\ Filled[id] \in Lines /\ tab.values[id] \in Lines
      /\ id \notin SchemaKeys => Filled[id] = tab.values[id]
  BY <1>1, UneditedFilled DEF AsSent
<1>3. /\ id \in SchemaKeys => Showable(id, Filled[id])
      /\ Showable(id, tab.values[id]) => Filled[id] = tab.values[id]
  BY <1>1, UneditedShows DEF AsSent
<1>4. Matches(params, id) # {} /\ (Showable(id, tab.values[id]) \/ Len(tab.values[id]) <= FieldLen - 1)
  BY <1>2 DEF AsSent, Kept
<1>5. CASE reply' = "OK"
  <2>1. GetParam(params, id) # Unknown
    BY <1>4, GetParamFinds DEF PageTypes, TypeOK
  <2>2. GetParam(params', id) = Cut(Filled[id], FieldLen - 1)
    BY <1>1, <1>5, <2>1, SaveStores
  <2>3. CASE id \in SchemaKeys \/ Showable(id, tab.values[id])
    BY <1>2, <1>3, <2>2, <2>3
  <2>4. CASE id \notin SchemaKeys /\ Len(tab.values[id]) <= FieldLen - 1
    <3>1. Cut(Filled[id], FieldLen - 1) = Filled[id]
      BY <1>2, <2>4, CutStored, LineText
    <3> QED BY <2>2, <3>1
  <2> QED BY <1>4, <2>3, <2>4
<1>6. CASE reply' # "OK"
  <2>1. params' = params
    BY <1>6, NotSaved
  <2>2. Cut(tab.values[id], FieldLen - 1) = GetParam(params, id) /\ Showable(id, tab.values[id])
    BY <1>1, <1>2, <2>1 DEF AsSent, Echoed
  <2> QED BY <1>3, <2>1, <2>2
<1> QED BY <1>5, <1>6

LEMMA SaveAsSent ==
    ASSUME PageTypes, AsSent, DoSave
    PROVE  AsSent' /\ (Distinct(params') <=> Distinct(params))
<1>1. /\ GoodTab(tab) /\ tab.pane = "fill" /\ SameFields(params, params')
      /\ tab' = [pane |-> tab.pane, intact |-> tab.intact, schema |-> tab.schema, values |-> Filled,
                 inputs |-> tab.inputs, edited |-> tab.edited]
  BY SaveTab
<1>2. /\ tab'.schema = tab.schema /\ tab'.values = Filled /\ tab'.inputs = tab.inputs
      /\ tab'.edited = tab.edited /\ tab'.pane = "fill"
  BY <1>1
<1>3. (\A id : (FieldsWith(id))' = FieldsWith(id)) /\ Unedited' = Unedited
  BY <1>2 DEF FieldsWith, Unedited
<1>4. (\A id : Matches(params', id) = Matches(params, id)) /\ (Distinct(params') <=> Distinct(params))
  BY <1>1, SameMatches DEF PageTypes, TypeOK, Distinct, SameFields
<1>5. DOMAIN Filled = SchemaKeys \cup DOMAIN tab.values
  BY <1>1, FilledIs
<1>6. \A id, i : i \in FieldsWith(id) => id \in SchemaKeys
  BY DEF FieldsWith, SchemaKeys
<1>7. ASSUME NEW id \in Unedited, id \in DOMAIN Filled
      PROVE  /\ Matches(params, id) # {}
             /\ Showable(id, Filled[id]) \/ Len(Filled[id]) <= FieldLen - 1
  <2>1. id \in DOMAIN tab.values /\ (id \notin SchemaKeys => Filled[id] = tab.values[id])
    BY <1>1, <1>7, UneditedFilled DEF AsSent
  <2>2. id \in SchemaKeys => Showable(id, Filled[id])
    BY <1>1, <1>7, UneditedShows DEF AsSent
  <2> QED BY <2>1, <2>2 DEF AsSent, Kept
<1>8. Kept'
  BY <1>2, <1>3, <1>4, <1>5, <1>6, <1>7 DEF AsSent, Kept
<1>9. Shown'
  <2>1. SUFFICES ASSUME NEW id \in Unedited, NEW i \in FieldsWith(id)
                 PROVE  tab.inputs[i] = Input(Kind[id], Filled[id])
    BY <1>2, <1>3 DEF Shown
  <2>2. id \in SchemaKeys /\ id \in DOMAIN Filled
    BY <1>5, <1>6
  <2>3. Filled[id] = Input(Kind[id], tab.values[id]) /\ Input(Kind[id], Filled[id]) = Filled[id]
    BY <1>1, <2>2, UneditedFilled, UneditedShows DEF AsSent
  <2>4. tab.inputs[i] = Input(Kind[id], tab.values[id])
    BY <1>1 DEF AsSent, Shown
  <2> QED BY <2>3, <2>4
<1>10. Echoed'
  <2>1. SUFFICES ASSUME ~stale', Distinct(params'), NEW id \in Unedited, id \in DOMAIN Filled,
                        Showable(id, GetParam(params', id))
                 PROVE  Cut(Filled[id], FieldLen - 1) = GetParam(params', id) /\ Showable(id, Filled[id])
    BY <1>2, <1>3 DEF Echoed
  <2> QED BY <1>4, <2>1, SaveEchoes
<1> QED BY <1>4, <1>8, <1>9, <1>10 DEF AsSent

LEMMA AddFieldAsSent ==
    ASSUME PageTypes, AsSent, AddField
    PROVE  AsSent'
<1>1. tab' = tab /\ scan' = scan /\ stale' = stale
  BY DEF AddField
<1>2. PICK id \in Ids, v \in Texts : AddParam(id, v)
  BY DEF AddField
<1>3. PICK p \in [id : StoredTexts, val : StoredTexts] : params' = Append(params, p)
  BY <1>2, AddedIs DEF PageTypes
<1>4. /\ Len(params') = Len(params) + 1 /\ Len(params) \in Nat /\ params \in ParamLists
      /\ \A i \in 1..Len(params) : params'[i] = params[i]
  BY <1>3, AppendProperties, LenProperties DEF PageTypes, TypeOK, ParamLists
<1>5. (\A key : Matches(params, key) \subseteq Matches(params', key))
      /\ (Distinct(params') => Distinct(params))
  BY <1>4 DEF Matches, Distinct
<1>6. \A key : Matches(params, key) # {} => GetParam(params', key) = GetParam(params, key)
  BY <1>3, <1>4, AppendFinds
<1>7. (\A key : (FieldsWith(key))' = FieldsWith(key)) /\ Unedited' = Unedited
  BY <1>1 DEF FieldsWith, Unedited
<1>8. Kept'
  BY <1>1, <1>5, <1>7 DEF AsSent, Kept
<1>9. Shown'
  BY <1>1, <1>7 DEF AsSent, Shown
<1>10. Echoed'
  <2>1. SUFFICES ASSUME ~stale, Distinct(params), NEW key \in Unedited, key \in DOMAIN tab.values,
                        Showable(key, GetParam(params', key))
                 PROVE  /\ Cut(tab.values[key], FieldLen - 1) = GetParam(params', key)
                        /\ Showable(key, tab.values[key])
    BY <1>1, <1>5, <1>7 DEF Echoed
  <2>2. GetParam(params', key) = GetParam(params, key)
    BY <1>6, <2>1 DEF AsSent, Kept
  <2> QED BY <2>1, <2>2 DEF AsSent, Echoed
<1> QED BY <1>8, <1>9, <1>10 DEF AsSent

LEMMA OtherAsSent ==
    ASSUME PageTypes, AsSent, OtherClient
    PROVE  AsSent'
<1>1. tab' = tab /\ scan' = scan /\ stale' = TRUE
  BY DEF OtherClient
<1>2. SameFields(params, params')
  BY OtherTypes
<1>3. \A id : Matches(params', id) = Matches(params, id)
  BY <1>2, SameMatches DEF PageTypes, TypeOK
<1>4. (\A key : (FieldsWith(key))' = FieldsWith(key)) /\ Unedited' = Unedited
  BY <1>1 DEF FieldsWith, Unedited
<1>5. Kept' /\ Shown'
  BY <1>1, <1>3, <1>4 DEF AsSent, Kept, Shown
<1>6. Echoed'
  BY <1>1 DEF Echoed
<1> QED BY <1>5, <1>6 DEF AsSent

LEMMA UnchangedAsSent ==
    ASSUME AsSent, UNCHANGED pageVars
    PROVE  AsSent'
BY DEF AsSent, Kept, Shown, Echoed, Unedited, FieldsWith, pageVars, vars

(* The scan page is in the browser only while /config is not.                *)
LEMMA ScanKeepsTab ==
    ASSUME OneTab,
           \/ \E found \in SUBSET Names : HandlerScanGet(found)
           \/ \E name \in Names : SelectNet(name)
           \/ \E text \in Texts \cap Lines : TypeSsid(text)
           \/ \E password \in Texts \cap Lines : DoConnect(password)
    PROVE  tab' = NoTab
<1>1. NoScan.page = "none" /\ NoScan.listed = {}
  BY DEF NoScan, ScanPage
<1>2. ASSUME NEW found \in SUBSET Names, HandlerScanGet(found) PROVE tab' = NoTab
  BY <1>2 DEF HandlerScanGet
<1>3. ASSUME NEW name \in Names, SelectNet(name) PROVE tab' = NoTab
  BY <1>1, <1>3 DEF SelectNet, OneTab
<1>4. ASSUME NEW text, TypeSsid(text) \/ DoConnect(text) PROVE tab' = NoTab
  BY <1>1, <1>4 DEF TypeSsid, DoConnect, OneTab
<1> QED BY <1>2, <1>3, <1>4

(* No step within /config makes a page whose script did not run one that is  *)
(* as it was sent.                                                           *)
LEMMA TabKeeps ==
    ASSUME PageTypes,
           \/ DoReset \/ DoSave \/ \E pane \in {"define", "fill"} : SwitchTab(pane)
           \/ \E f \in Defined : AddDefined(f)
           \/ \E i \in 1..Len(tab.schema), f \in Defined : EditDefined(i, f)
           \/ \E i \in 1..Len(tab.schema) : RemoveField(i)
           \/ \E i \in 1..Len(tab.schema) : \E v : Enter(i, v)
    PROVE  tab'.intact = tab.intact /\ tab.pane # "none" /\ scan' = scan
<1>1. GoodTab(tab)
  BY DEF PageTypes
<1>2. ASSUME DoReset PROVE tab'.intact = tab.intact /\ tab.pane = "fill" /\ scan' = scan
  BY <1>2, ResetTab DEF DoReset, OnlyTab
<1>3. ASSUME DoSave PROVE tab'.intact = tab.intact /\ tab.pane = "fill" /\ scan' = scan
  BY <1>3, SaveTab DEF DoSave
<1>4. ASSUME NEW pane, SwitchTab(pane)
      PROVE  tab'.intact = tab.intact /\ tab.pane # "none" /\ scan' = scan
  <2> DEFINE inputs == IF pane = "fill" THEN RenderFill(tab.schema, tab.values) ELSE <<>>
  <2>1. tab' = [tab EXCEPT !.pane = pane, !.inputs = inputs] /\ tab.pane # "none" /\ scan' = scan
    BY <1>4 DEF SwitchTab, OnlyTab
  <2> HIDE DEF inputs
  <2> QED BY <1>1, <2>1, GoodTabHas, TabParts
<1>5. ASSUME NEW schema, NEW touched, Define(schema, touched)
      PROVE  tab'.intact = tab.intact /\ tab.pane = "define" /\ scan' = scan
  <2>1. tab' = [tab EXCEPT !.schema = schema, !.edited = @ \cup touched] /\ tab.pane = "define" /\ scan' = scan
    BY <1>5 DEF Define, OnlyTab
  <2> QED BY <1>1, <2>1, GoodTabHas, TabParts
<1>6. ASSUME NEW i \in 1..Len(tab.schema), NEW v, Enter(i, v)
      PROVE  tab'.intact = tab.intact /\ tab.pane = "fill" /\ scan' = scan
  BY <1>6, EnterTab DEF Enter, OnlyTab
<1> QED BY <1>2, <1>3, <1>4, <1>5, <1>6, Zenon DEF AddDefined, EditDefined, RemoveField

LEMMA OneTabStep ==
    ASSUME PageTypes, OneTab, [PagesNext]_pageVars
    PROVE  OneTab'
<1>1. ASSUME tab' = NoTab \/ scan' = NoScan \/ (tab' = tab /\ scan' = scan) PROVE OneTab'
  BY <1>1 DEF OneTab
<1>2. CASE HandlerConfigGet
  BY <1>1, <1>2 DEF HandlerConfigGet
<1>3. CASE AddField \/ OtherClient \/ UNCHANGED pageVars
  BY <1>1, <1>3 DEF AddField, OtherClient, pageVars
<1>4. ASSUME tab.pane # "none", scan' = scan PROVE OneTab'
  BY <1>4, NoTabIs DEF OneTab
<1> QED BY <1>1, <1>2, <1>3, <1>4, TabKeeps, ScanKeepsTab, PagesCases

(* A page whose script ran is as it was sent.                                *)
RanAsSent == OneTab /\ (tab.intact => AsSent)

LEMMA RanAsSentStep ==
    ASSUME PageTypes, RanAsSent, [PagesNext]_pageVars
    PROVE  RanAsSent'
<1>1. OneTab /\ OneTab'
  BY OneTabStep DEF RanAsSent
<1>2. SUFFICES ASSUME tab'.intact PROVE AsSent'
  BY <1>1 DEF RanAsSent
<1>3. CASE HandlerConfigGet
  BY <1>2, <1>3, ConfigGetAsSent
<1>4. ASSUME tab' = NoTab PROVE AsSent'
  BY <1>4, NoTabAsSentNext
<1>5. CASE AddField \/ OtherClient \/ UNCHANGED pageVars
  <2>1. tab' = tab
    BY <1>5 DEF AddField, OtherClient, pageVars
  <2>2. AsSent
    BY <1>2, <2>1 DEF RanAsSent
  <2> QED BY <1>5, <2>2, AddFieldAsSent, OtherAsSent, UnchangedAsSent
<1>6. ASSUME tab.intact, DoReset \/ DoSave \/ \E pane \in {"define", "fill"} : SwitchTab(pane) PROVE AsSent'
  BY <1>6, ResetAsSent, SaveAsSent, SwitchAsSent DEF RanAsSent
<1>7. ASSUME tab.intact, NEW i \in 1..Len(tab.schema), NEW v, Enter(i, v) PROVE AsSent'
  BY <1>7, EnterAsSent DEF RanAsSent
<1>8. ASSUME tab.intact,
             \/ \E f \in Defined : AddDefined(f)
             \/ \E i \in 1..Len(tab.schema), f \in Defined : EditDefined(i, f)
             \/ \E i \in 1..Len(tab.schema) : RemoveField(i)
      PROVE  AsSent'
  BY <1>8, DefinedAsSent DEF RanAsSent
<1> QED BY <1>1, <1>2, <1>3, <1>4, <1>5, <1>6, <1>7, <1>8, TabKeeps, ScanKeepsTab, PagesCases

(* A save of a page that is as it was sent.                                  *)
LEMMA OnlyEditedStep ==
    ASSUME PageTypes, RanAsSent, OnlyEditedChange, [PagesNext]_pageVars
    PROVE  OnlyEditedChange'
<1>1. CASE from' # "config"
  BY <1>1 DEF OnlyEditedChange
<1>2. CASE DoSave
  <2> SUFFICES ASSUME reply' = "OK", tab'.intact, ~stale', Distinct(params'), NEW id \in Ids \ tab'.edited,
                      GetParam(before'.params, id) # Unknown,
                      Showable(id, GetParam(before'.params, id)), whole'
               PROVE  GetParam(params', id) = GetParam(before'.params, id)
    BY DEF OnlyEditedChange
  <2>1. before'.params = params /\ id \in Ids /\ AsSent
    <3>1. tab'.intact = tab.intact
      BY <1>2, TabKeeps
    <3>2. before' = [params |-> params, sta |-> sta]
      BY <1>2, SaveStores
    <3> QED BY <3>1, <3>2 DEF RanAsSent
  <2>2. tab'.edited = tab.edited /\ tab.pane = "fill" /\ id \in Unedited
    <3>1. tab'.edited = tab.edited /\ tab.pane = "fill"
      BY <1>2, SaveTab
    <3> QED BY <3>1 DEF Unedited
  <2>3. ~stale /\ Distinct(params)
    BY <1>2, <2>1, SaveAsSent DEF DoSave
  <2>4. GetParam(params', id) = IF id \in DOMAIN Filled THEN Cut(Filled[id], FieldLen - 1)
                                ELSE GetParam(params, id)
    BY <1>2, <2>1, SaveStores
  <2>5. ASSUME id \in DOMAIN Filled PROVE Cut(Filled[id], FieldLen - 1) = GetParam(params, id)
    <3>1. id \in DOMAIN tab.values
      BY <2>1, <2>2, <2>5, UneditedFilled DEF AsSent
    <3>2. Cut(tab.values[id], FieldLen - 1) = GetParam(params, id) /\ Showable(id, tab.values[id])
      BY <2>1, <2>2, <2>3, <3>1 DEF AsSent, Echoed
    <3>3. Filled[id] = tab.values[id]
      BY <2>1, <2>2, <2>5, <3>2, UneditedShows DEF AsSent
    <3> QED BY <3>2, <3>3
  <2> QED BY <2>1, <2>4, <2>5
<1>3. CASE UNCHANGED pageVars
  BY <1>3 DEF pageVars, vars, OnlyEditedChange
<1>4. CASE AddField \/ OtherClient \/ \E password \in Texts \cap Lines : DoConnect(password)
  BY <1>1, <1>4 DEF AddField, OtherClient, DoConnect
<1>5. ASSUME NoForm PROVE OnlyEditedChange'
  BY <1>1, <1>5 DEF NoForm
<1> QED BY <1>2, <1>3, <1>4, <1>5, PagesCases
        DEF SwitchTab, AddDefined, EditDefined, RemoveField, Define, Enter, DoReset, OnlyTab,
            HandlerConfigGet, HandlerScanGet, SelectNet, TypeSsid

(* On a page whose script ran, saving changes nothing the user did not edit, *)
(* after any number of saves, resets and redefinitions of other fields: each *)
(* value comes back from the browser as the device sent it.                  *)
THEOREM EditedOnlyChange == PagesSpec => []OnlyEditedChange
<1>1. PagesInit => RanAsSent /\ OnlyEditedChange
  <2> SUFFICES ASSUME PagesInit PROVE RanAsSent /\ OnlyEditedChange
    OBVIOUS
  <2>1. tab = NoTab /\ from = "none"
    BY DEF PagesInit
  <2> QED BY <2>1, NoTabAsSent DEF RanAsSent, OneTab, OnlyEditedChange
<1>2. PagesSpec => [](PageTypes /\ RanAsSent /\ OnlyEditedChange)
  BY <1>1, PagesInitTypes, PagesTypeStep, RanAsSentStep, OnlyEditedStep, PTL DEF PagesSpec
<1> QED BY <1>2, PTL

-----------------------------------------------------------------------------
(* The device under these pages                                              *)

(* What a step does to the device, for all FormPost says of it.              *)
LEMMA DeviceStep ==
    ASSUME PageTypes, [PagesNext]_pageVars
    PROVE  \/ \E path : \E fields \in SentForms : Handler(path, fields)
           \/ \E id \in Ids, v \in Texts : AddParam(id, v)
           \/ NoForm \/ UNCHANGED vars
<1>1. CASE DoSave
  <2>1. FilledForm \in SentForms
    <3>1. GoodTab(tab) /\ tab.pane = "fill"
      BY <1>1 DEF PageTypes, DoSave
    <3> QED BY <3>1, FormIs
  <2> QED BY <1>1, <2>1, Zenon DEF DoSave, HandlerConfigSavePost
<1>2. CASE AddField
  BY <1>2, Zenon DEF AddField
<1>3. CASE OtherClient
  BY <1>3, FormsAreSent DEF OtherClient, HandlerConfigSavePost
<1>4. ASSUME NEW password \in Texts \cap Lines, DoConnect(password)
      PROVE  \E path : \E fields \in SentForms : Handler(path, fields)
  <2>1. Trim(scan.box) \in Seq(Chars) /\ password \in Seq(Chars)
    BY TrimType, LineText DEF PageTypes, Scans
  <2> DEFINE fields == ConnectForm(Trim(scan.box), password)
  <2>2. fields \in SentForms
    BY <2>1, ConnectFormIs
  <2>3. Handler("/", fields)
    BY <1>4 DEF DoConnect, HandlerWifiPost, ConnectForm
  <2> HIDE DEF fields
  <2> QED BY <2>2, <2>3
<1>5. CASE UNCHANGED pageVars
  BY <1>5 DEF pageVars
<1> QED BY <1>1, <1>2, <1>3, <1>4, <1>5, PagesCases
        DEF SwitchTab, AddDefined, EditDefined, RemoveField, Define, Enter, DoReset, OnlyTab,
            HandlerConfigGet, HandlerScanGet, SelectNet, TypeSsid

(* Whatever the two pages post, and in whatever order with the forms of      *)
(* other clients: a form that arrives whole is applied as it was sent.       *)
THEOREM PagesFormsApplied == PagesSpec => []WholeFormApplied
<1>1. PagesInit => WholeFormApplied
  BY DEF PagesInit, Init, WholeFormApplied
<1>2. PageTypes /\ WholeFormApplied /\ [PagesNext]_pageVars => WholeFormApplied'
  <2> SUFFICES ASSUME PageTypes, WholeFormApplied, [PagesNext]_pageVars PROVE WholeFormApplied'
    OBVIOUS
  <2>1. ASSUME NEW path, NEW fields \in SentForms, Handler(path, fields) PROVE WholeFormApplied'
    BY <2>1, HandlerApplies DEF PageTypes
  <2>2. ASSUME NEW id \in Ids, NEW v \in Texts, AddParam(id, v) PROVE WholeFormApplied'
    BY <2>2 DEF AddParam, WholeFormApplied
  <2>3. CASE NoForm
    BY <2>3 DEF NoForm, WholeFormApplied
  <2>4. CASE UNCHANGED vars
    BY <2>4 DEF vars, WholeFormApplied, AppliedAsAsked, Asked
  <2> QED BY <2>1, <2>2, <2>3, <2>4, DeviceStep
<1>3. PagesSpec => [](PageTypes /\ WholeFormApplied)
  BY <1>1, <1>2, PagesInitTypes, PagesTypeStep, PTL DEF PagesSpec
<1> QED BY <1>3, PTL

(* Under the pages, too, the Page is the map of Settings.                    *)
THEOREM PagesKeepMap == PagesSpec => MapBehaves
<1>1. PagesInit => Map!Init
  BY DEF PagesInit, Init, Map!Init, FieldValues, GetParam, Matches
<1>2. PageTypes /\ [PagesNext]_pageVars => [Map!Next]_FieldValues
  <2> SUFFICES ASSUME PageTypes, [PagesNext]_pageVars PROVE [Map!Next]_FieldValues
    OBVIOUS
  <2>1. ASSUME NEW path, NEW fields \in SentForms, Handler(path, fields) PROVE Map!Next
    <3>1. SameFields(params, params')
      BY <2>1, HandlerStep DEF PageTypes
    <3> QED BY <3>1, FormSaves DEF Map!Next, PageTypes
  <2>2. ASSUME NEW id \in Ids, NEW v \in Texts, AddParam(id, v) PROVE [Map!Next]_FieldValues
    BY <2>2, AddParamAdds DEF PageTypes
  <2>3. CASE NoForm \/ UNCHANGED vars
    BY <2>3 DEF NoForm, vars, FieldValues
  <2> QED BY <2>1, <2>2, <2>3, DeviceStep
<1>3. PagesSpec => []PageTypes
  BY PagesInitTypes, PagesTypeStep, PTL DEF PagesSpec
<1> QED BY <1>1, <1>2, <1>3, PTL DEF PagesSpec, MapBehaves, Map!Spec
=============================================================================
