----------------------------- MODULE FormProofs ------------------------------
(***************************************************************************)
(* Proofs about FormPost, for any texts, any fields and buffers of any size: *)
(* what it keeps has the sizes the code gives it, the waiting task is woken  *)
(* only with an SSID, the Page behaves as Settings says, and a form that     *)
(* arrives whole is applied as the user sent it.                             *)
(*                                                                          *)
(* The loops over a text are recursive functions.  Loops is the set of the   *)
(* functions that such a definition chooses from: it has a member when every *)
(* pass leaves the loop's state in X (LoopExists), and then every pass of it *)
(* is in X (LoopStays).                                                      *)
(***************************************************************************)
EXTENDS FormPost, SequenceTheorems, FiniteSetTheorems, NaturalsInduction,
        WellFoundedInduction, TLAPS

-----------------------------------------------------------------------------
(* Induction, from the well-foundedness of < on Nat *)

(* A set of naturals that is not empty has a least element, which Min finds. *)
LEMMA Smallest ==
    ASSUME NEW T \in SUBSET Nat, T # {}
    PROVE  /\ Min(T) \in T
           /\ \A y \in T : Min(T) <= y
<1>1. IsWellFoundedOn(OpToRel(<,Nat), Nat)
  BY NatLessThanWellFounded
<1>2. PICK x \in T : \A y \in T : ~ (<<y, x>> \in OpToRel(<,Nat))
  BY <1>1, WFMin
<1>3. \A y \in T : ~(y < x)
  BY <1>2 DEF OpToRel
<1>4. \A y \in T : x <= y
  BY <1>3
<1> QED BY <1>4 DEF Min

(* A set that has 0 and every successor of its numbers has all of Nat.       *)
LEMMA SetInduction ==
    ASSUME NEW S, 0 \in S, \A n \in Nat : n \in S => n + 1 \in S
    PROVE  Nat \subseteq S
<1>1. SUFFICES ASSUME Nat \ S # {} PROVE FALSE
  OBVIOUS
<1>2. PICK x \in Nat \ S : \A y \in Nat \ S : x <= y
  BY <1>1, Smallest
<1>3. x # 0 /\ x - 1 \in Nat /\ x - 1 < x /\ x = (x - 1) + 1
  BY <1>2
<1>4. x - 1 \in S
  BY <1>2, <1>3
<1> QED BY <1>3, <1>4, <1>2

-----------------------------------------------------------------------------
(* Loops *)

Loops(X, n, start, step) ==
    {at \in [0..n -> X] : at[0] = start /\ \A i \in 1..n : at[i] = step[i][at[i - 1]]}

(* A loop of n passes that stay in X has a function of its passes.           *)
LEMMA LoopExists ==
    ASSUME NEW X, NEW n \in Nat, NEW start \in X, NEW step \in [1..n -> [X -> X]]
    PROVE  Loops(X, n, start, step) # {}
<1> DEFINE Runs(m) == {at \in [0..m -> X] : at[0] = start
                                            /\ \A i \in 1..m : at[i] = step[i][at[i - 1]]}
           S == {m \in Nat : m <= n => Runs(m) # {}}
<1>1. 0 \in S
  <2>1. [i \in 0..0 |-> start] \in Runs(0)
    OBVIOUS
  <2> QED BY <2>1
<1>2. ASSUME NEW m \in Nat, m \in S, m + 1 <= n PROVE m + 1 \in S
  <2>1. PICK at \in Runs(m) : TRUE
    BY <1>2
  <2> DEFINE new == [i \in 0..(m + 1) |-> IF i = m + 1 THEN step[m + 1][at[m]] ELSE at[i]]
  <2>2. at[m] \in X /\ m + 1 \in 1..n
    BY <1>2
  <2>3. step[m + 1][at[m]] \in X
    BY <2>2
  <2>4. new \in [0..(m + 1) -> X]
    BY <2>3
  <2>5. new[0] = start
    BY <2>1
  <2>6. ASSUME NEW i \in 1..(m + 1) PROVE new[i] = step[i][new[i - 1]]
    <3>1. i - 1 \in 0..(m + 1) /\ i - 1 # m + 1 /\ new[i - 1] = at[i - 1]
      BY <1>2
    <3>2. CASE i = m + 1
      BY <3>1, <3>2
    <3>3. CASE i # m + 1
      BY <2>1, <3>1, <3>3
    <3> QED BY <3>2, <3>3
  <2>7. new \in Runs(m + 1)
    <3> HIDE DEF new
    <3> QED BY <2>4, <2>5, <2>6
  <2> HIDE DEF new, Runs
  <2> QED BY <2>7
<1>3. n \in S
  <2>1. \A m \in Nat : m \in S => m + 1 \in S
    <3> SUFFICES ASSUME NEW m \in Nat, m \in S PROVE m + 1 \in S
      OBVIOUS
    <3>1. CASE m + 1 <= n
      BY <1>2, <3>1
    <3>2. CASE ~(m + 1 <= n)
      <4> HIDE DEF Runs
      <4> QED BY <3>2
    <3> QED BY <3>1, <3>2
  <2> HIDE DEF S
  <2> QED BY <1>1, <2>1, SetInduction
<1> QED BY <1>3 DEF Loops

(* What holds before the first pass and survives each holds after each.      *)
LEMMA LoopStays ==
    ASSUME NEW X, NEW n \in Nat, NEW at, at[0] \in X,
           \A i \in 1..n : at[i - 1] \in X => at[i] \in X
    PROVE  \A i \in 0..n : at[i] \in X
<1> DEFINE S == {m \in Nat : m <= n => at[m] \in X}
<1>1. 0 \in S OBVIOUS
<1>2. \A m \in Nat : m \in S => m + 1 \in S
  <2> SUFFICES ASSUME NEW m \in Nat, m <= n => at[m] \in X, m + 1 <= n PROVE at[m + 1] \in X
    OBVIOUS
  <2>1. m + 1 \in 1..n /\ (m + 1) - 1 = m
    OBVIOUS
  <2> QED BY <2>1
<1>3. Nat \subseteq S
  <2> HIDE DEF S
  <2> QED BY <1>1, <1>2, SetInduction
<1> QED BY <1>3

-----------------------------------------------------------------------------
(* Texts *)

(* A function on 1..m is a sequence of m elements.                           *)
LEMMA IsSeq ==
    ASSUME NEW S, NEW m \in Nat, NEW t \in [1..m -> S]
    PROVE  t \in Seq(S) /\ Len(t) = m
OBVIOUS

(* A text of at most n characters is one of BoundedSeq.                      *)
LEMMA Bounded ==
    ASSUME NEW S, NEW n \in Nat, NEW t
    PROVE  t \in BoundedSeq(S, n) <=> t \in Seq(S) /\ Len(t) <= n
<1>1. ASSUME t \in Seq(S), Len(t) <= n PROVE t \in BoundedSeq(S, n)
  <2>1. Len(t) \in 0..n /\ t \in [1..Len(t) -> S]
    BY <1>1, LenProperties
  <2> QED BY <2>1 DEF BoundedSeq, SeqOf
<1>2. ASSUME t \in BoundedSeq(S, n) PROVE t \in Seq(S) /\ Len(t) <= n
  <2>1. PICK m \in 0..n : t \in [1..m -> S]
    BY <1>2 DEF BoundedSeq, SeqOf
  <2>2. m \in Nat /\ t \in Seq(S) /\ Len(t) = m
    BY <2>1
  <2> QED BY <2>1, <2>2
<1> QED BY <1>1, <1>2

(* Cut keeps at most n characters, and one at least of a text that has any.  *)
LEMMA CutBounds ==
    ASSUME NEW S, NEW n \in Nat, NEW t \in Seq(S)
    PROVE  /\ Cut(t, n) \in BoundedSeq(S, n)
           /\ t # <<>> /\ n > 0 => Cut(t, n) # <<>>
<1> DEFINE k == IF n < Len(t) THEN n ELSE Len(t)
<1>1. Len(t) \in Nat /\ k \in Nat /\ k <= n /\ k <= Len(t)
  BY LenProperties
<1>2. \A i \in 1..k : t[i] \in S
  BY <1>1, ElementOfSeq
<1>3. SubSeq(t, 1, k) \in Seq(S) /\ Len(SubSeq(t, 1, k)) = IF 1 <= k THEN k - 1 + 1 ELSE 0
  <2> HIDE DEF k
  <2> QED BY <1>1, <1>2, SubSeqProperties
<1>4. Cut(t, n) = SubSeq(t, 1, k)
  BY DEF Cut
<1>5. t # <<>> /\ n > 0 => k > 0
  BY <1>1, EmptySeq
<1>6. Len(<<>>) = 0
  OBVIOUS
<1> HIDE DEF k
<1>7. Len(Cut(t, n)) <= n /\ Cut(t, n) \in Seq(S)
  BY <1>1, <1>3, <1>4
<1>8. Cut(t, n) \in BoundedSeq(S, n)
  BY <1>7, Bounded
<1>9. k > 0 => Len(Cut(t, n)) > 0
  BY <1>1, <1>3, <1>4
<1>10. k > 0 => Cut(t, n) # <<>>
  BY <1>1, <1>6, <1>9
<1> QED BY <1>5, <1>8, <1>10

(* A token is a piece of its text.                                           *)
LEMMA TokenType ==
    ASSUME NEW t \in Seq(Chars), NEW delim, NEW i \in 1..Len(t)
    PROVE  Token(t, delim, i) \in Seq(Chars)
<1> DEFINE ends == {j \in i..Len(t) : j = Len(t) \/ t[j + 1] = delim}
<1>1. Len(t) \in ends /\ ends \in SUBSET Nat /\ ends # {}
  OBVIOUS
<1>2. Min(ends) \in i..Len(t)
  <2>1. Min(ends) \in ends
    <3> HIDE DEF ends
    <3> QED BY <1>1, Smallest
  <2> QED BY <2>1
<1>3. Token(t, delim, i) = SubSeq(t, i, Min(ends))
  BY DEF Token
<1> HIDE DEF ends
<1> QED BY <1>2, <1>3, SubSeqProperties
-----------------------------------------------------------------------------
(* What the browser sends *)

(* What a character is replaced by, and the passes of Replace.               *)
One(table, c) == IF c \in DOMAIN table THEN table[c] ELSE <<c>>

ReplaceRuns(S, table, text) ==
    {d \in [0..Len(text) -> Seq(S)] :
       d[0] = <<>> /\ \A i \in 1..Len(text) : d[i] = d[i - 1] \o One(table, text[i])}

(* Replace returns the last of its passes.                                   *)
LEMMA ReplaceRun ==
    ASSUME NEW S, NEW table, NEW text, Len(text) \in Nat,
           \A i \in 1..Len(text) : One(table, text[i]) \in Seq(S)
    PROVE  \E d \in ReplaceRuns(S, table, text) : Replace(table, text) = d[Len(text)]
<1> DEFINE X == Seq(S)
           n == Len(text)
           start == <<>>
           Pass(x, i) == x \o One(table, text[i])
           step == [i \in 1..n |-> [x \in X |-> Pass(x, i)]]
           IsRun(f) == f = [i \in 0..n |-> IF i = 0 THEN start ELSE Pass(f[i - 1], i)]
           done == CHOOSE f : IsRun(f)
<1>1. n \in Nat /\ start \in X
  OBVIOUS
<1>2. \A i \in 1..n, x \in X : Pass(x, i) \in X
  OBVIOUS
<1>3. Replace(table, text) = done[n]
  BY DEF Replace, One
<1> HIDE DEF X, n, start, Pass
<1>4. PICK at \in Loops(X, n, start, step) : TRUE
  <2>1. step \in [1..n -> [X -> X]]
    BY <1>2
  <2> HIDE DEF step
  <2>2. Loops(X, n, start, step) # {}
    BY <1>1, <2>1, LoopExists
  <2> QED BY <2>2
<1>5. at \in [0..n -> X] /\ at[0] = start /\ \A i \in 1..n : at[i] = step[i][at[i - 1]]
  <2> HIDE DEF step
  <2> QED BY <1>4 DEF Loops
<1>6. ASSUME NEW i \in 1..n PROVE at[i] = Pass(at[i - 1], i)
  <2>1. i - 1 \in 0..n /\ at[i - 1] \in X
    BY <1>1, <1>5
  <2> QED BY <1>5, <2>1
<1>7. IsRun(at)
  BY <1>1, <1>5, <1>6
<1>8. IsRun(done)
  BY <1>7
<1> HIDE DEF done, step
<1>9. done[0] = start /\ \A i \in 1..n : done[i] = Pass(done[i - 1], i)
  BY <1>1, <1>8
<1>10. \A i \in 0..n : done[i] \in X
  BY <1>1, <1>2, <1>9, LoopStays
<1>11. done \in [0..n -> X]
  BY <1>8, <1>10
<1>12. done \in ReplaceRuns(S, table, text)
  BY <1>9, <1>11 DEF ReplaceRuns, X, n, start, Pass
<1> QED BY <1>3, <1>12 DEF n

(* Every escape begins with "%", has no delimiter in it, and is undone.      *)
LEMMA Escapes ==
    /\ {"&", "=", "%", "+", " "} \subseteq DOMAIN Code
    /\ \A c \in DOMAIN Code :
         /\ Len(Code[c]) = 3 /\ Code[c][1] = "%"
         /\ \A k \in 1..3 : Code[c][k] \notin {"&", "="}
         /\ Code[c] = <<"%", Code[c][2], Code[c][3]>>
    /\ \A c, d \in DOMAIN Code : Code[c] = Code[d] => c = d
<1> DEFINE dq == "\""
           sp == " "
           Is(c, h, g) == Code[c] = <<"%", h, g>> /\ Len(Code[c]) = 3
                            /\ Code[c][1] = "%" /\ Code[c][2] = h /\ Code[c][3] = g
<1> HIDE DEF dq, sp
<1>1. DOMAIN Code = {"&", "=", "%", "+", dq, "\\", sp, "<", ">", "/", "LF", "CR"}
  BY Zenon DEF Code, dq, sp
<1>2. ASSUME NEW c \in DOMAIN Code
      PROVE  \/ c = "&" /\ Is(c, "2", "6")
             \/ c = "=" /\ Is(c, "3", "D")
             \/ c = "%" /\ Is(c, "2", "5")
             \/ c = "+" /\ Is(c, "2", "B")
             \/ c = dq /\ Is(c, "2", "2")
             \/ c = "\\" /\ Is(c, "5", "C")
             \/ c = sp /\ Is(c, "2", "0")
             \/ c = "<" /\ Is(c, "3", "C")
             \/ c = ">" /\ Is(c, "3", "E")
             \/ c = "/" /\ Is(c, "2", "F")
             \/ c = "LF" /\ Is(c, "0", "A")
             \/ c = "CR" /\ Is(c, "0", "D")
  <2>1. CASE c = "&"
    <3>1. Code[c] = <<"%", "2", "6">>
      BY <1>1, <2>1, ZenonT(60) DEF Code, dq, sp
    <3> QED BY <2>1, <3>1
  <2>2. CASE c = "="
    <3>1. Code[c] = <<"%", "3", "D">>
      BY <1>1, <2>2, ZenonT(60) DEF Code, dq, sp
    <3> QED BY <2>2, <3>1
  <2>3. CASE c = "%"
    <3>1. Code[c] = <<"%", "2", "5">>
      BY <1>1, <2>3, ZenonT(60) DEF Code, dq, sp
    <3> QED BY <2>3, <3>1
  <2>4. CASE c = "+"
    <3>1. Code[c] = <<"%", "2", "B">>
      BY <1>1, <2>4, ZenonT(60) DEF Code, dq, sp
    <3> QED BY <2>4, <3>1
  <2>5. CASE c = dq
    <3>1. Code[c] = <<"%", "2", "2">>
      BY <1>1, <2>5, ZenonT(60) DEF Code, dq, sp
    <3> QED BY <2>5, <3>1
  <2>6. CASE c = "\\"
    <3>1. Code[c] = <<"%", "5", "C">>
      BY <1>1, <2>6, ZenonT(60) DEF Code, dq, sp
    <3> QED BY <2>6, <3>1
  <2>7. CASE c = sp
    <3>1. Code[c] = <<"%", "2", "0">>
      BY <1>1, <2>7, ZenonT(60) DEF Code, dq, sp
    <3> QED BY <2>7, <3>1
  <2>8. CASE c = "<"
    <3>1. Code[c] = <<"%", "3", "C">>
      BY <1>1, <2>8, ZenonT(60) DEF Code, dq, sp
    <3> QED BY <2>8, <3>1
  <2>9. CASE c = ">"
    <3>1. Code[c] = <<"%", "3", "E">>
      BY <1>1, <2>9, ZenonT(60) DEF Code, dq, sp
    <3> QED BY <2>9, <3>1
  <2>10. CASE c = "/"
    <3>1. Code[c] = <<"%", "2", "F">>
      BY <1>1, <2>10, ZenonT(60) DEF Code, dq, sp
    <3> QED BY <2>10, <3>1
  <2>11. CASE c = "LF"
    <3>1. Code[c] = <<"%", "0", "A">>
      BY <1>1, <2>11, ZenonT(60) DEF Code, dq, sp
    <3> QED BY <2>11, <3>1
  <2>12. CASE c = "CR"
    <3>1. Code[c] = <<"%", "0", "D">>
      BY <1>1, <2>12, ZenonT(60) DEF Code, dq, sp
    <3> QED BY <2>12, <3>1
  <2> HIDE DEF Is
  <2> QED BY <1>1, <2>1, <2>2, <2>3, <2>4, <2>5, <2>6, <2>7, <2>8, <2>9, <2>10, <2>11, <2>12
<1>3. ASSUME NEW c \in DOMAIN Code
      PROVE  /\ Len(Code[c]) = 3 /\ Code[c][1] = "%"
             /\ \A k \in 1..3 : Code[c][k] \notin {"&", "="}
             /\ Code[c] = <<"%", Code[c][2], Code[c][3]>>
  <2>1. \A k \in 1..3 : k = 1 \/ k = 2 \/ k = 3
    OBVIOUS
  <2>2. /\ Len(Code[c]) = 3 /\ Code[c][1] = "%" /\ Code[c] = <<"%", Code[c][2], Code[c][3]>>
        /\ Code[c][2] \notin {"&", "="} /\ Code[c][3] \notin {"&", "="}
    BY <1>2
  <2> QED BY <2>1, <2>2
<1>5. ASSUME NEW c \in DOMAIN Code, NEW d \in DOMAIN Code, Code[c] = Code[d]
      PROVE  c = d
  <2>1. Code[c][2] = Code[d][2] /\ Code[c][3] = Code[d][3]
    BY <1>5
  <2> QED BY <1>2, <2>1
<1>6. " " \in DOMAIN Code
  BY <1>1 DEF sp
<1> QED BY <1>1, <1>3, <1>5, <1>6

(* The characters the assumption on Chars names.                             *)
LEMMA CharsHave ==
    /\ "&" \in Chars /\ "=" \in Chars /\ "?" \in Chars /\ " " \in Chars
    /\ DOMAIN Code \subseteq Chars
    /\ Keys \subseteq Seq(Chars) /\ Texts \subseteq Seq(Chars) /\ NvsTexts \subseteq Seq(Chars)
    /\ \A c \in DOMAIN Code : Code[c] \in Seq(Chars)
<1>1. Range(Code) \subseteq Seq(Chars)
  BY CharsAssumption
<1>2. \A c \in DOMAIN Code : Code[c] \in Seq(Chars)
  BY <1>1 DEF Range
<1>3. DOMAIN Code \subseteq Chars /\ "?" \in Chars
  BY CharsAssumption
<1>4. "&" \in Chars /\ "=" \in Chars /\ " " \in Chars
  BY <1>3, Escapes
<1> QED BY <1>2, <1>3, <1>4, CharsAssumption

(* An escaped text has no delimiters.                                        *)
Undelimited == Chars \ {"&", "="}

LEMMA EscapedOne == ASSUME NEW c \in Chars PROVE One(Code, c) \in Seq(Undelimited)
<1>1. CASE c \in DOMAIN Code
  <2>1. Code[c] \in Seq(Chars)
    BY <1>1, CharsHave
  <2>2. Len(Code[c]) = 3 /\ \A k \in 1..3 : Code[c][k] \notin {"&", "="}
    BY <1>1, Escapes
  <2>3. \A k \in 1..3 : Code[c][k] \in Undelimited
    BY <2>1, <2>2, ElementOfSeq DEF Undelimited
  <2>4. Code[c] \in [1..3 -> Undelimited]
    BY <2>1, <2>2, <2>3, LenProperties
  <2>5. Code[c] \in Seq(Undelimited)
    <3>1. 3 \in Nat
      OBVIOUS
    <3> QED BY <2>4, <3>1, IsSeq
  <2> QED BY <1>1, <2>5 DEF One
<1>2. CASE c \notin DOMAIN Code
  <2>1. c \in Undelimited
    BY <1>2, Escapes DEF Undelimited
  <2> QED BY <1>2, <2>1 DEF One
<1> QED BY <1>1, <1>2

LEMMA EscapedRun ==
    ASSUME NEW text \in Seq(Chars)
    PROVE  \E d \in ReplaceRuns(Undelimited, Code, text) : Escaped(text) = d[Len(text)]
<1>1. \A i \in 1..Len(text) : One(Code, text[i]) \in Seq(Undelimited)
  BY ElementOfSeq, EscapedOne
<1>2. Len(text) \in Nat
  BY LenProperties
<1> QED BY <1>1, <1>2, ReplaceRun DEF Escaped

LEMMA EscapedPlain == ASSUME NEW text \in Seq(Chars) PROVE Escaped(text) \in Seq(Undelimited)
<1>1. PICK d \in ReplaceRuns(Undelimited, Code, text) : Escaped(text) = d[Len(text)]
  BY EscapedRun
<1>2. Len(text) \in 0..Len(text)
  BY LenProperties
<1> QED BY <1>1, <1>2 DEF ReplaceRuns

(* A field of a form is a text of it, and so is the whole form.              *)
LEMMA PairType ==
    ASSUME NEW f \in [key : Keys, val : Seq(Chars)]
    PROVE  /\ Escaped(f.key) \in Seq(Undelimited) /\ Escaped(f.val) \in Seq(Undelimited)
           /\ Escaped(f.key) \in Seq(Chars) /\ Escaped(f.val) \in Seq(Chars)
           /\ Pair(f) \in Seq(Chars)
<1>1. f.key \in Seq(Chars) /\ f.val \in Seq(Chars) /\ "=" \in Chars
  BY CharsHave
<1>2. Escaped(f.key) \in Seq(Undelimited) /\ Escaped(f.val) \in Seq(Undelimited)
  BY <1>1, EscapedPlain
<1>3. Escaped(f.key) \in Seq(Chars) /\ Escaped(f.val) \in Seq(Chars)
  BY <1>2, SeqMonotonic DEF Undelimited
<1>4. Pair(f) \in Seq(Chars)
  BY <1>1, <1>3 DEF Pair
<1> QED BY <1>2, <1>3, <1>4

EncodeRuns(fields) ==
    {d \in [0..Len(fields) -> Seq(Chars)] :
       /\ d[0] = <<>>
       /\ \A i \in 1..Len(fields) :
            d[i] = d[i - 1] \o (IF i = 1 THEN <<>> ELSE <<"&">>) \o Pair(fields[i])}

(* The body is the last pass over the fields.                                *)
LEMMA EncodedRun ==
    ASSUME NEW fields \in SentForms
    PROVE  \E d \in EncodeRuns(fields) : Encoded(fields) = d[Len(fields)]
<1> DEFINE X == Seq(Chars)
           n == Len(fields)
           start == <<>>
           Pass(x, i) == x \o (IF i = 1 THEN <<>> ELSE <<"&">>) \o Pair(fields[i])
           step == [i \in 1..n |-> [x \in X |-> Pass(x, i)]]
           IsRun(f) == f = [i \in 0..n |-> IF i = 0 THEN start ELSE Pass(f[i - 1], i)]
           done == CHOOSE f : IsRun(f)
<1>1. n \in Nat /\ start \in X
  BY LenProperties DEF SentForms
<1>2. \A i \in 1..n, x \in X : Pass(x, i) \in X
  <2> TAKE i \in 1..n, x \in X
  <2>1. Pair(fields[i]) \in X
    <3>1. fields[i] \in [key : Keys, val : Seq(Chars)]
      BY ElementOfSeq DEF SentForms
    <3> QED BY <3>1, PairType
  <2>2. (IF i = 1 THEN <<>> ELSE <<"&">>) \in X
    <3>1. <<"&">> \in Seq(Chars)
      <4>1. "&" \in Chars
        BY CharsHave
      <4> QED BY <4>1
    <3>2. <<>> \in Seq(Chars)
      OBVIOUS
    <3> QED BY <3>1, <3>2
  <2> QED BY <2>1, <2>2
<1>3. Encoded(fields) = done[n]
  BY DEF Encoded
<1> HIDE DEF X, n, start, Pass
<1>4. PICK at \in Loops(X, n, start, step) : TRUE
  <2>1. step \in [1..n -> [X -> X]]
    BY <1>2
  <2> HIDE DEF step
  <2> QED BY <1>1, <2>1, LoopExists
<1>5. at \in [0..n -> X] /\ at[0] = start /\ \A i \in 1..n : at[i] = step[i][at[i - 1]]
  <2> HIDE DEF step
  <2> QED BY <1>4 DEF Loops
<1>6. ASSUME NEW i \in 1..n PROVE at[i] = Pass(at[i - 1], i)
  <2>1. i - 1 \in 0..n /\ at[i - 1] \in X
    BY <1>1, <1>5
  <2> QED BY <1>5, <2>1
<1>7. IsRun(at)
  BY <1>1, <1>5, <1>6
<1>8. IsRun(done)
  BY <1>7
<1> HIDE DEF done, step
<1>9. done[0] = start /\ \A i \in 1..n : done[i] = Pass(done[i - 1], i)
  BY <1>1, <1>8
<1>10. \A i \in 0..n : done[i] \in X
  BY <1>1, <1>2, <1>9, LoopStays
<1>11. done \in [0..n -> X]
  BY <1>8, <1>10
<1>12. done \in EncodeRuns(fields)
  BY <1>9, <1>11 DEF EncodeRuns, X, n, start, Pass
<1> QED BY <1>3, <1>12 DEF n

LEMMA EncodedType == ASSUME NEW fields \in SentForms PROVE Encoded(fields) \in Seq(Chars)
<1>1. PICK d \in EncodeRuns(fields) : Encoded(fields) = d[Len(fields)]
  BY EncodedRun
<1>2. Len(fields) \in 0..Len(fields)
  BY LenProperties DEF SentForms
<1> QED BY <1>1, <1>2 DEF EncodeRuns

-----------------------------------------------------------------------------
(* What the handler makes of it *)

Decodings == [at : Nat \ {0}, out : Seq(Chars)]

(* One pass of UrlDecode moves on and puts at most one character behind.     *)
LEMMA DecodeOneType ==
    ASSUME NEW src \in Seq(Chars), NEW d \in Decodings
    PROVE  DecodeOne(src, d) \in Decodings
<1>1. CASE d.at > Len(src)
  BY <1>1 DEF DecodeOne
<1>2. CASE d.at <= Len(src) /\ IsEscape(src, d.at)
  <2>1. FromHex(src[d.at + 1], src[d.at + 2]) \in Chars
    BY CharsHave DEF FromHex, Range
  <2>2. d.at + 3 \in Nat \ {0}
    BY DEF Decodings
  <2>3. Append(d.out, FromHex(src[d.at + 1], src[d.at + 2])) \in Seq(Chars)
    BY <2>1 DEF Decodings
  <2> QED BY <1>2, <2>2, <2>3 DEF DecodeOne, Decodings
<1>3. CASE d.at <= Len(src) /\ ~IsEscape(src, d.at)
  <2> DEFINE c == IF src[d.at] = "+" THEN " " ELSE src[d.at]
  <2>1. c \in Chars
    <3>1. d.at \in 1..Len(src)
      BY <1>3 DEF Decodings
    <3>2. src[d.at] \in Chars
      BY <3>1, ElementOfSeq
    <3> QED BY <3>2, CharsHave
  <2>2. d.at + 1 \in Nat \ {0} /\ d.out \in Seq(Chars)
    BY DEF Decodings
  <2>3. DecodeOne(src, d) = [at |-> d.at + 1, out |-> Append(d.out, c)]
    <3>1. d.at \in Nat /\ Len(src) \in Nat /\ ~(d.at > Len(src))
      BY <1>3 DEF Decodings
    <3> QED BY <1>3, <3>1 DEF DecodeOne
  <2> HIDE DEF c
  <2>4. Append(d.out, c) \in Seq(Chars)
    BY <2>1, <2>2
  <2> QED BY <2>2, <2>3, <2>4 DEF Decodings
<1>4. d.at > Len(src) \/ d.at <= Len(src)
  BY DEF Decodings
<1> QED BY <1>1, <1>2, <1>3, <1>4

DecodeRuns(src, n) ==
    {d \in [0..n -> Decodings] :
       d[0] = [at |-> 1, out |-> <<>>] /\ \A i \in 1..n : d[i] = DecodeOne(src, d[i - 1])}

(* UrlDecode returns what is behind its last pass.                           *)
LEMMA UrlDecodeRun ==
    ASSUME NEW src \in Seq(Chars), NEW size \in Nat \ {0}
    PROVE  \E d \in DecodeRuns(src, size - 1) : UrlDecode(src, size) = d[size - 1].out
<1> DEFINE X == Decodings
           n == size - 1
           start == [at |-> 1, out |-> <<>>]
           Pass(x, i) == DecodeOne(src, x)
           step == [i \in 1..n |-> [x \in X |-> Pass(x, i)]]
           IsRun(f) == f = [i \in 0..n |-> IF i = 0 THEN start ELSE Pass(f[i - 1], i)]
           done == CHOOSE f : IsRun(f)
<1>1. n \in Nat /\ start \in X
  BY DEF Decodings
<1>2. \A i \in 1..n, x \in X : Pass(x, i) \in X
  BY DecodeOneType
<1>3. UrlDecode(src, size) = done[n].out
  BY DEF UrlDecode
<1> HIDE DEF X, n, start, Pass
<1>4. PICK at \in Loops(X, n, start, step) : TRUE
  <2>1. step \in [1..n -> [X -> X]]
    BY <1>2
  <2> HIDE DEF step
  <2> QED BY <1>1, <2>1, LoopExists
<1>5. at \in [0..n -> X] /\ at[0] = start /\ \A i \in 1..n : at[i] = step[i][at[i - 1]]
  <2> HIDE DEF step
  <2> QED BY <1>4 DEF Loops
<1>6. ASSUME NEW i \in 1..n PROVE at[i] = Pass(at[i - 1], i)
  <2>1. i - 1 \in 0..n /\ at[i - 1] \in X
    BY <1>1, <1>5
  <2> QED BY <1>5, <2>1
<1>7. IsRun(at)
  BY <1>1, <1>5, <1>6
<1>8. IsRun(done)
  BY <1>7
<1> HIDE DEF done, step
<1>9. done[0] = start /\ \A i \in 1..n : done[i] = Pass(done[i - 1], i)
  BY <1>1, <1>8
<1>10. \A i \in 0..n : done[i] \in X
  BY <1>1, <1>2, <1>9, LoopStays
<1>11. done \in [0..n -> X]
  BY <1>8, <1>10
<1>12. done \in DecodeRuns(src, n)
  BY <1>9, <1>11 DEF DecodeRuns, X, start, Pass
<1> QED BY <1>3, <1>12 DEF n

LEMMA UrlDecodeType ==
    ASSUME NEW src \in Seq(Chars), NEW size \in Nat \ {0}
    PROVE  UrlDecode(src, size) \in Seq(Chars)
<1>1. PICK d \in DecodeRuns(src, size - 1) : UrlDecode(src, size) = d[size - 1].out
  BY UrlDecodeRun
<1>2. size - 1 \in 0..(size - 1)
  OBVIOUS
<1> QED BY <1>1, <1>2 DEF DecodeRuns, Decodings

(* Saving a value changes nothing of a Page but the values of its fields.    *)
LEMMA SetParamValueKeeps ==
    ASSUME NEW page \in ParamLists, NEW id, NEW v \in Seq(Chars)
    PROVE  LET new == SetParamValue(page, id, v)
           IN  /\ new \in ParamLists /\ Len(new) = Len(page)
               /\ \A i \in 1..Len(page) : new[i].id = page[i].id
<1>1. CASE Matches(page, id) = {}
  BY <1>1 DEF SetParamValue
<1>2. CASE Matches(page, id) # {}
  <2> DEFINE m == Min(Matches(page, id))
             text == Cut(v, FieldLen - 1)
  <2>1. Len(page) \in Nat /\ page \in [1..Len(page) -> [id : StoredTexts, val : StoredTexts]]
    <3> HIDE DEF m, text
    <3> QED BY LenProperties DEF ParamLists
  <2>2. m \in 1..Len(page)
    <3>1. Matches(page, id) \in SUBSET Nat /\ Matches(page, id) \subseteq 1..Len(page)
      BY <2>1 DEF Matches
    <3> QED BY <1>2, <3>1, Smallest
  <2>3. text \in StoredTexts
    BY FormAssumption, CutBounds DEF StoredTexts
  <2>4. SetParamValue(page, id, v) = [page EXCEPT ![m].val = text]
    BY <1>2 DEF SetParamValue
  <2> HIDE DEF m, text
  <2>5. [page EXCEPT ![m].val = text] \in [1..Len(page) -> [id : StoredTexts, val : StoredTexts]]
    BY <2>1, <2>2, <2>3
  <2>6. \A i \in 1..Len(page) : [page EXCEPT ![m].val = text][i].id = page[i].id
    BY <2>1, <2>2
  <2>7. Len([page EXCEPT ![m].val = text]) = Len(page)
    BY <2>1, <2>5
  <2> QED BY <2>1, <2>4, <2>5, <2>6, <2>7 DEF ParamLists
<1> QED BY <1>1, <1>2

(* What a form leaves of a Page: the fields it had, with other values.       *)
SameFields(page, new) ==
    /\ new \in ParamLists /\ Len(new) = Len(page)
    /\ \A i \in 1..Len(page) : new[i].id = page[i].id

(* What ParsePost has after any number of pairs.                             *)
Parsed ==
    {st \in [sta : StaConfigs, ssid_set : BOOLEAN, params : ParamLists] :
       /\ SameFields(params, st.params)
       /\ st.ssid_set => st.sta.ssid.text # <<>>}

(* strncpy leaves a text its destination holds, and one at least of a text   *)
(* that has any.                                                             *)
LEMMA StoredType ==
    ASSUME NEW size \in Nat, size >= 2, NEW v \in Seq(Chars),
           NEW f \in [text : BoundedSeq(Chars, size - 1), last : BoundedSeq(Chars, 1)]
    PROVE  /\ Stored(v, f, size) \in [text : BoundedSeq(Chars, size - 1), last : BoundedSeq(Chars, 1)]
           /\ v # <<>> => Stored(v, f, size).text # <<>>
<1>1. size - 1 \in Nat /\ size - 1 > 0
  OBVIOUS
<1>2. Cut(v, size - 1) \in BoundedSeq(Chars, size - 1) /\ (v # <<>> => Cut(v, size - 1) # <<>>)
  BY <1>1, CutBounds
<1>3. Stored(v, f, size) = [text |-> Cut(v, size - 1), last |-> f.last]
  BY DEF Stored
<1> QED BY <1>2, <1>3

(* Of a pair, strtok_r finds the key and the value, or nothing.              *)
LEMMA PairTokens ==
    ASSUME NEW pair \in Seq(Chars), NEW T, T \subseteq 1..Len(pair), T # {}
    PROVE  UrlDecode(Token(pair, "=", Min(T)), FieldLen) \in Seq(Chars)
<1>1. T \in SUBSET Nat
  BY LenProperties
<1>2. Min(T) \in 1..Len(pair)
  BY <1>1, Smallest
<1>3. Token(pair, "=", Min(T)) \in Seq(Chars)
  BY <1>2, TokenType
<1> QED BY <1>3, FormAssumption, UrlDecodeType

(* ... and so does saving one value more.                                    *)
LEMMA SameFieldsCompose ==
    ASSUME NEW page \in ParamLists, NEW new, SameFields(page, new),
           NEW id, NEW v \in Seq(Chars)
    PROVE  SameFields(page, SetParamValue(new, id, v))
<1>1. SameFields(new, SetParamValue(new, id, v))
  BY SetParamValueKeeps DEF SameFields
<1> QED BY <1>1 DEF SameFields

(* One pair: the SSID, the password or a field's value, and the SSID counts  *)
(* as set only if it is not empty.                                           *)
LEMMA ApplyPairType ==
    ASSUME params \in ParamLists, NEW st \in Parsed, NEW pair \in Seq(Chars)
    PROVE  ApplyPair(st, pair) \in Parsed
<1> DEFINE tokens == {i \in 1..Len(pair) : Begins(pair, "=", i)}
           behind == tokens \ {Min(tokens)}
           key == UrlDecode(Token(pair, "=", Min(tokens)), FieldLen)
           val == IF behind = {} THEN <<>> ELSE UrlDecode(Token(pair, "=", Min(behind)), FieldLen)
           next == IF tokens = {} THEN st
                   ELSE IF key = SsidKey
                        THEN [st EXCEPT !.sta.ssid = Stored(val, @, SsidLen), !.ssid_set = val # <<>>]
                   ELSE IF key = PasswordKey
                        THEN [st EXCEPT !.sta.password = Stored(val, @, PasswordLen)]
                   ELSE [st EXCEPT !.params = SetParamValue(@, key, val)]
<1>1. ApplyPair(st, pair) = next
  BY DEF ApplyPair
<1>2. val \in Seq(Chars)
  <2>1. behind \subseteq 1..Len(pair)
    OBVIOUS
  <2>2. CASE behind = {}
    BY <2>2
  <2>3. CASE behind # {}
    <3> HIDE DEF behind
    <3> QED BY <2>1, <2>3, PairTokens
  <2> QED BY <2>2, <2>3
<1> HIDE DEF tokens, key, val
<1>3. /\ st.sta \in StaConfigs /\ st.ssid_set \in BOOLEAN /\ SameFields(params, st.params)
      /\ st.ssid_set => st.sta.ssid.text # <<>>
      /\ st = [sta |-> st.sta, ssid_set |-> st.ssid_set, params |-> st.params]
  BY DEF Parsed
<1>4. CASE tokens # {} /\ key = SsidKey
  <2> DEFINE ssid == Stored(val, st.sta.ssid, SsidLen)
             new == [st.sta EXCEPT !.ssid = ssid]
             isSet == val # <<>>
  <2>1. /\ ssid \in [text : BoundedSeq(Chars, SsidLen - 1), last : BoundedSeq(Chars, 1)]
        /\ val # <<>> => ssid.text # <<>>
    BY <1>2, <1>3, FormAssumption, StoredType DEF StaConfigs
  <2>2. next = [sta |-> new, ssid_set |-> isSet, params |-> st.params]
    BY <1>3, <1>4
  <2> HIDE DEF ssid, next
  <2>3. new \in StaConfigs /\ new.ssid = ssid
    BY <1>3, <2>1 DEF StaConfigs
  <2>4. isSet \in BOOLEAN /\ (isSet => new.ssid.text # <<>>)
    BY <2>1, <2>3
  <2> HIDE DEF new, isSet
  <2> QED BY <1>1, <1>3, <2>2, <2>3, <2>4 DEF Parsed, SameFields
<1>5. CASE tokens # {} /\ key # SsidKey /\ key = PasswordKey
  <2> DEFINE password == Stored(val, st.sta.password, PasswordLen)
             new == [st.sta EXCEPT !.password = password]
  <2>1. password \in [text : BoundedSeq(Chars, PasswordLen - 1), last : BoundedSeq(Chars, 1)]
    BY <1>2, <1>3, FormAssumption, StoredType DEF StaConfigs
  <2>2. next = [sta |-> new, ssid_set |-> st.ssid_set, params |-> st.params]
    BY <1>3, <1>5
  <2> HIDE DEF password, next
  <2>3. new \in StaConfigs /\ new.ssid = st.sta.ssid
    BY <1>3, <2>1 DEF StaConfigs
  <2> HIDE DEF new
  <2> QED BY <1>1, <1>3, <2>2, <2>3 DEF Parsed, SameFields
<1>6. CASE tokens # {} /\ key # SsidKey /\ key # PasswordKey
  <2> DEFINE new == SetParamValue(st.params, key, val)
  <2>1. SameFields(params, new)
    BY <1>2, <1>3, SameFieldsCompose
  <2>2. next = [sta |-> st.sta, ssid_set |-> st.ssid_set, params |-> new]
    BY <1>3, <1>6
  <2> HIDE DEF new, next
  <2> QED BY <1>1, <1>3, <2>1, <2>2 DEF Parsed, SameFields
<1>7. CASE tokens = {}
  BY <1>1, <1>7
<1> QED BY <1>4, <1>5, <1>6, <1>7

ParseStart == [sta |-> sta, ssid_set |-> FALSE, params |-> params]

ParseRuns(body) ==
    {d \in [0..Len(body) -> Parsed] :
       /\ d[0] = ParseStart
       /\ \A i \in 1..Len(body) :
            d[i] = IF Begins(body, "&", i) THEN ApplyPair(d[i - 1], Token(body, "&", i)) ELSE d[i - 1]}

(* ParsePost returns the last of its passes over the body.                   *)
LEMMA ParsePostRun ==
    ASSUME params \in ParamLists, sta \in StaConfigs, NEW body \in Seq(Chars)
    PROVE  \E d \in ParseRuns(body) : ParsePost(body) = d[Len(body)]
<1> DEFINE X == Parsed
           n == Len(body)
           start == ParseStart
           Pass(x, i) == IF Begins(body, "&", i) THEN ApplyPair(x, Token(body, "&", i)) ELSE x
           step == [i \in 1..n |-> [x \in X |-> Pass(x, i)]]
           IsRun(f) == f = [i \in 0..n |->
                              CASE i = 0 -> start
                                [] i > 0 /\ Begins(body, "&", i) -> ApplyPair(f[i - 1], Token(body, "&", i))
                                [] OTHER -> f[i - 1]]
           done == CHOOSE f : IsRun(f)
<1>1. n \in Nat /\ start \in X
  BY DEF ParseStart, Parsed, SameFields
<1>2. \A i \in 1..n, x \in X : Pass(x, i) \in X
  BY TokenType, ApplyPairType
<1>3. ParsePost(body) = done[n]
  BY DEF ParsePost, ParseStart
<1> HIDE DEF X, n, start
<1>4. PICK at \in Loops(X, n, start, step) : TRUE
  <2>1. step \in [1..n -> [X -> X]]
    <3> HIDE DEF Pass
    <3> QED BY <1>2
  <2> HIDE DEF step
  <2> QED BY <1>1, <2>1, LoopExists
<1>5. at \in [0..n -> X] /\ at[0] = start /\ \A i \in 1..n : at[i] = step[i][at[i - 1]]
  <2> HIDE DEF step
  <2> QED BY <1>4 DEF Loops
<1>6. ASSUME NEW i \in 1..n PROVE at[i] = Pass(at[i - 1], i)
  <2> HIDE DEF Pass
  <2>1. i - 1 \in 0..n /\ at[i - 1] \in X
    BY <1>1, <1>5
  <2> QED BY <1>5, <2>1
<1>7. IsRun(at)
  BY <1>1, <1>5, <1>6
<1>8. IsRun(done)
  BY <1>7
<1> HIDE DEF done, step
<1>9. done[0] = start /\ \A i \in 1..n : done[i] = Pass(done[i - 1], i)
  BY <1>1, <1>8
<1> HIDE DEF Pass
<1>10. \A i \in 0..n : done[i] \in X
  BY <1>1, <1>2, <1>9, LoopStays
<1>11. done \in [0..n -> X]
  BY <1>8, <1>10
<1>12. done \in ParseRuns(body)
  BY <1>9, <1>11 DEF ParseRuns, X, n, start, Pass
<1> QED BY <1>3, <1>12 DEF n

LEMMA ParsePostType ==
    ASSUME params \in ParamLists, sta \in StaConfigs, NEW body \in Seq(Chars)
    PROVE  ParsePost(body) \in Parsed
<1>1. PICK d \in ParseRuns(body) : ParsePost(body) = d[Len(body)]
  BY ParsePostRun
<1>2. Len(body) \in 0..Len(body)
  BY LenProperties
<1> QED BY <1>1, <1>2 DEF ParseRuns

-----------------------------------------------------------------------------
(* The actions *)

(* What is loaded from NVS fits its field.                                   *)
LEMMA StaFieldType ==
    ASSUME NEW t \in NvsTexts, NEW size \in Nat, size >= 2
    PROVE  StaField(t, size) \in [text : BoundedSeq(Chars, size - 1), last : BoundedSeq(Chars, 1)]
<1>1. t \in Seq(Chars) /\ size - 1 \in Nat
  <2>1. NvsTexts \subseteq Seq(Chars)
    BY CharsHave
  <2> QED BY <2>1
<1>2. Cut(t, size - 1) \in BoundedSeq(Chars, size - 1)
  BY <1>1, CutBounds
<1> DEFINE last == IF Len(t) < size THEN <<>> ELSE <<t[size]>>
<1>3. last \in BoundedSeq(Chars, 1)
  <2>1. CASE Len(t) < size
    <3>1. <<>> \in Seq(Chars) /\ Len(<<>>) <= 1
      OBVIOUS
    <3> QED BY <2>1, <3>1, Bounded
  <2>2. CASE ~(Len(t) < size)
    <3>1. size \in 1..Len(t)
      BY <1>1, <2>2, LenProperties
    <3>2. t[size] \in Chars
      BY <1>1, <3>1, ElementOfSeq
    <3>3. <<t[size]>> \in Seq(Chars) /\ Len(<<t[size]>>) <= 1
      BY <3>2
    <3> QED BY <2>2, <3>3, Bounded
  <2> QED BY <2>1, <2>2
<1>4. StaField(t, size) = [text |-> Cut(t, size - 1), last |-> last]
  BY DEF StaField
<1> HIDE DEF last
<1> QED BY <1>2, <1>3, <1>4

LEMMA InitTypes == Init => TypeOK /\ NotifiedWithSsid
<1> SUFFICES ASSUME Init PROVE TypeOK /\ NotifiedWithSsid
  OBVIOUS
<1>1. sta \in StaConfigs
  <2>1. /\ SsidLen \in Nat /\ SsidLen >= 2 /\ PasswordLen \in Nat /\ PasswordLen >= 2
    BY FormAssumption
  <2> QED BY <2>1, StaFieldType DEF Init, StaConfigs
<1>2. params \in ParamLists /\ Len(params) <= MaxParams /\ form \in SentForms
  BY FormAssumption DEF Init, ParamLists, SentForms
<1>3. before \in [params : ParamLists, sta : StaConfigs]
  BY <1>1, <1>2 DEF Init
<1>4. reply = "none" /\ notified = FALSE /\ whole = TRUE /\ posted \in 0..MaxForms
  BY FormAssumption DEF Init
<1> QED BY <1>1, <1>2, <1>3, <1>4 DEF TypeOK, NotifiedWithSsid

(* A form changes the values of fields that exist and nothing else of the    *)
(* Page, and "OK" to a network's form with no SSID wakes nobody.             *)
LEMMA HandlerStep ==
    ASSUME TypeOK, NEW path, NEW fields \in SentForms, Handler(path, fields)
    PROVE  TypeOK' /\ NotifiedWithSsid' /\ SameFields(params, params')
<1>1. /\ posted' \in 0..MaxForms /\ form' \in SentForms
      /\ before' \in [params : ParamLists, sta : StaConfigs]
  BY FormAssumption DEF Handler, TypeOK
<1>2. CASE Refuse
  BY <1>1, <1>2 DEF Refuse, TypeOK, NotifiedWithSsid, SameFields
<1>3. ASSUME NEW n \in RecvSizes(Encoded(fields)), fields # <<>>, Accept(path, fields, n)
      PROVE  TypeOK' /\ NotifiedWithSsid' /\ SameFields(params, params')
  <2> DEFINE body == SubSeq(Encoded(fields), 1, n)
             st == ParsePost(body)
  <2>1. Encoded(fields) \in Seq(Chars)
    BY EncodedType
  <2>2. n \in Int /\ n <= Len(Encoded(fields))
    BY <2>1, FormAssumption, LenProperties DEF RecvSizes, Room
  <2>3. body \in Seq(Chars)
    <3>1. \A i \in 1..n : Encoded(fields)[i] \in Chars
      BY <2>1, <2>2, ElementOfSeq
    <3> QED BY <2>2, <3>1, SubSeqProperties
  <2>4. st \in Parsed
    <3> HIDE DEF body
    <3> QED BY <2>3, ParsePostType DEF TypeOK
  <2>5. /\ params' = st.params /\ sta' = st.sta /\ notified' = Notifies(path, st.ssid_set)
        /\ reply' = "OK" /\ whole' \in BOOLEAN
    BY <1>3 DEF Accept
  <2> HIDE DEF st
  <2>6. /\ st.sta \in StaConfigs /\ st.ssid_set \in BOOLEAN /\ SameFields(params, st.params)
        /\ st.ssid_set => st.sta.ssid.text # <<>>
    BY <2>4 DEF Parsed
  <2>7. params' \in ParamLists /\ Len(params') <= MaxParams /\ SameFields(params, params')
    BY <2>5, <2>6 DEF SameFields, TypeOK
  <2>8. notified' \in BOOLEAN /\ (notified' => sta'.ssid.text # <<>>)
    BY <2>5, <2>6 DEF Notifies
  <2> QED BY <1>1, <2>5, <2>6, <2>7, <2>8 DEF TypeOK, NotifiedWithSsid
<1> QED BY <1>2, <1>3 DEF Handler

(* A field that is added has a place and fits it.                            *)
LEMMA AddParamStep ==
    ASSUME TypeOK, NEW id \in Ids, NEW v \in Texts, AddParam(id, v)
    PROVE  TypeOK' /\ NotifiedWithSsid'
<1> DEFINE p == [id |-> Cut(id, FieldLen - 1), val |-> Cut(v, FieldLen - 1)]
<1>1. p \in [id : StoredTexts, val : StoredTexts]
  <2>1. id \in Seq(Chars) /\ v \in Seq(Chars) /\ FieldLen - 1 \in Nat
    <3>1. Keys \subseteq Seq(Chars) /\ Texts \subseteq Seq(Chars)
      BY CharsHave
    <3> QED BY <3>1, FormAssumption DEF Keys
  <2>2. Cut(id, FieldLen - 1) \in StoredTexts /\ Cut(v, FieldLen - 1) \in StoredTexts
    BY <2>1, CutBounds DEF StoredTexts
  <2> QED BY <2>2
<1>2. params' = Append(params, p) /\ Len(params) < MaxParams
  BY FormAssumption, LenProperties DEF AddParam, PageFull, TypeOK, ParamLists
<1> HIDE DEF p
<1>3. params' \in ParamLists /\ Len(params') = Len(params) + 1 /\ Len(params) \in Nat
  BY <1>1, <1>2, AppendProperties, LenProperties DEF TypeOK, ParamLists
<1>4. Len(params') <= MaxParams
  BY <1>2, <1>3, FormAssumption
<1>5. form' \in SentForms
  BY EmptySeq DEF AddParam, SentForms
<1> QED BY <1>3, <1>4, <1>5 DEF AddParam, TypeOK, NotifiedWithSsid

(* The forms users send are forms.                                           *)
LEMMA FormsAreSent == Forms \subseteq SentForms
<1> SUFFICES ASSUME NEW f \in Forms PROVE f \in SentForms
  OBVIOUS
<1>1. f \in Seq(Field)
  BY FormAssumption, Bounded DEF Forms
<1>2. Field \subseteq [key : Keys, val : Seq(Chars)]
  <2>1. Texts \subseteq Seq(Chars)
    BY CharsHave
  <2> QED BY <2>1 DEF Field
<1> QED BY <1>1, <1>2, SeqMonotonic DEF SentForms

LEMMA NextStep == TypeOK /\ NotifiedWithSsid /\ [Next]_vars => TypeOK' /\ NotifiedWithSsid'
<1> SUFFICES ASSUME TypeOK, NotifiedWithSsid, [Next]_vars PROVE TypeOK' /\ NotifiedWithSsid'
  OBVIOUS
<1>1. ASSUME NEW id \in Ids, NEW v \in Texts, AddParam(id, v) PROVE TypeOK' /\ NotifiedWithSsid'
  BY <1>1, AddParamStep
<1>2. ASSUME NEW fields \in Forms, HandlerWifiPost(fields) \/ HandlerConfigSavePost(fields)
      PROVE  TypeOK' /\ NotifiedWithSsid'
  BY <1>2, FormsAreSent, HandlerStep DEF HandlerWifiPost, HandlerConfigSavePost
<1>3. CASE UNCHANGED vars
  BY <1>3 DEF vars, TypeOK, NotifiedWithSsid
<1> QED BY <1>1, <1>2, <1>3 DEF Next

(* However many forms are posted, and however they are cut, the Page keeps   *)
(* to kMaxParams fields of kFieldLen bytes and sta_config_ to its sizes.     *)
THEOREM FormTypes == Spec => []TypeOK
<1>1. Spec => [](TypeOK /\ NotifiedWithSsid)
  BY InitTypes, NextStep, PTL DEF Spec
<1> QED BY <1>1, PTL

(* NotifyWifiSubmitted is called only when ParsePost left sta_config_ an SSID *)
(* that is not empty, whatever the body was and wherever it was cut.         *)
THEOREM FormNotifies == Spec => []NotifiedWithSsid
<1>1. Spec => [](TypeOK /\ NotifiedWithSsid)
  BY InitTypes, NextStep, PTL DEF Spec
<1> QED BY <1>1, PTL

-----------------------------------------------------------------------------
(* The Page is a map *)

(* A field that is found has a text, which is not GetParam's null pointer.   *)
LEMMA GetParamFinds ==
    ASSUME NEW page \in ParamLists, NEW id
    PROVE  /\ Matches(page, id) # {} =>
                /\ Min(Matches(page, id)) \in 1..Len(page)
                /\ page[Min(Matches(page, id))].id = id
                /\ GetParam(page, id) = page[Min(Matches(page, id))].val
                /\ GetParam(page, id) \in StoredTexts
           /\ GetParam(page, id) = Unknown <=> Matches(page, id) = {}
<1>1. Unknown \notin StoredTexts
  BY FormAssumption DEF StoredTexts
<1>2. CASE Matches(page, id) = {}
  BY <1>2 DEF GetParam
<1>3. CASE Matches(page, id) # {}
  <2> DEFINE m == Min(Matches(page, id))
  <2>1. m \in 1..Len(page) /\ page[m].id = id
    <3>1. Matches(page, id) \in SUBSET Nat
      BY LenProperties DEF Matches, ParamLists
    <3>2. m \in Matches(page, id)
      BY <1>3, <3>1, Smallest
    <3> HIDE DEF m
    <3> QED BY <3>2 DEF Matches
  <2>2. GetParam(page, id) = page[m].val
    BY <1>3 DEF GetParam
  <2> HIDE DEF m
  <2>3. page[m] \in [id : StoredTexts, val : StoredTexts]
    BY <2>1, ElementOfSeq DEF ParamLists
  <2>4. page[m].val \in StoredTexts
    BY <2>3
  <2> QED BY <1>1, <1>3, <2>1, <2>2, <2>4 DEF m
<1> QED BY <1>2, <1>3

(* Two Pages with the same fields find them at the same places.              *)
LEMMA SameMatches ==
    ASSUME NEW page \in ParamLists, NEW new, SameFields(page, new), NEW id
    PROVE  Matches(new, id) = Matches(page, id)
BY DEF SameFields, Matches

(* A form is a Save of the map.                                              *)
LEMMA FormSaves ==
    ASSUME TypeOK, SameFields(params, params')
    PROVE  Map!Save
<1>1. params \in ParamLists /\ params' \in ParamLists
  BY DEF TypeOK, SameFields
<1>2. FieldValues' = [id \in Ids |-> GetParam(params', id)]
  BY DEF FieldValues
<1>3. ASSUME NEW id \in Ids PROVE GetParam(params', id) \in StoredTexts \cup {Unknown}
  BY <1>1, GetParamFinds
<1>4. ASSUME NEW id \in Ids
      PROVE  GetParam(params', id) = Unknown <=> GetParam(params, id) = Unknown
  BY <1>1, GetParamFinds, SameMatches
<1> QED BY <1>2, <1>3, <1>4 DEF Map!Save, FieldValues

(* A field that is added is found unless an earlier one has its id.          *)
LEMMA AppendFinds ==
    ASSUME NEW page \in ParamLists, NEW p \in [id : StoredTexts, val : StoredTexts], NEW id
    PROVE  GetParam(Append(page, p), id) =
             IF Matches(page, id) # {} THEN GetParam(page, id)
             ELSE IF id = p.id THEN p.val ELSE Unknown
<1> DEFINE new == Append(page, p)
           last == Len(page) + 1
<1>1. /\ new \in ParamLists /\ Len(new) = last /\ Len(page) \in Nat
      /\ \A i \in 1..Len(page) : new[i] = page[i]
      /\ new[last] = p
  BY AppendProperties, LenProperties DEF ParamLists
<1> HIDE DEF new
<1>2. Matches(new, id) = Matches(page, id) \cup (IF p.id = id THEN {last} ELSE {})
  BY <1>1 DEF Matches
<1>3. CASE Matches(page, id) # {}
  <2> DEFINE m == Min(Matches(page, id))
             k == Min(Matches(new, id))
  <2>1. Matches(page, id) \in SUBSET Nat /\ Matches(new, id) \in SUBSET Nat
        /\ Matches(new, id) # {}
    BY <1>1, <1>2, <1>3 DEF Matches
  <2>2. m \in Matches(page, id) /\ \A j \in Matches(page, id) : m <= j
    BY <1>3, <2>1, Smallest
  <2>3. k \in Matches(new, id) /\ \A j \in Matches(new, id) : k <= j
    BY <2>1, Smallest
  <2> HIDE DEF m, k
  <2>4. m \in 1..Len(page) /\ k \in Nat
    BY <2>1, <2>2, <2>3 DEF Matches
  <2>5. k = m
    BY <1>1, <1>2, <2>1, <2>2, <2>3, <2>4
  <2> QED BY <1>1, <1>3, <2>1, <2>4, <2>5 DEF GetParam, m, k, new
<1>4. CASE Matches(page, id) = {} /\ id = p.id
  <2>1. Matches(new, id) = {last} /\ last \in Nat
    BY <1>1, <1>2, <1>4
  <2>2. Min({last}) = last
    BY <2>1, Smallest
  <2> QED BY <1>1, <1>4, <2>1, <2>2 DEF GetParam, new
<1>5. CASE Matches(page, id) = {} /\ id # p.id
  BY <1>2, <1>5 DEF GetParam, new
<1> QED BY <1>3, <1>4, <1>5

(* A Page that is not full has fewer fields, and so fewer ids, than it may.  *)
LEMMA FewKnown ==
    ASSUME TypeOK, Len(params) < MaxParams
    PROVE  Cardinality(Map!Known) < MaxParams
<1> DEFINE n == Len(params)
           place == [id \in Map!Known |-> Min(Matches(params, id))]
<1>1. n \in Nat /\ params \in ParamLists
  BY LenProperties DEF TypeOK, ParamLists
<1>2. ASSUME NEW id \in Map!Known PROVE place[id] \in 1..n /\ params[place[id]].id = id
  <2>1. id \in Ids /\ GetParam(params, id) # Unknown
    BY DEF Map!Known, FieldValues
  <2> QED BY <1>1, <2>1, GetParamFinds
<1>3. IsFiniteSet(1..n) /\ Cardinality(1..n) = n
  BY <1>1, FS_Interval
<1>4. place \in [Map!Known -> 1..n]
  BY <1>2
<1>5. \A a, b \in Map!Known : place[a] = place[b] => a = b
  BY <1>2
<1> HIDE DEF place
<1>6. place \in Injection(Map!Known, 1..n)
  BY <1>4, <1>5 DEF Injection, IsInjective
<1>7. Cardinality(Map!Known) <= n /\ Cardinality(Map!Known) \in Nat
  BY <1>1, <1>3, <1>6, FS_Injection, FS_CardinalityType
<1> QED BY <1>1, <1>7, FormAssumption

(* Adding a field is an Add of the map, or changes nothing of it.            *)
LEMMA AddParamAdds ==
    ASSUME TypeOK, NEW i \in Ids, NEW v \in Texts, AddParam(i, v)
    PROVE  Map!Next \/ UNCHANGED FieldValues
<1> DEFINE p == [id |-> Cut(i, FieldLen - 1), val |-> Cut(v, FieldLen - 1)]
<1>1. p \in [id : StoredTexts, val : StoredTexts]
  <2>1. Keys \subseteq Seq(Chars) /\ Texts \subseteq Seq(Chars)
    BY CharsHave
  <2>2. i \in Seq(Chars) /\ v \in Seq(Chars) /\ FieldLen - 1 \in Nat
    BY <2>1, FormAssumption DEF Keys
  <2>3. Cut(i, FieldLen - 1) \in StoredTexts /\ Cut(v, FieldLen - 1) \in StoredTexts
    BY <2>2, CutBounds DEF StoredTexts
  <2> QED BY <2>3
<1>2. params' = Append(params, p) /\ Len(params) < MaxParams /\ params \in ParamLists
  BY FormAssumption, LenProperties DEF AddParam, PageFull, TypeOK, ParamLists
<1> HIDE DEF p
<1>3. ASSUME NEW id \in Ids
      PROVE  FieldValues'[id] = IF id \in Map!Known THEN FieldValues[id]
                                ELSE IF id = p.id THEN p.val ELSE Unknown
  <2>1. GetParam(params', id) = IF Matches(params, id) # {} THEN GetParam(params, id)
                                ELSE IF id = p.id THEN p.val ELSE Unknown
    BY <1>1, <1>2, AppendFinds
  <2>2. id \in Map!Known <=> Matches(params, id) # {}
    BY <1>2, GetParamFinds DEF Map!Known, FieldValues
  <2> QED BY <2>1, <2>2 DEF FieldValues
<1>4. FieldValues = [id \in Ids |-> FieldValues[id]] /\ FieldValues' = [id \in Ids |-> FieldValues'[id]]
  BY DEF FieldValues
<1>5. \A id \in Ids : id \notin Map!Known => FieldValues[id] = Unknown
  BY DEF Map!Known
<1>6. CASE p.id \in Ids /\ p.id \notin Map!Known
  <2>1. FieldValues' = [FieldValues EXCEPT ![p.id] = p.val]
    BY <1>3, <1>4, <1>5, <1>6
  <2>2. Map!Add(p.id, p.val)
    <3>1. Cardinality(Map!Known) < MaxParams
      BY <1>2, FewKnown
    <3>2. Map!Cardinality(Map!Known) = Cardinality(Map!Known)
      BY DEF Cardinality, Map!Cardinality
    <3> QED BY <1>6, <2>1, <3>1, <3>2 DEF Map!Add
  <2>3. p.val \in StoredTexts
    BY <1>1
  <2> QED BY <1>6, <2>2, <2>3 DEF Map!Next
<1>7. CASE ~(p.id \in Ids /\ p.id \notin Map!Known)
  BY <1>3, <1>4, <1>5, <1>7
<1> QED BY <1>6, <1>7

(* The Page implements Settings: a form is a Save of the whole map, AddParam *)
(* an Add of an id that it did not have, and nothing else changes the map.   *)
THEOREM PageIsMap == Spec => MapBehaves
<1>1. Init => Map!Init
  BY DEF Init, Map!Init, FieldValues, GetParam, Matches
<1>2. TypeOK /\ [Next]_vars => [Map!Next]_FieldValues
  <2> SUFFICES ASSUME TypeOK, [Next]_vars PROVE [Map!Next]_FieldValues
    OBVIOUS
  <2>1. ASSUME NEW id \in Ids, NEW v \in Texts, AddParam(id, v) PROVE [Map!Next]_FieldValues
    BY <2>1, AddParamAdds
  <2>2. ASSUME NEW fields \in Forms, HandlerWifiPost(fields) \/ HandlerConfigSavePost(fields)
        PROVE  Map!Next
    <3>1. SameFields(params, params')
      BY <2>2, FormsAreSent, HandlerStep DEF HandlerWifiPost, HandlerConfigSavePost
    <3> QED BY <3>1, FormSaves DEF Map!Next
  <2>3. CASE UNCHANGED vars
    BY <2>3 DEF vars, FieldValues
  <2> QED BY <2>1, <2>2, <2>3 DEF Next
<1> QED BY <1>1, <1>2, FormTypes, PTL DEF Spec, MapBehaves, Map!Spec

-----------------------------------------------------------------------------
(* What the browser escapes, UrlDecode undoes *)

(* The texts d are put together of the pieces.                               *)
Joins(S, n, d, piece) ==
    /\ d \in [0..n -> Seq(S)] /\ piece \in [1..n -> Seq(S)]
    /\ \A i \in 1..n : d[i] = d[i - 1] \o piece[i]

(* A text has the piece, that makes new of old, where old ends.              *)
Added(text, old, piece, new) ==
    /\ Len(old) \in Nat /\ Len(piece) \in Nat
    /\ Len(new) = Len(old) + Len(piece) /\ Len(new) <= Len(text)
    /\ \A k \in 1..Len(piece) : text[Len(old) + k] = piece[k]

(* What is appended begins where the text ended, which keeps its characters. *)
LEMMA PieceAdded ==
    ASSUME NEW S, NEW a \in Seq(S), NEW b \in Seq(S)
    PROVE  /\ Added(a \o b, a, b, a \o b)
           /\ Len(a) <= Len(a \o b) /\ \A k \in 1..Len(a) : (a \o b)[k] = a[k]
<1> DEFINE c == a \o b
<1>1. Len(a) \in Nat /\ Len(b) \in Nat
  BY LenProperties
<1>2. /\ Len(c) = Len(a) + Len(b)
      /\ \A k \in 1..Len(a) + Len(b) : c[k] = IF k <= Len(a) THEN a[k] ELSE b[k - Len(a)]
  BY ConcatProperties
<1> HIDE DEF c
<1>3. ASSUME NEW k \in 1..Len(b) PROVE c[Len(a) + k] = b[k]
  <2>1. /\ Len(a) + k \in 1..Len(a) + Len(b) /\ ~(Len(a) + k <= Len(a))
        /\ (Len(a) + k) - Len(a) = k
    BY <1>1
  <2> QED BY <1>2, <2>1
<1>4. ASSUME NEW k \in 1..Len(a) PROVE c[k] = a[k]
  <2>1. k \in 1..Len(a) + Len(b) /\ k <= Len(a)
    BY <1>1
  <2> QED BY <1>2, <2>1
<1> QED BY <1>1, <1>2, <1>3, <1>4 DEF Added, c

(* A text put together of pieces has each of them where it was added.        *)
LEMMA Pieces ==
    ASSUME NEW S, NEW n \in Nat, NEW d, NEW piece, Joins(S, n, d, piece)
    PROVE  \A i \in 1..n : Added(d[n], d[i - 1], piece[i], d[i])
<1> DEFINE Within(i, m) == Len(d[i]) <= Len(d[m]) /\ \A k \in 1..Len(d[i]) : d[m][k] = d[i][k]
           T == {m \in Nat : m <= n => \A i \in 0..m : Within(i, m)}
<1>0. d \in [0..n -> Seq(S)] /\ piece \in [1..n -> Seq(S)]
  BY DEF Joins
<1>1. ASSUME NEW i \in 1..n
      PROVE  /\ Added(d[i], d[i - 1], piece[i], d[i])
             /\ Len(d[i - 1]) <= Len(d[i]) /\ \A k \in 1..Len(d[i - 1]) : d[i][k] = d[i - 1][k]
  <2>1. i - 1 \in 0..n /\ i \in 0..n
    OBVIOUS
  <2>2. d[i - 1] \in Seq(S) /\ piece[i] \in Seq(S) /\ d[i] = d[i - 1] \o piece[i]
    BY <2>1 DEF Joins
  <2> DEFINE a == d[i - 1]
             b == piece[i]
             c == d[i]
  <2>3. a \in Seq(S) /\ b \in Seq(S) /\ c = a \o b
    BY <2>2
  <2> HIDE DEF a, b, c
  <2>4. Added(c, a, b, c) /\ Len(a) <= Len(c) /\ \A k \in 1..Len(a) : c[k] = a[k]
    BY <2>3, PieceAdded
  <2> QED BY <2>4 DEF a, b, c
<1>2. \A i \in 0..n : Len(d[i]) \in Nat
  BY LenProperties DEF Joins
<1>3. 0 \in T
  <2>1. \A i \in 0..0 : i = 0 /\ i \in 0..n
    OBVIOUS
  <2> QED BY <1>0, <1>2, <2>1
<1>4. ASSUME NEW m \in Nat, m + 1 <= n, NEW i \in 0..m, Within(i, m) PROVE Within(i, m + 1)
  <2>1. m + 1 \in 1..n /\ (m + 1) - 1 = m /\ i \in 0..n
    BY <1>0, <1>4
  <2>2. Len(d[m]) <= Len(d[m + 1]) /\ \A k \in 1..Len(d[m]) : d[m + 1][k] = d[m][k]
    BY <1>0, <1>1, <2>1
  <2>3. Len(d[i]) \in Nat /\ Len(d[m]) \in Nat /\ Len(d[m + 1]) \in Nat
    BY <1>0, <1>2, <2>1
  <2>4. Len(d[i]) <= Len(d[m]) /\ \A k \in 1..Len(d[i]) : d[m][k] = d[i][k]
    BY <1>0, <1>4
  <2>5. Len(d[i]) <= Len(d[m + 1])
    BY <1>0, <2>2, <2>3, <2>4
  <2>6. ASSUME NEW k \in 1..Len(d[i]) PROVE d[m + 1][k] = d[i][k]
    <3>1. k \in 1..Len(d[m])
      BY <1>0, <2>3, <2>4
    <3> QED BY <1>0, <2>2, <2>4, <3>1
  <2> QED BY <1>0, <2>5, <2>6
<1>5. ASSUME NEW m \in Nat, m \in T PROVE m + 1 \in T
  <2>1. ASSUME m + 1 <= n, NEW i \in 0..(m + 1) PROVE Within(i, m + 1)
    <3>1. CASE i = m + 1
      BY <1>0, <1>2, <2>1, <3>1
    <3>2. CASE i # m + 1
      <4>1. i \in 0..m /\ m <= n
        BY <1>0, <2>1, <3>2
      <4>2. Within(i, m)
        BY <1>0, <1>5, <4>1
      <4> HIDE DEF Within
      <4> QED BY <1>0, <1>4, <2>1, <4>1, <4>2
    <3> QED BY <1>0, <3>1, <3>2
  <2> HIDE DEF Within
  <2> QED BY <1>0, <2>1
<1>6. n \in T
  <2> HIDE DEF T
  <2> QED BY <1>0, <1>3, <1>5, SetInduction
<1>7. \A i \in 0..n : Within(i, n)
  BY <1>0, <1>6
<1>8. ASSUME NEW i \in 1..n PROVE Added(d[n], d[i - 1], piece[i], d[i])
  <2>1. Added(d[i], d[i - 1], piece[i], d[i])
    BY <1>0, <1>1
  <2>2. Len(d[i]) <= Len(d[n]) /\ \A k \in 1..Len(d[i]) : d[n][k] = d[i][k]
    BY <1>0, <1>7
  <2>3. ASSUME NEW k \in 1..Len(piece[i]) PROVE d[n][Len(d[i - 1]) + k] = piece[i][k]
    <3>1. Len(d[i - 1]) + k \in 1..Len(d[i])
      BY <1>0, <2>1 DEF Added
    <3> QED BY <1>0, <2>1, <2>2, <3>1 DEF Added
  <2> QED BY <1>0, <2>1, <2>2, <2>3 DEF Added
<1> QED BY <1>0, <1>8

(* The beginning of a text, one character longer.                            *)
LEMMA CutMore ==
    ASSUME NEW S, NEW t \in Seq(S), NEW i \in Nat
    PROVE  /\ i < Len(t) => Cut(t, i + 1) = Append(Cut(t, i), t[i + 1])
           /\ i >= Len(t) => Cut(t, i) = t /\ Cut(t, i + 1) = t
<1>1. Len(t) \in Nat
  BY LenProperties
<1>2. CASE i < Len(t)
  <2>1. Cut(t, i + 1) = SubSeq(t, 1, i + 1) /\ Cut(t, i) = SubSeq(t, 1, i)
    BY <1>1, <1>2 DEF Cut
  <2>2. 1 \in 1..Len(t) /\ i + 1 \in 1..Len(t) /\ (i + 1) - 1 = i
    BY <1>1, <1>2
  <2>3. SubSeq(t, 1, i + 1) = SubSeq(t, 1, (i + 1) - 1) \o <<t[i + 1]>>
    BY <2>2, SubSeqRecursiveSecond
  <2>4. Cut(t, i) \in Seq(S) /\ t[i + 1] \in S
    <3>1. Cut(t, i) \in Seq(S)
      BY CutBounds, Bounded
    <3> QED BY <2>2, <3>1, ElementOfSeq
  <2>5. Append(Cut(t, i), t[i + 1]) = Cut(t, i) \o <<t[i + 1]>>
    BY <2>4, AppendIsConcat
  <2> QED BY <1>1, <1>2, <2>1, <2>2, <2>3, <2>5
<1>3. CASE i >= Len(t)
  <2>1. Cut(t, i + 1) = SubSeq(t, 1, Len(t)) /\ Cut(t, i) = SubSeq(t, 1, Len(t))
    BY <1>1, <1>3 DEF Cut
  <2> QED BY <1>1, <1>3, <2>1, SubSeqFull
<1> QED BY <1>1, <1>2, <1>3

(* strtol finds the character that an escape stands for.                     *)
LEMMA FromHexUndoes ==
    ASSUME NEW c \in DOMAIN Code PROVE FromHex(Code[c][2], Code[c][3]) = c
<1>1. Code[c] = <<"%", Code[c][2], Code[c][3]>>
  BY Escapes
<1>2. Code[c] \in Range(Code)
  BY DEF Range
<1>3. \A ch \in DOMAIN Code : Code[ch] = Code[c] => ch = c
  BY Escapes
<1>4. (CHOOSE ch \in DOMAIN Code : Code[ch] = Code[c]) = c
  BY <1>3
<1> QED BY <1>1, <1>2, <1>4 DEF FromHex

(* UrlDecode undoes the browser's escapes, of as much as dst has room for.   *)
LEMMA DecodeEscaped ==
    ASSUME NEW text \in Seq(Chars), NEW size \in Nat \ {0}
    PROVE  UrlDecode(Escaped(text), size) = Cut(text, size - 1)
<1> DEFINE N == Len(text)
           n == size - 1
           e == Escaped(text)
           piece == [i \in 1..N |-> One(Code, text[i])]
<1>1. PICK E \in ReplaceRuns(Undelimited, Code, text) : e = E[N]
  BY EscapedRun
<1>2. N \in Nat /\ n \in Nat /\ e \in Seq(Chars)
  BY LenProperties, EscapedPlain, SeqMonotonic DEF Undelimited
<1>3. PICK D \in DecodeRuns(e, n) : UrlDecode(e, size) = D[n].out
  BY <1>2, UrlDecodeRun
<1>4. /\ E \in [0..N -> Seq(Undelimited)] /\ E[0] = <<>>
      /\ \A i \in 1..N : E[i] = E[i - 1] \o piece[i]
  BY <1>1 DEF ReplaceRuns
<1>5. piece \in [1..N -> Seq(Undelimited)]
  BY <1>2, EscapedOne, ElementOfSeq
<1>6. /\ D[0] = [at |-> 1, out |-> <<>>]
      /\ \A i \in 1..n : D[i - 1] \in Decodings /\ D[i] = DecodeOne(e, D[i - 1])
  BY <1>2, <1>3 DEF DecodeRuns
<1> HIDE DEF piece, e, N, n
<1>7. ASSUME NEW i \in 1..N PROVE Added(e, E[i - 1], piece[i], E[i])
  <2>1. Joins(Undelimited, N, E, piece)
    BY <1>4, <1>5 DEF Joins
  <2> QED BY <1>1, <1>2, <2>1, Pieces
<1>8. Len(e) \in Nat
  BY <1>2, LenProperties
<1> DEFINE Reached(i) == D[i] = [at |-> Len(E[IF i < N THEN i ELSE N]) + 1, out |-> Cut(text, i)]
           T == {i \in Nat : i <= n => Reached(i)}
<1>9. 0 \in T
  <2>1. (IF 0 < N THEN 0 ELSE N) = 0
    BY <1>2
  <2>2. Cut(text, 0) = <<>>
    <3>1. Cut(text, 0) = SubSeq(text, 1, 0)
      BY <1>2 DEF Cut, N
    <3> QED BY <3>1, SubSeqEmpty
  <2> QED BY <1>4, <1>6, <2>1, <2>2
<1>10. ASSUME NEW i \in Nat, i + 1 <= n, Reached(i) PROVE Reached(i + 1)
  <2>1. i + 1 \in 1..n /\ (i + 1) - 1 = i
    BY <1>2, <1>10
  <2>2. D[i + 1] = DecodeOne(e, D[i])
    BY <1>6, <2>1
  <2>3. CASE i < N
    <3> DEFINE c == text[i + 1]
               at == Len(E[i]) + 1
    <3>1. i + 1 \in 1..N /\ (IF i + 1 < N THEN i + 1 ELSE N) = i + 1
      BY <1>2, <2>3
    <3>2. D[i] = [at |-> at, out |-> Cut(text, i)]
      BY <1>10, <2>3
    <3>3. Cut(text, i + 1) = Append(Cut(text, i), c)
      BY <1>2, <2>3, CutMore DEF N
    <3>4. /\ Len(E[i]) \in Nat /\ Len(E[i + 1]) = Len(E[i]) + Len(piece[i + 1])
          /\ Len(piece[i + 1]) \in Nat
          /\ Len(E[i + 1]) <= Len(e)
          /\ \A k \in 1..Len(piece[i + 1]) : e[Len(E[i]) + k] = piece[i + 1][k]
      BY <1>7, <2>1, <3>1 DEF Added
    <3>5. piece[i + 1] = One(Code, c)
      BY <3>1 DEF piece
    <3> HIDE DEF c
    <3>6. CASE c \in DOMAIN Code
      <4>1. piece[i + 1] = Code[c] /\ Len(Code[c]) = 3 /\ Code[c][1] = "%"
        BY <3>5, <3>6, Escapes DEF One
      <4>2. e[Len(E[i]) + 1] = Code[c][1] /\ e[Len(E[i]) + 2] = Code[c][2]
            /\ e[Len(E[i]) + 3] = Code[c][3]
        BY <3>4, <4>1
      <4>3. IsEscape(e, at) /\ ~(at > Len(e)) /\ at + 1 = Len(E[i]) + 2 /\ at + 2 = Len(E[i]) + 3
            /\ at + 3 = Len(E[i + 1]) + 1
        BY <1>8, <3>4, <4>1, <4>2 DEF IsEscape
      <4>4. FromHex(e[at + 1], e[at + 2]) = c
        BY <3>6, <4>2, <4>3, FromHexUndoes
      <4>5. DecodeOne(e, D[i]) = [at |-> at + 3, out |-> Append(Cut(text, i), c)]
        <5>1. D[i].at = at /\ D[i].out = Cut(text, i)
          BY <3>2
        <5> HIDE DEF at
        <5> QED BY <4>3, <4>4, <5>1 DEF DecodeOne
      <4> QED BY <2>2, <3>1, <3>3, <4>3, <4>5
    <3>7. CASE c \notin DOMAIN Code
      <4>1. c # "%" /\ c # "+" /\ piece[i + 1] = <<c>> /\ Len(piece[i + 1]) = 1
            /\ piece[i + 1][1] = c
        <5>1. One(Code, c) = <<c>>
          BY <3>7 DEF One
        <5>2. {"&", "=", "%", "+", " "} \subseteq DOMAIN Code
          BY Escapes
        <5>3. "%" \in DOMAIN Code /\ "+" \in DOMAIN Code
          BY <5>2
        <5>4. c # "%" /\ c # "+"
          BY <3>7, <5>3
        <5>5. piece[i + 1] = <<c>>
          BY <3>5, <5>1
        <5> QED BY <5>4, <5>5
      <4>2. e[at] = c
        BY <3>4, <4>1
      <4>3. ~IsEscape(e, at) /\ ~(at > Len(e)) /\ at + 1 = Len(E[i + 1]) + 1
        BY <1>8, <3>4, <4>1, <4>2 DEF IsEscape
      <4>4. DecodeOne(e, D[i]) = [at |-> at + 1, out |-> Append(Cut(text, i), c)]
        <5>1. D[i].at = at /\ D[i].out = Cut(text, i)
          BY <3>2
        <5> HIDE DEF at
        <5> QED BY <4>1, <4>2, <4>3, <5>1 DEF DecodeOne
      <4> QED BY <2>2, <3>1, <3>3, <4>3, <4>4
    <3> QED BY <3>6, <3>7
  <2>4. CASE ~(i < N)
    <3>1. (IF i < N THEN i ELSE N) = N /\ (IF i + 1 < N THEN i + 1 ELSE N) = N
      BY <1>2, <2>4
    <3>2. D[i] = [at |-> Len(e) + 1, out |-> Cut(text, i)]
      BY <1>1, <1>10, <3>1
    <3>3. DecodeOne(e, D[i]) = D[i]
      <4>1. D[i].at > Len(e)
        BY <1>8, <3>2
      <4> QED BY <4>1 DEF DecodeOne
    <3>4. Cut(text, i + 1) = Cut(text, i)
      BY <1>2, <2>4, CutMore DEF N
    <3> QED BY <1>1, <2>2, <3>1, <3>2, <3>3, <3>4
  <2> QED BY <2>3, <2>4
<1>11. n \in T
  <2>1. \A i \in Nat : i \in T => i + 1 \in T
    <3> HIDE DEF Reached
    <3> QED BY <1>2, <1>10
  <2> HIDE DEF T
  <2> QED BY <1>2, <1>9, <2>1, SetInduction
<1>12. D[n].out = Cut(text, n)
  BY <1>2, <1>11
<1> QED BY <1>3, <1>12 DEF e, n

-----------------------------------------------------------------------------
(* The tokens of a form *)

(* strtok_r returns a piece that has no delimiter and is followed by one.    *)
LEMMA TokenIs ==
    ASSUME NEW s \in Seq(Chars), NEW delim, NEW o \in Nat, NEW piece \in Seq(Chars),
           piece # <<>>, o + Len(piece) <= Len(s),
           \A k \in 1..Len(piece) : s[o + k] = piece[k] /\ piece[k] # delim,
           o + Len(piece) = Len(s) \/ s[o + Len(piece) + 1] = delim
    PROVE  Token(s, delim, o + 1) = piece
<1> DEFINE ends == {j \in (o + 1)..Len(s) : j = Len(s) \/ s[j + 1] = delim}
           n == Len(piece)
           e == o + n
<1>1. n \in Nat \ {0} /\ Len(s) \in Nat /\ e \in Nat /\ e >= o + 1
  BY EmptySeq, LenProperties
<1>2. e \in ends
  BY <1>1
<1>3. ASSUME NEW j \in ends PROVE e <= j
  <2>1. j \in (o + 1)..Len(s) /\ (j = Len(s) \/ s[j + 1] = delim) /\ j \in Nat
    OBVIOUS
  <2>2. CASE j < e
    <3>1. (j + 1) - o \in 1..n /\ o + ((j + 1) - o) = j + 1 /\ j # Len(s)
      BY <1>1, <2>1, <2>2
    <3>2. s[j + 1] # delim
      BY <3>1
    <3> QED BY <2>1, <3>1, <3>2
  <2> QED BY <1>1, <2>1, <2>2
<1>4. Min(ends) = e
  <2>1. ends \in SUBSET Nat /\ ends # {}
    BY <1>2
  <2> HIDE DEF ends, e
  <2>2. Min(ends) \in ends /\ \A y \in ends : Min(ends) <= y
    BY <2>1, Smallest
  <2>3. Min(ends) \in Nat /\ Min(ends) <= e /\ e <= Min(ends)
    BY <1>2, <1>3, <2>1, <2>2
  <2> QED BY <1>1, <2>3
<1>5. Token(s, delim, o + 1) = SubSeq(s, o + 1, e)
  BY <1>4 DEF Token
<1>6. \A i \in (o + 1)..e : s[i] \in Chars
  BY <1>1, ElementOfSeq
<1>7. /\ SubSeq(s, o + 1, e) \in Seq(Chars)
      /\ Len(SubSeq(s, o + 1, e)) = IF o + 1 <= e THEN e - (o + 1) + 1 ELSE 0
      /\ \A i \in 1..e - (o + 1) + 1 : SubSeq(s, o + 1, e)[i] = s[(o + 1) + i - 1]
  <2>1. o + 1 \in Int /\ e \in Int
    BY <1>1
  <2> HIDE DEF e
  <2> QED BY <1>6, <2>1, SubSeqProperties
<1>8. e - (o + 1) + 1 = n /\ o + 1 <= e
  BY <1>1
<1>9. ASSUME NEW i \in 1..n PROVE SubSeq(s, o + 1, e)[i] = piece[i]
  <2>1. (o + 1) + i - 1 = o + i
    OBVIOUS
  <2> HIDE DEF e
  <2>2. SubSeq(s, o + 1, e)[i] = s[o + i]
    BY <1>7, <1>8, <2>1
  <2> QED BY <2>2
<1>10. SubSeq(s, o + 1, e) = piece
  <2>1. Len(SubSeq(s, o + 1, e)) = Len(piece)
    BY <1>7, <1>8
  <2> HIDE DEF e
  <2> QED BY <1>7, <1>9, <2>1, SeqEqual
<1> QED BY <1>5, <1>10

(* A key and a value without delimiters are the tokens of their pair; of an  *)
(* empty value there is none.                                                *)
LEMMA PairSplits ==
    ASSUME NEW a \in Seq(Undelimited), a # <<>>, NEW v \in Seq(Undelimited)
    PROVE  LET pair == a \o <<"=">> \o v
           IN  /\ pair \in Seq(Chars)
               /\ {i \in 1..Len(pair) : Begins(pair, "=", i)} =
                    {1} \cup (IF v = <<>> THEN {} ELSE {Len(a) + 2})
               /\ Token(pair, "=", 1) = a
               /\ v # <<>> => Token(pair, "=", Len(a) + 2) = v
<1> DEFINE n == Len(a)
           m == Len(v)
           b == a \o <<"=">>
           pair == b \o v
<1>1. /\ n \in Nat \ {0} /\ m \in Nat /\ (m = 0 <=> v = <<>>)
      /\ a \in Seq(Chars) /\ v \in Seq(Chars) /\ <<"=">> \in Seq(Chars)
  <2>1. n \in Nat \ {0} /\ m \in Nat /\ (m = 0 <=> v = <<>>)
    BY EmptySeq, LenProperties
  <2>2. a \in Seq(Chars) /\ v \in Seq(Chars)
    BY SeqMonotonic DEF Undelimited
  <2>3. "=" \in Chars
    BY CharsHave
  <2> QED BY <2>1, <2>2, <2>3
<1>2. b \in Seq(Chars) /\ Added(b, a, <<"=">>, b) /\ \A k \in 1..n : b[k] = a[k]
  BY <1>1, PieceAdded, ConcatProperties
<1> HIDE DEF b
<1>3. /\ pair \in Seq(Chars) /\ Added(pair, b, v, pair)
      /\ \A k \in 1..Len(b) : pair[k] = b[k]
  BY <1>1, <1>2, PieceAdded, ConcatProperties
<1>4. Len(b) = n + 1 /\ b[n + 1] = "="
  <2>1. Len(<<"=">>) = 1 /\ <<"=">>[1] = "=" /\ 1 \in 1..Len(<<"=">>)
    OBVIOUS
  <2>2. Len(b) = n + Len(<<"=">>)
    BY <1>2 DEF Added
  <2>3. \A k \in 1..Len(<<"=">>) : b[n + k] = <<"=">>[k]
    BY <1>2 DEF Added
  <2>4. b[n + 1] = <<"=">>[1]
    BY <2>1, <2>3
  <2> QED BY <2>1, <2>2, <2>4
<1> HIDE DEF pair
<1>5. Len(pair) = n + 1 + m
  BY <1>1, <1>3, <1>4 DEF Added
<1>6. ASSUME NEW k \in 1..n PROVE pair[k] = a[k] /\ a[k] # "="
  <2>1. k \in 1..Len(b)
    BY <1>1, <1>4
  <2>2. a[k] \in Undelimited
    BY ElementOfSeq
  <2> QED BY <1>2, <1>3, <2>1, <2>2 DEF Undelimited
<1>7. pair[n + 1] = "="
  BY <1>1, <1>3, <1>4
<1>8. ASSUME NEW k \in 1..m PROVE pair[n + 1 + k] = v[k] /\ v[k] # "="
  <2>1. v[k] \in Undelimited
    BY ElementOfSeq
  <2> QED BY <1>3, <1>4, <2>1 DEF Added, Undelimited
<1> HIDE DEF n, m
<1>9. ASSUME NEW i \in 1..Len(pair)
      PROVE  Begins(pair, "=", i) <=> i = 1 \/ i = n + 2
  <2>1. CASE i = 1
    <3>1. pair[1] # "="
      BY <1>1, <1>6
    <3> QED BY <2>1, <3>1 DEF Begins
  <2>2. CASE i \in 2..n
    <3>1. i - 1 \in 1..n /\ i # 1 /\ i # n + 2
      BY <1>1, <2>2
    <3>2. pair[i - 1] # "="
      BY <1>6, <3>1
    <3> QED BY <3>1, <3>2 DEF Begins
  <2>3. CASE i = n + 1
    BY <1>1, <1>7, <2>3 DEF Begins
  <2>4. CASE i = n + 2
    <3>1. 1 \in 1..m /\ n + 1 + 1 = i /\ i - 1 = n + 1
      BY <1>1, <1>5, <2>4
    <3>2. pair[i] # "="
      BY <1>8, <3>1
    <3> QED BY <1>7, <2>4, <3>1, <3>2 DEF Begins
  <2>5. CASE i > n + 2
    <3>1. i - 1 - (n + 1) \in 1..m /\ n + 1 + (i - 1 - (n + 1)) = i - 1 /\ i # 1 /\ i # n + 2
      BY <1>1, <1>5, <2>5
    <3>2. pair[i - 1] # "="
      BY <1>8, <3>1
    <3> QED BY <3>1, <3>2 DEF Begins
  <2> QED BY <1>1, <2>1, <2>2, <2>3, <2>4, <2>5
<1>10. {i \in 1..Len(pair) : Begins(pair, "=", i)} =
         {1} \cup (IF v = <<>> THEN {} ELSE {n + 2})
  <2>1. 1 \in 1..Len(pair)
    BY <1>1, <1>5
  <2>2. v # <<>> => n + 2 \in 1..Len(pair)
    BY <1>1, <1>5
  <2>3. v = <<>> => n + 2 \notin 1..Len(pair)
    BY <1>1, <1>5
  <2> QED BY <1>9, <2>1, <2>2, <2>3
<1>11. Token(pair, "=", 1) = a
  <2>1. /\ 0 \in Nat /\ 0 + Len(a) <= Len(pair) /\ 0 + 1 = 1
        /\ \A k \in 1..Len(a) : pair[0 + k] = a[k] /\ a[k] # "="
        /\ pair[0 + Len(a) + 1] = "="
    BY <1>1, <1>5, <1>6, <1>7 DEF n
  <2>2. Token(pair, "=", 0 + 1) = a
    BY <1>1, <1>3, <2>1, TokenIs
  <2> QED BY <2>2
<1>12. ASSUME v # <<>> PROVE Token(pair, "=", n + 2) = v
  <2> DEFINE o == n + 1
  <2>1. /\ o \in Nat /\ o + Len(v) = Len(pair) /\ o + 1 = n + 2
        /\ \A k \in 1..Len(v) : pair[o + k] = v[k] /\ v[k] # "="
    BY <1>1, <1>5, <1>8 DEF m
  <2>2. o + Len(v) <= Len(pair)
    BY <1>1, <2>1 DEF m
  <2> HIDE DEF o
  <2>3. Token(pair, "=", o + 1) = v
    BY <1>1, <1>3, <1>12, <2>1, <2>2, TokenIs
  <2> QED BY <2>1, <2>3
<1> QED BY <1>3, <1>10, <1>11, <1>12 DEF b, pair, n

(* Only an empty text is escaped to nothing.                                 *)
LEMMA EscapedEmpty ==
    ASSUME NEW text \in Seq(Chars) PROVE Escaped(text) = <<>> <=> text = <<>>
<1>1. <<>> \in Seq(Chars) /\ 2 \in Nat \ {0} /\ 2 - 1 = 1 /\ 1 \in Nat
  OBVIOUS
<1>2. Escaped(<<>>) = <<>>
  <2>1. PICK d \in ReplaceRuns(Undelimited, Code, <<>>) : Escaped(<<>>) = d[Len(<<>>)]
    BY <1>1, EscapedRun
  <2>2. d[0] = <<>>
    BY <2>1 DEF ReplaceRuns
  <2> QED BY <2>1, <2>2
<1>3. ASSUME Escaped(text) = <<>> PROVE text = <<>>
  <2>1. Cut(text, 1) = UrlDecode(Escaped(text), 2) /\ Cut(<<>>, 1) = UrlDecode(Escaped(<<>>), 2)
    <3>1. UrlDecode(Escaped(text), 2) = Cut(text, 2 - 1)
      BY <1>1, DecodeEscaped
    <3>2. UrlDecode(Escaped(<<>>), 2) = Cut(<<>>, 2 - 1)
      BY <1>1, DecodeEscaped
    <3> QED BY <1>1, <3>1, <3>2
  <2>2. Cut(text, 1) = Cut(<<>>, 1)
    BY <1>2, <1>3, <2>1
  <2>3. Cut(<<>>, 1) = <<>>
    <3>1. Len(<<>>) = 0
      OBVIOUS
    <3>2. Cut(<<>>, 1) = SubSeq(<<>>, 1, 0)
      BY <3>1 DEF Cut
    <3> QED BY <3>2, SubSeqEmpty
  <2>4. text # <<>> => Cut(text, 1) # <<>>
    <3>1. 1 \in Nat /\ 1 > 0
      OBVIOUS
    <3> QED BY <3>1, CutBounds
  <2> QED BY <2>2, <2>3, <2>4
<1> QED BY <1>2, <1>3

(* What a field asks of the state ParsePost works on.                        *)
Assign(st, f) ==
    LET val == Cut(f.val, FieldLen - 1)
    IN  IF f.key = SsidKey
        THEN [st EXCEPT !.sta.ssid = Stored(val, @, SsidLen), !.ssid_set = val # <<>>]
        ELSE IF f.key = PasswordKey
        THEN [st EXCEPT !.sta.password = Stored(val, @, PasswordLen)]
        ELSE [st EXCEPT !.params = SetParamValue(@, f.key, val)]

(* A pair the browser made of a field is parsed as that field.               *)
LEMMA PairAssigns ==
    ASSUME NEW st, NEW f \in [key : Keys, val : Seq(Chars)]
    PROVE  ApplyPair(st, Pair(f)) = Assign(st, f)
<1> DEFINE a == Escaped(f.key)
           v == Escaped(f.val)
           pair == Pair(f)
           tokens == {i \in 1..Len(pair) : Begins(pair, "=", i)}
           behind == tokens \ {Min(tokens)}
           key == UrlDecode(Token(pair, "=", Min(tokens)), FieldLen)
           val == IF behind = {} THEN <<>> ELSE UrlDecode(Token(pair, "=", Min(behind)), FieldLen)
<1>1. /\ f.key \in Seq(Chars) /\ f.key # <<>> /\ Len(f.key) <= FieldLen - 1
      /\ f.val \in Seq(Chars) /\ FieldLen \in Nat \ {0} /\ FieldLen - 1 \in Nat
  <2>1. FieldLen \in Nat \ {0} /\ FieldLen >= 2
    BY FormAssumption
  <2>2. f.key \in Keys /\ f.key \in Seq(Chars) /\ f.val \in Seq(Chars)
    BY CharsHave
  <2>3. CASE f.key \in Ids
    <3>1. f.key # <<>> /\ Len(f.key) < FieldLen /\ Len(f.key) \in Nat
      BY <2>2, <2>3, FormAssumption, LenProperties
    <3> QED BY <2>1, <2>2, <3>1
  <2>4. CASE f.key = SsidKey \/ f.key = PasswordKey
    <3>1. SsidKey # <<>> /\ Len(SsidKey) = 1
      BY DEF SsidKey
    <3>2. PasswordKey # <<>> /\ Len(PasswordKey) = 1
      BY DEF PasswordKey
    <3>3. f.key # <<>> /\ Len(f.key) = 1
      BY <2>4, <3>1, <3>2
    <3>4. 1 <= FieldLen - 1
      BY <2>1
    <3> QED BY <2>1, <2>2, <3>3, <3>4
  <2> QED BY <2>2, <2>3, <2>4 DEF Keys
<1>2. a \in Seq(Undelimited) /\ a # <<>> /\ v \in Seq(Undelimited) /\ (v = <<>> <=> f.val = <<>>)
  BY <1>1, EscapedPlain, EscapedEmpty
<1>3. pair = a \o <<"=">> \o v
  BY DEF Pair
<1>4. UrlDecode(a, FieldLen) = f.key
  <2>1. UrlDecode(a, FieldLen) = Cut(f.key, FieldLen - 1)
    BY <1>1, DecodeEscaped
  <2>2. Cut(f.key, FieldLen - 1) = f.key
    <3>1. FieldLen - 1 >= Len(f.key)
      BY <1>1, LenProperties
    <3> QED BY <1>1, <3>1, CutMore
  <2> QED BY <2>1, <2>2
<1>5. UrlDecode(v, FieldLen) = Cut(f.val, FieldLen - 1)
  BY <1>1, DecodeEscaped
<1> HIDE DEF a, v, pair
<1>6. /\ tokens = {1} \cup (IF v = <<>> THEN {} ELSE {Len(a) + 2})
      /\ Token(pair, "=", 1) = a
      /\ v # <<>> => Token(pair, "=", Len(a) + 2) = v
  BY <1>2, <1>3, PairSplits
<1>7. Len(a) \in Nat
  BY <1>2, LenProperties
<1> HIDE DEF tokens
<1>8. Min(tokens) = 1 /\ tokens # {} /\ behind = IF v = <<>> THEN {} ELSE {Len(a) + 2}
  <2>1. tokens \in SUBSET Nat /\ tokens # {} /\ 1 \in tokens /\ \A i \in tokens : i >= 1
    BY <1>6, <1>7
  <2>2. Min(tokens) \in tokens /\ \A y \in tokens : Min(tokens) <= y
    BY <2>1, Smallest
  <2>3. Min(tokens) \in Nat /\ Min(tokens) <= 1 /\ Min(tokens) >= 1
    BY <2>1, <2>2
  <2>4. Min(tokens) = 1
    BY <2>3
  <2>5. Len(a) + 2 # 1
    BY <1>7
  <2>6. behind = IF v = <<>> THEN {} ELSE {Len(a) + 2}
    BY <1>6, <2>4, <2>5
  <2> HIDE DEF behind
  <2> QED BY <2>1, <2>4, <2>6
<1>9. key = f.key
  BY <1>4, <1>6, <1>8
<1>10. val = Cut(f.val, FieldLen - 1)
  <2>1. CASE v = <<>>
    <3>1. f.val = <<>> /\ FieldLen - 1 >= Len(<<>>)
      BY <1>1, <1>2, <2>1
    <3>2. Cut(f.val, FieldLen - 1) = <<>>
      BY <1>1, <3>1, CutMore
    <3>3. behind = {}
      BY <1>8, <2>1
    <3> QED BY <3>2, <3>3
  <2>2. CASE v # <<>>
    <3>1. behind = {Len(a) + 2} /\ Len(a) + 2 \in Nat
      BY <1>7, <1>8, <2>2
    <3>2. Min(behind) \in behind
      <4>1. behind \in SUBSET Nat /\ behind # {}
        BY <3>1
      <4> HIDE DEF behind
      <4> QED BY <4>1, Smallest
    <3>3. Min(behind) = Len(a) + 2 /\ behind # {}
      BY <3>1, <3>2
    <3> HIDE DEF behind
    <3> QED BY <1>5, <1>6, <2>2, <3>3
  <2> QED BY <2>1, <2>2
<1>11. ApplyPair(st, pair) =
         IF tokens = {} THEN st
         ELSE IF key = SsidKey
              THEN [st EXCEPT !.sta.ssid = Stored(val, @, SsidLen), !.ssid_set = val # <<>>]
         ELSE IF key = PasswordKey
              THEN [st EXCEPT !.sta.password = Stored(val, @, PasswordLen)]
         ELSE [st EXCEPT !.params = SetParamValue(@, key, val)]
  BY DEF ApplyPair, tokens
<1> HIDE DEF key, val
<1> QED BY <1>8, <1>9, <1>10, <1>11 DEF Assign, pair

(* A pair has no "&" in it.                                                  *)
LEMMA PairChars ==
    ASSUME NEW f \in [key : Keys, val : Seq(Chars)]
    PROVE  Pair(f) \in Seq(Chars \ {"&"}) /\ Pair(f) # <<>>
<1> DEFINE S == Chars \ {"&"}
           a == Escaped(f.key)
           v == Escaped(f.val)
<1>1. a \in Seq(Undelimited) /\ v \in Seq(Undelimited) /\ Undelimited \subseteq S
  BY PairType DEF Undelimited
<1>2. a \in Seq(S) /\ v \in Seq(S)
  BY <1>1, SeqMonotonic
<1>3. <<"=">> \in Seq(S) /\ <<"=">> # <<>>
  <2>1. "=" \in S
    BY CharsHave
  <2> QED BY <2>1
<1>4. Pair(f) = a \o <<"=">> \o v
  BY DEF Pair
<1> HIDE DEF a, v, S
<1>5. a \o <<"=">> \in Seq(S) /\ a \o <<"=">> # <<>>
  BY <1>2, <1>3, ConcatProperties, ConcatEqualIffEmpty
<1>6. a \o <<"=">> \o v \in Seq(S) /\ a \o <<"=">> \o v # <<>>
  BY <1>2, <1>5, ConcatProperties, ConcatEqualIffEmpty
<1> QED BY <1>4, <1>6 DEF S

(* ParsePost applies a pair where it begins and not again before the next.   *)
LEMMA ParsePair ==
    ASSUME NEW body \in Seq(Chars), NEW D \in ParseRuns(body),
           NEW f \in [key : Keys, val : Seq(Chars)],
           NEW o \in Nat, o + Len(Pair(f)) <= Len(body),
           \A k \in 1..Len(Pair(f)) : body[o + k] = Pair(f)[k],
           o = 0 \/ body[o] = "&",
           o + Len(Pair(f)) = Len(body) \/ body[o + Len(Pair(f)) + 1] = "&"
    PROVE  D[o + Len(Pair(f))] = Assign(D[o], f)
<1> DEFINE p == Pair(f)
           n == Len(p)
<1>1. p \in Seq(Chars) /\ n \in Nat \ {0} /\ p # <<>> /\ \A k \in 1..n : p[k] # "&"
  <2>1. p \in Seq(Chars \ {"&"}) /\ p # <<>>
    BY PairChars
  <2>2. n \in Nat \ {0} /\ \A k \in 1..n : p[k] \in Chars \ {"&"}
    BY <2>1, EmptySeq, ElementOfSeq
  <2> QED BY <2>1, <2>2, SeqMonotonic
<1>2. /\ Len(body) \in Nat /\ o + n <= Len(body)
      /\ \A k \in 1..n : body[o + k] = p[k] /\ body[o + k] # "&"
      /\ o + n = Len(body) \/ body[o + n + 1] = "&"
  BY <1>1, LenProperties
<1>3. ApplyPair(D[o], p) = Assign(D[o], f)
  BY PairAssigns
<1> HIDE DEF p
<1>4. Token(body, "&", o + 1) = p
  BY <1>1, <1>2, TokenIs
<1> HIDE DEF n
<1>5. \A i \in 1..Len(body) :
        D[i] = IF Begins(body, "&", i) THEN ApplyPair(D[i - 1], Token(body, "&", i)) ELSE D[i - 1]
  BY DEF ParseRuns
<1>6. D[o + 1] = Assign(D[o], f)
  <2>1. o + 1 \in 1..Len(body) /\ (o + 1) - 1 = o /\ 1 \in 1..n
    BY <1>1, <1>2
  <2>2. body[o + 1] # "&"
    BY <1>2, <2>1
  <2>3. Begins(body, "&", o + 1)
    BY <2>1, <2>2 DEF Begins
  <2> QED BY <1>3, <1>4, <1>5, <2>1, <2>3
<1>7. ASSUME NEW i \in 2..n PROVE D[o + i] = D[o + i - 1]
  <2>1. o + i \in 1..Len(body) /\ o + i # 1 /\ i - 1 \in 1..n /\ o + (i - 1) = o + i - 1
    BY <1>1, <1>2
  <2>2. body[o + i - 1] # "&"
    BY <1>2, <2>1
  <2>3. ~Begins(body, "&", o + i)
    BY <2>1, <2>2 DEF Begins
  <2> QED BY <1>5, <2>1, <2>3
<1> DEFINE m == n - 1
           at == [i \in 0..m |-> D[o + 1 + i]]
           X == {D[o + 1]}
<1>8. m \in Nat /\ at[0] \in X
  BY <1>1
<1>9. ASSUME NEW i \in 1..m, at[i - 1] \in X PROVE at[i] \in X
  <2>1. /\ i + 1 \in 2..n /\ o + (i + 1) = o + 1 + i /\ o + (i + 1) - 1 = o + 1 + (i - 1)
        /\ i \in 0..m /\ i - 1 \in 0..m
    BY <1>1
  <2>2. D[o + (i + 1)] = D[o + (i + 1) - 1]
    BY <1>7, <2>1
  <2> QED BY <1>9, <2>1, <2>2
<1>10. at[m] \in X
  <2>1. m \in 0..m
    BY <1>8
  <2> HIDE DEF at, m, X
  <2>2. \A i \in 0..m : at[i] \in X
    BY <1>8, <1>9, LoopStays
  <2> QED BY <2>1, <2>2
<1>11. o + 1 + m = o + n /\ m \in 0..m
  BY <1>1
<1>12. at[m] = D[o + n]
  BY <1>11
<1> QED BY <1>6, <1>10, <1>12 DEF n, p

(* A form that arrives whole is parsed as its fields, one after the other.   *)
LEMMA ParseEncoded ==
    ASSUME NEW fields \in SentForms, NEW B \in EncodeRuns(fields),
           NEW D \in ParseRuns(B[Len(fields)])
    PROVE  /\ D[Len(B[0])] = ParseStart
           /\ \A k \in 1..Len(fields) : D[Len(B[k])] = Assign(D[Len(B[k - 1])], fields[k])
<1> DEFINE N == Len(fields)
           body == B[N]
           sep(k) == IF k = 1 THEN <<>> ELSE <<"&">>
           piece == [k \in 1..N |-> sep(k) \o Pair(fields[k])]
<1>1. N \in Nat /\ \A k \in 1..N : fields[k] \in [key : Keys, val : Seq(Chars)]
  BY LenProperties, ElementOfSeq DEF SentForms
<1>2. /\ B \in [0..N -> Seq(Chars)] /\ B[0] = <<>>
      /\ \A k \in 1..N : B[k] = B[k - 1] \o sep(k) \o Pair(fields[k])
  BY DEF EncodeRuns
<1>3. D[0] = ParseStart /\ \A i \in 1..Len(body) :
        D[i] = IF Begins(body, "&", i) THEN ApplyPair(D[i - 1], Token(body, "&", i)) ELSE D[i - 1]
  BY DEF ParseRuns
<1>4. body \in Seq(Chars) /\ Len(body) \in Nat
  <2>1. body \in Seq(Chars)
    BY <1>1, <1>2
  <2> QED BY <2>1, LenProperties
<1>5. ASSUME NEW k \in Nat PROVE sep(k) \in Seq(Chars) /\ Len(sep(k)) = IF k = 1 THEN 0 ELSE 1
  <2>1. "&" \in Chars
    BY CharsHave
  <2>2. <<"&">> \in Seq(Chars) /\ Len(<<"&">>) = 1 /\ <<>> \in Seq(Chars) /\ Len(<<>>) = 0
    BY <2>1
  <2> QED BY <2>2
<1>6. D \in ParseRuns(body)
  OBVIOUS
<1> HIDE DEF sep, N, body
<1>7. ASSUME NEW k \in 1..N
      PROVE  /\ Pair(fields[k]) \in Seq(Chars) /\ piece[k] \in Seq(Chars)
             /\ B[k] = B[k - 1] \o piece[k]
             /\ Added(piece[k], sep(k), Pair(fields[k]), piece[k])
             /\ \A j \in 1..Len(sep(k)) : piece[k][j] = sep(k)[j]
  <2> DEFINE a == B[k - 1]
             b == sep(k)
             c == Pair(fields[k])
  <2>1. k - 1 \in 0..N /\ k \in Nat
    BY <1>1
  <2>2. a \in Seq(Chars) /\ b \in Seq(Chars) /\ c \in Seq(Chars)
    BY <1>1, <1>2, <1>5, <2>1, PairType
  <2>3. piece[k] = b \o c /\ B[k] = a \o b \o c
    BY <1>2
  <2> HIDE DEF a, b, c, piece
  <2>4. a \o b \o c = a \o (b \o c) /\ b \o c \in Seq(Chars)
    BY <2>2, ConcatAssociative, ConcatProperties
  <2>5. Added(b \o c, b, c, b \o c) /\ \A j \in 1..Len(b) : (b \o c)[j] = b[j]
    BY <2>2, PieceAdded
  <2> QED BY <2>2, <2>3, <2>4, <2>5 DEF a, b, c
<1>8. ASSUME NEW k \in 1..N PROVE Added(body, B[k - 1], piece[k], B[k])
  <2>1. piece \in [1..N -> Seq(Chars)]
    BY <1>7
  <2> HIDE DEF piece
  <2>2. Joins(Chars, N, B, piece)
    BY <1>2, <1>7, <2>1 DEF Joins
  <2> QED BY <1>1, <2>2, Pieces DEF body
<1> HIDE DEF piece
<1>9. ASSUME NEW k \in 1..N PROVE D[Len(B[k])] = Assign(D[Len(B[k - 1])], fields[k])
  <2> DEFINE p == Pair(fields[k])
             s == Len(sep(k))
             q == Len(B[k - 1])
             o == q + s
  <2>1. s = IF k = 1 THEN 0 ELSE 1
    BY <1>5
  <2>2. /\ q \in Nat /\ Len(piece[k]) \in Nat /\ Len(B[k]) = q + Len(piece[k])
        /\ Len(B[k]) <= Len(body)
        /\ \A j \in 1..Len(piece[k]) : body[q + j] = piece[k][j]
    BY <1>8 DEF Added
  <2>3. /\ s \in Nat /\ Len(p) \in Nat /\ Len(piece[k]) = s + Len(p)
        /\ \A j \in 1..Len(p) : piece[k][s + j] = p[j]
    BY <1>7 DEF Added
  <2> HIDE DEF p, s, q
  <2>4. o \in Nat /\ o + Len(p) = Len(B[k]) /\ o + Len(p) <= Len(body)
    BY <2>2, <2>3
  <2>5. ASSUME NEW j \in 1..Len(p) PROVE body[o + j] = p[j]
    <3>1. s + j \in 1..Len(piece[k]) /\ q + (s + j) = o + j
      BY <2>2, <2>3
    <3> QED BY <2>2, <2>3, <3>1
  <2>6. (o = 0 \/ body[o] = "&") /\ D[o] = D[q]
    <3>1. CASE k = 1
      <4>1. B[k - 1] = <<>>
        BY <1>2, <3>1
      <4>2. Len(<<>>) = 0
        OBVIOUS
      <4>3. q = 0
        BY <4>1, <4>2 DEF q
      <4> QED BY <2>1, <3>1, <4>3
    <3>2. CASE k # 1
      <4>1. s = 1 /\ o = q + 1 /\ 1 \in 1..Len(piece[k])
        BY <2>1, <2>2, <2>3, <3>2
      <4>2. piece[k][1] = "&"
        <5>1. 1 \in 1..Len(sep(k)) /\ sep(k)[1] = "&"
          BY <3>2, <4>1 DEF s, sep
        <5> QED BY <1>7, <5>1
      <4>3. body[o] = "&"
        BY <2>2, <4>1, <4>2
      <4>4. ~Begins(body, "&", o) /\ o \in 1..Len(body) /\ o - 1 = q
        BY <1>4, <2>2, <2>3, <2>4, <4>1, <4>3 DEF Begins
      <4> QED BY <1>3, <4>3, <4>4
    <3> QED BY <3>1, <3>2
  <2>7. o + Len(p) = Len(body) \/ body[o + Len(p) + 1] = "&"
    <3>1. CASE k = N
      BY <2>4, <3>1 DEF body
    <3>2. CASE k # N
      <4>1. k + 1 \in 1..N /\ (k + 1) - 1 = k /\ k + 1 # 1 /\ k + 1 \in Nat
        BY <1>1, <3>2
      <4>2. /\ Len(piece[k + 1]) \in Nat
            /\ \A j \in 1..Len(piece[k + 1]) : body[Len(B[k]) + j] = piece[k + 1][j]
        BY <1>8, <4>1 DEF Added
      <4>3. 1 \in 1..Len(piece[k + 1]) /\ piece[k + 1][1] = "&"
        <5>1. 1 \in 1..Len(sep(k + 1)) /\ sep(k + 1)[1] = "&" /\ Len(sep(k + 1)) = 1
          BY <1>5, <4>1 DEF sep
        <5>2. Len(piece[k + 1]) = Len(sep(k + 1)) + Len(Pair(fields[k + 1]))
              /\ Len(Pair(fields[k + 1])) \in Nat
          BY <1>7, <4>1 DEF Added
        <5>3. piece[k + 1][1] = sep(k + 1)[1]
          BY <1>7, <4>1, <5>1
        <5> QED BY <5>1, <5>2, <5>3
      <4> QED BY <2>4, <4>2, <4>3
    <3> QED BY <3>1, <3>2
  <2>8. fields[k] \in [key : Keys, val : Seq(Chars)]
    BY <1>1
  <2> HIDE DEF o
  <2>9. D[o + Len(p)] = Assign(D[o], fields[k])
    BY <1>4, <1>6, <2>4, <2>5, <2>6, <2>7, <2>8, ParsePair DEF p
  <2> QED BY <2>4, <2>6, <2>9 DEF q
<1>10. D[Len(B[0])] = ParseStart
  <2>1. Len(<<>>) = 0
    OBVIOUS
  <2> QED BY <1>2, <1>3, <2>1
<1> QED BY <1>9, <1>10 DEF N

-----------------------------------------------------------------------------
(* A form that arrives whole *)

(* A text cut twice is cut to the shorter length.                            *)
LEMMA CutTwice ==
    ASSUME NEW S, NEW t \in Seq(S), NEW n \in Nat, NEW m \in 0..n
    PROVE  Cut(Cut(t, n), m) = Cut(t, m)
<1>1. Len(t) \in Nat /\ m \in Nat
  BY LenProperties
<1>2. CASE n >= Len(t)
  <2>1. Cut(t, n) = t
    BY <1>2, CutMore
  <2> QED BY <2>1
<1>3. CASE n < Len(t)
  <2> DEFINE c == SubSeq(t, 1, n)
  <2>1. Cut(t, n) = c /\ Cut(t, m) = SubSeq(t, 1, m)
    BY <1>1, <1>3 DEF Cut
  <2>2. c \in Seq(S) /\ Len(c) = n
    <3>1. \A i \in 1..n : t[i] \in S
      BY <1>1, <1>3, ElementOfSeq
    <3>2. c \in Seq(S) /\ Len(c) = IF 1 <= n THEN n - 1 + 1 ELSE 0
      BY <3>1, SubSeqProperties
    <3> QED BY <3>2
  <2>3. Cut(c, m) = SubSeq(c, 1, m)
    BY <1>1, <2>2 DEF Cut
  <2>4. SubSeq(c, 1, m) = SubSeq(t, 1, m)
    <3>1. CASE m = 0
      <4>1. SubSeq(c, 1, 0) = <<>> /\ SubSeq(t, 1, 0) = <<>>
        BY SubSeqEmpty
      <4> QED BY <3>1, <4>1
    <3>2. CASE m # 0
      <4>1. /\ 1 \in 1..Len(t) /\ n \in 1..Len(t) /\ 1 \in 1..n - 1 + 1 /\ m \in 1..n - 1 + 1
            /\ 1 + 1 - 1 = 1 /\ 1 + m - 1 = m
        BY <1>1, <1>3, <3>2
      <4>2. SubSeq(SubSeq(t, 1, n), 1, m) = SubSeq(t, 1 + 1 - 1, 1 + m - 1)
        BY <4>1, SubSeqOfSubSeq
      <4> QED BY <4>1, <4>2
    <3> QED BY <3>1, <3>2
  <2> QED BY <2>1, <2>3, <2>4
<1> QED BY <1>1, <1>2, <1>3

(* What the first k fields of a form ask of a key.                           *)
Outcome(fields, k, key, room, old) ==
    LET named == {i \in 1..k : fields[i].key = key}
    IN  IF named = {} THEN old ELSE Cut(fields[Max(named)].val, room)

(* One more field decides its own key and leaves the others as they were.    *)
LEMMA OutcomeNext ==
    ASSUME NEW fields, NEW k \in Nat, NEW key, NEW room, NEW old
    PROVE  /\ Outcome(fields, 0, key, room, old) = old
           /\ Outcome(fields, k + 1, key, room, old) =
                IF fields[k + 1].key = key THEN Cut(fields[k + 1].val, room)
                ELSE Outcome(fields, k, key, room, old)
<1> DEFINE Named(i) == {j \in 1..i : fields[j].key = key}
<1>1. Named(0) = {}
  OBVIOUS
<1>2. CASE fields[k + 1].key = key
  <2> DEFINE T == Named(k + 1)
  <2>1. k + 1 \in T /\ \A j \in T : k + 1 >= j
    BY <1>2
  <2>2. \A x \in T : (\A y \in T : x >= y) => x = k + 1
    BY <2>1
  <2>3. Max(T) = k + 1 /\ T # {}
    <3> HIDE DEF T
    <3> QED BY <2>1, <2>2 DEF Max
  <2> QED BY <1>1, <1>2, <2>3 DEF Outcome
<1>3. CASE fields[k + 1].key # key
  <2>1. Named(k + 1) = Named(k)
    BY <1>3
  <2> QED BY <1>1, <1>3, <2>1 DEF Outcome
<1> QED BY <1>2, <1>3

(* What is saved under an id is what GetParam answers, of that id alone.     *)
LEMMA GetParamSet ==
    ASSUME NEW page \in ParamLists, NEW key, NEW v \in Seq(Chars), NEW id
    PROVE  GetParam(SetParamValue(page, key, v), id) =
             IF id = key /\ Matches(page, id) # {} THEN Cut(v, FieldLen - 1)
             ELSE GetParam(page, id)
<1> DEFINE new == SetParamValue(page, key, v)
<1>1. /\ new \in ParamLists /\ Len(new) = Len(page)
      /\ \A i \in 1..Len(page) : new[i].id = page[i].id
  BY SetParamValueKeeps
<1>2. \A i : Matches(new, i) = Matches(page, i)
  BY <1>1 DEF Matches
<1>3. CASE Matches(page, key) = {}
  BY <1>3 DEF SetParamValue
<1>4. CASE Matches(page, key) # {} /\ Matches(page, id) = {}
  BY <1>2, <1>4 DEF GetParam
<1>5. CASE Matches(page, key) # {} /\ Matches(page, id) # {}
  <2> DEFINE m == Min(Matches(page, key))
             i == Min(Matches(page, id))
             text == Cut(v, FieldLen - 1)
  <2>1. m \in 1..Len(page) /\ page[m].id = key /\ i \in 1..Len(page) /\ page[i].id = id
    BY <1>5, GetParamFinds
  <2>2. new = [page EXCEPT ![m].val = text]
    BY <1>5 DEF SetParamValue
  <2>3. GetParam(new, id) = new[i].val /\ GetParam(page, id) = page[i].val
    BY <1>2, <1>5 DEF GetParam
  <2>4. page \in [1..Len(page) -> [id : StoredTexts, val : StoredTexts]]
    BY LenProperties DEF ParamLists
  <2>5. id = key => i = m
    OBVIOUS
  <2> HIDE DEF m, i, text, new
  <2>6. CASE id = key
    <3>1. new[i].val = text
      BY <2>1, <2>2, <2>4, <2>5, <2>6
    <3> QED BY <1>5, <2>3, <2>6, <3>1 DEF new, text
  <2>7. CASE id # key
    <3>1. i # m
      BY <2>1, <2>7
    <3>2. new[i].val = page[i].val
      BY <2>1, <2>2, <2>4, <3>1
    <3> QED BY <2>3, <2>7, <3>2 DEF new
  <2> QED BY <2>6, <2>7
<1> QED BY <1>3, <1>4, <1>5

(* What ParsePost has when k fields of a form are applied.                   *)
AfterFields(fields, k, st) ==
    /\ st \in Parsed
    /\ st.sta.ssid =
         [text |-> Outcome(fields, k, SsidKey, SsidLen - 1, sta.ssid.text), last |-> sta.ssid.last]
    /\ st.sta.password =
         [text |-> Outcome(fields, k, PasswordKey, PasswordLen - 1, sta.password.text),
          last |-> sta.password.last]
    /\ \A id \in Ids :
         GetParam(st.params, id) =
           IF GetParam(params, id) = Unknown THEN Unknown
           ELSE Outcome(fields, k, id, FieldLen - 1, GetParam(params, id))

(* One more field is applied on top of those before it.                      *)
LEMMA AssignStep ==
    ASSUME params \in ParamLists, NEW fields \in SentForms, NEW k \in Nat, k < Len(fields),
           NEW st, AfterFields(fields, k, st)
    PROVE  AfterFields(fields, k + 1, Assign(st, fields[k + 1]))
<1> DEFINE f == fields[k + 1]
           val == Cut(f.val, FieldLen - 1)
           new == Assign(st, f)
<1>1. f \in [key : Keys, val : Seq(Chars)]
  <2>1. k + 1 \in 1..Len(fields)
    BY LenProperties DEF SentForms
  <2> QED BY <2>1, ElementOfSeq DEF SentForms
<1>2. new \in Parsed /\ st \in Parsed
  <2>1. Pair(f) \in Seq(Chars) /\ ApplyPair(st, Pair(f)) = new
    BY <1>1, PairType, PairAssigns
  <2> QED BY <2>1, ApplyPairType DEF AfterFields
<1>3. val \in Seq(Chars) /\ SsidKey # PasswordKey
  <2>1. f.val \in Seq(Chars) /\ FieldLen - 1 \in Nat
    BY <1>1, FormAssumption
  <2>2. val \in Seq(Chars)
    BY <2>1, CutBounds, Bounded
  <2>3. SsidKey[1] # PasswordKey[1]
    BY DEF SsidKey, PasswordKey
  <2> QED BY <2>2, <2>3
<1>4. Cut(val, SsidLen - 1) = Cut(f.val, SsidLen - 1)
      /\ Cut(val, PasswordLen - 1) = Cut(f.val, PasswordLen - 1)
  <2>1. /\ f.val \in Seq(Chars) /\ FieldLen - 1 \in Nat
        /\ SsidLen - 1 \in 0..FieldLen - 1 /\ PasswordLen - 1 \in 0..FieldLen - 1
    BY <1>1, FormAssumption
  <2> QED BY <2>1, CutTwice
<1>5. \A key, room, old :
        Outcome(fields, k + 1, key, room, old) =
          IF f.key = key THEN Cut(f.val, room) ELSE Outcome(fields, k, key, room, old)
  BY OutcomeNext
<1>6. /\ st.sta.ssid =
           [text |-> Outcome(fields, k, SsidKey, SsidLen - 1, sta.ssid.text), last |-> sta.ssid.last]
      /\ st.sta.password =
           [text |-> Outcome(fields, k, PasswordKey, PasswordLen - 1, sta.password.text),
            last |-> sta.password.last]
      /\ \A id \in Ids :
           GetParam(st.params, id) =
             IF GetParam(params, id) = Unknown THEN Unknown
             ELSE Outcome(fields, k, id, FieldLen - 1, GetParam(params, id))
  BY DEF AfterFields
<1>7. /\ st = [sta |-> st.sta, ssid_set |-> st.ssid_set, params |-> st.params]
      /\ st.sta \in StaConfigs /\ SameFields(params, st.params)
      /\ st.sta = [ssid |-> st.sta.ssid, password |-> st.sta.password]
  BY <1>2 DEF Parsed, StaConfigs
<1>8. SsidKey \notin Ids /\ PasswordKey \notin Ids
  BY FormAssumption
<1> HIDE DEF f, val
<1>9. new = IF f.key = SsidKey
            THEN [st EXCEPT !.sta.ssid = Stored(val, @, SsidLen), !.ssid_set = val # <<>>]
            ELSE IF f.key = PasswordKey
            THEN [st EXCEPT !.sta.password = Stored(val, @, PasswordLen)]
            ELSE [st EXCEPT !.params = SetParamValue(@, f.key, val)]
  BY DEF Assign, val
<1> HIDE DEF new
<1>10. CASE f.key = SsidKey
  <2>1. /\ new.sta.ssid = Stored(val, st.sta.ssid, SsidLen)
        /\ new.sta.password = st.sta.password /\ new.params = st.params
    BY <1>7, <1>9, <1>10
  <2>2. new.sta.ssid = [text |-> Cut(f.val, SsidLen - 1), last |-> sta.ssid.last]
    BY <1>4, <1>6, <2>1 DEF Stored
  <2>3. \A id \in Ids : f.key # id
    BY <1>8, <1>10
  <2> QED BY <1>2, <1>3, <1>5, <1>6, <1>10, <2>1, <2>2, <2>3 DEF AfterFields, new, f
<1>11. CASE f.key = PasswordKey
  <2>1. /\ new.sta.password = Stored(val, st.sta.password, PasswordLen)
        /\ new.sta.ssid = st.sta.ssid /\ new.params = st.params
    BY <1>3, <1>7, <1>9, <1>11
  <2>2. new.sta.password = [text |-> Cut(f.val, PasswordLen - 1), last |-> sta.password.last]
    BY <1>4, <1>6, <2>1 DEF Stored
  <2>3. \A id \in Ids : f.key # id
    BY <1>8, <1>11
  <2> QED BY <1>2, <1>3, <1>5, <1>6, <1>11, <2>1, <2>2, <2>3 DEF AfterFields, new, f
<1>12. CASE f.key # SsidKey /\ f.key # PasswordKey
  <2>1. new.sta = st.sta /\ new.params = SetParamValue(st.params, f.key, val)
    BY <1>7, <1>9, <1>12
  <2>2. ASSUME NEW id \in Ids
        PROVE  GetParam(new.params, id) =
                 IF GetParam(params, id) = Unknown THEN Unknown
                 ELSE Outcome(fields, k + 1, id, FieldLen - 1, GetParam(params, id))
    <3>1. st.params \in ParamLists
      BY <1>7 DEF SameFields
    <3>2. GetParam(new.params, id) =
            IF id = f.key /\ Matches(st.params, id) # {} THEN Cut(val, FieldLen - 1)
            ELSE GetParam(st.params, id)
      BY <1>3, <2>1, <3>1, GetParamSet
    <3>3. GetParam(params, id) = Unknown <=> Matches(st.params, id) = {}
      BY <1>7, SameMatches, GetParamFinds
    <3>4. GetParam(st.params, id) = Unknown <=> Matches(st.params, id) = {}
      BY <3>1, GetParamFinds
    <3>5. Cut(val, FieldLen - 1) = Cut(f.val, FieldLen - 1)
      <4>1. f.val \in Seq(Chars) /\ FieldLen - 1 \in Nat /\ FieldLen - 1 \in 0..FieldLen - 1
        BY <1>1, FormAssumption DEF f
      <4> QED BY <4>1, CutTwice DEF val
    <3> QED BY <1>5, <1>6, <3>2, <3>3, <3>4, <3>5
  <2> QED BY <1>2, <1>5, <1>6, <1>12, <2>1, <2>2 DEF AfterFields, new, f
<1> QED BY <1>10, <1>11, <1>12

(* Of a form that arrives whole ParsePost makes what its fields ask for.     *)
LEMMA WholeParsed ==
    ASSUME params \in ParamLists, sta \in StaConfigs, NEW fields \in SentForms
    PROVE  AfterFields(fields, Len(fields), ParsePost(Encoded(fields)))
<1> DEFINE N == Len(fields)
<1>1. PICK B \in EncodeRuns(fields) : Encoded(fields) = B[N]
  BY EncodedRun
<1>2. PICK D \in ParseRuns(Encoded(fields)) : ParsePost(Encoded(fields)) = D[Len(Encoded(fields))]
  BY EncodedType, ParsePostRun
<1>3. /\ D[Len(B[0])] = ParseStart
      /\ \A k \in 1..N : D[Len(B[k])] = Assign(D[Len(B[k - 1])], fields[k])
  BY <1>1, <1>2, ParseEncoded
<1> DEFINE T == {k \in Nat : k <= N => AfterFields(fields, k, D[Len(B[k])])}
<1>4. N \in Nat
  BY LenProperties DEF SentForms
<1>5. AfterFields(fields, 0, ParseStart)
  <2>1. ParseStart \in Parsed
    BY DEF ParseStart, Parsed, SameFields
  <2>2. \A key, room, old : Outcome(fields, 0, key, room, old) = old
    <3>1. 0 \in Nat
      OBVIOUS
    <3> QED BY <3>1, OutcomeNext
  <2>3. /\ sta.ssid = [text |-> sta.ssid.text, last |-> sta.ssid.last]
        /\ sta.password = [text |-> sta.password.text, last |-> sta.password.last]
    BY DEF StaConfigs
  <2>4. ParseStart.sta = sta /\ ParseStart.params = params
    BY DEF ParseStart
  <2> QED BY <2>1, <2>2, <2>3, <2>4 DEF AfterFields
<1> HIDE DEF N
<1>6. ASSUME NEW k \in Nat, k + 1 <= N, AfterFields(fields, k, D[Len(B[k])])
      PROVE  AfterFields(fields, k + 1, D[Len(B[k + 1])])
  <2>1. k + 1 \in 1..N /\ (k + 1) - 1 = k /\ k < Len(fields)
    BY <1>4, <1>6 DEF N
  <2>2. D[Len(B[k + 1])] = Assign(D[Len(B[k])], fields[k + 1])
    BY <1>3, <2>1
  <2> QED BY <1>6, <2>1, <2>2, AssignStep
<1>7. N \in T
  <2>1. 0 \in T
    BY <1>3, <1>5
  <2>2. \A k \in Nat : k \in T => k + 1 \in T
    BY <1>4, <1>6
  <2> HIDE DEF T
  <2> QED BY <1>4, <2>1, <2>2, SetInduction
<1> QED BY <1>1, <1>2, <1>4, <1>7 DEF N

(* A field whose last byte no text has filled holds the text and no more.    *)
LEMMA HeldText ==
    ASSUME NEW n \in Nat, NEW f, f.text \in BoundedSeq(Chars, n), f.last = <<>>, NEW size
    PROVE  Held(f, size) = f.text
<1>1. f.text \in Seq(Chars)
  BY Bounded
<1>2. f.text \o <<>> = f.text
  BY <1>1, ConcatEmptySeq
<1> QED BY <1>2 DEF Held

(* "OK" to a whole form: the handler kept what ParsePost made of its fields. *)
LEMMA HandlerParses ==
    ASSUME TypeOK, NEW path, NEW fields \in SentForms, Handler(path, fields),
           reply' = "OK", whole'
    PROVE  /\ before' = [params |-> params, sta |-> sta] /\ form' = fields
           /\ \E st : AfterFields(fields, Len(fields), st) /\ params' = st.params /\ sta' = st.sta
<1> DEFINE st == ParsePost(Encoded(fields))
<1>1. before' = [params |-> params, sta |-> sta] /\ form' = fields
  BY DEF Handler
<1>2. params' = st.params /\ sta' = st.sta
  <2>1. PICK n \in RecvSizes(Encoded(fields)) : Accept(path, fields, n)
    BY DEF Handler, Refuse
  <2>2. SubSeq(Encoded(fields), 1, n) = Encoded(fields)
    <3>1. n = Len(Encoded(fields))
      BY <2>1 DEF Accept
    <3> QED BY <3>1, EncodedType, SubSeqFull
  <2> QED BY <2>1, <2>2 DEF Accept
<1>3. AfterFields(fields, Len(fields), st)
  BY WholeParsed DEF TypeOK
<1> HIDE DEF st
<1> QED BY <1>1, <1>2, <1>3

(* A step that answers "OK" to a whole form applies it.                      *)
LEMMA HandlerApplies ==
    ASSUME TypeOK, NEW path, NEW fields \in SentForms, Handler(path, fields)
    PROVE  WholeFormApplied'
<1> SUFFICES ASSUME reply' = "OK", whole' PROVE AppliedAsAsked'
  BY DEF WholeFormApplied
<1> DEFINE N == Len(fields)
<1>1. before' = [params |-> params, sta |-> sta] /\ form' = fields
  BY HandlerParses
<1>2. PICK st : AfterFields(fields, N, st) /\ params' = st.params /\ sta' = st.sta
  BY HandlerParses
<1>3. params \in ParamLists /\ sta \in StaConfigs
  BY DEF TypeOK
<1>5. /\ sta'.ssid = [text |-> Outcome(fields, N, SsidKey, SsidLen - 1, sta.ssid.text),
                        last |-> sta.ssid.last]
      /\ sta'.password =
           [text |-> Outcome(fields, N, PasswordKey, PasswordLen - 1, sta.password.text),
            last |-> sta.password.last]
      /\ \A id \in Ids :
           GetParam(params', id) =
             IF GetParam(params, id) = Unknown THEN Unknown
             ELSE Outcome(fields, N, id, FieldLen - 1, GetParam(params, id))
      /\ sta' \in StaConfigs
  BY <1>2 DEF AfterFields, Parsed
<1>6. SsidLen - 1 \in Nat /\ PasswordLen - 1 \in Nat
  BY FormAssumption
<1>7. ASSUME sta.ssid.last = <<>>
      PROVE  Held(sta'.ssid, SsidLen) = Outcome(fields, N, SsidKey, SsidLen - 1, Held(sta.ssid, SsidLen))
  <2>1. sta'.ssid.text \in BoundedSeq(Chars, SsidLen - 1) /\ sta'.ssid.last = <<>>
        /\ sta.ssid.text \in BoundedSeq(Chars, SsidLen - 1)
    BY <1>3, <1>5, <1>7 DEF StaConfigs
  <2>2. Held(sta'.ssid, SsidLen) = sta'.ssid.text /\ Held(sta.ssid, SsidLen) = sta.ssid.text
    BY <1>6, <1>7, <2>1, HeldText
  <2> QED BY <1>5, <2>2
<1>8. ASSUME sta.password.last = <<>>
      PROVE  Held(sta'.password, PasswordLen) =
               Outcome(fields, N, PasswordKey, PasswordLen - 1, Held(sta.password, PasswordLen))
  <2>1. sta'.password.text \in BoundedSeq(Chars, PasswordLen - 1) /\ sta'.password.last = <<>>
        /\ sta.password.text \in BoundedSeq(Chars, PasswordLen - 1)
    BY <1>3, <1>5, <1>8 DEF StaConfigs
  <2>2. Held(sta'.password, PasswordLen) = sta'.password.text
        /\ Held(sta.password, PasswordLen) = sta.password.text
    BY <1>6, <1>8, <2>1, HeldText
  <2> QED BY <1>5, <2>2
<1> QED BY <1>1, <1>5, <1>7, <1>8 DEF AppliedAsAsked, Asked, Outcome

(* Whatever the user's texts contain, however many fields share a key and    *)
(* whatever forms came before: a form that arrives whole is applied exactly  *)
(* as it was sent, each value cut to what its destination holds.             *)
THEOREM FormApplied == Spec => []WholeFormApplied
<1>1. Init => WholeFormApplied
  BY DEF Init, WholeFormApplied
<1>2. TypeOK /\ WholeFormApplied /\ [Next]_vars => WholeFormApplied'
  <2> SUFFICES ASSUME TypeOK, WholeFormApplied, [Next]_vars PROVE WholeFormApplied'
    OBVIOUS
  <2>1. ASSUME NEW id \in Ids, NEW v \in Texts, AddParam(id, v) PROVE WholeFormApplied'
    BY <2>1 DEF AddParam, WholeFormApplied
  <2>2. ASSUME NEW fields \in Forms, HandlerWifiPost(fields) \/ HandlerConfigSavePost(fields)
        PROVE  WholeFormApplied'
    BY <2>2, FormsAreSent, HandlerApplies DEF HandlerWifiPost, HandlerConfigSavePost
  <2>3. CASE UNCHANGED vars
    BY <2>3 DEF vars, WholeFormApplied, AppliedAsAsked, Asked
  <2> QED BY <2>1, <2>2, <2>3 DEF Next
<1> QED BY <1>1, <1>2, FormTypes, PTL DEF Spec
=============================================================================
