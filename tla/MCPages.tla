------------------------------- MODULE MCPages --------------------------------
(* A text and a checkbox, redefined as a select and a number; texts and names *)
(* with characters that some conversion on the way treats specially.         *)
EXTENDS Pages

TwoIds == {<<"p">>, <<"q">>}
SomeTexts == {<<"1">>, <<"\\", "<", "/">>}
OldTexts == {<<"y">>}
AllChars == {"s", "w", "p", "q", "x", "y", "o", "n", "&", "=", "%", "+", "1", "2", "3", "5", "6", "0", "A", "B", "C", "D",
             "E", "F", "?", " ", "\"", "\\", "'", "<", ">", "/", "LF", "CR"}
KindOf == (<<"p">> :> "str") @@ (<<"q">> :> "bool")
TwoOptions == <<<<"1">>, <<"2">>>>
SomeFloats == {<<>>, <<"1">>}
Redefined == {[key |-> <<"p">>, kind |-> "sel", default |-> <<"2">>],
              [key |-> <<"q">>, kind |-> "int", default |-> <<"1">>]}
SomeNames == {<<"\"", " ", "&">>, <<"x", "\\", "'">>, <<"x", "LF">>}
OneValue == {<<"q">> :> <<"1">>}
=============================================================================
