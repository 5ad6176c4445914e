----------------------------- MODULE MCFormPost ------------------------------
(* Two ids; texts of up to two characters, two of which end a token.         *)
EXTENDS FormPost

TwoIds == {<<"p">>, <<"q">>}
SomeTexts == {<<>>, <<"x">>, <<"=", "&">>}
OldTexts == {<<"y">>, <<"y", "y", "y">>}
AllChars == {"s", "w", "p", "q", "x", "y", "&", "=", "%", "+", "2", "3", "5", "6", "0", "A", "B", "C", "D", "E", "F", "?", " ",
             "\"", "\\", "<", ">", "/", "LF", "CR"}
=============================================================================
