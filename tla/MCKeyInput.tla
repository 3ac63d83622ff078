----------------------------- MODULE MCKeyInput -----------------------------
(***************************************************************************)
(* A character and one key of every kind of sequence, as the VT100 mode of *)
(* the terminal sends them.                                                *)
(***************************************************************************)
EXTENDS KeyInput, TLC

SimpleKeys ==
    "a" :> <<"a">> @@ "ESC" :> <<"ESC">> @@ "UP" :> <<"ESC", "[", "A">>
    @@ "DELETE" :> <<"ESC", "[", "3", "~">> @@ "F1" :> <<"ESC", "O", "P">>

AllKeys ==
    SimpleKeys @@ "[" :> <<"[">> @@ "~" :> <<"~">>
    @@ "F5" :> <<"ESC", "[", "1", "5", "~">> @@ "F10" :> <<"ESC", "[", "2", "1", "~">>
    @@ "F12" :> <<"ESC", "[", "2", "4", "~">>

=============================================================================
