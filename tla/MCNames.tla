------------------------------- MODULE MCNames -------------------------------
(* Names over a folder of the share with one file in it, beside one whose name is
   longer and begins alike. *)
EXTENDS Names, TLC

MCPaths == {<<"photos">>, <<"photostudio">>, <<"photos", "a">>, <<"photostudio", "a">>}
MCLonger == {<<"photos", "photostudio">>}
Tree == <<"photos">> :> "dir" @@ <<"photostudio">> :> "dir" @@ <<"photos", "a">> :> "file"
        @@ <<"photostudio", "a">> :> "none"
Flat == <<"photos">> :> "file" @@ <<"photostudio">> :> "file" @@ <<"photos", "a">> :> "none"
        @@ <<"photostudio", "a">> :> "none"
MCThings == {Tree, Flat}
=============================================================================
