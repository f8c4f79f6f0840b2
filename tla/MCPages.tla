------------------------------- MODULE MCPages -------------------------------
(* Small values for the constants of Frontend. *)
EXTENDS Frontend

Files == [p1 |-> {<<"d", "b">>, <<"a">>}, p2 |-> {<<"c">>}]

DiskFile == {<<"x">>}

Order == <<"t1", "t2">>

Commits == [t1 |-> "c1", t2 |-> "c2"]

Targets == {<<"a">>, <<"d", "b">>, <<"d", "e", "c">>}
Own     == {<<"d", "o">>, <<"o">>}
Typed   == {<<>>, <<"z">>, <<"d", "">>}

\* The owner works in the pages, the other user is any client of the API.
Clients == [page |-> "o", api |-> "m"]
=============================================================================
