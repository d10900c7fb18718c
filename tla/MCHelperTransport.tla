------------------------- MODULE MCHelperTransport -------------------------
(* Two requests to one guest: two mutations, or two of the others.           *)
EXTENDS HelperTransport
ManyRequests == {<<"update", "update">>, <<"scan", "cleanup">>, <<"health", "ping">>,
                 <<"plan", "ping">>}
UpdateAndHealth == {<<"update", "health">>}
=============================================================================
