------------------------------ MODULE MCGateway ------------------------------
(* Small instances of Gateway: the constants' values for TLC. *)
EXTENDS Gateway

MCPromptLens == {1}

\* Long enough for a swap or a death of the loop to fall between two ticks.
MCMaxNews == {2}

\* One tick per request is enough for a stream that is never answered.
MCMaxNewsShort == {1}

\* A word of more characters than a token of the real runner has.
MCMockWord == <<"mo", "ck">>
=============================================================================
