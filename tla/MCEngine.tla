------------------------------ MODULE MCEngine -------------------------------
(* Small instances of Engine: the constants' values for TLC. *)
EXTENDS Engine

\* Prompts play no part in what handlers do.
MCPromptLens == {1}

\* No token at all, the first token the last, and a character in two tokens.
MCMaxNews == {0, 1, 2}

\* A word of more characters than a token of the real runner has.
MCMockWord == <<"mo", "ck">>
=============================================================================
