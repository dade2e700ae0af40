----------------------------- MODULE MCRunLoop -----------------------------
(* Small instances of RunLoop: the constants' values for TLC. *)
EXTENDS RunLoop

\* A prompt that shares a batch and one larger than the whole token budget.
MCPromptLens == {1, 5}

\* Generate nothing, stop at the first token, and decode against the cache.
MCMaxNews == {0, 1, 3}
=============================================================================
