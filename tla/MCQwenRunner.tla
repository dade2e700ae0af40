---------------------------- MODULE MCQwenRunner ----------------------------
(* A small instance of QwenRunner: the constants' values for TLC. *)
EXTENDS QwenRunner

\* Ragged by one column and by two.
MCPromptLens == {1, 3}

\* Two tokens end a row while a longer one decodes on; three decode twice
\* against the same cache.
MCMaxNews == {2, 3}
=============================================================================
