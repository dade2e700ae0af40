----------------------------- MODULE MCSampling -----------------------------
(* A small instance of Sampling: the constants' values for TLC. *)
EXTENDS Sampling

\* Out of range, none, below SAMPLING_EPS, just at it, the maximum, beyond.
MCTemperatures == {-1, 0, 1, 2, 9, 10}

\* Unset, a typo, both disabled spellings, greedy, a cut, over the vocabulary.
MCTopKs == {None, -2, -1, 0, 1, 2, 4}

MCMaxTokens == {-1, 1}

\* Two values for three tokens: ties at, above and below every cut.
MCVocabulary == 1 .. 3
MCScores == {0, 1}
=============================================================================
