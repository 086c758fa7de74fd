-------------------------- MODULE MCGrammarLoading --------------------------
\* GrammarLoading with two workers and up to two loads at a time.
EXTENDS GrammarLoading
=============================================================================
