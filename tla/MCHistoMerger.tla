---------------------------- MODULE MCHistoMerger ---------------------------
EXTENDS HistoMerger

CONSTANTS h1, h2, text

MCNames      == {h1, h2, text}
MCHistograms == {h1, h2}

\* A task before it publishes anything, a task, one with other objects in an
\* array of the same capacity, one with an object more than fits in it, and one
\* with a histogram where the second has none.
MCTaskArrays == {<< >>, <<h1, text>>, <<h2>>, <<h1, text, h2>>, <<text, h2>>}
=============================================================================
