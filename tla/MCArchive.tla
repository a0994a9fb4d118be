----------------------------- MODULE MCArchive -----------------------------
EXTENDS Archive

\* evaluation.py in file order, and a session that starts with a nested test.
MCSessions == {EvaluationSession, Nested(1, 2) \o Flat(2) \o Nested(2, 1)}
=============================================================================
