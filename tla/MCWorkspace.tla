------------------------------ MODULE MCWorkspace ------------------------------
EXTENDS WorkspaceProperties, TLC

CONSTANTS p1, p2, a1, aComment, b1, b2, junk

\* The first file imports the second, so that the second is evaluated before
\* its text is read.
MCImports == [f \in Files |-> IF f = 1 THEN {2} ELSE {}]
\* a1 and aComment declare A and differ in a comment, b1 and b2 declare B and
\* differ in shape, junk does not compile.
MCDeclares == [t \in {a1, aComment, b1, b2} |-> IF t \in {a1, aComment} THEN "A" ELSE "B"]
MCShape == [t \in {a1, aComment, b1, b2} |-> IF t = b2 THEN "wide" ELSE "narrow"]
MCFirst == <<a1, b1>>
\* Of A a comment, a mistake or nothing; of B a wider version, a mistake or a second A.
MCDrafts == <<{aComment, junk, Absent}, {b2, junk, a1}>>
MCPair == <<"A", "B">>
MCPatterns == {{1, 2}, {2}}
MCSymmetry == Permutations(Procs)
=============================================================================
