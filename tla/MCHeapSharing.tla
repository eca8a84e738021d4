--------------------------- MODULE MCHeapSharing ---------------------------
(* Instances of HeapSharing for TLC. *)
EXTENDS HeapSharing, TLC

CONSTANTS m, a, b

NoCalls == {}

\* main forks a; or a and b; or a, which forks b.
OneChild == {<<m, a>>}
TwoChildren == {<<m, a>>, <<m, b>>}
Chain == {<<m, a>>, <<a, b>>}

\* Values that fit, and one larger than a heap.
Cells == {<<m, 2>>, <<a, 2>>}
LargeCells == {<<m, 1>>, <<a, 4>>}

\* b, whom nobody sends a message, works in its heap without the lock; so does m.
BareOnB == {<<b, "peek">>, <<b, "cdata">>, <<b, "force">>}
BareOnMain == {<<m, "peek">>, <<m, "cdata">>, <<m, "force">>}

\* Creator and child send to each other; everybody sends to main.
SmallBothWays == {<<m, a, "small">>, <<a, m, "small">>}
BigBothWays == {<<m, a, "big">>, <<a, m, "big">>}
MainToChild == {<<m, a, "small">>}
ToMain == {<<a, m, "small">>, <<b, m, "cdata">>, <<m, a, "small">>}
GrandchildToMain == {<<b, m, "small">>}

\* How often each VM calls.
Calls21 == [p \in VM |-> IF p = m THEN 2 ELSE 1]
Calls22 == [p \in VM |-> 2]
=============================================================================
