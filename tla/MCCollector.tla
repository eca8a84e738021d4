---------------------------- MODULE MCCollector ----------------------------
(***************************************************************************)
(* Instances of Collector.                                                  *)
(***************************************************************************)
EXTENDS Collector

TwoRoots == 1 .. 2
Everything == {<<"CON", 2>>, <<"REF", 1>>, <<"FLOAT", 0>>, <<"CDATA", 0>>}
Bigs == {<<"CON", 2>>, <<"BIGINT", 0>>}
Texts == {<<"STRING", 0>>, <<"STRING", 2>>}
Faulty == {<<"ARRAY", 0>>, <<"ARRAY", 2>>, <<"REF", 1>>, <<"CON", 2>>, <<"FLOAT", 0>>}

\* What tells states apart: of a cell that nothing reaches only the room it
\* takes, and of the three heaps only their roles.
From(v) == IF v = NULL THEN NULL ELSE <<(v[1] + 3 - now) % 3, v[2]>>
Pointers(vs) == [k \in DOMAIN vs |-> From(vs[k])]
Roles ==
    LET live == Live
        CellIn(s, i) == IF <<s, i>> \in live
                        THEN [heap[s][i] EXCEPT !.args = Pointers(@)]
                        ELSE Size(heap[s][i])
    IN  <<[r \in 0 .. 2 |-> LET s == (r + now) % 3 IN [i \in DOMAIN heap[s] |-> CellIn(s, i)]],
          end, size, Pointers(root),
          IF call = <<>> THEN call ELSE [call EXCEPT !.held = Pointers(@)],
          pc, back, next, marked, fate>>
=============================================================================
