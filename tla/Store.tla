------------------------------- MODULE Store -------------------------------
(***************************************************************************)
(* What the heap of a VM promises its program: objects that hold values    *)
(* and other objects and keep their identity.  Nothing moves, what a root  *)
(* reaches stays, and what no root reaches is not there any more.          *)
(***************************************************************************)
EXTENDS Integers, Sequences

CONSTANTS Id,       \* the identities of objects
          Null,     \* the value that is no object
          Root,     \* the places where the program keeps values
          Kinds,    \* the types of objects, with their numbers of fields
          Written,  \* the types that can be written to
          Copying   \* the types made of what others contain; they hold none

VARIABLES root,     \* Root -> Id \cup {Null}
          object    \* the objects that are reached: [ty, args]

vars == <<root, object>>

Fields(o, i) == {o[i].args[k] : k \in DOMAIN o[i].args} \ {Null}
Reached(r, o) ==
    LET after[n \in Id \cup {0}] ==
          IF n = 0 THEN {r[x] : x \in Root} \ {Null}
          ELSE LET S == after[n - 1] IN S \cup UNION {Fields(o, i) : i \in S}
    IN  after[CHOOSE n \in Id : \A m \in Id : m <= n]

Becomes(r, o) ==
    /\ root' = r
    /\ object' = [i \in Reached(r, o) |-> o[i]]

Init == /\ root = [x \in Root |-> Null]
        /\ object = [i \in {} |-> <<>>]

\* from gives the roots the fields are filled from.
New(x, kind, from) ==
    \E i \in Id \ DOMAIN object :
       LET count == IF kind[1] \in Copying THEN 0 ELSE kind[2]
           new == [ty |-> kind[1], args |-> [k \in 1 .. count |-> root[from[k]]]]
       IN  Becomes([root EXCEPT ![x] = i],
                   [j \in DOMAIN object \cup {i} |-> IF j = i THEN new ELSE object[j]])

Write(x, k, y) ==
    /\ root[x] # Null
    /\ object[root[x]].ty \in Written
    /\ k \in DOMAIN object[root[x]].args
    /\ Becomes(root, [object EXCEPT ![root[x]].args[k] = root[y]])

Read(x, y, k) ==
    /\ root[y] # Null
    /\ k \in DOMAIN object[root[y]].args
    /\ Becomes([root EXCEPT ![x] = object[root[y]].args[k]], object)

Drop(x) == Becomes([root EXCEPT ![x] = Null], object)

Next == \E x \in Root :
    \/ Drop(x)
    \/ \E kind \in Kinds : \E from \in [1 .. kind[2] -> Root] : New(x, kind, from)
    \/ \E y \in Root, k \in 1 .. 2 : Write(x, k, y) \/ Read(x, y, k)

Spec == Init /\ [][Next]_vars
=============================================================================
