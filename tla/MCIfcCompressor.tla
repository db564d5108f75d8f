-------------------------- MODULE MCIfcCompressor ---------------------------
(* Small files for TLC.                                                    *)
EXTENDS IfcCompressor

CONSTANTS N, Nested

Token(kind, val, opens, closes) ==
  [kind |-> kind, val |-> val, opens |-> opens, closes |-> closes]

\* Points at (0), (0.4) and (1.0), and lists of one or two references; in nested
\* lists the first reference has two brackets before it.
Leaves(numbers, types) ==
  [id : {0}, type : types, content : {<<Token("num", v, 1, 1)>> : v \in numbers}]
Singles(n) == {<<Token("ref", a, 0, 0)>> : a \in 1 .. n}
Pairs(n) == {<<Token("ref", a, 1, 0), Token("ref", b, 0, 1)>> : a, b \in 1 .. n}
NestedPairs(n) == {<<Token("ref", a, 2, 0), Token("ref", b, 0, 2)>> : a, b \in 1 .. n}
Compound(contents) == [id : {0}, type : {"IFCPOLYLOOP"}, content : contents]

\* Files of n instances, numbered upwards or downwards.
FilesOf(n, bodies) ==
  {[instances |-> [k \in 1 .. n |-> [f[k] EXCEPT !.id = IF up THEN k ELSE n + 1 - k]],
    ended |-> TRUE] : f \in [1 .. n -> bodies], up \in BOOLEAN}

Broad == Leaves({0, 4, 10}, {Point, "IFCREAL"}) \cup Compound(Singles(N) \cup Pairs(N))
Deep == Leaves({0, 10}, {Point}) \cup Compound(Singles(N + 1))
Listed == Leaves({0, 10}, {Point}) \cup Compound(Singles(N) \cup NestedPairs(N))

Files == IF Nested THEN FilesOf(N, Listed)
         ELSE FilesOf(N, Broad) \cup FilesOf(N + 1, Deep)
              \cup {[instances |-> <<>>, ended |-> FALSE]}

=============================================================================
