--------------------------- MODULE MCExpressSchema ---------------------------
(* Three families of EXPRESS files for ExpressSchema.                      *)
EXTENDS ExpressSchema

Type(n, b, rs, l) ==
  [kind |-> "type", name |-> n, scan |-> n, lex |-> TRUE, base |-> b, refs |-> rs, list |-> l]
Ent(n, ss, sup, as) ==
  [kind |-> "entity", name |-> n, scan |-> n, lex |-> TRUE, subs |-> ss, super |-> sup, attrs |-> as]
Attr(b, r, l) == [base |-> b, ref |-> r, list |-> l]
Error(l) == [kind |-> "error", name |-> None, scan |-> None, lex |-> l]

\* Seen by the scan under another name or not at all; not seen by the grammar.
ScannedAs(d, n) == [d EXCEPT !.scan = n]
Comment(d) == [d EXCEPT !.lex = FALSE]

\* Three entities, each with any supertype and up to two subtypes.
Lists(x, y) == {<<>>, <<x>>, <<y>>, <<x, y>>, <<y, x>>, <<x, x>>}
Others(n, x, y) == {Ent(n, ss, sup, <<>>) : ss \in Lists(x, y), sup \in {None, x, y}}
Hierarchies == {<<a, b, c>> : a \in Others("A", "B", "C"), b \in Others("B", "C", "A"),
                              c \in Others("C", "A", "B")}

\* Two declared types and the attributes of two entities, in three orders.
S == {Type("S", "REAL", <<>>, FALSE), Type("S", "REAL", <<>>, TRUE), Type("S", "ENUM", <<>>, FALSE),
      Type("S", "DERIVED", <<"T">>, FALSE), Type("S", "DERIVED", <<"T">>, TRUE),
      Type("S", "SELECT", <<"T", "A">>, FALSE), Type("S", "DERIVED", <<"A">>, FALSE)}
T == {Type("T", "STRING", <<>>, FALSE), Type("T", "STRING", <<>>, TRUE),
      Type("T", "ENUM", <<>>, FALSE), Type("T", "DERIVED", <<"S">>, FALSE)}
Attrs == {Attr("REAL", None, TRUE), Attr("ENUM", None, FALSE), Attr("SELECT", None, FALSE),
          Attr("DERIVED", "B", FALSE)} \cup
         {Attr("DERIVED", r, l) : r \in {"S", "T"}, l \in BOOLEAN}
Typed ==
  UNION {{<<s, t, a, b>>, <<a, s, t, b>>, <<a, b, t, s>>} :
    s \in S, t \in T,
    a \in {Ent("A", <<"B">>, None, <<x>>) : x \in Attrs},
    b \in {Ent("B", <<>>, "A", <<x, y>>) : x \in Attrs, y \in {Attr("DERIVED", "S", FALSE)}}
     \cup {Ent("B", <<>>, "A", <<x>>) : x \in Attrs}}

\* Texts that the scan and the grammar read differently, or that are wrong.
Items == {Ent("A", <<"B">>, None, <<Attr("DERIVED", "T", FALSE)>>),
          Ent("A", <<"B", "D">>, None, <<>>), Ent("B", <<>>, "A", <<>>), Ent("B", <<>>, "D", <<>>),
          Comment(Ent("A", <<>>, None, <<>>)), Comment(Ent("C", <<>>, None, <<>>)),
          ScannedAs(Ent("B", <<>>, "A", <<>>), None),
          Type("S", "REAL", <<>>, FALSE), Comment(Type("S", "REAL", <<>>, FALSE)),
          ScannedAs(Type("S", "ENUM", <<>>, TRUE), "S="), ScannedAs(Type("S", "STRING", <<>>, FALSE), None),
          Type("T", "DERIVED", <<"D">>, FALSE), Error(TRUE), Error(FALSE)}
Root == Ent("A", <<"B">>, None, <<Attr("DERIVED", "S", FALSE)>>)
Texts == UNION {{t, <<Root>> \o t} : t \in [1 .. 3 -> Items]}

FilesMC == Hierarchies \cup Typed \cup Texts
TypedFiles == Typed

\* One well-formed and legal schema.
OneSchema == {<<Type("S", "REAL", <<>>, FALSE), Root, Ent("B", <<>>, "A", <<>>)>>}

=============================================================================
