----------------------------- MODULE MCClaims -----------------------------
(***************************************************************************)
(* Payloads for TLC: one with every type of node at the top and two levels *)
(* of objects below, one that is an array, and one that is empty.          *)
(***************************************************************************)
EXTENDS JwxClaims

Node(type, value) == [type |-> type, value |-> value]

Full ==
  LET nodes == {<<<<>>, Node("object", 0)>>, <<<<"sub">>, Node("string", 0)>>,
                <<<<"exp">>, Node("integer", 7)>>, <<<<"iat">>, Node("real", 2)>>,
                <<<<"ok">>, Node("boolean", 1)>>, <<<<"aud">>, Node("array", 0)>>,
                <<<<"a">>, Node("object", 0)>>, <<<<"a", "sub">>, Node("integer", 3)>>,
                <<<<"a", "a">>, Node("object", 0)>>,
                <<<<"a", "a", "exp">>, Node("string", 0)>>}
  IN [path \in {n[1] : n \in nodes} |->
        (CHOOSE n \in nodes : n[1] = path)[2]]

AllPayloads == {Full, [path \in {<<>>} |-> Node("array", 0)],
                [path \in {<<>>} |-> Node("object", 0)]}

=============================================================================
