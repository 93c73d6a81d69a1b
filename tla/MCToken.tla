------------------------------- MODULE MCToken -------------------------------
(***************************************************************************)
(* Strings for TLC: every sequence of one to three of the segments below,  *)
(* some of four, and the NULL string.  The limits are small enough that    *)
(* some headers and some tokens are exactly at, or one beyond, a limit.    *)
(***************************************************************************)
EXTENDS JwxToken

Seg(len, id) ==
  [len |-> len, b64 |-> "ok", raw |-> len, json |-> "object", alg |-> Absent,
   kid |-> Absent, id |-> id]

Headers ==
  {[Seg(4, "hdr") EXCEPT !.alg = "ES256", !.kid = "k1"],
   [Seg(5, "long") EXCEPT !.alg = "none", !.kid = Empty],
   Seg(6, "too long"), [Seg(0, "empty") EXCEPT !.json = "bad"],
   [Seg(4, "no b64") EXCEPT !.b64 = "bad"],
   [Seg(4, "text") EXCEPT !.json = "bad"],
   [Seg(4, "array") EXCEPT !.json = "other"]}

Payloads ==
  {Seg(3, "claims"), Seg(4, "claims+1"), [Seg(0, "empty") EXCEPT !.json = "bad"],
   [Seg(3, "no b64") EXCEPT !.b64 = "bad"], [Seg(3, "text") EXCEPT !.json = "bad"],
   [Seg(3, "array") EXCEPT !.json = "other"]}

Signatures ==
  {[Seg(n, "sig") EXCEPT !.json = "bad"] : n \in {0, 3, 4}}
  \cup {[Seg(2, "padding only") EXCEPT !.raw = 0, !.json = "bad"],
        [Seg(3, "no b64") EXCEPT !.b64 = "bad", !.json = "bad"]}

AllTokens ==
  {NullToken} \cup {<<h>> : h \in Headers}
  \cup {<<h, p>> : h \in Headers, p \in Payloads}
  \cup {<<h, p, s>> : h \in Headers, p \in Payloads, s \in Signatures}
  \cup {<<h, p, s, s>> : h \in Headers, p \in Payloads, s \in Signatures}

=============================================================================
