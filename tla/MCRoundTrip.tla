---------------------------- MODULE MCRoundTrip ----------------------------
(***************************************************************************)
(* Orders and documents for TLC.  Eight private keys under the algorithms  *)
(* they sign, with and without a kid, against documents that publish one   *)
(* key or two: as a JWK under every label and pin, or as a PEM.  And every *)
(* order of MCIssue, against one of these documents.                       *)
(***************************************************************************)
EXTENDS JwxRoundTrip, MCIssue

R1 == PrivateKey("RSA", Empty, "r1", 2048)
Small == PrivateKey("RSA", Empty, "small", 2047)
Pss == PrivateKey("RSA-PSS", Empty, "pss", 2048)
E256 == PrivateKey("EC", "prime256v1", "e256", 256)
E521 == PrivateKey("EC", "secp521r1", "e521", 521)
Ed4 == PrivateKey("ED448", Empty, "ed4", 456)
Secret == PrivateKey("bad", Empty, "h", 0)

Signing == {R1, Small, Pss} \X {"RS256", "PS256"}
           \cup {<<E256, "ES256">>, <<E521, "ES512">>, <<Ed4, "EdDSA">>,
                 <<Secret, "HS256">>, <<R1, "HS256">>, <<Pss, "HS256">>}

KidA == Kid("a", 1, 3)
Long == {Kid("exact", 6108, 6110), Kid("exact", 6108, 6111)}
TripOrders ==
  {MkOrder(s[2], k, Claims(2, "object"), s[1]) : s \in Signing, k \in {NoKid, KidA}}
  \cup {MkOrder("ES256", k, Claims(n, "object"), E256) :
          k \in {NoKid, KidA} \cup Long, n \in {6023, 6024, 12195, 12196}}
AllOrders == TripOrders \cup IssueOrders

Labels == {Absent, "a", "b"}
MkJwk(kty, key, crv, len) ==
  {[node |-> "object", kty |-> kty, use |-> "sig", kid |-> label, alg |-> pin,
    crv |-> crv, id |-> key.id, bits |-> key.bits, len |-> len,
    fields |-> "ok"] : label \in Labels, pin \in {Absent, "RS256", "ES256"}}
MkPem(key) ==
  {[node |-> "string", kid |-> label, base |-> key.base, group |-> key.group,
    id |-> key.id, bits |-> key.bits] : label \in {"a", "b"}}

Jwks == UNION {MkJwk("RSA", k, Absent, 0) : k \in {R1, Small, Pss}}
        \cup MkJwk("EC", E256, "P-256", 32)
        \cup MkJwk("oct", Secret, Absent, 0) \cup UNION {MkJwk("oct", k, Absent, 0) : k \in {R1, Pss}}
        \cup MkJwk("EC", E521, "P-521", 66)
        \cup MkJwk("OKP", Ed4, "Ed448", 57)
Pems == UNION {MkPem(k) : k \in {R1, Small, Pss, E256, E521, Ed4}}

MkDoc(form, entries) == [form |-> form, shape |-> "ok", entries |-> entries]
Few == {e \in Jwks : e.id \in {"r1", "e256"} /\ e.kty # "oct" /\ e.kid # "b"
                     /\ e.alg # "ES256"}
AllDocs ==
  {MkDoc("jwks", <<e>>) : e \in Jwks}
  \cup {MkDoc("jwks", <<d, e>>) : d \in Few, e \in Few}
  \cup {MkDoc("jwks", <<d, [e EXCEPT !.fields = "malformed"]>>) : d \in Few, e \in Few}
  \cup {MkDoc("keyval", <<e>>) : e \in Pems}
  \cup {MkDoc("keyval", <<d, e>>) : d \in MkPem(E256), e \in MkPem(Pss)}

\* Bound: the orders of MCIssue meet one document, with one PEM.
OnePem == {MkDoc("keyval", <<e>>) : e \in {p \in MkPem(R1) : p.kid = "a"}}
MCInit == Init /\ (order \in TripOrders \/ doc \in OnePem)
MCSpec == MCInit /\ [][Next]_vars

=============================================================================
