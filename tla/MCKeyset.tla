------------------------------ MODULE MCKeyset ------------------------------
(***************************************************************************)
(* Documents for TLC: every sequence of up to three of a dozen entries     *)
(* that each go another way through the parser, and documents the parser   *)
(* does not get to the entries of.  NXE_JWX_MAX_JWKS_KEYS is 3.            *)
(***************************************************************************)
EXTENDS JwxKeyset

MkJwk(kty, id) ==
  [node |-> "object", kty |-> kty, use |-> "sig", kid |-> id, alg |-> Absent,
   crv |-> Absent, id |-> id, bits |-> 0, len |-> 0, fields |-> "ok"]
Rsa(id, bits) == [MkJwk("RSA", id) EXCEPT !.bits = bits, !.alg = "RS256"]
Ec(id, crv, len) == [MkJwk("EC", id) EXCEPT !.crv = crv, !.len = len]
Okp(id, crv, len) == [MkJwk("OKP", id) EXCEPT !.crv = crv, !.len = len]

Jwks ==
  {Rsa("r2048", 2048), Rsa("r2047", 2047), Rsa("r16385", 16385),
   [Ec("p256", "P-256", 32) EXCEPT !.kid = Absent],
   Ec("short", "P-256", 31), [Ec("bad64", "P-521", 66) EXCEPT !.fields = "malformed"],
   [Ec("off", "secp256k1", 32) EXCEPT !.fields = "unbuildable"],
   Okp("ed", "Ed25519", 32), Ec("bp", "brainpoolP256r1", 32),
   MkJwk("oct", "h"), [MkJwk("oct", "henc") EXCEPT !.use = "enc"],
   [Rsa("nokid", 2048) EXCEPT !.kid = Empty],
   [MkJwk(Absent, "str") EXCEPT !.node = "other"]}

MkPem(base, group, id, bits) ==
  [node |-> "string", kid |-> id, base |-> base, group |-> group, id |-> id,
   bits |-> bits]
Pems ==
  {MkPem("RSA", Empty, "r2048", 2048), MkPem("RSA-PSS", Empty, "pss", 2048),
   MkPem("EC", "prime256v1", "p256", 0), MkPem("EC", "brainpoolP256r1", "bp", 0),
   MkPem("ED25519", Empty, "ed", 0), MkPem("DSA", Empty, "dsa", 0),
   MkPem("bad", Empty, "typo", 0),
   [MkPem("RSA", Empty, "nokid", 2048) EXCEPT !.kid = Empty],
   [MkPem("RSA", Empty, "num", 2048) EXCEPT !.node = "other"]}

Seqs(S, n) == UNION {[1..m -> S] : m \in 0..n}
Distinct(q) == \A a, b \in DOMAIN q : q[a].id = q[b].id => a = b

MkDoc(form, shape, entries) ==
  [form |-> form, shape |-> shape, entries |-> entries]
Unread ==
  {MkDoc("jwks", sh, <<>>) : sh \in {"bad_size", "not_json", "not_object", "no_keys"}}
  \cup {MkDoc("keyval", sh, <<>>) : sh \in {"bad_size", "not_json", "not_object"}}
  \cup {MkDoc("jwks", "ok", [n \in 1..4 |-> Rsa("r2048", 2048)])}

AllDocs ==
  Unread
  \cup {MkDoc("jwks", "ok", q) : q \in Seqs(Jwks, 3)}
  \cup {MkDoc("keyval", "ok", q) : q \in {x \in Seqs(Pems, 3) : Distinct(x)}}

KeyvalRsa ==
  {MkDoc("keyval", "ok", q) :
     q \in {x \in Seqs({MkPem("RSA", Empty, "r1024", 1024),
                        MkPem("RSA", Empty, "r2048", 2048),
                        MkPem("bad", Empty, "typo", 0)}, 3) : Distinct(x)}}

=============================================================================
