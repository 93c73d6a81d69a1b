------------------------------ MODULE MCVerify ------------------------------
(***************************************************************************)
(* Requests for TLC.  SelectRequests: few algorithms, keysets of up to     *)
(* three keys in every combination of labels, pins, duplicates and OpenSSL *)
(* failures.  AlgRequests: every algorithm against every kind of key and   *)
(* every kind of signature, keysets of up to two.  CallRequests: a handful *)
(* that meets every path, for several calls in a row.                      *)
(***************************************************************************)
EXTENDS JwxVerify

Mat(base, group, id) == [base |-> base, group |-> group, id |-> id]

\* The thumbprint is a function of the material: "tp-" and its identity.
Tp(id) == CASE id = "r1" -> "tp-r1" [] id = "r2" -> "tp-r2"
            [] id = "p" -> "tp-p" [] id = "e256" -> "tp-e256"
            [] id = "e521" -> "tp-e521" [] id = "ek" -> "tp-ek"
            [] id = "ed" -> "tp-ed" [] id = "ed4" -> "tp-ed4"
            [] id = "h" -> "tp-h" [] OTHER -> Empty

MkKey(kty, kid, alg, mat, ossl) ==
  [kty |-> kty, kid |-> kid, alg |-> alg, thumbprint |-> Tp(mat.id),
   mat |-> mat, ossl |-> ossl]

R1 == Mat("RSA", Empty, "r1")
R2 == Mat("RSA", Empty, "r2")
E256 == Mat("EC", "prime256v1", "e256")
E521 == Mat("EC", "secp521r1", "e521")
Ek == Mat("EC", "secp256k1", "ek")
Ed == Mat("ED25519", Empty, "ed")
Ed4 == Mat("ED448", Empty, "ed4")
H == Mat("oct", Empty, "h")
P == Mat("RSA-PSS", Empty, "p")

Sig(by, family, digest, len) ==
  [by |-> by, family |-> family, digest |-> digest, msg |-> "m", len |-> len]
NoSig == Sig("nobody", "RSA", Empty, 0)

KeySeqs(S, n) == UNION {[1..m -> S] : m \in 0..n}

Req(op, alg, id, sig, keys) ==
  [op |-> op, args |-> "ok", alg |-> alg, id |-> id, msg |-> "m",
   sig |-> sig, keys |-> keys]
Reqs(ops, algs, ids, sigs, keyseqs) ==
  [op : ops, args : {"ok"}, alg : algs, id : ids, msg : {"m"}, sig : sigs,
   keys : keyseqs]
Ops == {"jws", "raw", "by_kid"}
NullReq(op) == [Req(op, "RS256", "a", NoSig, <<>>) EXCEPT !.args = "null"]
NullReqs == {NullReq(op) : op \in Ops}

-----------------------------------------------------------------------------
\* Same kid twice, same material twice, unlabelled, pinned, failing keys.
SelectKeys ==
  {MkKey("RSA", Empty, Empty, R1, "ok"), MkKey("RSA", "a", Empty, R1, "ok"),
   MkKey("RSA", "a", Empty, R2, "ok"), MkKey("RSA", "b", "RS256", R1, "ok"),
   MkKey("RSA", "a", "PS256", R1, "ok"), MkKey("RSA", "a", Empty, R1, "setup"),
   MkKey("RSA", Empty, Empty, R1, "verify"), MkKey("EC", "b", Empty, E256, "setup")}

SelectRequests ==
  NullReqs \cup
  Reqs(Ops, {Empty, "none", "RS256", "ES256"}, {Empty, "a", "c", "tp-r1"},
       {Sig("r1", "RSA", "SHA256", 256), Sig("e256", "ECDSA", "SHA256", 64), NoSig},
       KeySeqs(SelectKeys, 3))

-----------------------------------------------------------------------------
AlgKeys ==
  {MkKey("RSA", "a", Empty, R1, "ok"), MkKey("RSA", "a", "RS384", R1, "ok"),
   MkKey("EC", "a", Empty, E256, "ok"), MkKey("EC", "a", "ES512", E521, "ok"),
   MkKey("EC", "a", Empty, Ek, "ok"), MkKey("OKP", "a", Empty, Ed, "ok"),
   MkKey("OKP", "a", "EdDSA", Ed4, "ok"), MkKey("RSA", "a", Empty, P, "ok")}
OctKeys == {MkKey("oct", "a", Empty, H, "ok")}

AlgNames == {"RS256", "RS384", "RS512", "PS256", "PS384", "PS512", "ES256",
             "ES384", "ES512", "ES256K", "EdDSA", "HS256", "HS384", "HS512"}

\* Genuine signatures of each kind, and the ones a confused verifier would
\* take: an HMAC keyed with a public key, a P-256 signature over another
\* digest, an ECDSA signature in DER (71 octets).
AlgSigs ==
  {Sig("r1", f, d, 256) : f \in {"RSA", "RSA_PSS"}, d \in {"SHA256", "SHA384"}}
  \cup {Sig("e256", "ECDSA", "SHA256", 64), Sig("e256", "ECDSA", "SHA512", 64),
        Sig("e256", "ECDSA", "SHA256", 71), Sig("e521", "ECDSA", "SHA512", 132),
        Sig("ek", "ECDSA", "SHA256", 64), Sig("ed", "EDDSA", Empty, 64),
        Sig("ed4", "EDDSA", Empty, 114), Sig("h", "HMAC", "SHA256", 32),
        Sig("r1", "HMAC", "SHA256", 32), Sig("e256", "HMAC", "SHA256", 32),
        Sig("p", "RSA_PSS", "SHA256", 256)}

AlgRequests ==
  Reqs(Ops, AlgNames \cup {Empty, "HS1"}, {"a", "tp-e256"}, AlgSigs,
       KeySeqs(AlgKeys \cup OctKeys, 2))

OneCallRequests == SelectRequests \cup AlgRequests

-----------------------------------------------------------------------------
CallRequests ==
  NullReqs \cup
  {Req(op, alg, id, sig, <<MkKey("RSA", "b", Empty, R1, "ok"),
                           MkKey("RSA", "a", Empty, R2, "setup"),
                           MkKey("RSA", "a", Empty, R1, "ok"),
                           MkKey("RSA", Empty, Empty, R2, "ok")>>) :
     op \in Ops, alg \in {"none", "RS256"},
     id \in {Empty, "a", "c", "tp-r1", "tp-none"},
     sig \in {Sig("r1", "RSA", "SHA256", 256), Sig("r2", "RSA", "SHA256", 256),
              NoSig}}

-----------------------------------------------------------------------------
\* No OpenSSL failure: the policy alone.  One key published under two pins.
DocRequests ==
  {Req(op, "PS256", id, Sig("r1", "RSA_PSS", "SHA256", 256), keys) :
     op \in Ops, id \in {"a", "tp-r1"},
     keys \in KeySeqs({MkKey("RSA", "a", "RS256", R1, "ok"),
                       MkKey("RSA", "a", Empty, R2, "ok"),
                       MkKey("RSA", "b", "PS256", R1, "ok"),
                       MkKey("RSA", Empty, Empty, R1, "ok")}, 2)}

-----------------------------------------------------------------------------
\* A keyset read from {"kid": "PEM"} may hold an RSA-PSS key, whose kty is RSA.
PssRequests ==
  {Req(op, alg, "a", sig, keys) :
     op \in {"jws", "by_kid"}, alg \in {"RS256", "PS256"},
     sig \in {Sig("r1", "RSA", "SHA256", 256), Sig("p", "RSA_PSS", "SHA256", 256)},
     keys \in KeySeqs({MkKey("RSA", "a", Empty, R1, "ok"),
                       MkKey("RSA", "a", Empty, P, "ok")}, 2)}

-----------------------------------------------------------------------------
\* ECDSA signatures as R || S, in DER, and cut short, no OpenSSL failure.
MalformedRequests ==
  {Req("jws", "ES256", id, Sig("e256", "ECDSA", "SHA256", len), keys) :
     id \in {Empty, "a"}, len \in {63, 64, 71},
     keys \in KeySeqs({MkKey("EC", "a", Empty, E256, "ok"),
                       MkKey("EC", "b", "ES256", E256, "ok"),
                       MkKey("EC", Empty, Empty, E521, "ok"),
                       MkKey("RSA", "a", Empty, R1, "ok")}, 2)}

=============================================================================
