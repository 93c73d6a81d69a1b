------------------------------ MODULE MCIssue ------------------------------
(***************************************************************************)
(* Orders for TLC, under the limits of the source.  A kid of 6110 quoted   *)
(* octets makes a header segment of exactly NXE_JWX_MAX_JWT_HEADER; claims *)
(* of 12195 octets make an ES256 token, of 12003 an RS256 token by a key   *)
(* of 2048 bits, of exactly NXE_JWX_MAX_JWT_SIZE.                          *)
(***************************************************************************)
EXTENDS JwxIssue

Kid(v, len, quoted) == [v |-> v, len |-> len, quoted |-> quoted]
NoKid == Kid(Empty, 0, 0)
Kids == {NoKid, Kid("k1", 2, 4), Kid("not UTF-8", 2, 0),
         Kid("exact", 6108, 6110), Kid("escaped", 6108, 6111)}

Claims(len, json) == [id |-> "claims", len |-> len, json |-> json]
ClaimSet ==
  {Claims(n, "object") : n \in {2, 12003, 12004, 12195, 12196, 16384, 16385}}
  \cup {Claims(2, "other"), Claims(2, "bad")}

PrivateKey(base, group, id, bits) ==
  [base |-> base, group |-> group, id |-> id, bits |-> bits, len |-> 32]
PrivateKeys ==
  {PrivateKey("RSA", Empty, "r1", 2048), PrivateKey("RSA", Empty, "r2", 2047),
   PrivateKey("RSA-PSS", Empty, "p", 4096),
   PrivateKey("EC", "prime256v1", "e256", 256),
   PrivateKey("EC", "secp384r1", "e384", 384),
   PrivateKey("EC", "secp521r1", "e521", 521),
   PrivateKey("EC", "secp256k1", "ek", 256),
   PrivateKey("ED25519", Empty, "ed", 256), PrivateKey("ED448", Empty, "ed4", 456),
   PrivateKey("bad", Empty, "h", 0)}

Names == {"RS256", "RS384", "RS512", "PS256", "PS384", "PS512", "ES256",
          "ES384", "ES512", "ES256K", "EdDSA", "HS256", "HS384", "HS512",
          "none", "HS1"}

MkOrder(alg, kid, claims, key) ==
  [args |-> "ok", alg |-> alg, kid |-> kid, claims |-> claims, key |-> key]

\* Every algorithm with every key, and the lengths with a few of them.
IssueOrders ==
  {MkOrder(a, k, Claims(2, "object"), key) :
     a \in Names, k \in {NoKid, Kid("k1", 2, 4)}, key \in PrivateKeys}
  \cup {MkOrder(a, k, c, key) :
          a \in {"RS256", "ES256", "ES256K", "HS256", "none"}, k \in Kids,
          c \in ClaimSet,
          key \in {PrivateKey("RSA", Empty, "r1", 2048),
                    PrivateKey("EC", "prime256v1", "e256", 256),
                    PrivateKey("bad", Empty, "h", 0)}}
  \cup {[MkOrder("RS256", NoKid, Claims(2, "object"), key) EXCEPT !.args = "null"] :
          key \in PrivateKeys}

=============================================================================
