------------------------------- MODULE JwxAlg -------------------------------
(***************************************************************************)
(* The algorithm policy of nxe_jwx_jws.c: the algorithm table, the lookup, *)
(* the compatibility test between a key and an algorithm and the           *)
(* single-key verification every entry point ends in.  A constant module.  *)
(*                                                                         *)
(* An ngx_str_t is a string, Empty if its length is zero.  Key material    *)
(* is [base, group, id]: the EVP_PKEY base id, its EC group name and an    *)
(* identity (two handles of the same key share it).  A signature is        *)
(* [by, family, digest, msg, len]: which material made it, under which     *)
(* scheme, over which message, and its length in octets.  A forged,        *)
(* truncated or corrupted signature is one made by no key of the keyset.   *)
(***************************************************************************)
EXTENDS Naturals

CONSTANT HaveHmac    \* built with NXE_JWX_HAVE_HMAC

ASSUME HaveHmacAssumption == HaveHmac \in BOOLEAN

Empty == "-"    \* a zero-length ngx_str_t, or a NULL char pointer

Families == {"RSA", "RSA_PSS", "ECDSA", "EDDSA", "HMAC"}

Row(name, family, digest, curve, coord) ==
  [name |-> name, family |-> family, digest |-> digest,
   ec_curve |-> curve, ec_coord_len |-> coord]

PublicKeyAlgs ==
  {Row("RS256", "RSA", "SHA256", Empty, 0),
   Row("RS384", "RSA", "SHA384", Empty, 0),
   Row("RS512", "RSA", "SHA512", Empty, 0),
   Row("PS256", "RSA_PSS", "SHA256", Empty, 0),
   Row("PS384", "RSA_PSS", "SHA384", Empty, 0),
   Row("PS512", "RSA_PSS", "SHA512", Empty, 0),
   Row("ES256", "ECDSA", "SHA256", "prime256v1", 32),
   Row("ES384", "ECDSA", "SHA384", "secp384r1", 48),
   Row("ES512", "ECDSA", "SHA512", "secp521r1", 66),
   Row("ES256K", "ECDSA", "SHA256", "secp256k1", 32),
   Row("EdDSA", "EDDSA", Empty, Empty, 0)}

HmacAlgs ==
  {Row("HS256", "HMAC", "SHA256", Empty, 0),
   Row("HS384", "HMAC", "SHA384", Empty, 0),
   Row("HS512", "HMAC", "SHA512", Empty, 0)}

Algs == PublicKeyAlgs \cup (IF HaveHmac THEN HmacAlgs ELSE {})

NoAlg == Row(Empty, Empty, Empty, Empty, 0)    \* the NULL a failed lookup returns

(***************************************************************************)
(* A slot of the keyset as the verifier reads it.  mat is the pkey handle, *)
(* or the hmac_secret of an oct key.  ossl is how OpenSSL serves this      *)
(* handle during the call: "ok", or a failure before the verification      *)
(* proper ("setup": no digest, no context, no padding, no DER buffer) or   *)
(* inside it ("verify": EVP_DigestVerify returns a negative value).        *)
(***************************************************************************)
Ktys == {"RSA", "EC", "OKP", "oct"}
Bases == {"RSA", "RSA-PSS", "EC", "ED25519", "ED448", "oct"}
Material == [base : Bases, group : STRING, id : STRING]
Key == [kty : Ktys, kid : STRING, alg : STRING, thumbprint : STRING,
        mat : Material, ossl : {"ok", "setup", "verify"}]
Signature == [by : STRING, family : Families, digest : STRING,
              msg : STRING, len : Nat]

lookup_alg(name) ==
  IF \E a \in Algs : a.name = name
  THEN CHOOSE a \in Algs : a.name = name
  ELSE NoAlg

ec_curve_matches(k, curve) == k.mat.group = curve

\* Mistake: the algorithm a JWK is pinned to is not looked at.
key_compatible_unpinned(k, a) ==
  \/ a.family \in {"RSA", "RSA_PSS"} /\ k.kty = "RSA"
  \/ a.family = "ECDSA" /\ k.kty = "EC" /\ ec_curve_matches(k, a.ec_curve)
  \/ a.family = "EDDSA" /\ k.kty = "OKP"
                        /\ k.mat.base \in {"ED25519", "ED448"}
  \/ a.family = "HMAC" /\ k.kty = "oct"

\* May key k be tried under a?  The key's own "alg" pins it first.
key_compatible(k, a) ==
  /\ k.alg # Empty => k.alg = a.name
  /\ \/ a.family \in {"RSA", "RSA_PSS"} /\ k.kty = "RSA"
     \/ a.family = "ECDSA" /\ k.kty = "EC" /\ ec_curve_matches(k, a.ec_curve)
     \/ a.family = "EDDSA" /\ k.kty = "OKP"
                           /\ k.mat.base \in {"ED25519", "ED448"}
     \/ a.family = "HMAC" /\ k.kty = "oct"

(***************************************************************************)
(* What OpenSSL verifies.  evp_verify sets a padding only for the PS*      *)
(* algorithms, and an EVP_PKEY of type RSA-PSS has PSS as its default: for *)
(* such a key RS256 verifies a PSS signature.                              *)
(***************************************************************************)
SchemeFamily(a, mat) ==
  IF a.family = "RSA" /\ mat.base = "RSA-PSS" THEN "RSA_PSS" ELSE a.family

Genuine(mat, a, msg, sig) ==
  /\ sig.by = mat.id
  /\ sig.family = SchemeFamily(a, mat)
  /\ sig.digest = a.digest
  /\ sig.msg = msg

\* The R || S length ecdsa_raw_to_der insists on before any conversion.
raw_length_ok(a, sig) == a.family = "ECDSA" => sig.len = 2 * a.ec_coord_len

\* 1 verified, 0 rejected, -1 internal error: written "yes", "no", "error".
verify_with_key(k, a, msg, sig) ==
  IF ~key_compatible(k, a) \/ ~raw_length_ok(a, sig) THEN "no"
  ELSE IF k.ossl = "setup" THEN "error"
  ELSE IF k.ossl = "ok" /\ Genuine(k.mat, a, msg, sig) THEN "yes"
  ELSE "no"

\* The algorithm of a key when the caller of the raw API names none: the
\* first row of the table that fits an OKP or EC key, none for RSA and oct.
alg_from_key(k) ==
  LET fit == {a \in Algs :
                \/ k.kty = "OKP" /\ a.family = "EDDSA"
                \/ k.kty = "EC" /\ a.family = "ECDSA"
                                /\ ec_curve_matches(k, a.ec_curve)}
  IN IF fit = {} THEN NoAlg ELSE CHOOSE a \in fit : TRUE

=============================================================================
