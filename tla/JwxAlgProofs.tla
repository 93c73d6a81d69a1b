---------------------------- MODULE JwxAlgProofs ----------------------------
(***************************************************************************)
(* The algorithm table and the lookup in it (nxe_jwx_jws.c), as facts for  *)
(* the proofs about the verifier and the encoder.                          *)
(***************************************************************************)
EXTENDS JwxAlg, TLAPS

\* The rows of nxe_jwx_algs[], with or without the HS* ones: each has a name,
\* none is called "none".
LEMMA AlgNames ==
  \A a \in Algs : a.name # Empty /\ a.name # "none"
<1>1. \A a \in PublicKeyAlgs : a.name # Empty /\ a.name # "none"
  BY DEF PublicKeyAlgs, Row, Empty
<1>2. \A a \in HmacAlgs : a.name # Empty /\ a.name # "none"
  BY DEF HmacAlgs, Row, Empty
<1>3. QED
  BY <1>1, <1>2 DEF Algs

\* nxe_jwx_lookup_alg returns the row of that name, or NULL for no other name.
LEMMA LookupFinds ==
  ASSUME NEW n
  PROVE  \/ lookup_alg(n) \in Algs /\ lookup_alg(n).name = n
         \/ lookup_alg(n) = NoAlg /\ ~\E a \in Algs : a.name = n
PROOF BY DEF lookup_alg

\* nxe_jwx_algs[] has no row equal to the terminating one.
LEMMA NoAlgIsNoRow == NoAlg \notin Algs
<1>1. NoAlg.name = Empty
  BY DEF NoAlg, Row
<1>2. QED
  BY <1>1, AlgNames

\* The names of the rows that are always there, and of those of HMAC.
PublicNames == {"RS256", "RS384", "RS512", "PS256", "PS384", "PS512", "ES256",
                "ES384", "ES512", "ES256K", "EdDSA"}
HmacNames == {"HS256", "HS384", "HS512"}

\* A row by its name: its family, and what an ECDSA or HMAC row adds to it.
LEMMA TableRows ==
  \A a \in Algs :
    \/ a.name \in {"RS256", "RS384", "RS512"} /\ a.family = "RSA"
    \/ a.name \in {"PS256", "PS384", "PS512"} /\ a.family = "RSA_PSS"
    \/ a.name = "EdDSA" /\ a.family = "EDDSA"
    \/ /\ a.family = "ECDSA"
       /\ \/ a.name = "ES256" /\ a.ec_curve = "prime256v1" /\ a.ec_coord_len = 32
          \/ a.name = "ES384" /\ a.ec_curve = "secp384r1" /\ a.ec_coord_len = 48
          \/ a.name = "ES512" /\ a.ec_curve = "secp521r1" /\ a.ec_coord_len = 66
          \/ a.name = "ES256K" /\ a.ec_curve = "secp256k1" /\ a.ec_coord_len = 32
    \/ /\ HaveHmac /\ a.family = "HMAC"
       /\ \/ a.name = "HS256" /\ a.digest = "SHA256"
          \/ a.name = "HS384" /\ a.digest = "SHA384"
          \/ a.name = "HS512" /\ a.digest = "SHA512"
<1>1. \A a \in PublicKeyAlgs :
        \/ a.name \in {"RS256", "RS384", "RS512"} /\ a.family = "RSA"
        \/ a.name \in {"PS256", "PS384", "PS512"} /\ a.family = "RSA_PSS"
        \/ a.name = "EdDSA" /\ a.family = "EDDSA"
        \/ /\ a.family = "ECDSA"
           /\ \/ a.name = "ES256" /\ a.ec_curve = "prime256v1" /\ a.ec_coord_len = 32
              \/ a.name = "ES384" /\ a.ec_curve = "secp384r1" /\ a.ec_coord_len = 48
              \/ a.name = "ES512" /\ a.ec_curve = "secp521r1" /\ a.ec_coord_len = 66
              \/ a.name = "ES256K" /\ a.ec_curve = "secp256k1" /\ a.ec_coord_len = 32
  BY DEF PublicKeyAlgs, Row
<1>2. \A a \in HmacAlgs :
        /\ a.family = "HMAC"
        /\ \/ a.name = "HS256" /\ a.digest = "SHA256"
           \/ a.name = "HS384" /\ a.digest = "SHA384"
           \/ a.name = "HS512" /\ a.digest = "SHA512"
  BY DEF HmacAlgs, Row
<1>3. QED
  BY <1>1, <1>2 DEF Algs

\* The lookup finds exactly these names.
LEMMA LookupByName ==
  ASSUME NEW n
  PROVE  lookup_alg(n) # NoAlg
           <=> n \in PublicNames \/ (HaveHmac /\ n \in HmacNames)
<1>1. \A m \in PublicNames : \E a \in PublicKeyAlgs : a.name = m
  BY DEF PublicNames, PublicKeyAlgs, Row
<1>2. \A m \in HmacNames : \E a \in HmacAlgs : a.name = m
  BY DEF HmacNames, HmacAlgs, Row
<1>3. (\E a \in Algs : a.name = n)
        <=> n \in PublicNames \/ (HaveHmac /\ n \in HmacNames)
  BY <1>1, <1>2, TableRows DEF Algs, PublicNames, HmacNames
<1>4. QED
  BY <1>3, LookupFinds, NoAlgIsNoRow
=============================================================================
