------------------------------ MODULE JwxIssue ------------------------------
(***************************************************************************)
(* nxe_jwx_encode (nxe_jwx_jws.c), one stage per step, with a failure      *)
(* wherever the code handles one.  Lengths are computed as the code does:  *)
(* the header from its parts, base64url from the octets, the signature     *)
(* from the key.  The token issued is the three segments JwxToken reads.   *)
(***************************************************************************)
EXTENDS JwxAlg, Sequences, FiniteSets

Absent == "absent"    \* a header member that is not there

CONSTANTS
  Orders,         \* the calls made
  MaxJwtSize,     \* NXE_JWX_MAX_JWT_SIZE
  MaxJwtHeader,   \* NXE_JWX_MAX_JWT_HEADER
  IssueFaults     \* which failures happen: a subset of IssueFaultKinds

(***************************************************************************)
(* A call.  The kid has its length, the length of its quoted form (0 if    *)
(* nxe-json cannot quote it); the claims, what they are as JSON.  The key  *)
(* is octets: under HS* the secret itself, else a PEM of the private key   *)
(* [base, group, id] of bits ("bad" if it is none).  Empty claims are a    *)
(* null argument; the value of a kid that is there is none of the markers. *)
(***************************************************************************)
Order ==
  [args : {"ok", "null"}, alg : STRING,
   kid : [v : STRING, len : Nat, quoted : Nat],
   claims : [id : STRING, len : Nat, json : {"object", "other", "bad"}],
   key : [base : STRING, group : STRING, id : STRING, bits : Nat, len : Nat]]

IssueFaultKinds == {"alloc", "json", "openssl"}

ASSUME IssueAssumption ==
  /\ Orders \subseteq Order
  /\ \A o \in Orders : /\ o.args = "ok" => o.claims.len > 0
                       /\ o.kid.len > 0 => o.kid.v \notin {Absent, Empty}
                       /\ o.key.base # "bad" => o.key.bits > 0
  /\ MaxJwtSize \in Nat /\ MaxJwtHeader \in Nat
  /\ IssueFaults \subseteq IssueFaultKinds

VARIABLES
  step,      \* the stage reached; "returned" at the end
  order,     \* the arguments
  pkey,      \* the private key: "none", "live", "freed"
  sig,       \* sig_raw, a set of at most one signature
  out,       \* *out: its data, its length and, if there is one, the token
  ret,       \* "none", "OK", "ERROR"
  trouble    \* failures that happened (history)

ivars == <<step, order, pkey, sig, out, ret, trouble>>

-----------------------------------------------------------------------------
(* Lengths and segments. *)

\* Mistake: a group of octets that is not full counts as a full one.
b64url_len_padded(n) == 4 * ((n + 2) \div 3)

\* ngx_encode_base64url: four characters for three octets, no padding.
b64url_len(n) == (4 * n + 2) \div 3

alg_len(name) == IF name = "ES256K" THEN 6 ELSE 5

\* {"alg":"<name>","typ":"JWT"} with ,"kid":<quoted> before the brace.
header_len(o) == 8 + alg_len(o.alg) + 13 + 1
                 + (IF o.kid.len > 0 THEN 7 + o.kid.quoted ELSE 0)

HeaderSegment(o) ==
  [len |-> b64url_len(header_len(o)), b64 |-> "ok", raw |-> header_len(o),
   json |-> "object", alg |-> o.alg, id |-> "header",
   kid |-> IF o.kid.len > 0 THEN o.kid.v ELSE Absent]
PayloadSegment(o) ==
  [len |-> b64url_len(o.claims.len), b64 |-> "ok", raw |-> o.claims.len,
   json |-> o.claims.json, alg |-> Absent, kid |-> Absent,
   id |-> o.claims.id]
SignatureSegment(s) ==
  [len |-> b64url_len(s.len), b64 |-> "ok", raw |-> s.len, json |-> "bad",
   alg |-> Absent, kid |-> Absent, id |-> s.by]

signing_input(o) == <<HeaderSegment(o), PayloadSegment(o)>>
signing_len(o) == HeaderSegment(o).len + 1 + PayloadSegment(o).len

-----------------------------------------------------------------------------
(* Keys and signatures. *)

\* Mistake: the curve of the key is not looked at.
privkey_compatible_any_curve(key, a) ==
  \/ a.family \in {"RSA", "RSA_PSS"} /\ key.base \in {"RSA", "RSA-PSS"}
  \/ a.family = "ECDSA" /\ key.base = "EC"
  \/ a.family = "EDDSA" /\ key.base \in {"ED25519", "ED448"}

\* The private key against the algorithm: no size, and PSS keys under RS*.
privkey_compatible(key, a) ==
  \/ a.family \in {"RSA", "RSA_PSS"} /\ key.base \in {"RSA", "RSA-PSS"}
  \/ a.family = "ECDSA" /\ key.base = "EC" /\ key.group = a.ec_curve
  \/ a.family = "EDDSA" /\ key.base \in {"ED25519", "ED448"}

DigestLen == [SHA256 |-> 32, SHA384 |-> 48, SHA512 |-> 64]

\* What OpenSSL makes with a key, under its default padding unless pss is set,
\* and in the R || S form for an EC key.
SignatureBy(key, a, input) ==
  [by |-> key.id, digest |-> a.digest, msg |-> input,
   family |-> SchemeFamily(a, key),
   len |-> CASE a.family = "HMAC" -> DigestLen[a.digest]
             [] a.family = "ECDSA" -> 2 * a.ec_coord_len
             [] a.family = "EDDSA" -> IF key.base = "ED448" THEN 114 ELSE 64
             [] OTHER -> (key.bits + 7) \div 8]

-----------------------------------------------------------------------------
Unset == [data |-> "caller", len |-> 0, token |-> <<>>]
Nothing == [data |-> "null", len |-> 0, token |-> <<>>]

IssueInit ==
  /\ step = "start" /\ order \in Orders /\ pkey = "none" /\ sig = {}
  /\ out = Unset /\ ret = "none" /\ trouble = {}

Advance(to) == step' = to /\ UNCHANGED <<order, ret, trouble>>

\* Mistake: the failure is logged and the next stage entered all the same.
ReturnErrorGoesOn(f) ==
  /\ ret' = "ERROR" /\ trouble' = trouble \cup f
  /\ UNCHANGED <<step, order, pkey, sig>>

\* A plain return, before there is a key.
ReturnError(f) ==
  /\ step' = "returned" /\ ret' = "ERROR" /\ trouble' = trouble \cup f
  /\ UNCHANGED <<order, pkey, sig>>

\* Mistake: the key is freed on the way out of a success only.
GotoOutLeaks(f) ==
  /\ step' = "returned" /\ ret' = "ERROR" /\ trouble' = trouble \cup f
  /\ out' = Nothing
  /\ UNCHANGED <<order, pkey, sig>>

\* The label "out" after a failure: the key is freed, the output nulled.
GotoOut(f) ==
  /\ step' = "returned" /\ ret' = "ERROR" /\ trouble' = trouble \cup f
  /\ pkey' = IF pkey = "live" THEN "freed" ELSE pkey
  /\ out' = Nothing
  /\ UNCHANGED <<order, sig>>

Trouble(kinds) == {{f} : f \in IssueFaults \cap kinds}

\* A NULL or empty argument: *out is left as it was.
RejectArguments ==
  /\ step = "start" /\ order.args = "null"
  /\ ReturnError({}) /\ UNCHANGED out

\* The size of the claims, "none", and what the table does not have.
RejectOrder ==
  /\ step = "start" /\ order.args = "ok" /\ out' = Nothing
  /\ \/ order.claims.len > MaxJwtSize
     \/ order.alg = "none"
     \/ lookup_alg(order.alg) = NoAlg
  /\ ReturnError({})

Alg == lookup_alg(order.alg)

AcceptOrder ==
  /\ step = "start" /\ order.args = "ok" /\ out' = Nothing
  /\ order.claims.len <= MaxJwtSize /\ order.alg # "none" /\ Alg # NoAlg
  /\ Advance("claims") /\ UNCHANGED <<pkey, sig>>

ValidateClaims ==
  /\ step = "claims" /\ UNCHANGED out
  /\ \/ order.claims.json = "object" /\ Advance("header") /\ UNCHANGED <<pkey, sig>>
     \/ order.claims.json # "object" /\ ReturnError({})
     \/ \E f \in Trouble({"json"}) : ReturnError(f)

\* A kid nxe-json cannot quote, or no memory for the header.
BuildHeader ==
  /\ step = "header" /\ UNCHANGED out
  /\ \/ /\ order.kid.len > 0 => order.kid.quoted > 0
        /\ Advance("segments") /\ UNCHANGED <<pkey, sig>>
     \/ order.kid.len > 0 /\ order.kid.quoted = 0 /\ ReturnError({})
     \/ order.kid.len > 0 /\ \E f \in Trouble({"json"}) : ReturnError(f)
     \/ \E f \in Trouble({"alloc"}) : ReturnError(f)

\* Mistake: the header is measured before it is encoded.
header_fits_raw(o) == header_len(o) <= MaxJwtHeader

\* The limit of the decoder, on the encoded header.
header_fits(o) == HeaderSegment(o).len <= MaxJwtHeader

\* Both segments encoded, then the header's limit, then the signing input.
EncodeSegments ==
  /\ step = "segments" /\ UNCHANGED out
  /\ \/ header_fits(order) /\ Advance("sign") /\ UNCHANGED <<pkey, sig>>
     \/ ~header_fits(order) /\ ReturnError({})
     \/ \E f \in Trouble({"alloc"}) : ReturnError(f)

HmacSign ==
  /\ step = "sign" /\ Alg.family = "HMAC"
  /\ \/ /\ Advance("emit") /\ UNCHANGED <<pkey, out>>
        /\ sig' = {SignatureBy([order.key EXCEPT !.base = "oct"], Alg,
                               signing_input(order))}
     \/ \E f \in Trouble({"alloc", "openssl"}) : GotoOut(f)

LoadKey ==
  /\ step = "sign" /\ Alg.family # "HMAC"
  /\ \/ /\ order.key.base # "bad" /\ Advance("key") /\ pkey' = "live"
        /\ UNCHANGED <<sig, out>>
     \/ order.key.base = "bad" /\ GotoOut({})
     \/ \E f \in Trouble({"openssl"}) : GotoOut(f)

\* nxe_jwx_privkey_compatible, then nxe_jwx_evp_sign.
EvpSign ==
  /\ step = "key"
  /\ \/ /\ privkey_compatible(order.key, Alg)
        /\ Advance(IF Alg.family = "ECDSA" THEN "raw" ELSE "emit")
        /\ sig' = {SignatureBy(order.key, Alg, signing_input(order))}
        /\ UNCHANGED <<pkey, out>>
     \/ ~privkey_compatible(order.key, Alg) /\ GotoOut({})
     \/ \E f \in Trouble({"alloc", "openssl"}) : GotoOut(f)

\* A DER signature whose R or S does not fit the curve cannot come from a key
\* of that curve; what is left is memory.
DerToRaw ==
  /\ step = "raw"
  /\ \/ Advance("emit") /\ UNCHANGED <<pkey, sig, out>>
     \/ \E f \in Trouble({"alloc", "openssl"}) : GotoOut(f)

TheSig == CHOOSE s \in sig : TRUE
total_len(o) == signing_len(o) + 1 + SignatureSegment(TheSig).len

\* Mistake: the limit is put to the signing input, before the signature.
token_fits_unsigned(o) == signing_len(o) <= MaxJwtSize

\* The limit of the decoder, on the token as it would be issued.
token_fits(o) == total_len(o) <= MaxJwtSize

\* Mistake: the output keeps the length it was given for the test.
TooLongKeepsLength ==
  /\ step = "emit" /\ ~token_fits(order)
  /\ step' = "returned" /\ ret' = "ERROR"
  /\ pkey' = IF pkey = "live" THEN "freed" ELSE pkey
  /\ out' = [Nothing EXCEPT !.len = total_len(order)]
  /\ UNCHANGED <<order, sig, trouble>>

TooLong == step = "emit" /\ ~token_fits(order) /\ GotoOut({})

EmitFails == step = "emit" /\ \E f \in Trouble({"alloc"}) : GotoOut(f)

\* "<signing_input>.<sig_b64>"; then the label "out" frees the key.
Emit ==
  /\ step = "emit" /\ token_fits(order)
  /\ step' = "returned" /\ ret' = "OK"
  /\ out' = [data |-> "token", len |-> total_len(order),
             token |-> signing_input(order) \o <<SignatureSegment(TheSig)>>]
  /\ pkey' = IF pkey = "live" THEN "freed" ELSE pkey
  /\ UNCHANGED <<order, sig, trouble>>

IssueNext == \/ RejectArguments \/ RejectOrder \/ AcceptOrder
             \/ ValidateClaims \/ BuildHeader \/ EncodeSegments
             \/ HmacSign \/ LoadKey \/ EvpSign \/ DerToRaw
             \/ TooLong \/ EmitFails \/ Emit

IssueSpec == IssueInit /\ [][IssueNext]_ivars

-----------------------------------------------------------------------------
(* Properties. *)

\* Every variable keeps its type through the stages of nxe_jwx_encode.
TypeOK ==
  /\ step \in {"start", "claims", "header", "segments", "sign", "key", "raw",
               "emit", "returned"}
  /\ order \in Order /\ pkey \in {"none", "live", "freed"}
  /\ Cardinality(sig) <= 1
  /\ out.data \in {"caller", "null", "token"} /\ out.len \in Nat
  /\ ret \in {"none", "OK", "ERROR"} /\ ret = "none" <=> step # "returned"
  /\ trouble \subseteq IssueFaultKinds

(***************************************************************************)
(* The orders that can be met, without the stages: RFC 4648 by cases, RFC  *)
(* 7518 for the key of an algorithm and the length of its signature.       *)
(***************************************************************************)
Chars(n) == CASE n % 3 = 0 -> 4 * (n \div 3)
              [] n % 3 = 1 -> 4 * (n \div 3) + 2
              [] n % 3 = 2 -> 4 * (n \div 3) + 3

SignatureOctets(name, key) ==
  CASE name = "HS256" -> 32
    [] name = "HS384" -> 48
    [] name = "HS512" -> 64
    [] name \in {"ES256", "ES256K"} -> 64
    [] name = "ES384" -> 96
    [] name = "ES512" -> 132
    [] name = "EdDSA" /\ key.base = "ED25519" -> 64
    [] name = "EdDSA" /\ key.base = "ED448" -> 114
    [] OTHER -> (key.bits + 7) \div 8

SignsUnder(key, name) ==
  \/ name \in {"HS256", "HS384", "HS512"} /\ HaveHmac
  \/ name \in {"RS256", "RS384", "RS512", "PS256", "PS384", "PS512"}
       /\ key.base \in {"RSA", "RSA-PSS"}
  \/ name = "ES256" /\ key.base = "EC" /\ key.group = "prime256v1"
  \/ name = "ES384" /\ key.base = "EC" /\ key.group = "secp384r1"
  \/ name = "ES512" /\ key.base = "EC" /\ key.group = "secp521r1"
  \/ name = "ES256K" /\ key.base = "EC" /\ key.group = "secp256k1"
  \/ name = "EdDSA" /\ key.base \in {"ED25519", "ED448"}

\* {"alg":"ES256","typ":"JWT"} is 27 characters, ,"kid": 7 more.
HeaderOctets(o) == (IF o.alg = "ES256K" THEN 28 ELSE 27)
                   + (IF o.kid.len = 0 THEN 0 ELSE 7 + o.kid.quoted)

Issuable(o) ==
  /\ o.args = "ok" /\ o.claims.json = "object" /\ SignsUnder(o.key, o.alg)
  /\ o.kid.len = 0 \/ o.kid.quoted > 0
  /\ Chars(HeaderOctets(o)) <= MaxJwtHeader
  /\ Chars(HeaderOctets(o)) + Chars(o.claims.len)
       + Chars(SignatureOctets(o.alg, o.key)) + 2 <= MaxJwtSize

\* An order is met exactly if its token fits the decoder's limits and its key
\* fits its algorithm (jws.c:1162-1172, 1251): the claims' own limit, the
\* header's and the token's leave no order out and let no order through.
IssuesExactly ==
  step = "returned" => (ret = "OK" <=> Issuable(order) /\ trouble = {})

\* The length put to the limit is the length of what is written, and a failure
\* at any stage, after the length was set too (jws.c:1243-1257), leaves the
\* caller with no token and no length; an argument error leaves *out alone.
OutputWhole ==
  step = "returned" =>
    /\ ret = "OK" =>
         /\ out.data = "token" /\ Len(out.token) = 3
         /\ out.len = out.token[1].len + out.token[2].len + out.token[3].len + 2
    /\ ret = "ERROR" => out = IF order.args = "null" THEN Unset ELSE Nothing

\* The private key lives from its loading to the return and is freed once, by
\* whichever way the function leaves (jws.c:1273-1276).
KeyReleased ==
  /\ pkey = "live" => step \in {"key", "raw", "emit"}
  /\ (step = "returned" /\ sig # {} /\ Alg.family # "HMAC") => pkey = "freed"

=============================================================================
