--------------------------- MODULE JwxIssueProofs ---------------------------
(***************************************************************************)
(* What holds of nxe_jwx_encode for every order, every limit and every     *)
(* failure.  The stages come in one order, so the argument is what each of *)
(* them has established, and that the lengths the code computes are those  *)
(* of RFC 4648 and of the key.                                             *)
(***************************************************************************)
EXTENDS JwxIssue, JwxAlgProofs, FiniteSetTheorems,
        SequenceTheorems, TLAPS

-----------------------------------------------------------------------------
(* Lengths. *)

\* The rounding of ngx_encode_base64url is RFC 4648 without padding, and never
\* shorter than what it encodes.
LEMMA Base64Length ==
  ASSUME NEW n \in Nat
  PROVE  b64url_len(n) = Chars(n) /\ b64url_len(n) \in Nat /\ b64url_len(n) >= n
<1>1. PICK q \in Nat, r \in 0..2 : n = 3 * q + r
  <2>1. n = 3 * (n \div 3) + (n % 3) /\ n \div 3 \in Nat /\ n % 3 \in 0..2
    OBVIOUS
  <2>2. QED
    BY <2>1
<1>2. n % 3 = r /\ n \div 3 = q
  BY <1>1
<1>3. b64url_len(n) = 4 * q + (IF r = 0 THEN 0 ELSE IF r = 1 THEN 2 ELSE 3)
  BY <1>1 DEF b64url_len
<1>4. Chars(n) = 4 * q + (IF r = 0 THEN 0 ELSE IF r = 1 THEN 2 ELSE 3)
  <2>1. r = 0 \/ r = 1 \/ r = 2
    BY <1>1
  <2>2. QED
    BY <1>1, <1>2, <2>1 DEF Chars
<1>5. QED
  BY <1>1, <1>3, <1>4

\* The header of an order, in octets, and its segments.
LEMMA OrderLengths ==
  ASSUME NEW o \in Order
  PROVE  /\ header_len(o) = HeaderOctets(o) /\ HeaderOctets(o) \in Nat
         /\ HeaderSegment(o).len = Chars(HeaderOctets(o))
         /\ PayloadSegment(o).len = Chars(o.claims.len)
         /\ Chars(HeaderOctets(o)) \in Nat /\ Chars(o.claims.len) \in Nat
         /\ Chars(o.claims.len) >= o.claims.len
         /\ signing_len(o) = Chars(HeaderOctets(o)) + 1 + Chars(o.claims.len)
<1>1. o.kid.len \in Nat /\ o.kid.quoted \in Nat /\ o.claims.len \in Nat
  BY DEF Order
<1>2. header_len(o) = HeaderOctets(o) /\ HeaderOctets(o) \in Nat
  BY <1>1 DEF header_len, alg_len, HeaderOctets
<1>3. /\ HeaderSegment(o).len = Chars(HeaderOctets(o))
      /\ PayloadSegment(o).len = Chars(o.claims.len)
  BY <1>1, <1>2, Base64Length DEF HeaderSegment, PayloadSegment
<1>4. /\ Chars(HeaderOctets(o)) \in Nat /\ Chars(o.claims.len) \in Nat
      /\ Chars(o.claims.len) >= o.claims.len
  BY <1>1, <1>2, Base64Length
<1>5. QED
  BY <1>2, <1>3, <1>4 DEF signing_len

-----------------------------------------------------------------------------
(* Keys and signatures. *)

\* The key an order is signed with: under HS* the octets are the secret.
SigningKey(o) == IF lookup_alg(o.alg).family = "HMAC"
                 THEN [o.key EXCEPT !.base = "oct"] ELSE o.key

\* The key fits the algorithm, as the code tests it.
Fits(o) == LET a == lookup_alg(o.alg) IN
           /\ a # NoAlg
           /\ a.family # "HMAC" => privkey_compatible(o.key, a)

\* The test of the code is the one of RFC 7518 and 8037, by the name.
LEMMA FitsIsSignsUnder ==
  ASSUME NEW o
  PROVE  Fits(o) <=> SignsUnder(o.key, o.alg)
<1> DEFINE a == lookup_alg(o.alg)
<1>1. CASE a = NoAlg
  <2>1. o.alg \notin PublicNames /\ ~(HaveHmac /\ o.alg \in HmacNames)
    BY <1>1, LookupByName
  <2>2. QED
    BY <1>1, <2>1 DEF Fits, SignsUnder, PublicNames, HmacNames
<1>2. CASE a # NoAlg
  <2>1. a \in Algs /\ a.name = o.alg
    BY <1>2, LookupFinds
  <2> HIDE DEF a
  <2>2. Fits(o) <=> (a.family # "HMAC" => privkey_compatible(o.key, a))
    BY <1>2 DEF Fits, a
  <2>3. QED
    BY <2>1, <2>2, TableRows DEF SignsUnder, privkey_compatible
<1>3. QED
  BY <1>1, <1>2

\* The length of the signature is the one its algorithm and key stand for.
LEMMA SignatureLength ==
  ASSUME NEW o \in Order, Fits(o), NEW m
  PROVE  /\ SignatureBy(SigningKey(o), lookup_alg(o.alg), m).len
              = SignatureOctets(o.alg, o.key)
         /\ SignatureOctets(o.alg, o.key) \in Nat
<1> DEFINE a == lookup_alg(o.alg)
           k == SigningKey(o)
<1>1. a \in Algs /\ a.name = o.alg
  BY LookupFinds DEF Fits
<1>2. o.key.bits \in Nat
  BY DEF Order
<1>3. (o.key.bits + 7) \div 8 \in Nat
  BY <1>2
<1>4. a.family # "HMAC" => k = o.key /\ privkey_compatible(o.key, a)
  BY DEF Fits, SigningKey
<1> HIDE DEF a, k
<1>5. SignatureBy(k, a, m).len
        = CASE a.family = "HMAC" -> DigestLen[a.digest]
            [] a.family = "ECDSA" -> 2 * a.ec_coord_len
            [] a.family = "EDDSA" -> IF k.base = "ED448" THEN 114 ELSE 64
            [] OTHER -> (k.bits + 7) \div 8
  BY DEF SignatureBy
<1>6. CASE a.family = "HMAC"
  <2>1. SignatureBy(k, a, m).len = DigestLen[a.digest]
    BY <1>5, <1>6
  <2>2. DigestLen["SHA256"] = 32 /\ DigestLen["SHA384"] = 48 /\ DigestLen["SHA512"] = 64
    BY DEF DigestLen
  <2>3. \/ o.alg = "HS256" /\ a.digest = "SHA256"
        \/ o.alg = "HS384" /\ a.digest = "SHA384"
        \/ o.alg = "HS512" /\ a.digest = "SHA512"
    BY <1>1, <1>6, TableRows
  <2>4. /\ o.alg = "HS256" => SignatureOctets(o.alg, o.key) = 32
        /\ o.alg = "HS384" => SignatureOctets(o.alg, o.key) = 48
        /\ o.alg = "HS512" => SignatureOctets(o.alg, o.key) = 64
    BY DEF SignatureOctets
  <2>5. QED
    BY <2>1, <2>2, <2>3, <2>4 DEF a, k
<1>7. CASE a.family = "ECDSA"
  <2>1. SignatureBy(k, a, m).len = 2 * a.ec_coord_len
    BY <1>5, <1>7
  <2>2. \/ o.alg \in {"ES256", "ES256K"} /\ a.ec_coord_len = 32
        \/ o.alg = "ES384" /\ a.ec_coord_len = 48
        \/ o.alg = "ES512" /\ a.ec_coord_len = 66
    BY <1>1, <1>7, TableRows
  <2>3. /\ o.alg \in {"ES256", "ES256K"} => SignatureOctets(o.alg, o.key) = 64
        /\ o.alg = "ES384" => SignatureOctets(o.alg, o.key) = 96
        /\ o.alg = "ES512" => SignatureOctets(o.alg, o.key) = 132
    BY DEF SignatureOctets
  <2>4. QED
    BY <2>1, <2>2, <2>3 DEF a, k
<1>8. CASE a.family = "EDDSA"
  <2>1. o.alg = "EdDSA"
    BY <1>1, <1>8, TableRows DEF a
  <2>2. k = o.key /\ o.key.base \in {"ED25519", "ED448"}
    BY <1>4, <1>8 DEF privkey_compatible
  <2>3. SignatureOctets(o.alg, o.key) = IF o.key.base = "ED25519" THEN 64 ELSE 114
    BY <2>1, <2>2 DEF SignatureOctets
  <2>4. SignatureBy(k, a, m).len = IF k.base = "ED448" THEN 114 ELSE 64
    BY <1>5, <1>8
  <2>5. QED
    BY <2>2, <2>3, <2>4 DEF a, k
<1>9. CASE a.family \in {"RSA", "RSA_PSS"}
  <2>1. o.alg \in {"RS256", "RS384", "RS512", "PS256", "PS384", "PS512"}
    BY <1>1, <1>9, TableRows DEF a
  <2>2. k = o.key /\ o.key.base \in {"RSA", "RSA-PSS"}
    BY <1>4, <1>9 DEF privkey_compatible
  <2>3. SignatureOctets(o.alg, o.key) = (o.key.bits + 7) \div 8
    BY <2>1, <2>2 DEF SignatureOctets
  <2>4. SignatureBy(k, a, m).len = (k.bits + 7) \div 8
    BY <1>5, <1>9
  <2>5. QED
    BY <1>3, <2>2, <2>3, <2>4 DEF a, k
<1>10. QED
  BY <1>1, <1>6, <1>7, <1>8, <1>9, TableRows


\* The token of an order that is signed: its length is that of its segments.
LEMMA TokenLength ==
  ASSUME NEW o \in Order, Fits(o), NEW s,
         s = SignatureBy(SigningKey(o), lookup_alg(o.alg), signing_input(o))
  PROVE  /\ SignatureSegment(s).len = Chars(SignatureOctets(o.alg, o.key))
         /\ SignatureSegment(s).len \in Nat
<1>1. s.len = SignatureOctets(o.alg, o.key) /\ s.len \in Nat
  BY SignatureLength
<1>2. SignatureSegment(s).len = b64url_len(s.len)
  BY DEF SignatureSegment
<1>3. QED
  BY <1>1, <1>2, Base64Length

-----------------------------------------------------------------------------
(* The inductive invariant: what each stage has established. *)

Past(stage) ==
  CASE stage = "start" -> {"claims", "header", "segments", "sign", "key", "raw", "emit"}
    [] stage = "claims" -> {"header", "segments", "sign", "key", "raw", "emit"}
    [] stage = "header" -> {"segments", "sign", "key", "raw", "emit"}
    [] stage = "segments" -> {"sign", "key", "raw", "emit"}

\* Nothing has failed so far, and the tests of the stages passed hold.
StageInv ==
  /\ step # "returned" => trouble = {}
  /\ step = "start" => out = Unset
  /\ step \in Past("start") =>
       /\ order.args = "ok" /\ order.claims.len <= MaxJwtSize
       /\ Alg # NoAlg /\ out = Nothing
  /\ step \in Past("claims") => order.claims.json = "object"
  /\ step \in Past("header") => order.kid.len = 0 \/ order.kid.quoted > 0
  /\ step \in Past("segments") => header_fits(order)

\* The signature of the order, when there is one.
Signed == SignatureBy(SigningKey(order), Alg, signing_input(order))

\* There is a key from its loading on, under a public-key algorithm only, and
\* a signature once the key has been found to fit.
SigningInv ==
  /\ step \notin {"key", "raw", "emit", "returned"} => pkey = "none" /\ sig = {}
  /\ step = "key" => Alg.family # "HMAC" /\ pkey = "live" /\ sig = {}
  /\ step = "raw" => Alg.family # "HMAC"
  /\ step \in {"raw", "emit"} =>
       /\ Fits(order) /\ sig = {Signed}
       /\ pkey = IF Alg.family = "HMAC" THEN "none" ELSE "live"

IInv == /\ TypeOK /\ StageInv /\ SigningInv
        /\ IssuesExactly /\ OutputWhole /\ KeyReleased


-----------------------------------------------------------------------------
(* Every stage keeps it. *)

\* The failures a stage takes are of the kinds there are, and leave a trace.
LEMMA TroubleKinds ==
  ASSUME NEW kinds, NEW f \in Trouble(kinds)
  PROVE  f \subseteq IssueFaultKinds /\ f # {}
PROOF BY IssueAssumption DEF Trouble

\* What an order that cannot be met looks like to each of the tests.
LEMMA Unmet ==
  ASSUME NEW o \in Order,
         \/ o.args = "null"
         \/ o.claims.len > MaxJwtSize
         \/ ~Fits(o)
         \/ o.claims.json # "object"
         \/ o.kid.len > 0 /\ o.kid.quoted = 0
         \/ ~header_fits(o)
  PROVE  ~Issuable(o)
<1> DEFINE head == Chars(HeaderOctets(o))
           body == Chars(o.claims.len)
           tail == Chars(SignatureOctets(o.alg, o.key))
<1>1. head \in Nat /\ body \in Nat /\ body >= o.claims.len
  BY OrderLengths
<1>2. o.kid.len \in Nat /\ o.kid.quoted \in Nat /\ o.claims.len \in Nat
  BY DEF Order
<1>3. MaxJwtSize \in Nat /\ MaxJwtHeader \in Nat
  BY IssueAssumption
<1>4. header_fits(o) <=> head <= MaxJwtHeader
  BY OrderLengths DEF header_fits
<1>5. SUFFICES ASSUME Issuable(o) PROVE FALSE
  OBVIOUS
<1>6. Fits(o)
  BY <1>5, FitsIsSignsUnder DEF Issuable
<1>7. tail \in Nat
  BY <1>6, SignatureLength, Base64Length
<1>8. head <= MaxJwtHeader /\ head + body + tail + 2 <= MaxJwtSize
  BY <1>5 DEF Issuable
<1> HIDE DEF head, body, tail
<1>9. o.claims.len <= MaxJwtSize
  BY <1>1, <1>2, <1>3, <1>7, <1>8
<1>10. QED
  BY <1>2, <1>3, <1>4, <1>5, <1>6, <1>8, <1>9 DEF Issuable

\* A return with NGX_ERROR keeps the invariant if the order cannot be met or
\* something failed, the key is freed and the output is the empty one.
LEMMA ErrorKeepsIInv ==
  ASSUME IInv, step # "returned", step' = "returned", ret' = "ERROR",
         order' = order, sig' = sig,
         trouble' \subseteq IssueFaultKinds,
         ~Issuable(order) \/ trouble' # {},
         pkey' = IF pkey = "live" THEN "freed" ELSE pkey,
         out' = IF order.args = "null" THEN Unset ELSE Nothing
  PROVE  IInv'
<1>1. TypeOK'
  BY DEF IInv, TypeOK, Unset, Nothing
<1>2. StageInv' /\ SigningInv'
  BY DEF StageInv, SigningInv, Past
<1>3. IssuesExactly'
  <2>1. Issuable(order)' <=> Issuable(order)
    OBVIOUS
  <2>2. QED
    BY <2>1 DEF IssuesExactly
<1>4. OutputWhole'
  BY DEF OutputWhole, Unset, Nothing
<1>5. KeyReleased'
  <2>1. Alg' = Alg
    BY DEF Alg
  <2>2. CASE sig = {}
    BY <2>2, <1>1 DEF KeyReleased, TypeOK
  <2>3. CASE sig # {}
    <3>1. step \in {"raw", "emit"}
      BY <2>3 DEF IInv, TypeOK, SigningInv
    <3>2. pkey = IF Alg.family = "HMAC" THEN "none" ELSE "live"
      BY <3>1 DEF IInv, SigningInv
    <3>3. QED
      BY <2>1, <3>2 DEF KeyReleased
  <2>4. QED
    BY <2>2, <2>3
<1>6. QED
  BY <1>1, <1>2, <1>3, <1>4, <1>5 DEF IInv

\* The way to a return of the stages before the key, and of those after it.
LEMMA ReturnErrorKeepsIInv ==
  ASSUME IInv, NEW f, ReturnError(f), f \subseteq IssueFaultKinds,
         step \in {"start", "claims", "header", "segments"},
         ~Issuable(order) \/ f # {},
         out' = IF order.args = "null" THEN Unset ELSE Nothing
  PROVE  IInv'
<1>1. pkey = "none" /\ trouble = {}
  BY DEF IInv, StageInv, SigningInv
<1>2. QED
  BY <1>1, ErrorKeepsIInv DEF ReturnError

\* The label "out" after a failure: there is an order, and *out is already null.
LEMMA GotoOutKeepsIInv ==
  ASSUME IInv, NEW f, GotoOut(f), f \subseteq IssueFaultKinds,
         step \in {"sign", "key", "raw", "emit"},
         ~Issuable(order) \/ f # {}
  PROVE  IInv'
<1>1. order.args = "ok" /\ trouble = {}
  BY DEF IInv, StageInv, Past
<1>2. QED
  BY <1>1, ErrorKeepsIInv DEF GotoOut

\* A stage passed keeps it if what the next one finds established is so.
LEMMA AdvanceKeepsIInv ==
  ASSUME IInv, NEW to, Advance(to), step # "returned", to # "returned",
         to \in {"claims", "header", "segments", "sign", "key", "raw", "emit"},
         out' \in {Unset, Nothing}, pkey' \in {"none", "live", "freed"},
         sig' = {} \/ sig' = {Signed},
         pkey' = "live" => to \in {"key", "raw", "emit"},
         StageInv', SigningInv'
  PROVE  IInv'
<1>1. Cardinality(sig') <= 1
  <2>1. Cardinality({}) = 0
    BY FS_EmptySet, Zenon
  <2>2. Cardinality({Signed}) = 1
    BY FS_Singleton, Zenon
  <2>3. QED
    BY <2>1, <2>2
<1>2. TypeOK'
  BY <1>1 DEF IInv, TypeOK, Advance, Unset, Nothing
<1>3. IssuesExactly' /\ OutputWhole' /\ KeyReleased'
  BY DEF Advance, IssuesExactly, OutputWhole, KeyReleased
<1>4. QED
  BY <1>2, <1>3 DEF IInv


\* The early return on a NULL or empty argument.
LEMMA RejectArgumentsKeepsIInv == ASSUME IInv, RejectArguments PROVE IInv'
<1>1. order.args = "null" /\ step = "start" /\ out' = Unset
  BY DEF RejectArguments, IInv, StageInv
<1>2. ~Issuable(order)
  BY <1>1 DEF Issuable
<1>3. QED
  BY <1>1, <1>2, ReturnErrorKeepsIInv DEF RejectArguments

\* The early returns on the size of the claims and on the algorithm.
LEMMA RejectOrderKeepsIInv == ASSUME IInv, RejectOrder PROVE IInv'
<1>1. step = "start" /\ order.args = "ok" /\ out' = Nothing /\ ReturnError({})
  BY DEF RejectOrder
<1>2. order \in Order
  BY DEF IInv, TypeOK
<1>3. lookup_alg("none") = NoAlg
  BY LookupFinds, AlgNames
<1>4. order.claims.len > MaxJwtSize \/ ~Fits(order)
  BY <1>3 DEF RejectOrder, Fits
<1>5. ~Issuable(order)
  BY <1>2, <1>4, Unmet
<1>6. QED
  BY <1>1, <1>5, ReturnErrorKeepsIInv

\* Past the early returns: the order has a row of the table.
LEMMA AcceptOrderKeepsIInv == ASSUME IInv, AcceptOrder PROVE IInv'
<1>1. /\ step = "start" /\ Advance("claims") /\ out' = Nothing /\ Alg' = Alg
      /\ pkey' = "none" /\ sig' = {}
  BY DEF AcceptOrder, Advance, Alg, IInv, SigningInv
<1>2. StageInv'
  BY <1>1 DEF AcceptOrder, Advance, IInv, StageInv, Past
<1>3. SigningInv'
  BY <1>1 DEF Advance, SigningInv
<1>4. QED
  BY <1>1, <1>2, <1>3, AdvanceKeepsIInv

\* The claims parse as an object, or the order is refused.
LEMMA ValidateClaimsKeepsIInv == ASSUME IInv, ValidateClaims PROVE IInv'
<1>1. /\ step = "claims" /\ order.args = "ok" /\ out' = Nothing
      /\ pkey = "none" /\ sig = {} /\ order \in Order
  BY DEF ValidateClaims, IInv, TypeOK, StageInv, SigningInv, Past
<1>2. CASE order.claims.json = "object" /\ Advance("header") /\ UNCHANGED <<pkey, sig>>
  <2>1. Alg' = Alg
    BY <1>2 DEF Advance, Alg
  <2>2. StageInv'
    BY <1>1, <1>2, <2>1 DEF Advance, IInv, StageInv, Past
  <2>3. SigningInv'
    BY <1>1, <1>2 DEF Advance, SigningInv
  <2>4. QED
    BY <1>1, <1>2, <2>2, <2>3, AdvanceKeepsIInv
<1>3. CASE order.claims.json # "object" /\ ReturnError({})
  <2>1. ~Issuable(order)
    BY <1>3 DEF Issuable
  <2>2. QED
    BY <1>1, <1>3, <2>1, ReturnErrorKeepsIInv
<1>4. ASSUME NEW f \in Trouble({"json"}), ReturnError(f) PROVE IInv'
  BY <1>1, <1>4, TroubleKinds, ReturnErrorKeepsIInv
<1>5. QED
  BY <1>2, <1>3, <1>4 DEF ValidateClaims

\* The kid can be quoted, or the order is refused.
LEMMA BuildHeaderKeepsIInv == ASSUME IInv, BuildHeader PROVE IInv'
<1>1. /\ step = "header" /\ order.args = "ok" /\ out' = Nothing
      /\ pkey = "none" /\ sig = {} /\ order \in Order
      /\ order.kid.len \in Nat /\ order.kid.quoted \in Nat
  BY DEF BuildHeader, IInv, TypeOK, StageInv, SigningInv, Past, Order
<1>2. CASE /\ order.kid.len > 0 => order.kid.quoted > 0
           /\ Advance("segments") /\ UNCHANGED <<pkey, sig>>
  <2>1. Alg' = Alg
    BY <1>2 DEF Advance, Alg
  <2>2. StageInv'
    BY <1>1, <1>2, <2>1 DEF Advance, IInv, StageInv, Past
  <2>3. SigningInv'
    BY <1>1, <1>2 DEF Advance, SigningInv
  <2>4. QED
    BY <1>1, <1>2, <2>2, <2>3, AdvanceKeepsIInv
<1>3. CASE order.kid.len > 0 /\ order.kid.quoted = 0 /\ ReturnError({})
  <2>1. ~Issuable(order)
    BY <1>1, <1>3, Unmet
  <2>2. QED
    BY <1>1, <1>3, <2>1, ReturnErrorKeepsIInv
<1>4. ASSUME NEW kinds, NEW f \in Trouble(kinds), ReturnError(f) PROVE IInv'
  BY <1>1, <1>4, TroubleKinds, ReturnErrorKeepsIInv
<1>5. QED
  BY <1>2, <1>3, <1>4 DEF BuildHeader

\* The encoded header fits the decoder, or the order is refused.
LEMMA EncodeSegmentsKeepsIInv == ASSUME IInv, EncodeSegments PROVE IInv'
<1>1. /\ step = "segments" /\ order.args = "ok" /\ out' = Nothing
      /\ pkey = "none" /\ sig = {} /\ order \in Order
  BY DEF EncodeSegments, IInv, TypeOK, StageInv, SigningInv, Past
<1>2. CASE header_fits(order) /\ Advance("sign") /\ UNCHANGED <<pkey, sig>>
  <2>1. Alg' = Alg /\ header_fits(order)'
    BY <1>2 DEF Advance, Alg, header_fits, HeaderSegment, header_len, b64url_len,
                alg_len
  <2>2. StageInv'
    BY <1>1, <1>2, <2>1 DEF Advance, IInv, StageInv, Past
  <2>3. SigningInv'
    BY <1>1, <1>2 DEF Advance, SigningInv
  <2>4. QED
    BY <1>1, <1>2, <2>2, <2>3, AdvanceKeepsIInv
<1>3. CASE ~header_fits(order) /\ ReturnError({})
  <2>1. ~Issuable(order)
    BY <1>1, <1>3, Unmet
  <2>2. QED
    BY <1>1, <1>3, <2>1, ReturnErrorKeepsIInv
<1>4. ASSUME NEW f \in Trouble({"alloc"}), ReturnError(f) PROVE IInv'
  BY <1>1, <1>4, TroubleKinds, ReturnErrorKeepsIInv
<1>5. QED
  BY <1>2, <1>3, <1>4 DEF EncodeSegments


\* From "sign" on, nothing that the stages before have established is undone.
LEMMA SigningStage ==
  ASSUME IInv, step \in {"sign", "key", "raw", "emit"}, order' = order
  PROVE  /\ order \in Order /\ order.args = "ok" /\ out = Nothing /\ Alg # NoAlg
         /\ Alg' = Alg /\ Signed' = Signed /\ Fits(order)' = Fits(order)
         /\ step' \in {"key", "raw", "emit"} /\ trouble' = trouble /\ out' = out
              => StageInv'
<1>1. /\ order \in Order /\ order.args = "ok" /\ out = Nothing /\ Alg # NoAlg
      /\ trouble = {}
  BY DEF IInv, TypeOK, StageInv, Past
<1>2. Alg' = Alg /\ header_fits(order)' = header_fits(order)
  BY DEF Alg, header_fits, HeaderSegment, header_len, b64url_len, alg_len
<1>3. Fits(order)' = Fits(order) /\ SigningKey(order)' = SigningKey(order)
  BY DEF Fits, SigningKey, privkey_compatible
<1>4. signing_input(order)' = signing_input(order)
  BY DEF signing_input, HeaderSegment, PayloadSegment, header_len, b64url_len, alg_len
<1>5. Signed' = Signed
  BY <1>2, <1>3, <1>4 DEF Signed, SignatureBy, SchemeFamily, DigestLen
<1>6. ASSUME step' \in {"key", "raw", "emit"}, trouble' = trouble, out' = out
      PROVE  StageInv'
  BY <1>1, <1>2, <1>6 DEF IInv, StageInv, Past
<1>7. QED
  BY <1>1, <1>2, <1>3, <1>5, <1>6

\* nxe_jwx_hmac_sign: no key is loaded.
LEMMA HmacSignKeepsIInv == ASSUME IInv, HmacSign PROVE IInv'
<1>1. step = "sign" /\ Alg.family = "HMAC" /\ pkey = "none"
  BY DEF HmacSign, IInv, SigningInv
<1>2. CASE /\ Advance("emit") /\ UNCHANGED <<pkey, out>>
           /\ sig' = {SignatureBy([order.key EXCEPT !.base = "oct"], Alg,
                                  signing_input(order))}
  <2>1. sig' = {Signed} /\ Fits(order)
    BY <1>1, <1>2, SigningStage DEF Advance, Signed, SigningKey, Fits, Alg
  <2>2. StageInv' /\ Alg' = Alg /\ Signed' = Signed /\ Fits(order)' /\ out = Nothing
    BY <1>1, <1>2, <2>1, SigningStage DEF Advance
  <2>3. SigningInv'
    BY <1>1, <1>2, <2>1, <2>2 DEF Advance, SigningInv
  <2>4. QED
    BY <1>1, <1>2, <2>1, <2>2, <2>3, AdvanceKeepsIInv
<1>3. ASSUME NEW f \in Trouble({"alloc", "openssl"}), GotoOut(f) PROVE IInv'
  BY <1>1, <1>3, TroubleKinds, GotoOutKeepsIInv
<1>4. QED
  BY <1>2, <1>3 DEF HmacSign

\* The PEM of the private key: from here on there is a key to free.
LEMMA LoadKeyKeepsIInv == ASSUME IInv, LoadKey PROVE IInv'
<1>1. step = "sign" /\ Alg.family # "HMAC" /\ sig = {}
  BY DEF LoadKey, IInv, SigningInv
<1>2. CASE /\ order.key.base # "bad" /\ Advance("key") /\ pkey' = "live"
           /\ UNCHANGED <<sig, out>>
  <2>1. StageInv' /\ Alg' = Alg /\ out = Nothing
    BY <1>1, <1>2, SigningStage DEF Advance
  <2>2. SigningInv'
    BY <1>1, <1>2, <2>1 DEF Advance, SigningInv
  <2>3. QED
    BY <1>1, <1>2, <2>1, <2>2, AdvanceKeepsIInv
<1>3. CASE order.key.base = "bad" /\ GotoOut({})
  <2>1. ~privkey_compatible(order.key, Alg)
    BY <1>3 DEF privkey_compatible
  <2>2. ~Fits(order)
    BY <1>1, <2>1 DEF Fits, Alg
  <2>3. ~Issuable(order)
    BY <1>1, <1>3, <2>2, Unmet, SigningStage DEF GotoOut
  <2>4. QED
    BY <1>1, <1>3, <2>3, GotoOutKeepsIInv
<1>4. ASSUME NEW f \in Trouble({"openssl"}), GotoOut(f) PROVE IInv'
  BY <1>1, <1>4, TroubleKinds, GotoOutKeepsIInv
<1>5. QED
  BY <1>2, <1>3, <1>4 DEF LoadKey

\* The key fits the algorithm and signs, or the order is refused.
LEMMA EvpSignKeepsIInv == ASSUME IInv, EvpSign PROVE IInv'
<1>1. step = "key" /\ Alg.family # "HMAC" /\ pkey = "live"
  BY DEF EvpSign, IInv, SigningInv
<1>2. CASE /\ privkey_compatible(order.key, Alg)
           /\ Advance(IF Alg.family = "ECDSA" THEN "raw" ELSE "emit")
           /\ sig' = {SignatureBy(order.key, Alg, signing_input(order))}
           /\ UNCHANGED <<pkey, out>>
  <2>1. sig' = {Signed} /\ Fits(order)
    BY <1>1, <1>2, SigningStage DEF Advance, Signed, SigningKey, Fits, Alg
  <2>2. StageInv' /\ Alg' = Alg /\ Signed' = Signed /\ Fits(order)' /\ out = Nothing
    BY <1>1, <1>2, <2>1, SigningStage DEF Advance
  <2>3. SigningInv'
    BY <1>1, <1>2, <2>1, <2>2 DEF Advance, SigningInv
  <2>4. QED
    BY <1>1, <1>2, <2>1, <2>2, <2>3, AdvanceKeepsIInv
<1>3. CASE ~privkey_compatible(order.key, Alg) /\ GotoOut({})
  <2>1. ~Fits(order)
    BY <1>1, <1>3 DEF Fits, Alg
  <2>2. ~Issuable(order)
    BY <1>1, <1>3, <2>1, Unmet, SigningStage DEF GotoOut
  <2>3. QED
    BY <1>1, <1>3, <2>2, GotoOutKeepsIInv
<1>4. ASSUME NEW f \in Trouble({"alloc", "openssl"}), GotoOut(f) PROVE IInv'
  BY <1>1, <1>4, TroubleKinds, GotoOutKeepsIInv
<1>5. QED
  BY <1>2, <1>3, <1>4 DEF EvpSign

\* nxe_jwx_ecdsa_der_to_raw keeps the signature, or fails.
LEMMA DerToRawKeepsIInv == ASSUME IInv, DerToRaw PROVE IInv'
<1>1. /\ step = "raw" /\ Alg.family # "HMAC" /\ Fits(order) /\ sig = {Signed}
      /\ pkey = "live"
  BY DEF DerToRaw, IInv, SigningInv
<1>2. CASE Advance("emit") /\ UNCHANGED <<pkey, sig, out>>
  <2>1. StageInv' /\ Alg' = Alg /\ Signed' = Signed /\ Fits(order)' /\ out = Nothing
    BY <1>1, <1>2, SigningStage DEF Advance
  <2>2. SigningInv'
    BY <1>1, <1>2, <2>1 DEF Advance, SigningInv
  <2>3. QED
    BY <1>1, <1>2, <2>1, <2>2, AdvanceKeepsIInv
<1>3. ASSUME NEW f \in Trouble({"alloc", "openssl"}), GotoOut(f) PROVE IInv'
  BY <1>1, <1>3, TroubleKinds, GotoOutKeepsIInv
<1>4. QED
  BY <1>2, <1>3 DEF DerToRaw

\* The signature segment after the two of the signing input.
LEMMA ThreeSegments ==
  ASSUME NEW a, NEW b, NEW c
  PROVE  LET t == <<a, b>> \o <<c>>
         IN  Len(t) = 3 /\ t[1] = a /\ t[2] = b /\ t[3] = c
<1> DEFINE S == {a, b, c}
<1>1. /\ <<a, b>> \in Seq(S) /\ <<c>> \in Seq(S)
      /\ Len(<<a, b>>) = 2 /\ Len(<<c>>) = 1
  OBVIOUS
<1>2. <<a, b>>[1] = a /\ <<a, b>>[2] = b /\ <<c>>[1] = c
  OBVIOUS
<1> HIDE DEF S
<1>3. QED
  BY <1>1, <1>2, ConcatProperties

\* At "emit" the test of the whole token is the last thing an order can fail.
LEMMA EmitStage ==
  ASSUME IInv, step = "emit"
  PROVE  /\ order \in Order /\ TheSig = Signed
         /\ token_fits(order) <=> Issuable(order)
         /\ total_len(order) \in Nat
         /\ total_len(order) = HeaderSegment(order).len + PayloadSegment(order).len
                               + SignatureSegment(Signed).len + 2
<1>1. /\ order \in Order /\ Fits(order) /\ sig = {Signed} /\ order.args = "ok"
      /\ order.claims.json = "object" /\ header_fits(order)
      /\ order.kid.len = 0 \/ order.kid.quoted > 0
  BY DEF IInv, TypeOK, StageInv, SigningInv, Past
<1>2. TheSig = Signed
  BY <1>1 DEF TheSig
<1> DEFINE head == Chars(HeaderOctets(order))
           body == Chars(order.claims.len)
           tail == Chars(SignatureOctets(order.alg, order.key))
<1>3. /\ head \in Nat /\ body \in Nat
      /\ HeaderSegment(order).len = head /\ PayloadSegment(order).len = body
      /\ signing_len(order) = head + 1 + body
  BY <1>1, OrderLengths
<1>4. SignatureSegment(Signed).len = tail /\ tail \in Nat
  BY <1>1, TokenLength DEF Signed, Alg
<1>5. Issuable(order) <=> head <= MaxJwtHeader /\ head + body + tail + 2 <= MaxJwtSize
  BY <1>1, FitsIsSignsUnder DEF Issuable
<1>6. head <= MaxJwtHeader
  BY <1>1, <1>3 DEF header_fits
<1> HIDE DEF head, body, tail
<1>7. total_len(order) = head + 1 + body + 1 + tail
  BY <1>2, <1>3, <1>4 DEF total_len
<1>8. token_fits(order) <=> Issuable(order)
  BY <1>3, <1>4, <1>5, <1>6, <1>7, IssueAssumption DEF token_fits
<1>9. QED
  BY <1>1, <1>2, <1>3, <1>4, <1>7, <1>8

\* The limit on the whole token: the order is one that cannot be met.
LEMMA TooLongKeepsIInv == ASSUME IInv, TooLong PROVE IInv'
<1>1. step = "emit" /\ ~token_fits(order) /\ GotoOut({})
  BY DEF TooLong
<1>2. ~Issuable(order)
  BY <1>1, EmitStage
<1>3. QED
  BY <1>1, <1>2, GotoOutKeepsIInv

\* No memory for the token after its length was set: *out is nulled.
LEMMA EmitFailsKeepsIInv == ASSUME IInv, EmitFails PROVE IInv'
<1>1. ASSUME NEW f \in Trouble({"alloc"}), GotoOut(f), step = "emit" PROVE IInv'
  BY <1>1, TroubleKinds, GotoOutKeepsIInv
<1>2. QED
  BY <1>1 DEF EmitFails

\* The token is written: the order was one that can be met.
LEMMA EmitKeepsIInv == ASSUME IInv, Emit PROVE IInv'
<1>1. /\ step = "emit" /\ token_fits(order) /\ step' = "returned" /\ ret' = "OK"
      /\ order' = order /\ sig' = sig /\ trouble' = trouble
      /\ pkey' = IF pkey = "live" THEN "freed" ELSE pkey
      /\ out' = [data |-> "token", len |-> total_len(order),
                 token |-> signing_input(order) \o <<SignatureSegment(TheSig)>>]
  BY DEF Emit
<1>2. /\ TheSig = Signed /\ Issuable(order) /\ total_len(order) \in Nat
      /\ total_len(order) = HeaderSegment(order).len + PayloadSegment(order).len
                            + SignatureSegment(Signed).len + 2
  BY <1>1, EmitStage
<1>3. trouble = {} /\ pkey = IF Alg.family = "HMAC" THEN "none" ELSE "live"
  BY <1>1 DEF IInv, StageInv, SigningInv
<1>4. TypeOK'
  BY <1>1, <1>2 DEF IInv, TypeOK
<1>5. StageInv' /\ SigningInv'
  BY <1>1 DEF StageInv, SigningInv, Past
<1>6. IssuesExactly'
  <2>1. Issuable(order)' <=> Issuable(order)
    BY <1>1
  <2>2. QED
    BY <1>1, <1>2, <1>3, <2>1 DEF IssuesExactly
<1>7. OutputWhole'
  <2>1. out'.token = <<HeaderSegment(order), PayloadSegment(order)>>
                       \o <<SignatureSegment(Signed)>>
    BY <1>1, <1>2 DEF signing_input
  <2>2. /\ Len(out'.token) = 3 /\ out'.token[1] = HeaderSegment(order)
        /\ out'.token[2] = PayloadSegment(order)
        /\ out'.token[3] = SignatureSegment(Signed)
    BY <2>1, ThreeSegments
  <2>3. out'.len = out'.token[1].len + out'.token[2].len + out'.token[3].len + 2
    BY <1>1, <1>2, <2>2
  <2>4. QED
    BY <1>1, <2>2, <2>3 DEF OutputWhole
<1>8. KeyReleased'
  <2>1. Alg' = Alg
    BY <1>1 DEF Alg
  <2>2. QED
    BY <1>1, <1>3, <2>1 DEF KeyReleased
<1>9. QED
  BY <1>4, <1>5, <1>6, <1>7, <1>8 DEF IInv

-----------------------------------------------------------------------------
(* The theorems. *)

\* A call on its way in has done nothing yet.
LEMMA InitEstablishesIInv == IssueInit => IInv
<1> SUFFICES ASSUME IssueInit PROVE IInv
  OBVIOUS
<1>1. TypeOK
  <2>1. Cardinality(sig) <= 1
    BY FS_EmptySet DEF IssueInit
  <2>2. QED
    BY <2>1, IssueAssumption DEF IssueInit, TypeOK, Unset
<1>2. StageInv /\ SigningInv
  BY DEF IssueInit, StageInv, SigningInv, Past
<1>3. IssuesExactly /\ OutputWhole /\ KeyReleased
  BY DEF IssueInit, IssuesExactly, OutputWhole, KeyReleased
<1>4. QED
  BY <1>1, <1>2, <1>3 DEF IInv

\* One step per stage of nxe_jwx_encode.
LEMMA StepKeepsIInv == IInv /\ [IssueNext]_ivars => IInv'
<1> SUFFICES ASSUME IInv, [IssueNext]_ivars PROVE IInv'
  OBVIOUS
<1>1. CASE RejectArguments
  BY <1>1, RejectArgumentsKeepsIInv
<1>2. CASE RejectOrder
  BY <1>2, RejectOrderKeepsIInv
<1>3. CASE AcceptOrder
  BY <1>3, AcceptOrderKeepsIInv
<1>4. CASE ValidateClaims
  BY <1>4, ValidateClaimsKeepsIInv
<1>5. CASE BuildHeader
  BY <1>5, BuildHeaderKeepsIInv
<1>6. CASE EncodeSegments
  BY <1>6, EncodeSegmentsKeepsIInv
<1>7. CASE HmacSign
  BY <1>7, HmacSignKeepsIInv
<1>8. CASE LoadKey
  BY <1>8, LoadKeyKeepsIInv
<1>9. CASE EvpSign
  BY <1>9, EvpSignKeepsIInv
<1>10. CASE DerToRaw
  BY <1>10, DerToRawKeepsIInv
<1>11. CASE TooLong
  BY <1>11, TooLongKeepsIInv
<1>12. CASE EmitFails
  BY <1>12, EmitFailsKeepsIInv
<1>13. CASE Emit
  BY <1>13, EmitKeepsIInv
<1>14. CASE UNCHANGED ivars
  BY <1>14 DEF ivars, IInv, TypeOK, StageInv, SigningInv, IssuesExactly, OutputWhole,
               KeyReleased, Past, Fits, Signed, SigningKey, SignatureBy, Alg, Issuable
<1>15. QED
  BY <1>1, <1>2, <1>3, <1>4, <1>5, <1>6, <1>7, <1>8, <1>9, <1>10, <1>11, <1>12,
     <1>13, <1>14 DEF IssueNext

\* The invariant of nxe_jwx_encode, over all its stages.
LEMMA Invariant == IssueSpec => []IInv
PROOF BY InitEstablishesIInv, StepKeepsIInv, PTL DEF IssueSpec

\* nxe_jwx_encode keeps the types of its variables for every order and every
\* failure: jws.c:1101-1282.
THEOREM TypeCorrect == IssueSpec => []TypeOK
<1>1. IInv => TypeOK
  BY DEF IInv
<1>2. QED
  BY <1>1, Invariant, PTL

\* An order is met exactly if its token fits the decoder's limits and its key
\* fits its algorithm, and nothing failed, whatever the limits are.
THEOREM IssuesExactlyAlways == IssueSpec => []IssuesExactly
<1>1. IInv => IssuesExactly
  BY DEF IInv
<1>2. QED
  BY <1>1, Invariant, PTL

\* The length put to the limit is the length written, and every failure leaves
\* the caller with no token and no length.
THEOREM OutputWholeAlways == IssueSpec => []OutputWhole
<1>1. IInv => OutputWhole
  BY DEF IInv
<1>2. QED
  BY <1>1, Invariant, PTL

\* The private key lives from its loading to the return, and is freed by
\* whichever way nxe_jwx_encode leaves.
THEOREM KeyReleasedAlways == IssueSpec => []KeyReleased
<1>1. IInv => KeyReleased
  BY DEF IInv
<1>2. QED
  BY <1>1, Invariant, PTL
=============================================================================
