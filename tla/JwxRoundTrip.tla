---------------------------- MODULE JwxRoundTrip ----------------------------
(***************************************************************************)
(* The library at both ends of a wire: one side issues a token (JwxIssue), *)
(* the other parses a keyset document (JwxKeyset), decodes what arrives    *)
(* (JwxToken) and verifies it with nxe_jwx_jws_verify.  The wire passes    *)
(* the token on, or something made of it.  The verifier is one step, the   *)
(* verdict of JwxVerify, which its two passes are proved to return.        *)
(* Memory and OpenSSL may fail in each of the four.                        *)
(***************************************************************************)
EXTENDS JwxIssue

CONSTANTS
  Docs, MaxKeys, MinRsaBits, MaxRsaBits,   \* as in JwxKeyset
  KeysetFaults,   \* which failures happen to a parser of keysets
  DecodeFaults,   \* and to the decoder
  VerifyFaults    \* and to OpenSSL, asked to verify with a key

VARIABLES
  phase,     \* "keyset", "issue", "wire", "decode", "verify", "end"
  served,    \* how OpenSSL served each slot in the verification (history)
  verdict,   \* what nxe_jwx_jws_verify returned, "none" before
  kpc, doc, i, slots, nkeys, root, pkeys, secrets, kcln, kpool, kresult, kfaulty,
  tpc, str, json, fields, raws, signing, alg, kid, tcln, tpool, tresult, tfaulty

kvars == <<kpc, doc, i, slots, nkeys, root, pkeys, secrets, kcln, kpool,
           kresult, kfaulty>>
tvars == <<tpc, str, json, fields, raws, signing, alg, kid, tcln, tpool,
           tresult, tfaulty>>
vars == <<phase, served, verdict, ivars, kvars, tvars>>

Keyset == INSTANCE JwxKeyset WITH
  Faults <- KeysetFaults, pc <- kpc, cln <- kcln, pool <- kpool, result <- kresult,
  faulty <- kfaulty

NullToken == <<>>
Token == INSTANCE JwxToken WITH
  Tokens <- {NullToken}, Faults <- DecodeFaults, pc <- tpc, cln <- tcln,
  pool <- tpool, result <- tresult, faulty <- tfaulty

(***************************************************************************)
(* An id names one key pair, or one secret: where an entry of a document   *)
(* and an order's key have the same id, the entry is the public half, of   *)
(* that type and curve.  An oct entry may be any octets, those of a PEM    *)
(* too.                                                                    *)
(***************************************************************************)
PublicHalf(form, e, key) ==
  IF form = "keyval" THEN e.base = key.base /\ e.group = key.group
  ELSE /\ e.kty = "RSA" => key.base \in {"RSA", "RSA-PSS"}
       /\ e.kty \in {"EC", "OKP"} => e.crv = Keyset!CurveOf(key)

ASSUME DocsAssumption ==
  /\ Docs \subseteq Keyset!Doc
  /\ MaxKeys \in Nat \ {0} /\ MinRsaBits \in Nat /\ MaxRsaBits \in Nat

ASSUME FaultsAssumption ==
  /\ KeysetFaults \subseteq Keyset!FaultKinds
  /\ DecodeFaults \subseteq Token!FaultKinds
  /\ VerifyFaults \subseteq {"setup", "verify"}

ASSUME RoundTripAssumption ==
  \A o \in Orders, d \in Docs : \A n \in DOMAIN d.entries :
    d.entries[n].id = o.key.id => PublicHalf(d.form, d.entries[n], o.key)

\* The strings the two ends and the wire write; TLC knows them for strings.
ASSUME StringsAssumption ==
  {Absent, "header", "other claims", "none", "HS256"} \subseteq STRING

Verifier == INSTANCE JwxVerify WITH
  Requests <- {}, MaxCalls <- 0, calls <- 0, pc <- "idle", req <- 0, i <- 0,
  matched <- 0, interr <- 0, logged <- 0, tries <- <<>>, rc <- "none"

-----------------------------------------------------------------------------
Init ==
  /\ phase = "keyset" /\ served = <<>> /\ verdict = "none"
  /\ IssueInit /\ Keyset!Init /\ Token!Init

ParseKeyset ==
  /\ phase = "keyset" /\ Keyset!ParseStep
  /\ phase' = IF kpc' = "done" THEN "issue" ELSE "keyset"
  /\ UNCHANGED <<served, verdict, ivars, tvars>>

\* Without a token there is nothing to send.
Issue ==
  /\ phase = "issue" /\ IssueNext
  /\ phase' = IF step' # "returned" THEN "issue"
              ELSE IF ret' = "OK" THEN "wire" ELSE "end"
  /\ UNCHANGED <<served, verdict, kvars, tvars>>

NoSegment == [SignatureSegment(TheSig) EXCEPT !.len = 0, !.raw = 0]

\* What may come out at the other end: the token; the token without its
\* signature, with other claims, another alg, no kid, or cut, or lengthened.
Arrivals(t) ==
  {t, [t EXCEPT ![3] = NoSegment], [t EXCEPT ![2].id = "other claims"],
   [t EXCEPT ![1].alg = "none"], [t EXCEPT ![1].alg = "HS256"],
   [t EXCEPT ![1].kid = Absent], <<t[1], t[2]>>, Append(t, t[3])}

Wire ==
  /\ phase = "wire" /\ phase' = "decode"
  /\ str' \in Arrivals(out.token)
  /\ UNCHANGED <<served, verdict, ivars, kvars, tpc, json, fields, raws, signing, alg,
                 kid, tcln, tpool, tresult, tfaulty>>

Decode ==
  /\ phase = "decode" /\ Token!DecodeStep
  /\ phase' = IF tpc' # "done" THEN "decode"
              ELSE IF tresult' = "token" THEN "verify" ELSE "end"
  /\ UNCHANGED <<served, verdict, ivars, kvars>>

\* A slot of the keyset as the verifier reads it; how OpenSSL serves it.
KeyOf(slot, how) ==
  [kty |-> slot.kty, kid |-> slot.kid.v, alg |-> slot.alg.v,
   thumbprint |-> Empty, mat |-> slot.mat, ossl |-> how]

\* The octets of the third segment, as a signature.
SignatureRead == [TheSig EXCEPT !.len = IF str[3].len = 0 THEN 0 ELSE @]

\* What nxe_jwx_jws_verify takes from the token and the keyset.
VerifyRequest(how) ==
  [op |-> "jws", args |-> IF kresult = "keyset" THEN "ok" ELSE "null",
   alg |-> alg.v, id |-> kid.v, msg |-> signing, sig |-> SignatureRead,
   keys |-> [s \in 1..nkeys |-> KeyOf(slots[s], how[s])]]

Verify ==
  /\ phase = "verify" /\ phase' = "end"
  /\ served' \in [1..nkeys -> {"ok"} \cup VerifyFaults]
  /\ verdict' = Verifier!Verdict(VerifyRequest(served'))
  /\ UNCHANGED <<ivars, kvars, tvars>>

Next == ParseKeyset \/ Issue \/ Wire \/ Decode \/ Verify

Spec == Init /\ [][Next]_vars

-----------------------------------------------------------------------------
(* Properties. *)

AsIssued == ret = "OK" /\ str = out.token

\* The encoder's limits are the decoder's (jws.c:1162-1172, 1251): whatever the
\* encoder returns, the decoder takes unless a call of its own fails, and reads
\* back the alg, the kid and the very input that was signed.
IssuedDecodes ==
  (tpc = "done" /\ AsIssued) =>
    /\ tresult = "token" <=> tfaulty = {}
    /\ tresult = "token" =>
         /\ signing = TheSig.msg /\ alg.v = order.alg
         /\ kid.v = IF order.kid.len = 0 THEN Empty ELSE order.kid.v

(***************************************************************************)
(* Documents a verifier can use for an order, as a matter of key           *)
(* management: an entry that publishes the issuing key, may be used for    *)
(* this algorithm and goes with the token's kid.                           *)
(***************************************************************************)
Usable == IF doc.form = "jwks"
          THEN {e \in {doc.entries[n] : n \in DOMAIN doc.entries} :
                  Keyset!UsableJwk(e)}
          ELSE {e \in {doc.entries[n] : n \in DOMAIN doc.entries} :
                  Keyset!UsablePem(e)}

IsPublicHalf(e) ==
  /\ e.id = order.key.id
  /\ IF doc.form = "keyval"
     THEN order.alg \notin {"HS256", "HS384", "HS512"}
     ELSE /\ e.kty = Verifier!KtyOf(order.alg)
          /\ order.key.base = "RSA-PSS" => order.alg \notin {"RS256", "RS384", "RS512"}
          /\ e.alg \in {Absent, Empty, order.alg}

GoesWithKid(e) ==
  \/ order.kid.len = 0 \/ e.kid = order.kid.v
  \/ e.kid = Absent /\ \A d \in Usable : d.kid # order.kid.v

Publishes(e) == IsPublicHalf(e) /\ GoesWithKid(e)

\* A slot was made of the entry, and OpenSSL served it.
Served(e) == \E n \in 1..nkeys : Keyset!Same(slots[n], e) /\ served[n] = "ok"

\* Only a keyval document can lose an entry and still be a keyset.
NothingLost == /\ doc.form = "jwks" \/ "build" \notin kfaulty
               /\ \A n \in 1..nkeys : served[n] = "ok"

(***************************************************************************)
(* Between the two ends: a token is accepted exactly if it arrives as it was *)
(* issued and the document publishes its key.  So the encoder's freedoms   *)
(* (jws.c:973: RSA keys of any size, RSA-PSS keys under RS256) meet a verifier *)
(* that accepts them from a PEM, and not from a JWK, whose modulus is bounded *)
(* and whose keys are never RSA-PSS (jwks.c:555-571).  A failure costs the *)
(* entry it hits its verdict, and no other, and it admits no key: a labelled *)
(* key lost from a keyset would open its kid to the keys without one, but a *)
(* JWKS loses none (jwks.c:525-529), and a keyval document, which may      *)
(* (jwks.c:945), has no key without a label.                               *)
(***************************************************************************)
AcceptedExactly ==
  verdict # "none" =>
    LET Meets == AsIssued /\ kresult = "keyset" IN
    /\ verdict = "OK" <=> Meets /\ \E e \in Usable : Publishes(e) /\ Served(e)
    /\ NothingLost =>
         (verdict = "OK" <=> Meets /\ \E e \in Usable : Publishes(e))

=============================================================================
