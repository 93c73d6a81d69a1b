------------------------- MODULE JwxRoundTripProofs -------------------------
(***************************************************************************)
(* The library at both ends, for every order, every document and every     *)
(* limit.  The components' invariants hold in the composition: each phase  *)
(* is a step of one of them and leaves the others alone.  What they say    *)
(* together is that the token issued is the token decoded, and that the    *)
(* slots a verdict is taken from are the entries of the document.          *)
(***************************************************************************)
EXTENDS JwxRoundTrip, JwxIssueProofs

KP == INSTANCE JwxKeysetProofs WITH
  Faults <- KeysetFaults, pc <- kpc, cln <- kcln, pool <- kpool,
  result <- kresult, faulty <- kfaulty

TP == INSTANCE JwxTokenProofs WITH
  Tokens <- {NullToken}, Faults <- DecodeFaults, pc <- tpc, cln <- tcln,
  pool <- tpool, result <- tresult, faulty <- tfaulty

-----------------------------------------------------------------------------
(* The keyset. *)

\* The documents are documents of the parsers, which may fail as they do.
LEMMA KeysetPremise ==
  /\ HaveHmac \in BOOLEAN /\ Docs \subseteq KP!Doc
  /\ MaxKeys \in Nat \ {0} /\ MinRsaBits \in Nat /\ MaxRsaBits \in Nat
  /\ KeysetFaults \subseteq KP!FaultKinds
PROOF BY DocsAssumption, FaultsAssumption, HaveHmacAssumption
      DEF Keyset!Doc, Keyset!Jwk, Keyset!Pem, Keyset!Absent, Keyset!FaultKinds,
          KP!Doc, KP!Jwk, KP!Pem, KP!Absent, KP!FaultKinds

\* The parser here is the parser of JwxKeysetProofs.
LEMMA KeysetStep == Keyset!ParseStep => KP!ParseStep
PROOF BY DEF
  Keyset!ParseStep, Keyset!RejectShape, Keyset!RejectCount, Keyset!jwks_alloc,
  Keyset!JwkNotObject, Keyset!JwkSkipEarly, Keyset!JwkDupFails, Keyset!JwkDeclined,
  Keyset!JwkError, Keyset!JwkAccepted, Keyset!PemSkipped, Keyset!PemUnsupported,
  Keyset!PemDupFails, Keyset!PemAccepted, Keyset!Finish, Keyset!JwkHere,
  Keyset!PemHere, Keyset!NextEntry, Keyset!Fail, Keyset!PutSlot, Keyset!built,
  Keyset!json_free, Keyset!count_refused, Keyset!Capacity, Keyset!skipped_early,
  Keyset!supported, Keyset!length_ok, Keyset!bits_outside, Keyset!parse_material,
  Keyset!built_material, Keyset!lookup_ec_curve, Keyset!lookup_okp_curve,
  Keyset!ec_curve_from_pkey, Keyset!okp_curve_from_pkey, Keyset!kty_from_pkey,
  Keyset!EcCurves, Keyset!OkpCurves, Keyset!JwkSlot, Keyset!FilledSlot,
  Keyset!PemSlot, Keyset!ZeroSlot, Keyset!Thumbprinted, Keyset!jwk_thumbprint,
  Keyset!thumbprint_crv, Keyset!NoThumbprint, Keyset!NoMat, Keyset!Str,
  Keyset!loads, Keyset!curves_of, Keyset!pem_supported, Keyset!Absent, Keyset!Empty,
  KP!ParseStep, KP!RejectShape, KP!RejectCount, KP!jwks_alloc,
  KP!JwkNotObject, KP!JwkSkipEarly, KP!JwkDupFails, KP!JwkDeclined,
  KP!JwkError, KP!JwkAccepted, KP!PemSkipped, KP!PemUnsupported,
  KP!PemDupFails, KP!PemAccepted, KP!Finish, KP!JwkHere,
  KP!PemHere, KP!NextEntry, KP!Fail, KP!PutSlot, KP!built,
  KP!json_free, KP!count_refused, KP!Capacity, KP!skipped_early,
  KP!supported, KP!length_ok, KP!bits_outside, KP!parse_material,
  KP!built_material, KP!lookup_ec_curve, KP!lookup_okp_curve,
  KP!ec_curve_from_pkey, KP!okp_curve_from_pkey, KP!kty_from_pkey,
  KP!EcCurves, KP!OkpCurves, KP!JwkSlot, KP!FilledSlot,
  KP!PemSlot, KP!ZeroSlot, KP!Thumbprinted, KP!jwk_thumbprint,
  KP!thumbprint_crv, KP!NoThumbprint, KP!NoMat, KP!Str,
  KP!loads, KP!curves_of, KP!pem_supported, KP!Absent, KP!Empty

\* What JwxKeysetProofs proves of the slots.
KeysetInv == KP!IndInv /\ KP!FilterInv

\* A parser on its way in has counted nothing.
LEMMA KeysetStarts == Keyset!Init => KeysetInv
<1> SUFFICES ASSUME Keyset!Init PROVE KeysetInv
  OBVIOUS
<1>1. KP!Init
  BY DEF Keyset!Init, KP!Init
<1>2. KP!IndInv /\ KP!FilterInv
  BY <1>1, KeysetPremise, KP!InitIndInv, KP!InitFilterInv
<1>3. QED
  BY <1>2 DEF KeysetInv

\* A stage of the parser keeps it, as does any other step, and no step changes the
\* document.
LEMMA KeysetKept ==
  ASSUME KeysetInv, Keyset!ParseStep \/ UNCHANGED kvars
  PROVE  KeysetInv' /\ doc' = doc
<1>1. [KP!Next]_KP!vars
  BY KeysetStep DEF KP!Next, KP!vars, kvars
<1>2. KP!IndInv' /\ KP!FilterInv'
  BY <1>1, KeysetPremise, KP!InductiveStep, KP!FilterInductive DEF KeysetInv
<1>3. doc' = doc
  BY <1>1, KeysetPremise, KP!History DEF KeysetInv
<1>4. QED
  BY <1>2, <1>3 DEF KeysetInv

-----------------------------------------------------------------------------
(* The decoder. *)

\* The decoder has the limits of the encoder.
LEMMA TokenPremise ==
  /\ {NullToken} \subseteq Seq(TP!Segment)
  /\ MaxJwtSize \in Nat /\ MaxJwtHeader \in Nat
  /\ DecodeFaults \subseteq TP!FaultKinds
PROOF BY IssueAssumption, FaultsAssumption DEF NullToken, Token!FaultKinds, TP!FaultKinds

\* The decoder here is the decoder of JwxTokenProofs.
LEMMA DecoderStep == Token!DecodeStep => TP!DecodeStep
PROOF BY DEF
  Token!DecodeStep, Token!RejectString, Token!AllocToken, Token!CopySigningInput,
  Token!DecodePart, Token!ParsePart, Token!DecodeSignature, Token!ReadHeaderStrings,
  Token!Parts, Token!SegmentOf, Token!JsonStage, Token!NextStage, Token!View,
  Token!views, Token!Fail, Token!GoTo, Token!args_ok, Token!split_ok, Token!fits,
  Token!token_len, Token!SigningInput, Token!drop_document, Token!NullToken,
  Token!Absent, Token!Empty,
  TP!DecodeStep, TP!RejectString, TP!AllocToken, TP!CopySigningInput,
  TP!DecodePart, TP!ParsePart, TP!DecodeSignature, TP!ReadHeaderStrings,
  TP!Parts, TP!SegmentOf, TP!JsonStage, TP!NextStage, TP!View,
  TP!views, TP!Fail, TP!GoTo, TP!args_ok, TP!split_ok, TP!fits,
  TP!token_len, TP!SigningInput, TP!drop_document, TP!NullToken,
  TP!Absent, TP!Empty

\* What JwxTokenProofs proves of the stages; and what a token has for alg and kid is
\* what its header says.
DecoderInv ==
  /\ TP!IInv
  /\ tresult = "token" =>
       /\ alg = TP!View(str[1].alg, "header")
       /\ kid = TP!View(str[1].kid, "header")

\* A decoder on its way in has found nothing.
LEMMA DecoderStarts == Token!Init => DecoderInv
<1> SUFFICES ASSUME Token!Init PROVE DecoderInv
  OBVIOUS
<1>1. TP!Init
  BY DEF Token!Init, Token!Parts, Token!Buffers, Token!NoView, Token!NoSigningInput,
     Token!View, Token!Absent, Token!Empty, TP!Init, TP!Parts, TP!Buffers, TP!NoView,
     TP!NoSigningInput, TP!View, TP!Absent, TP!Empty
<1>2. TP!IInv
  BY <1>1, TokenPremise, TP!InitIInv
<1>3. QED
  BY <1>2 DEF DecoderInv, Token!Init

\* A stage of the decoder keeps it, as does any other step; the string stays.
LEMMA DecoderKept ==
  ASSUME DecoderInv, Token!DecodeStep \/ UNCHANGED tvars
  PROVE  DecoderInv' /\ str' = str
<1>1. [TP!Next]_TP!vars
  BY DecoderStep DEF TP!Next, TP!vars, tvars
<1>2. TP!IInv'
  BY <1>1, TokenPremise, TP!InductiveStep DEF DecoderInv
<1>3. CASE UNCHANGED tvars
  BY <1>2, <1>3 DEF DecoderInv, tvars
<1>4. CASE Token!DecodeStep
  <2>1. tpc # "done" /\ str' = str
    BY <1>4 DEF DecoderInv, Token!DecodeStep, Token!RejectString, Token!AllocToken,
       Token!CopySigningInput, Token!DecodePart, Token!ParsePart, Token!DecodeSignature,
       Token!ReadHeaderStrings, Token!Fail, Token!GoTo, Token!Parts, Token!JsonStage
  <2>2. tresult = "none"
    BY <2>1 DEF DecoderInv, TP!IInv, TP!TypeOK
  <2>3. CASE Token!ReadHeaderStrings
    BY <1>2, <2>1, <2>3 DEF DecoderInv, Token!ReadHeaderStrings, Token!View, TP!View,
       Token!Absent, Token!Empty, TP!Absent, TP!Empty
  <2>4. CASE ~Token!ReadHeaderStrings
    <3>1. tresult' \in {"none", "NULL"}
      BY <1>4, <2>2, <2>4 DEF Token!DecodeStep, Token!RejectString, Token!AllocToken,
         Token!CopySigningInput, Token!DecodePart, Token!ParsePart,
         Token!DecodeSignature, Token!Fail, Token!GoTo
    <3>2. QED
      BY <1>2, <2>1, <3>1 DEF DecoderInv
  <2>5. QED
    BY <2>3, <2>4
<1>5. QED
  BY <1>3, <1>4

\* Before it starts, the decoder is the same for any string.
LEMMA StringArrives ==
  ASSUME DecoderInv, tpc = "start", str' \in Seq(TP!Segment),
         UNCHANGED <<tpc, json, fields, raws, signing, alg, kid, tcln, tpool, tresult,
                     tfaulty>>
  PROVE  DecoderInv'
<1>1. tresult = "none"
  BY DEF DecoderInv, TP!IInv, TP!TypeOK
<1>2. TP!TypeOK'
  BY DEF DecoderInv, TP!IInv, TP!TypeOK
<1>3. TP!IInv'
  BY <1>1, <1>2 DEF DecoderInv, TP!IInv, TP!Split, TP!ArmedInv, TP!FieldsInv, TP!JsonInv,
     TP!OctetsInv, TP!SigningInv, TP!PassedInv, TP!DecodesExactly
<1>4. QED
  BY <1>1, <1>3 DEF DecoderInv

-----------------------------------------------------------------------------
(* The token issued. *)

\* The token of an order, as the encoder writes it.
IssuedToken == signing_input(order) \o <<SignatureSegment(Signed)>>

\* An order that is met leaves its token and its signature.
IssuedInv ==
  ret = "OK" => /\ Issuable(order) /\ Fits(order)
                /\ sig = {Signed} /\ out.token = IssuedToken

\* The octets of a signature are at least one.
LEMMA SignatureNotEmpty ==
  ASSUME order \in Orders, Issuable(order)
  PROVE  Signed.len \in Nat /\ Signed.len > 0 /\ Fits(order)
<1>1. order \in Order /\ (order.key.base # "bad" => order.key.bits > 0)
      /\ order.key.bits \in Nat
  BY IssueAssumption DEF Order
<1>2. Fits(order) /\ SignsUnder(order.key, order.alg)
  BY FitsIsSignsUnder DEF Issuable
<1>3. /\ Signed.len = SignatureOctets(order.alg, order.key)
      /\ Signed.len \in Nat
  BY <1>1, <1>2, SignatureLength DEF Signed, Alg
<1>4. CASE order.alg \in {"HS256", "HS384", "HS512", "ES256", "ES384", "ES512", "ES256K"}
  <2>1. /\ order.alg = "HS256" => SignatureOctets(order.alg, order.key) = 32
        /\ order.alg = "HS384" => SignatureOctets(order.alg, order.key) = 48
        /\ order.alg = "HS512" => SignatureOctets(order.alg, order.key) = 64
    BY DEF SignatureOctets
  <2>2. /\ order.alg = "ES256" => SignatureOctets(order.alg, order.key) = 64
        /\ order.alg = "ES256K" => SignatureOctets(order.alg, order.key) = 64
        /\ order.alg = "ES384" => SignatureOctets(order.alg, order.key) = 96
        /\ order.alg = "ES512" => SignatureOctets(order.alg, order.key) = 132
    BY DEF SignatureOctets
  <2>3. SignatureOctets(order.alg, order.key) \in {32, 48, 64, 96, 132}
    BY <1>4, <2>1, <2>2
  <2>4. QED
    BY <1>2, <1>3, <2>3
<1>5. CASE order.alg = "EdDSA"
  BY <1>2, <1>3, <1>5 DEF SignatureOctets, SignsUnder
<1>6. CASE order.alg \in {"RS256", "RS384", "RS512", "PS256", "PS384", "PS512"}
  <2>1. order.key.bits > 0
    BY <1>1, <1>2, <1>6 DEF SignsUnder
  <2>2. (order.key.bits + 7) \div 8 > 0
    BY <1>1, <2>1
  <2>3. QED
    BY <1>2, <1>3, <1>6, <2>2 DEF SignatureOctets
<1>7. QED
  BY <1>2, <1>3, <1>4, <1>5, <1>6 DEF SignsUnder

\* The name of an algorithm is none of the markers.
LEMMA AlgIsNamed ==
  ASSUME Fits(order)
  PROVE  order.alg \notin {Absent, Empty, "none"}
<1>1. order.alg \in PublicNames \cup HmacNames
  BY LookupByName DEF Fits
<1>2. QED
  BY <1>1 DEF PublicNames, HmacNames, Absent, Empty

\* The token of an order that is met, segment by segment.
LEMMA IssuedSegments ==
  ASSUME order \in Orders, Issuable(order)
  PROVE  /\ IssuedToken \in Seq(TP!Segment) /\ Len(IssuedToken) = 3
         /\ IssuedToken[1] = HeaderSegment(order)
         /\ IssuedToken[2] = PayloadSegment(order)
         /\ IssuedToken[3] = SignatureSegment(Signed)
         /\ IssuedToken[1].len \in Nat /\ IssuedToken[1].len > 0
         /\ IssuedToken[2].len \in Nat /\ IssuedToken[2].len > 0
         /\ IssuedToken[3].len \in Nat /\ IssuedToken[3].len > 0
         /\ IssuedToken[1].len <= MaxJwtHeader
         /\ IssuedToken[1].len + IssuedToken[2].len + IssuedToken[3].len + 2 <= MaxJwtSize
<1>1. order \in Order /\ order.claims.len > 0 /\ order.claims.len \in Nat
  BY IssueAssumption DEF Order, Issuable
<1>2. /\ Len(IssuedToken) = 3
      /\ IssuedToken[1] = HeaderSegment(order) /\ IssuedToken[2] = PayloadSegment(order)
      /\ IssuedToken[3] = SignatureSegment(Signed)
  BY ThreeSegments DEF IssuedToken, signing_input
<1>3. Signed.len \in Nat /\ Signed.len > 0 /\ Fits(order)
  BY SignatureNotEmpty
<1>4. /\ HeaderSegment(order).len = Chars(HeaderOctets(order))
      /\ PayloadSegment(order).len = Chars(order.claims.len)
      /\ header_len(order) = HeaderOctets(order) /\ HeaderOctets(order) \in Nat
      /\ Chars(HeaderOctets(order)) \in Nat /\ Chars(order.claims.len) \in Nat
      /\ Chars(order.claims.len) >= order.claims.len
  BY <1>1, OrderLengths
<1>5. /\ SignatureSegment(Signed).len = Chars(SignatureOctets(order.alg, order.key))
      /\ SignatureSegment(Signed).len \in Nat
  BY <1>1, <1>3, TokenLength DEF Signed, Alg
<1>6. SignatureSegment(Signed).len = b64url_len(Signed.len)
  BY DEF SignatureSegment
<1>7. SignatureSegment(Signed).len > 0
  BY <1>3, <1>5, <1>6, Base64Length
<1>8. HeaderOctets(order) > 0
  BY <1>1 DEF HeaderOctets, Order
<1>9. HeaderSegment(order).len > 0
  <2>1. Chars(HeaderOctets(order)) >= HeaderOctets(order)
    BY <1>4, Base64Length
  <2>2. QED
    BY <1>4, <1>8, <2>1
<1>10. /\ Chars(HeaderOctets(order)) <= MaxJwtHeader
       /\ Chars(HeaderOctets(order)) + Chars(order.claims.len)
            + Chars(SignatureOctets(order.alg, order.key)) + 2 <= MaxJwtSize
  BY DEF Issuable
<1>11. IssuedToken \in Seq(TP!Segment)
  <2>1. HeaderSegment(order) \in TP!Segment
    <3>1. order.alg \in STRING /\ order.kid.v \in STRING /\ Absent \in STRING
          /\ "header" \in STRING
      BY <1>1, StringsAssumption DEF Order
    <3>2. b64url_len(header_len(order)) \in Nat /\ header_len(order) \in Nat
      BY <1>4, Base64Length
    <3>3. QED
      BY <3>1, <3>2 DEF HeaderSegment, TP!Segment
  <2>2. PayloadSegment(order) \in TP!Segment
    <3>1. order.claims.id \in STRING /\ Absent \in STRING
          /\ order.claims.json \in {"object", "other", "bad"}
      BY <1>1, StringsAssumption DEF Order
    <3>2. b64url_len(order.claims.len) \in Nat
      BY <1>1, Base64Length
    <3>3. QED
      BY <1>1, <3>1, <3>2 DEF PayloadSegment, TP!Segment
  <2>3. SignatureSegment(Signed) \in TP!Segment
    <3>1. Signed.by = order.key.id
      BY <1>1 DEF Signed, SignatureBy, SigningKey, Order
    <3>3. Signed.by \in STRING /\ Absent \in STRING
      BY <1>1, <3>1, StringsAssumption DEF Order
    <3>2. b64url_len(Signed.len) \in Nat
      BY <1>3, Base64Length
    <3>4. QED
      BY <1>3, <3>2, <3>3 DEF SignatureSegment, TP!Segment
  <2>4. <<HeaderSegment(order), PayloadSegment(order)>> \in Seq(TP!Segment)
    BY <2>1, <2>2
  <2>5. <<SignatureSegment(Signed)>> \in Seq(TP!Segment)
    BY <2>3
  <2>6. QED
    BY <2>4, <2>5, ConcatProperties DEF IssuedToken, signing_input
<1>12. QED
  BY <1>1, <1>2, <1>4, <1>5, <1>7, <1>9, <1>10, <1>11

\* It is a token for the decoder, whatever the limits are.
LEMMA IssuedIsWellFormed ==
  ASSUME order \in Orders, Issuable(order)
  PROVE  TP!WellFormed(IssuedToken)
<1>1. /\ IssuedToken[1].b64 = "ok" /\ IssuedToken[2].b64 = "ok"
      /\ IssuedToken[3].b64 = "ok" /\ IssuedToken[1].json = "object"
      /\ IssuedToken[2].json = "object"
  BY IssuedSegments DEF HeaderSegment, PayloadSegment, SignatureSegment, Issuable
<1>2. QED
  BY <1>1, IssuedSegments DEF TP!WellFormed, TP!Readable

\* Meeting an order is the last stage of it; no stage changes the order.
LEMMA IssueKept ==
  ASSUME IInv, IssuedInv, IssueNext \/ UNCHANGED ivars
  PROVE  IInv' /\ IssuedInv' /\ order' = order
<1>1. IInv'
  BY StepKeepsIInv
<1>2. CASE UNCHANGED ivars
  BY <1>1, <1>2 DEF ivars, IssuedInv, Issuable, Fits, IssuedToken, Signed, Alg
<1>3. CASE Emit
  <2>1. /\ step = "emit" /\ token_fits(order) /\ order' = order /\ sig' = sig
        /\ out'.token = signing_input(order) \o <<SignatureSegment(TheSig)>>
    BY <1>3 DEF Emit
  <2>2. TheSig = Signed /\ Issuable(order)
    BY <2>1, EmitStage
  <2>3. sig = {Signed} /\ Fits(order)
    BY <2>1 DEF IInv, SigningInv
  <2>4. out'.token = IssuedToken
    BY <2>1, <2>2 DEF IssuedToken
  <2>5. IssuedToken' = IssuedToken /\ Signed' = Signed
    BY <2>1 DEF IssuedToken, Signed, Alg
  <2>6. QED
    BY <1>1, <2>1, <2>2, <2>3, <2>4, <2>5 DEF IssuedInv
<1>4. CASE IssueNext /\ ~Emit
  <2>1. step # "returned" /\ order' = order /\ ret' \in {ret, "ERROR"}
    BY <1>4 DEF IssueNext, RejectArguments, RejectOrder, AcceptOrder, ValidateClaims,
       BuildHeader, EncodeSegments, HmacSign, LoadKey, EvpSign, DerToRaw, TooLong,
       EmitFails, ReturnError, GotoOut, Advance
  <2>2. ret = "none"
    BY <2>1 DEF IInv, TypeOK
  <2>3. QED
    BY <1>1, <2>1, <2>2 DEF IssuedInv
<1>5. QED
  BY <1>2, <1>3, <1>4

-----------------------------------------------------------------------------
(* The two ends together. *)

\* What a phase finds, and what it may rely on.
PhaseInv ==
  /\ phase \in {"keyset", "issue", "wire", "decode", "verify", "end"}
  /\ phase # "keyset" => kpc = "done"
  /\ phase \in {"keyset", "issue", "wire"} => tpc = "start"
  /\ phase \in {"wire", "decode", "verify"} \/ verdict # "none" => ret = "OK"
  /\ phase \in {"decode", "verify"} \/ verdict # "none" => str \in Arrivals(out.token)
  /\ phase = "verify" \/ verdict # "none" => tresult = "token"
  /\ verdict # "none" => phase = "end"

EndsInv == /\ IInv /\ IssuedInv /\ KeysetInv /\ DecoderInv /\ PhaseInv
           /\ order \in Orders /\ doc \in Docs

\* The two ends begin with nothing parsed, issued or decoded.
LEMMA EndsStart == Init => EndsInv
<1> SUFFICES ASSUME Init PROVE EndsInv
  OBVIOUS
<1>1. IInv
  BY InitEstablishesIInv DEF Init
<1>2. KeysetInv
  BY KeysetStarts DEF Init
<1>3. DecoderInv
  BY DecoderStarts DEF Init
<1>4. ret = "none" /\ order \in Orders /\ doc \in Docs
  BY DEF Init, IssueInit, Keyset!Init
<1>5. PhaseInv
  BY DEF Init, PhaseInv, Token!Init
<1>6. QED
  BY <1>1, <1>2, <1>3, <1>4, <1>5 DEF EndsInv, IssuedInv

\* What arrives is a string of segments.
LEMMA ArrivalsAreStrings ==
  ASSUME order \in Orders, Issuable(order), NEW s \in Arrivals(IssuedToken),
         sig = {Signed}
  PROVE  s \in Seq(TP!Segment)
<1> DEFINE t == IssuedToken
<1>1. t \in Seq(TP!Segment) /\ Len(t) = 3 /\ t[3] = SignatureSegment(Signed)
  BY IssuedSegments
<1>2. s \in Arrivals(t)
  OBVIOUS
<1>3. TheSig = Signed
  BY DEF TheSig
<1> HIDE DEF t
<1>4. t[1] \in TP!Segment /\ t[2] \in TP!Segment /\ t[3] \in TP!Segment
  <2>1. 1 \in 1..Len(t) /\ 2 \in 1..Len(t) /\ 3 \in 1..Len(t)
    BY <1>1
  <2>2. QED
    BY <1>1, <2>1, ElementOfSeq
<1>5. NoSegment = [t[3] EXCEPT !.len = 0, !.raw = 0]
  BY <1>1, <1>3 DEF NoSegment
<1>6. NoSegment \in TP!Segment
  BY <1>4, <1>5 DEF TP!Segment
<1>7. /\ [t[1] EXCEPT !.alg = "none"] \in TP!Segment
      /\ [t[1] EXCEPT !.alg = "HS256"] \in TP!Segment
      /\ [t[1] EXCEPT !.kid = Absent] \in TP!Segment
      /\ [t[2] EXCEPT !.id = "other claims"] \in TP!Segment
  BY <1>4, StringsAssumption DEF TP!Segment
<1>8. /\ [t EXCEPT ![3] = NoSegment] \in Seq(TP!Segment)
      /\ [t EXCEPT ![2].id = "other claims"] \in Seq(TP!Segment)
      /\ [t EXCEPT ![1].alg = "none"] \in Seq(TP!Segment)
      /\ [t EXCEPT ![1].alg = "HS256"] \in Seq(TP!Segment)
      /\ [t EXCEPT ![1].kid = Absent] \in Seq(TP!Segment)
  <2>1. ASSUME NEW n \in 1..3, NEW e \in TP!Segment
        PROVE  [t EXCEPT ![n] = e] \in Seq(TP!Segment)
    BY <1>1, ExceptSeq
  <2>2. /\ [t EXCEPT ![2].id = "other claims"]
             = [t EXCEPT ![2] = [t[2] EXCEPT !.id = "other claims"]]
        /\ [t EXCEPT ![1].alg = "none"] = [t EXCEPT ![1] = [t[1] EXCEPT !.alg = "none"]]
        /\ [t EXCEPT ![1].alg = "HS256"] = [t EXCEPT ![1] = [t[1] EXCEPT !.alg = "HS256"]]
        /\ [t EXCEPT ![1].kid = Absent] = [t EXCEPT ![1] = [t[1] EXCEPT !.kid = Absent]]
    OBVIOUS
  <2>3. 1 \in 1..3 /\ 2 \in 1..3 /\ 3 \in 1..3
    OBVIOUS
  <2>4. /\ [t EXCEPT ![3] = NoSegment] \in Seq(TP!Segment)
        /\ [t EXCEPT ![2] = [t[2] EXCEPT !.id = "other claims"]] \in Seq(TP!Segment)
        /\ [t EXCEPT ![1] = [t[1] EXCEPT !.alg = "none"]] \in Seq(TP!Segment)
        /\ [t EXCEPT ![1] = [t[1] EXCEPT !.alg = "HS256"]] \in Seq(TP!Segment)
        /\ [t EXCEPT ![1] = [t[1] EXCEPT !.kid = Absent]] \in Seq(TP!Segment)
    BY <1>6, <1>7, <2>1, <2>3, Zenon
  <2>5. QED
    BY <2>2, <2>4
<1>9. <<t[1], t[2]>> \in Seq(TP!Segment) /\ Append(t, t[3]) \in Seq(TP!Segment)
  BY <1>1, <1>4
<1>10. QED
  BY <1>1, <1>2, <1>8, <1>9 DEF Arrivals

\* Each phase is a step of one component, and what it needs of the others is there.
LEMMA EndsKept == EndsInv /\ [Next]_vars => EndsInv'
<1> SUFFICES ASSUME EndsInv, [Next]_vars PROVE EndsInv'
  OBVIOUS
<1> USE DEF EndsInv
<1>1. CASE UNCHANGED vars
  <2>1. UNCHANGED ivars /\ UNCHANGED kvars /\ UNCHANGED tvars
        /\ phase' = phase /\ verdict' = verdict
    BY <1>1 DEF vars
  <2>2. IInv' /\ IssuedInv' /\ order' = order
    BY <2>1, IssueKept
  <2>3. KeysetInv' /\ doc' = doc
    BY <2>1, KeysetKept
  <2>4. DecoderInv'
    BY <2>1, DecoderKept
  <2>5. PhaseInv'
    BY <2>1 DEF PhaseInv, Arrivals, NoSegment, TheSig, ivars, kvars, tvars
  <2>6. QED
    BY <2>2, <2>3, <2>4, <2>5
<1>2. CASE ParseKeyset
  <2>1. UNCHANGED ivars /\ UNCHANGED tvars /\ Keyset!ParseStep /\ phase = "keyset"
        /\ phase' = (IF kpc' = "done" THEN "issue" ELSE "keyset") /\ verdict' = verdict
    BY <1>2 DEF ParseKeyset
  <2>2. IInv' /\ IssuedInv' /\ order' = order
    BY <2>1, IssueKept
  <2>3. KeysetInv' /\ doc' = doc
    BY <2>1, KeysetKept
  <2>4. DecoderInv'
    BY <2>1, DecoderKept
  <2>5. PhaseInv'
    BY <2>1 DEF PhaseInv, tvars
  <2>6. QED
    BY <2>2, <2>3, <2>4, <2>5
<1>3. CASE Issue
  <2>1. UNCHANGED kvars /\ UNCHANGED tvars /\ IssueNext /\ phase = "issue"
        /\ phase' = (IF step' # "returned" THEN "issue"
                     ELSE IF ret' = "OK" THEN "wire" ELSE "end")
        /\ verdict' = verdict
    BY <1>3 DEF Issue
  <2>2. IInv' /\ IssuedInv' /\ order' = order
    BY <2>1, IssueKept
  <2>3. KeysetInv' /\ doc' = doc
    BY <2>1, KeysetKept
  <2>4. DecoderInv'
    BY <2>1, DecoderKept
  <2>5. PhaseInv'
    BY <2>1 DEF PhaseInv, tvars, kvars
  <2>6. QED
    BY <2>2, <2>3, <2>4, <2>5
<1>4. CASE Wire
  <2>1. UNCHANGED ivars /\ UNCHANGED kvars /\ phase = "wire" /\ phase' = "decode"
        /\ str' \in Arrivals(out.token) /\ verdict' = verdict
        /\ UNCHANGED <<tpc, json, fields, raws, signing, alg, kid, tcln, tpool, tresult,
                       tfaulty>>
    BY <1>4 DEF Wire
  <2>2. IInv' /\ IssuedInv' /\ order' = order
    BY <2>1, IssueKept
  <2>3. KeysetInv' /\ doc' = doc
    BY <2>1, KeysetKept
  <2>4. tpc = "start" /\ ret = "OK"
    BY <2>1 DEF PhaseInv
  <2>5. str' \in Seq(TP!Segment)
    BY <2>1, <2>4, ArrivalsAreStrings DEF IssuedInv
  <2>6. DecoderInv'
    BY <2>1, <2>4, <2>5, StringArrives
  <2>7. PhaseInv'
    BY <2>1, <2>4 DEF PhaseInv, Arrivals, NoSegment, TheSig, ivars, kvars
  <2>8. QED
    BY <2>2, <2>3, <2>6, <2>7
<1>5. CASE Decode
  <2>1. UNCHANGED ivars /\ UNCHANGED kvars /\ Token!DecodeStep /\ phase = "decode"
        /\ phase' = (IF tpc' # "done" THEN "decode"
                     ELSE IF tresult' = "token" THEN "verify" ELSE "end")
        /\ verdict' = verdict
    BY <1>5 DEF Decode
  <2>2. IInv' /\ IssuedInv' /\ order' = order
    BY <2>1, IssueKept
  <2>3. KeysetInv' /\ doc' = doc
    BY <2>1, KeysetKept
  <2>4. DecoderInv' /\ str' = str
    BY <2>1, DecoderKept
  <2>5. PhaseInv'
    BY <2>1, <2>4 DEF PhaseInv, Arrivals, NoSegment, TheSig, ivars, kvars
  <2>6. QED
    BY <2>2, <2>3, <2>4, <2>5
<1>6. CASE Verify
  <2>1. UNCHANGED ivars /\ UNCHANGED kvars /\ UNCHANGED tvars
        /\ phase = "verify" /\ phase' = "end"
    BY <1>6 DEF Verify
  <2>2. IInv' /\ IssuedInv' /\ order' = order
    BY <2>1, IssueKept
  <2>3. KeysetInv' /\ doc' = doc
    BY <2>1, KeysetKept
  <2>4. DecoderInv'
    BY <2>1, DecoderKept
  <2>5. PhaseInv'
    BY <2>1 DEF PhaseInv, Arrivals, NoSegment, TheSig, ivars, kvars, tvars
  <2>6. QED
    BY <2>2, <2>3, <2>4, <2>5
<1>7. QED
  BY <1>1, <1>2, <1>3, <1>4, <1>5, <1>6 DEF Next

\* Both ends keep what their components promise, in every run of the two.
LEMMA EndsInvariant == Spec => []EndsInv
BY EndsStart, EndsKept, PTL DEF Spec

\* A token that arrives as it was issued is one for the decoder, unless a call of its
\* own fails, and what the decoder reads in it is what was written.
LEMMA DecodedAsIssued ==
  ASSUME EndsInv, tpc = "done", AsIssued
  PROVE  /\ tresult = "token" <=> tfaulty = {}
         /\ TheSig = Signed /\ str[3] = SignatureSegment(Signed)
         /\ tresult = "token" =>
              /\ signing = TheSig.msg /\ alg.v = order.alg
              /\ kid.v = IF order.kid.len = 0 THEN Empty ELSE order.kid.v
<1>1. /\ str = IssuedToken /\ Issuable(order) /\ Fits(order) /\ sig = {Signed}
      /\ order \in Orders
  BY DEF EndsInv, IssuedInv, AsIssued
<1>2. TheSig = Signed /\ Signed.msg = signing_input(order)
  BY <1>1 DEF TheSig, Signed, SignatureBy
<1>3. /\ str[1] = HeaderSegment(order) /\ str[2] = PayloadSegment(order)
      /\ str[3] = SignatureSegment(Signed)
  BY <1>1, IssuedSegments
<1>4. tresult = "token" <=> tfaulty = {}
  <2>1. TP!WellFormed(str)
    BY <1>1, IssuedIsWellFormed
  <2>2. TP!DecodesExactly
    BY DEF EndsInv, DecoderInv, TP!IInv
  <2>3. QED
    BY <2>1, <2>2 DEF TP!DecodesExactly
<1>5. ASSUME tresult = "token"
      PROVE  /\ signing = TheSig.msg /\ alg.v = order.alg
             /\ kid.v = IF order.kid.len = 0 THEN Empty ELSE order.kid.v
  <2>1. signing = signing_input(order)
    <3>1. signing = <<str[1], str[2]>>
      BY <1>5 DEF EndsInv, DecoderInv, TP!IInv, TP!SigningInv, TP!SigningInput
    <3>2. QED
      BY <1>3, <3>1 DEF signing_input
  <2>2. /\ alg = TP!View(HeaderSegment(order).alg, "header")
        /\ kid = TP!View(HeaderSegment(order).kid, "header")
    BY <1>3, <1>5 DEF EndsInv, DecoderInv
  <2>3. alg.v = order.alg
    <3>1. HeaderSegment(order).alg = order.alg
      BY DEF HeaderSegment
    <3>2. QED
      BY <1>1, <2>2, <3>1, AlgIsNamed DEF TP!View, TP!Absent, TP!Empty, Absent, Empty
  <2>4. kid.v = IF order.kid.len = 0 THEN Empty ELSE order.kid.v
    <3>1. /\ order.kid.len \in Nat
          /\ order.kid.len > 0 => order.kid.v \notin {Absent, Empty}
      BY <1>1, IssueAssumption DEF Order
    <3>2. HeaderSegment(order).kid = IF order.kid.len > 0 THEN order.kid.v ELSE Absent
      BY DEF HeaderSegment
    <3>3. CASE order.kid.len = 0
      BY <2>2, <3>2, <3>3 DEF TP!View, TP!Absent, TP!Empty, Absent, Empty
    <3>4. CASE order.kid.len # 0
      <4>1. order.kid.len > 0
        BY <3>1, <3>4
      <4>2. QED
        BY <2>2, <3>1, <3>2, <3>4, <4>1 DEF TP!View, TP!Absent, TP!Empty, Absent, Empty
    <3>5. QED
      BY <3>3, <3>4
  <2>5. QED
    BY <1>2, <2>1, <2>3, <2>4
<1>6. QED
  BY <1>2, <1>3, <1>4, <1>5

\* What one side issues the other reads, for every order, key and limit
\* (jws.c:1162-1172, 1251): the same alg and kid, and the very input signed.
THEOREM IssuedDecodesAlways == Spec => []IssuedDecodes
<1>1. EndsInv => IssuedDecodes
  BY DecodedAsIssued DEF IssuedDecodes
<1>2. QED
  BY <1>1, EndsInvariant, PTL

-----------------------------------------------------------------------------
(* The keys a verdict is taken from. *)

\* What a slot takes from its entry is the same for the parser and its proofs.
LEMMA SameIsSame == \A slot, e : Keyset!Same(slot, e) <=> KP!Same(slot, e)
PROOF BY DEF Keyset!Same, Keyset!Str, Keyset!TypeOf, Keyset!CurveOf, Keyset!Absent,
             Keyset!Empty, KP!Same, KP!Str, KP!TypeOf, KP!CurveOf, KP!Absent, KP!Empty

\* Every slot of a keyset is that of a usable entry; every usable entry has one,
\* unless a keyval document lost it (jwks.c:525-529, 736, 900-919, 945).
LEMMA SlotsAreUsable ==
  ASSUME EndsInv, kresult = "keyset"
  PROVE  /\ nkeys \in Nat
         /\ \A s \in 1..nkeys : \E e \in Usable : KP!Same(slots[s], e)
         /\ doc.form = "jwks" \/ "build" \notin kfaulty =>
              \A e \in Usable : \E s \in 1..nkeys : KP!Same(slots[s], e)
<1>1. KP!IndInv /\ KP!FilterInv
  BY DEF EndsInv, KeysetInv
<1>2. /\ nkeys \in Nat
      /\ \A s \in 1..nkeys : \E n \in KP!Wanted : KP!Same(slots[s], doc.entries[n])
      /\ doc.form = "jwks" \/ "build" \notin kfaulty =>
           \A n \in KP!Wanted : \E s \in 1..nkeys : KP!Same(slots[s], doc.entries[n])
  BY <1>1, KeysetPremise, KP!SlotsAreWanted
<1>3. Usable = {doc.entries[n] : n \in KP!Wanted}
  BY DEF Usable, KP!Wanted, Keyset!UsableJwk, KP!UsableJwk, Keyset!UsablePem, KP!UsablePem,
     Keyset!Empty, KP!Empty
<1>4. QED
  BY <1>2, <1>3

\* No entry of a keyval document is without a label.
LEMMA PemsAreLabelled ==
  ASSUME doc \in Docs, doc.form = "keyval", NEW e \in Usable
  PROVE  e.kid # Absent
<1>1. doc.entries \in Seq(Keyset!Pem)
  BY DocsAssumption DEF Keyset!Doc
<1>2. \A n \in DOMAIN doc.entries : doc.entries[n] \in Keyset!Pem
  BY <1>1
<1>3. \A n \in DOMAIN doc.entries : doc.entries[n].kid # Absent
  BY <1>2 DEF Keyset!Pem, Keyset!Absent, Absent
<1>4. QED
  BY <1>3 DEF Usable

\* The verifier here is the one the algorithm lemmas are about.
LEMMA SameAlgorithms ==
  /\ \A n : Verifier!lookup_alg(n) = lookup_alg(n)
  /\ \A k, a, m, s : Verifier!verify_with_key(k, a, m, s) = verify_with_key(k, a, m, s)
  /\ Verifier!NoAlg = NoAlg /\ Verifier!Algs = Algs
<1>1. Verifier!Algs = Algs
  BY DEF Verifier!Algs, Verifier!PublicKeyAlgs, Verifier!HmacAlgs, Verifier!Row,
     Verifier!Empty, Algs, PublicKeyAlgs, HmacAlgs, Row, Empty
<1>2. Verifier!NoAlg = NoAlg
  BY DEF Verifier!NoAlg, Verifier!Row, Verifier!Empty, NoAlg, Row, Empty
<1>3. \A n : Verifier!lookup_alg(n) = lookup_alg(n)
  BY <1>1, <1>2 DEF Verifier!lookup_alg, lookup_alg
<1>4. \A k, a, m, s : Verifier!verify_with_key(k, a, m, s) = verify_with_key(k, a, m, s)
  BY DEF Verifier!verify_with_key, Verifier!key_compatible, Verifier!ec_curve_matches,
     Verifier!raw_length_ok, Verifier!Genuine, Verifier!SchemeFamily, Verifier!Empty,
     verify_with_key, key_compatible, ec_curve_matches, raw_length_ok, Genuine,
     SchemeFamily, Empty
<1>5. QED
  BY <1>1, <1>2, <1>3, <1>4

\* The key that verifies, tested as the code does, whatever its entry.
Verifying(slot) ==
  verify_with_key(KeyOf(slot, "ok"), Alg, signing_input(order), Signed) = "yes"

\* A key that OpenSSL does not serve verifies nothing; one that it does, as it should.
LEMMA ServedVerifies ==
  ASSUME NEW slot, NEW how, NEW a, NEW m, NEW s
  PROVE  verify_with_key(KeyOf(slot, how), a, m, s) = "yes"
           <=> how = "ok" /\ verify_with_key(KeyOf(slot, "ok"), a, m, s) = "yes"
PROOF BY DEF verify_with_key, key_compatible, ec_curve_matches, KeyOf

\* What that comes to: the pin, the type of the key for the family, and the
\* signature's own key under the same scheme.
LEMMA VerifyingMeans ==
  ASSUME NEW slot, Fits(order)
  PROVE  Verifying(slot) <=>
           /\ slot.alg.v # Empty => slot.alg.v = order.alg
           /\ \/ Alg.family \in {"RSA", "RSA_PSS"} /\ slot.kty = "RSA"
              \/ Alg.family = "ECDSA" /\ slot.kty = "EC" /\ slot.mat.group = Alg.ec_curve
              \/ Alg.family = "EDDSA" /\ slot.kty = "OKP"
                                      /\ slot.mat.base \in {"ED25519", "ED448"}
              \/ Alg.family = "HMAC" /\ slot.kty = "oct"
           /\ slot.mat.id = order.key.id
           /\ SchemeFamily(Alg, SigningKey(order)) = SchemeFamily(Alg, slot.mat)
<1>1. Alg.name = order.alg /\ Alg \in Algs
  BY LookupFinds DEF Fits, Alg
<1>2. /\ Signed.by = order.key.id /\ Signed.digest = Alg.digest
      /\ Signed.msg = signing_input(order)
      /\ Signed.family = SchemeFamily(Alg, SigningKey(order))
  BY DEF Signed, SignatureBy, SigningKey
<1>3. raw_length_ok(Alg, Signed)
  BY DEF raw_length_ok, Signed, SignatureBy
<1>4. /\ KeyOf(slot, "ok").kty = slot.kty /\ KeyOf(slot, "ok").alg = slot.alg.v
      /\ KeyOf(slot, "ok").mat = slot.mat /\ KeyOf(slot, "ok").ossl = "ok"
  BY DEF KeyOf
<1>5. Verifying(slot) <=> key_compatible(KeyOf(slot, "ok"), Alg)
                          /\ Genuine(slot.mat, Alg, signing_input(order), Signed)
  BY <1>3, <1>4 DEF Verifying, verify_with_key
<1>6. Genuine(slot.mat, Alg, signing_input(order), Signed)
        <=> /\ slot.mat.id = order.key.id
            /\ SchemeFamily(Alg, SigningKey(order)) = SchemeFamily(Alg, slot.mat)
  BY <1>2 DEF Genuine
<1>7. QED
  BY <1>1, <1>4, <1>5, <1>6 DEF key_compatible, ec_curve_matches

\* The algorithm of an order whose key fits it, by family.
LEMMA AlgOfOrder ==
  ASSUME Fits(order)
  PROVE  /\ Alg.family \in {"RSA", "RSA_PSS", "ECDSA", "EDDSA", "HMAC"}
         /\ Alg.family = "RSA" <=> order.alg \in {"RS256", "RS384", "RS512"}
         /\ Alg.family = "HMAC" <=> order.alg \in {"HS256", "HS384", "HS512"}
         /\ Verifier!KtyOf(order.alg)
              = IF Alg.family \in {"RSA", "RSA_PSS"} THEN "RSA"
                ELSE IF Alg.family = "ECDSA" THEN "EC"
                ELSE IF Alg.family = "EDDSA" THEN "OKP" ELSE "oct"
         /\ Alg.family = "ECDSA" =>
              Alg.ec_curve \in {"prime256v1", "secp384r1", "secp521r1", "secp256k1"}
         /\ Alg.family # "HMAC" => privkey_compatible(order.key, Alg)
         /\ Alg.family # "HMAC" => SigningKey(order) = order.key
<1>1. Alg.name = order.alg /\ Alg \in Algs
  BY LookupFinds DEF Fits, Alg
<1>2. /\ Alg.family # "HMAC" => privkey_compatible(order.key, Alg)
      /\ Alg.family # "HMAC" => SigningKey(order) = order.key
  BY DEF Fits, SigningKey, Alg
<1>3. QED
  BY <1>1, <1>2, TableRows DEF Verifier!KtyOf

\* The public key of an entry goes with the algorithm it was signed under.
LEMMA PemVerifies ==
  ASSUME Fits(order), NEW slot, NEW e, doc.form = "keyval", Keyset!UsablePem(e),
         KP!Same(slot, e), e.id = order.key.id => PublicHalf(doc.form, e, order.key)
  PROVE  Verifying(slot) <=> IsPublicHalf(e)
<1>1. /\ slot.mat.id = e.id /\ slot.kty = KP!TypeOf(slot.mat) /\ slot.alg.v = Empty
      /\ slot.mat.base = e.base /\ slot.mat.group = e.group
  BY DEF KP!Same, KP!Empty, Empty
<1>2. e.base \in {"RSA", "RSA-PSS", "ED25519", "ED448", "EC"}
  BY DEF Keyset!UsablePem
<1>3. slot.kty = IF e.base \in {"RSA", "RSA-PSS"} THEN "RSA"
                 ELSE IF e.base = "EC" THEN "EC" ELSE "OKP"
  BY <1>1, <1>2 DEF KP!TypeOf
<1>4. IsPublicHalf(e) <=> e.id = order.key.id /\ Alg.family # "HMAC"
  BY AlgOfOrder DEF IsPublicHalf
<1>5. CASE e.id # order.key.id
  BY <1>1, <1>4, <1>5, VerifyingMeans
<1>6. CASE e.id = order.key.id
  <2>1. e.base = order.key.base /\ e.group = order.key.group
    BY <1>6 DEF PublicHalf
  <2>2. CASE Alg.family = "HMAC"
    BY <1>3, <1>4, <2>2, VerifyingMeans
  <2>3. CASE Alg.family # "HMAC"
    <3>1. SchemeFamily(Alg, SigningKey(order)) = SchemeFamily(Alg, slot.mat)
      BY <1>1, <2>1, <2>3, AlgOfOrder DEF SchemeFamily
    <3>2. privkey_compatible(order.key, Alg)
      BY <2>3, AlgOfOrder
    <3>3. Verifying(slot)
      BY <1>1, <1>3, <1>6, <2>1, <3>1, <3>2, VerifyingMeans DEF privkey_compatible
    <3>4. QED
      BY <1>4, <1>6, <2>3, <3>3
  <2>4. QED
    BY <2>2, <2>3
<1>7. QED
  BY <1>5, <1>6

\* A JWK under a pin, whose keys are never RSA-PSS.
LEMMA JwkVerifies ==
  ASSUME Fits(order), NEW slot, NEW e, doc.form = "jwks", Keyset!UsableJwk(e),
         KP!Same(slot, e), e.id = order.key.id => PublicHalf(doc.form, e, order.key)
  PROVE  Verifying(slot) <=> IsPublicHalf(e)
<1>1. /\ slot.mat.id = e.id /\ slot.kty = KP!TypeOf(slot.mat) /\ slot.kty = e.kty
      /\ slot.alg.v = KP!Str(e.alg, "pool").v
      /\ e.kty \in {"EC", "OKP"} => KP!CurveOf(slot.mat) = e.crv
      /\ slot.mat.base # "RSA-PSS"
  BY DEF KP!Same
<1>2. (slot.alg.v # Empty => slot.alg.v = order.alg)
        <=> e.alg \in {Absent, Empty, order.alg}
  BY <1>1, AlgIsNamed DEF KP!Str, KP!Absent, KP!Empty, Absent, Empty
<1>3. /\ slot.kty = "RSA" => slot.mat.base = "RSA"
      /\ slot.kty = "EC" => slot.mat.base = "EC"
      /\ slot.kty = "OKP" => slot.mat.base \notin {"RSA", "RSA-PSS", "EC", "oct"}
  BY <1>1 DEF KP!TypeOf
<1>4. IsPublicHalf(e)
        <=> /\ e.id = order.key.id /\ e.kty = Verifier!KtyOf(order.alg)
            /\ ~(order.key.base = "RSA-PSS" /\ Alg.family = "RSA")
            /\ e.alg \in {Absent, Empty, order.alg}
  BY AlgOfOrder DEF IsPublicHalf
<1>5. CASE e.id # order.key.id \/ e.kty # Verifier!KtyOf(order.alg)
  BY <1>1, <1>4, <1>5, VerifyingMeans, AlgOfOrder
<1>6. CASE e.id = order.key.id /\ e.kty = Verifier!KtyOf(order.alg)
  <2>1. e.kty \in {"EC", "OKP"} => e.crv = Keyset!CurveOf(order.key)
    BY <1>6 DEF PublicHalf
  <2>2. IsPublicHalf(e) <=> /\ ~(order.key.base = "RSA-PSS" /\ Alg.family = "RSA")
                            /\ e.alg \in {Absent, Empty, order.alg}
    BY <1>4, <1>6
  <2>3. CASE Alg.family \in {"RSA", "RSA_PSS"}
    <3>1. slot.kty = "RSA" /\ slot.mat.base = "RSA" /\ SigningKey(order) = order.key
          /\ order.key.base \in {"RSA", "RSA-PSS"}
      BY <1>1, <1>3, <1>6, <2>3, AlgOfOrder DEF privkey_compatible
    <3>2. SchemeFamily(Alg, SigningKey(order)) = SchemeFamily(Alg, slot.mat)
            <=> ~(order.key.base = "RSA-PSS" /\ Alg.family = "RSA")
      BY <2>3, <3>1 DEF SchemeFamily
    <3>3. QED
      BY <1>1, <1>2, <1>6, <2>2, <2>3, <3>1, <3>2, VerifyingMeans
  <2>4. CASE Alg.family = "ECDSA"
    <3>1. slot.kty = "EC" /\ slot.mat.base = "EC" /\ order.key.base = "EC"
          /\ order.key.group = Alg.ec_curve
          /\ Alg.ec_curve \in {"prime256v1", "secp384r1", "secp521r1", "secp256k1"}
      BY <1>1, <1>3, <1>6, <2>4, AlgOfOrder DEF privkey_compatible
    <3>2. KP!CurveOf(slot.mat) = Keyset!CurveOf(order.key)
      BY <1>1, <2>1, <3>1
    <3>3. slot.mat.group = Alg.ec_curve
      BY <3>1, <3>2 DEF KP!CurveOf, Keyset!CurveOf
    <3>4. SchemeFamily(Alg, SigningKey(order)) = SchemeFamily(Alg, slot.mat)
      BY <2>4 DEF SchemeFamily
    <3>5. QED
      BY <1>1, <1>2, <1>6, <2>2, <2>4, <3>1, <3>3, <3>4, VerifyingMeans
  <2>5. CASE Alg.family = "EDDSA"
    <3>1. slot.kty = "OKP" /\ order.key.base \in {"ED25519", "ED448"}
      BY <1>1, <1>6, <2>5, AlgOfOrder DEF privkey_compatible
    <3>2. KP!CurveOf(slot.mat) = Keyset!CurveOf(order.key)
      BY <1>1, <2>1, <3>1
    <3>3. slot.mat.base \in {"ED25519", "ED448"}
      BY <1>3, <3>1, <3>2 DEF KP!CurveOf, Keyset!CurveOf, KP!Empty
    <3>4. SchemeFamily(Alg, SigningKey(order)) = SchemeFamily(Alg, slot.mat)
      BY <2>5 DEF SchemeFamily
    <3>5. QED
      BY <1>1, <1>2, <1>6, <2>2, <2>5, <3>1, <3>3, <3>4, VerifyingMeans
  <2>6. CASE Alg.family = "HMAC"
    <3>1. slot.kty = "oct"
      BY <1>1, <1>6, <2>6, AlgOfOrder
    <3>2. SchemeFamily(Alg, SigningKey(order)) = SchemeFamily(Alg, slot.mat)
      BY <2>6 DEF SchemeFamily
    <3>3. QED
      BY <1>1, <1>2, <1>6, <2>2, <2>6, <3>1, <3>2, VerifyingMeans
  <2>7. QED
    BY <2>3, <2>4, <2>5, <2>6, AlgOfOrder
<1>7. QED
  BY <1>5, <1>6

\* A slot verifies exactly if its entry is the public half of the order's key.
LEMMA SlotVerifies ==
  ASSUME EndsInv, Fits(order), NEW slot, NEW e \in Usable, KP!Same(slot, e)
  PROVE  Verifying(slot) <=> IsPublicHalf(e)
<1>1. order \in Orders /\ doc \in Docs /\ doc.form \in {"jwks", "keyval"}
  BY DocsAssumption DEF EndsInv, Keyset!Doc
<1>2. PICK n \in DOMAIN doc.entries : e = doc.entries[n]
  BY DEF Usable
<1>3. e.id = order.key.id => PublicHalf(doc.form, e, order.key)
  BY <1>1, <1>2, RoundTripAssumption
<1>4. CASE doc.form = "jwks"
  BY <1>3, <1>4, JwkVerifies DEF Usable
<1>5. CASE doc.form = "keyval"
  BY <1>3, <1>5, PemVerifies DEF Usable
<1>6. QED
  BY <1>1, <1>4, <1>5

-----------------------------------------------------------------------------
(* The verdict. *)

\* The request, and what a key answers to it.
LEMMA RequestOutcome ==
  ASSUME NEW how, NEW j \in 1..nkeys, Verifier!lookup_alg(alg.v) # NoAlg
  PROVE  Verifier!Outcome(VerifyRequest(how), j)
           = verify_with_key(KeyOf(slots[j], how[j]), lookup_alg(alg.v), signing,
                             SignatureRead)
PROOF BY SameAlgorithms DEF Verifier!Outcome, Verifier!effective_alg, VerifyRequest

\* Whether the selection by kid admits a slot: any, for a token without one; else the
\* slots of that label; the unlabelled ones where no slot has it.
Admits(j) == \/ kid.v = Empty \/ slots[j].kid.v = kid.v
             \/ /\ slots[j].kid.v = Empty
                /\ \A h \in 1..nkeys : slots[h].kid.v # kid.v

\* A verdict "OK" on the request, as a matter of its slots and how they were served.
LEMMA RequestAccepted ==
  ASSUME NEW how, kresult = "keyset"
  PROVE  Verifier!Verdict(VerifyRequest(how)) = "OK" <=>
           /\ SignatureRead.len # 0
           /\ alg.v \in {a.name : a \in Algs} \ {"none"}
           /\ \E j \in 1..nkeys :
                /\ Admits(j)
                /\ verify_with_key(KeyOf(slots[j], how[j]), lookup_alg(alg.v), signing,
                                   SignatureRead) = "yes"
<1> DEFINE r == VerifyRequest(how)
<1>1. /\ r.op = "jws" /\ r.args = "ok" /\ r.id = kid.v /\ r.alg = alg.v
      /\ r.sig = SignatureRead /\ DOMAIN r.keys = 1..nkeys
      /\ \A j \in 1..nkeys : r.keys[j].kid = slots[j].kid.v
  BY DEF VerifyRequest, KeyOf
<1>2. \A j \in 1..nkeys : j \in Verifier!Candidates(r) <=> Admits(j)
  BY <1>1 DEF Verifier!Candidates, Verifier!Labelled, Verifier!Unlabelled,
     Verifier!Empty, Admits, Empty
<1>3. Verifier!Candidates(r) \subseteq 1..nkeys
  BY <1>1 DEF Verifier!Candidates, Verifier!Labelled, Verifier!Unlabelled
<1>4. Verifier!Admissible(r) <=> /\ SignatureRead.len # 0
                                 /\ alg.v \in {a.name : a \in Algs} \ {"none"}
  BY <1>1, SameAlgorithms DEF Verifier!Admissible
<1>5. alg.v \in {a.name : a \in Algs} => lookup_alg(alg.v) # NoAlg
  BY LookupFinds, NoAlgIsNoRow
<1>6. alg.v \in {a.name : a \in Algs} =>
        \A j \in 1..nkeys : Verifier!Outcome(r, j)
          = verify_with_key(KeyOf(slots[j], how[j]), lookup_alg(alg.v), signing,
                            SignatureRead)
  BY <1>5, RequestOutcome, SameAlgorithms
<1>7. Verifier!Verdict(r) = "OK" <=>
        Verifier!Admissible(r)
        /\ \E j \in Verifier!Candidates(r) : Verifier!Outcome(r, j) = "yes"
  BY <1>1 DEF Verifier!Verdict, Verifier!Verifies
<1> HIDE DEF r
<1>8. QED
  BY <1>2, <1>3, <1>4, <1>6, <1>7 DEF r

\* Of what may arrive, only the token itself has its signing input and a signature.
LEMMA OnlyTheToken ==
  ASSUME NEW t \in Seq(TP!Segment), Len(t) = 3, NEW s \in Arrivals(t), Len(s) = 3,
         <<s[1], s[2]>> = <<t[1], t[2]>>, s[3].len # 0
  PROVE  s = t
<1>1. s[1] = t[1] /\ s[2] = t[2]
  OBVIOUS
<1>2. DOMAIN t = 1..3 /\ t = [n \in 1..3 |-> t[n]]
  OBVIOUS
<1>3. s # [t EXCEPT ![3] = NoSegment]
  <2>1. NoSegment.len = 0
    BY DEF NoSegment, SignatureSegment
  <2>2. [t EXCEPT ![3] = NoSegment][3] = NoSegment
    BY <1>2
  <2>3. QED
    BY <2>1, <2>2
<1>4. s # <<t[1], t[2]>> /\ s # Append(t, t[3])
  <2>1. t[3] \in TP!Segment
    BY ElementOfSeq
  <2>2. Len(Append(t, t[3])) = 4
    <3>1. Len(Append(t, t[3])) = Len(t) + 1
      BY <2>1, AppendProperties, Zenon
    <3>2. QED
      BY <3>1
  <2>3. \A a, b : Len(<<a, b>>) = 2
    OBVIOUS
  <2>4. Len(<<t[1], t[2]>>) = 2
    BY <2>3, Zenon
  <2>5. s # Append(t, t[3])
    <3> SUFFICES ASSUME s = Append(t, t[3]) PROVE FALSE
      OBVIOUS
    <3>1. Len(s) = 4
      BY <2>2, Zenon
    <3>2. QED
      BY <3>1
  <2>6. s # <<t[1], t[2]>>
    <3> SUFFICES ASSUME s = <<t[1], t[2]>> PROVE FALSE
      OBVIOUS
    <3>1. Len(s) = 2
      BY <2>4, Zenon
    <3>2. QED
      BY <3>1
  <2>7. QED
    BY <2>5, <2>6
<1>5. ASSUME NEW x, s = [t EXCEPT ![1] = x] \/ s = [t EXCEPT ![2] = x] PROVE s = t
  BY <1>1, <1>2, <1>5
<1>6. QED
  BY <1>3, <1>4, <1>5 DEF Arrivals

\* Accepted, the token has arrived as it was issued.
LEMMA AcceptedIsAsIssued ==
  ASSUME EndsInv, phase = "verify" \/ verdict # "none", NEW how,
         Verifier!Verdict(VerifyRequest(how)) = "OK"
  PROVE  AsIssued /\ kresult = "keyset"
<1>1. kresult = "keyset"
  BY DEF Verifier!Verdict, VerifyRequest
<1>2. /\ ret = "OK" /\ str \in Arrivals(out.token) /\ tresult = "token"
      /\ Issuable(order) /\ order \in Orders /\ sig = {Signed} /\ out.token = IssuedToken
  BY DEF EndsInv, PhaseInv, IssuedInv
<1>3. SignatureRead.len # 0 /\ signing = SignatureRead.msg
  BY <1>1, RequestAccepted DEF verify_with_key, Genuine
<1>4. TheSig = Signed /\ Signed.msg = signing_input(order)
  BY <1>2 DEF TheSig, Signed, SignatureBy
<1>5. SignatureRead.msg = signing_input(order) /\ str[3].len # 0
  BY <1>3, <1>4 DEF SignatureRead, Signed, SignatureBy
<1>6. signing = <<str[1], str[2]>> /\ Len(str) = 3
  BY <1>2 DEF EndsInv, DecoderInv, TP!IInv, TP!SigningInv, TP!SigningInput,
     TP!DecodesExactly, TP!WellFormed, TP!TypeOK
<1>7. signing_input(order) = <<IssuedToken[1], IssuedToken[2]>>
  BY <1>2, IssuedSegments DEF signing_input
<1>8. str = IssuedToken
  <2>1. IssuedToken \in Seq(TP!Segment) /\ Len(IssuedToken) = 3
    BY <1>2, IssuedSegments
  <2>2. QED
    BY <1>2, <1>3, <1>5, <1>6, <1>7, <2>1, OnlyTheToken
<1>9. QED
  BY <1>1, <1>2, <1>8 DEF AsIssued

\* A slot's label is its entry's; an entry without one is a slot without one.
LEMMA LabelOf ==
  ASSUME NEW slot, NEW e \in Usable, KP!Same(slot, e), doc \in Docs
  PROVE  /\ \A k : k \notin {Absent, Empty} => (slot.kid.v = k <=> e.kid = k)
         /\ slot.kid.v = Empty <=> e.kid = Absent
<1>1. e.kid # Empty
  BY DEF Usable, Keyset!UsableJwk, Keyset!UsablePem, Keyset!Empty, Empty
<1>2. slot.kid.v = IF e.kid \in {Absent, Empty} THEN Empty ELSE e.kid
  BY DEF KP!Same, KP!Str, KP!Absent, KP!Empty, Absent, Empty
<1>3. QED
  BY <1>1, <1>2 DEF Absent, Empty

\* The selection by kid admits a slot exactly if its entry goes with the kid: a label
\* that a lost key had is asked of a JWKS, which loses none, and a keyval document has
\* no key without one.
LEMMA AdmitsByLabel ==
  ASSUME EndsInv, order.kid.len # 0 => order.kid.v \notin {Absent, Empty},
         kid.v = IF order.kid.len = 0 THEN Empty ELSE order.kid.v,
         kresult = "keyset", NEW j \in 1..nkeys, NEW e \in Usable, KP!Same(slots[j], e)
  PROVE  Admits(j) <=> GoesWithKid(e)
<1>1. doc \in Docs /\ doc.form \in {"jwks", "keyval"}
  BY DocsAssumption DEF EndsInv, Keyset!Doc
<1>2. CASE order.kid.len = 0
  BY <1>2 DEF Admits, GoesWithKid
<1>3. CASE order.kid.len # 0
  <2>1. /\ slots[j].kid.v = kid.v <=> e.kid = order.kid.v
        /\ slots[j].kid.v = Empty <=> e.kid = Absent
        /\ kid.v = order.kid.v /\ kid.v # Empty
    BY <1>1, <1>3, LabelOf
  <2>2. CASE doc.form = "keyval"
    BY <1>1, <1>3, <2>1, <2>2, PemsAreLabelled DEF Admits, GoesWithKid
  <2>3. CASE doc.form = "jwks"
    <3>1. ASSUME NEW h \in 1..nkeys, NEW d \in Usable, KP!Same(slots[h], d)
          PROVE  slots[h].kid.v = order.kid.v <=> d.kid = order.kid.v
      BY <1>1, <1>3, <3>1, LabelOf
    <3>2. \A h \in 1..nkeys : \E d \in Usable :
            slots[h].kid.v = order.kid.v <=> d.kid = order.kid.v
      BY <3>1, SlotsAreUsable
    <3>3. \A d \in Usable : \E h \in 1..nkeys :
            slots[h].kid.v = order.kid.v <=> d.kid = order.kid.v
      BY <2>3, <3>1, SlotsAreUsable
    <3>4. (\A h \in 1..nkeys : slots[h].kid.v # kid.v)
            <=> \A d \in Usable : d.kid # order.kid.v
      BY <2>1, <3>2, <3>3
    <3>5. QED
      BY <1>3, <2>1, <3>4 DEF Admits, GoesWithKid
  <2>4. QED
    BY <1>1, <2>2, <2>3
<1>4. QED
  BY <1>2, <1>3

\* As issued, the token is accepted exactly if its key is published, and the slot of
\* it was served.
LEMMA AsIssuedAccepted ==
  ASSUME EndsInv, tpc = "done", tresult = "token", AsIssued, kresult = "keyset", NEW how
  PROVE  Verifier!Verdict(VerifyRequest(how)) = "OK" <=>
           \E e \in Usable : /\ Publishes(e)
                             /\ \E j \in 1..nkeys : KP!Same(slots[j], e) /\ how[j] = "ok"
<1>1. /\ Issuable(order) /\ Fits(order) /\ order \in Orders
  BY DEF EndsInv, IssuedInv, AsIssued
<1>2. /\ signing = signing_input(order) /\ TheSig = Signed /\ alg.v = order.alg
      /\ kid.v = IF order.kid.len = 0 THEN Empty ELSE order.kid.v
      /\ str[3] = SignatureSegment(Signed)
  BY DecodedAsIssued DEF Signed, SignatureBy
<1>3. order.kid.len # 0 => order.kid.v \notin {Absent, Empty}
  BY <1>1, IssueAssumption DEF Order
<1>4. SignatureRead = Signed /\ Signed.len # 0
  <2>1. SignatureSegment(Signed).len > 0 /\ SignatureSegment(Signed).len \in Nat
    BY <1>1, <1>2, IssuedSegments
  <2>2. Signed.len > 0 /\ Signed.len \in Nat
    BY <1>1, SignatureNotEmpty
  <2>3. [Signed EXCEPT !.len = Signed.len] = Signed
    BY DEF Signed, SignatureBy
  <2>4. QED
    BY <1>2, <2>1, <2>2, <2>3 DEF SignatureRead
<1>5. alg.v \in {a.name : a \in Algs} \ {"none"}
  BY <1>1, <1>2, LookupFinds, AlgIsNamed DEF Fits
<1>6. \A j \in 1..nkeys :
        verify_with_key(KeyOf(slots[j], how[j]), lookup_alg(alg.v), signing, SignatureRead)
            = "yes"
          <=> how[j] = "ok" /\ Verifying(slots[j])
  BY <1>2, <1>4, ServedVerifies DEF Verifying, Alg
<1>7. Verifier!Verdict(VerifyRequest(how)) = "OK"
        <=> \E j \in 1..nkeys : Admits(j) /\ how[j] = "ok" /\ Verifying(slots[j])
  BY <1>4, <1>5, <1>6, RequestAccepted
<1>8. ASSUME NEW j \in 1..nkeys, NEW e \in Usable, KP!Same(slots[j], e)
      PROVE  Publishes(e) <=> Admits(j) /\ Verifying(slots[j])
  BY <1>1, <1>2, <1>3, <1>8, SlotVerifies, AdmitsByLabel DEF Publishes
<1>9. \A j \in 1..nkeys : \E e \in Usable : KP!Same(slots[j], e)
  BY SlotsAreUsable
<1>10. QED
  BY <1>7, <1>8, <1>9

\* The verdict on whatever arrived, whatever failed on the way to it.
LEMMA VerdictMeans ==
  ASSUME EndsInv, phase = "verify" \/ verdict # "none", NEW how
  PROVE  Verifier!Verdict(VerifyRequest(how)) = "OK" <=>
           /\ AsIssued /\ kresult = "keyset"
           /\ \E e \in Usable : /\ Publishes(e)
                                /\ \E j \in 1..nkeys : KP!Same(slots[j], e) /\ how[j] = "ok"
<1>1. tresult = "token" /\ tpc = "done"
  BY DEF EndsInv, PhaseInv, DecoderInv, TP!IInv, TP!TypeOK
<1>2. QED
  BY <1>1, AcceptedIsAsIssued, AsIssuedAccepted

\* Where nothing was lost, every usable entry has a slot that was served.
LEMMA NothingLostServes ==
  ASSUME EndsInv, kresult = "keyset", NothingLost, NEW e \in Usable
  PROVE  Served(e)
PROOF BY SlotsAreUsable, SameIsSame DEF NothingLost, Served

\* A verdict is the verifier's, on the token and the keyset as they are.
VerdictGiven == verdict # "none" => verdict = Verifier!Verdict(VerifyRequest(served))

\* It is the last step, after which nothing it was given on changes.
LEMMA VerdictKept == EndsInv /\ VerdictGiven /\ [Next]_vars => VerdictGiven'
<1> SUFFICES ASSUME EndsInv, VerdictGiven, [Next]_vars PROVE VerdictGiven'
  OBVIOUS
<1>1. CASE UNCHANGED vars
  BY <1>1 DEF vars, ivars, kvars, tvars, VerdictGiven, VerifyRequest, KeyOf, SignatureRead,
     TheSig
<1>2. CASE Verify
  BY <1>2 DEF Verify, ivars, kvars, tvars, VerdictGiven, VerifyRequest, KeyOf,
     SignatureRead, TheSig
<1>3. CASE ParseKeyset \/ Issue \/ Wire \/ Decode
  <2>1. phase # "end" /\ verdict' = verdict
    BY <1>3 DEF ParseKeyset, Issue, Wire, Decode
  <2>2. verdict = "none"
    BY <2>1 DEF EndsInv, PhaseInv
  <2>3. QED
    BY <2>1, <2>2 DEF VerdictGiven
<1>4. QED
  BY <1>1, <1>2, <1>3 DEF Next

\* A token is accepted exactly if it arrives as it was issued and the document is a
\* keyset that publishes its key; a failure costs the entry it hits and admits none
\* (jws.c:524-561, 973, jwks.c:525-529, 555-571, 945, decode.c:251).
THEOREM AcceptedExactlyAlways == Spec => []AcceptedExactly
<1>1. Init => VerdictGiven
  BY DEF Init, VerdictGiven
<1>2. EndsInv /\ VerdictGiven => AcceptedExactly
  <2> SUFFICES ASSUME EndsInv, VerdictGiven, verdict # "none" PROVE AcceptedExactly
    BY DEF AcceptedExactly
  <2>1. verdict = "OK" <=>
          /\ AsIssued /\ kresult = "keyset"
          /\ \E e \in Usable : Publishes(e) /\ Served(e)
    BY VerdictMeans, SameIsSame DEF VerdictGiven, Served
  <2>2. kresult = "keyset" /\ NothingLost => \A e \in Usable : Served(e)
    BY NothingLostServes
  <2>3. QED
    BY <2>1, <2>2 DEF AcceptedExactly
<1>3. QED
  BY <1>1, <1>2, VerdictKept, EndsInvariant, PTL DEF Spec

\* The composition does to the encoder and to the keyset what their own
\* specifications allow, so that all that is proved of these holds of it.
THEOREM ComponentsImplemented == Spec => IssueSpec /\ Keyset!Spec
<1>1. Init => IssueInit /\ Keyset!Init
  BY DEF Init
<1>2. [Next]_vars => [IssueNext]_ivars /\ [Keyset!Next]_Keyset!vars
  <2> SUFFICES ASSUME [Next]_vars
               PROVE  [IssueNext]_ivars /\ [Keyset!Next]_Keyset!vars
    OBVIOUS
  <2>1. IssueNext \/ UNCHANGED ivars
    BY DEF Next, ParseKeyset, Issue, Wire, Decode, Verify, vars
  <2>2. Keyset!ParseStep \/ UNCHANGED kvars
    BY DEF Next, ParseKeyset, Issue, Wire, Decode, Verify, vars
  <2>3. QED
    BY <2>1, <2>2 DEF Keyset!Next, Keyset!vars, kvars
<1>3. QED
  BY <1>1, <1>2, PTL DEF Spec, IssueSpec, Keyset!Spec
=============================================================================
