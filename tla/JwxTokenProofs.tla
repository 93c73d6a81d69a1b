--------------------------- MODULE JwxTokenProofs ---------------------------
(***************************************************************************)
(* What holds of nxe_jwx_decode for every string, every limit and every    *)
(* failure: the stages come in one order, so the argument is what each of  *)
(* them has already made sure of, and who owns what by then.               *)
(***************************************************************************)
EXTENDS JwxToken, TLAPS

-----------------------------------------------------------------------------
(* The string. *)

\* The length of a string of three segments (decode.c:99-100): the octets of the
\* segments and two dots.
LEMMA TokenLength ==
  ASSUME NEW t \in Seq(Segment), Len(t) = 3
  PROVE  token_len(t) = t[1].len + t[2].len + t[3].len + 2
<1>1. t[1] \in Segment /\ t[2] \in Segment /\ t[3] \in Segment
  <2>1. t \in [1..3 -> Segment]
    OBVIOUS
  <2>2. QED
    BY <2>1
<1>2. t[1].len \in Nat /\ t[2].len \in Nat /\ t[3].len \in Nat
  BY <1>1 DEF Segment
<1> DEFINE step(f) == [n \in 0..3 |-> IF n = 0 THEN 0 ELSE f[n - 1] + t[n].len + 1]
           upto == CHOOSE f : f = step(f)
           sums == [n \in 0..3 |-> IF n = 0 THEN 0 ELSE IF n = 1 THEN t[1].len + 1
                       ELSE IF n = 2 THEN t[1].len + t[2].len + 2
                       ELSE t[1].len + t[2].len + t[3].len + 3]
<1>3. ASSUME NEW f
      PROVE  /\ step(f)[0] = 0
             /\ step(f)[1] = f[0] + t[1].len + 1
             /\ step(f)[2] = f[1] + t[2].len + 1
             /\ step(f)[3] = f[2] + t[3].len + 1
  <2>1. \A n \in 0..3 : step(f)[n] = IF n = 0 THEN 0 ELSE f[n - 1] + t[n].len + 1
    BY Zenon
  <2>2. 1 - 1 = 0 /\ 2 - 1 = 1 /\ 3 - 1 = 2
    OBVIOUS
  <2> HIDE DEF step
  <2>3. step(f)[1] = f[1 - 1] + t[1].len + 1
    BY <2>1
  <2>4. step(f)[2] = f[2 - 1] + t[2].len + 1
    BY <2>1
  <2>5. step(f)[3] = f[3 - 1] + t[3].len + 1
    BY <2>1
  <2>6. QED
    BY <2>1, <2>2, <2>3, <2>4, <2>5
<1>4. upto = step(upto)
  <2>1. \A n \in 0..3 : sums[n] = step(sums)[n]
    <3> SUFFICES ASSUME NEW n \in 0..3 PROVE sums[n] = step(sums)[n]
      OBVIOUS
    <3>1. n = 0 \/ n = 1 \/ n = 2 \/ n = 3
      OBVIOUS
    <3>2. sums[0] = 0 /\ sums[1] = t[1].len + 1 /\ sums[2] = t[1].len + t[2].len + 2
          /\ sums[3] = t[1].len + t[2].len + t[3].len + 3
      OBVIOUS
    <3> HIDE DEF sums, step
    <3>3. /\ step(sums)[0] = 0
          /\ step(sums)[1] = sums[0] + t[1].len + 1
          /\ step(sums)[2] = sums[1] + t[2].len + 1
          /\ step(sums)[3] = sums[2] + t[3].len + 1
      BY <1>3
    <3>4. /\ sums[0] = step(sums)[0] /\ sums[1] = step(sums)[1]
          /\ sums[2] = step(sums)[2] /\ sums[3] = step(sums)[3]
      BY <1>2, <3>2, <3>3
    <3>5. QED
      BY <3>1, <3>4
  <2>2. sums = step(sums)
    BY <2>1
  <2> HIDE DEF sums, step
  <2>3. QED
    BY <2>2
<1>5. token_len(t) = upto[3] - 1
  BY DEF token_len
<1> HIDE DEF upto, step, sums
<1>6. upto[3] = t[1].len + t[2].len + t[3].len + 3
  <2>1. /\ upto[0] = 0 /\ upto[1] = upto[0] + t[1].len + 1
        /\ upto[2] = upto[1] + t[2].len + 1 /\ upto[3] = upto[2] + t[3].len + 1
    BY <1>3, <1>4
  <2>2. QED
    BY <1>2, <2>1
<1>7. QED
  BY <1>2, <1>5, <1>6

\* The early returns on size and dots (decode.c:251-273), on the segments alone.
LEMMA SplitFacts ==
  ASSUME NEW t \in Seq(Segment)
  PROVE  /\ Len(t) \in Nat
         /\ Len(t) = 3 => t[1] \in Segment /\ t[2] \in Segment /\ t[3] \in Segment
         /\ args_ok(t) /\ split_ok(t)
              <=> /\ Len(t) = 3 /\ t[1].len > 0 /\ t[2].len > 0
                  /\ t[1].len <= MaxJwtHeader
                  /\ t[1].len + t[2].len + t[3].len + 2 <= MaxJwtSize
<1>1. Len(t) = 3 => t[1] \in Segment /\ t[2] \in Segment /\ t[3] \in Segment
  <2>1. t \in [1..Len(t) -> Segment]
    OBVIOUS
  <2>2. QED
    BY <2>1
<1>2. Len(t) = 3 => t # NullToken
  BY DEF NullToken
<1>3. CASE Len(t) = 3
  <2>1. t[1].len \in Nat /\ t[2].len \in Nat /\ t[3].len \in Nat
    BY <1>1, <1>3 DEF Segment
  <2>2. token_len(t) = t[1].len + t[2].len + t[3].len + 2
    BY <1>3, TokenLength
  <2>3. QED
    BY <1>1, <1>2, <1>3, <2>1, <2>2 DEF args_ok, fits, split_ok
<1>4. CASE Len(t) # 3
  BY <1>4 DEF split_ok
<1>5. QED
  BY <1>3, <1>4

-----------------------------------------------------------------------------
(* Type correctness. *)

\* A view of a header string is one, or empty.
LEMMA ViewType ==
  ASSUME NEW v \in STRING
  PROVE  View(v, "header") \in [v : STRING \cup {Empty}, m : {"null", "header"}]
<1>1. [v |-> Empty, m |-> "null"] \in [v : STRING \cup {Empty}, m : {"null", "header"}]
  OBVIOUS
<1>2. [v |-> v, m |-> "header"] \in [v : STRING \cup {Empty}, m : {"null", "header"}]
  OBVIOUS
<1>3. QED
  BY <1>1, <1>2 DEF View

\* An accessor that has nothing to show: a zeroed ngx_str_t.
LEMMA NoViewType ==
  NoView \in [v : STRING \cup {Empty}, m : {"null", "header"}]
<1>1. NoView = [v |-> Empty, m |-> "null"]
  BY DEF NoView, View
<1>2. QED
  BY <1>1

\* A stage past the splitting has a string of three segments.
Split == pc \notin {"start", "done"} => args_ok(str) /\ split_ok(str)

\* One stage of the decoder keeps the types.
LEMMA DecodeStepType ==
  ASSUME TypeOK, Split, DecodeStep
  PROVE  TypeOK'
<1>0. pc \notin {"start", "done"} =>
        str[1] \in Segment /\ str[2] \in Segment /\ str[3] \in Segment
  BY SplitFacts DEF Split, TypeOK
<1> USE DEF TypeOK
<1>1. Faults \subseteq FaultKinds
  BY TokenAssumption
<1>2. CASE RejectString
  BY <1>2 DEF RejectString, Fail, views
<1>3. CASE AllocToken
  BY <1>1, <1>3 DEF AllocToken, GoTo, Fail, views
<1>4. CASE CopySigningInput
  <2>1. SigningInput(str) \in Segment \X Segment
    BY <1>0, <1>4 DEF CopySigningInput, SigningInput
  <2>2. QED
    BY <1>1, <1>4, <2>1 DEF CopySigningInput, GoTo, Fail, views, Buffers, Parts
<1>5. ASSUME NEW part \in Parts, DecodePart(part) PROVE TypeOK'
  BY <1>1, <1>5 DEF DecodePart, GoTo, Fail, views, Buffers, Parts, JsonStage
<1>6. ASSUME NEW part \in Parts, ParsePart(part) PROVE TypeOK'
  <2>1. /\ raws' \in [Buffers -> {"none", "plain", "cleansed"}]
        /\ json' \in [Parts -> {"none", "live", "freed", "double"}]
        /\ fields' \subseteq Parts
    BY <1>6 DEF ParsePart, drop_document
  <2>2. UNCHANGED <<str, signing, alg, kid, cln, pool>>
    BY <1>6 DEF ParsePart, GoTo, Fail, views
  <2>3. \/ pc' \in {"payload", "signature"} /\ UNCHANGED <<result, faulty>>
        \/ pc' = "done" /\ result' = "NULL" /\ faulty' \in {faulty, faulty \cup {"json"}}
    BY <1>6 DEF ParsePart, GoTo, Fail, NextStage, Parts
  <2>4. pc # "done"
    BY <1>6 DEF ParsePart, JsonStage, Parts
  <2>5. QED
    BY <2>1, <2>2, <2>3, <2>4 DEF FaultKinds
<1>7. CASE DecodeSignature
  BY <1>1, <1>7 DEF DecodeSignature, GoTo, Fail, views, Buffers, Parts
<1>8. CASE ReadHeaderStrings
  <2>1. str[1].alg \in STRING /\ str[1].kid \in STRING
    BY <1>0, <1>8 DEF ReadHeaderStrings, Segment
  <2>2. alg' \in [v : STRING \cup {Empty}, m : {"null", "header"}]
    BY <1>8, <2>1, ViewType DEF ReadHeaderStrings
  <2>3. kid' \in [v : STRING \cup {Empty}, m : {"null", "header"}]
    BY <1>8, <2>1, ViewType DEF ReadHeaderStrings
  <2>4. QED
    BY <1>8, <2>2, <2>3 DEF ReadHeaderStrings
<1>9. QED
  BY <1>2, <1>3, <1>4, <1>5, <1>6, <1>7, <1>8 DEF DecodeStep
-----------------------------------------------------------------------------
(* What each stage has made sure of.                                       *)

\* Until the function returns its pool lives and nothing has failed; the cleanup
\* is armed from the second stage on.
ArmedInv ==
  /\ pc # "done" => pool = "live" /\ faulty = {}
  /\ pc = "start" => cln = "none"
  /\ pc \notin {"start", "done"} => cln = "armed"

\* The documents the token has, stage by stage.
FieldsInv ==
  /\ pc \in {"start", "signing", "header", "header_json"} => fields = {}
  /\ pc \in {"payload", "payload_json"} => fields = {"header"}
  /\ pc \in {"signature", "strings"} => fields = Parts
  /\ (result = "token" /\ pool = "live") => fields = Parts
  /\ fields # {} => cln = "armed" /\ pool = "live"

\* A document is live exactly while the token has it, and not parsed yet while
\* the decoder has not come to it.
JsonInv ==
  \A p \in Parts :
    /\ json[p] # "double" /\ (json[p] = "live" <=> p \in fields)
    /\ pc # "done" /\ p \notin fields => json[p] = "none"

\* Octets in the clear are those of the stage, and the signature's.
OctetsInv ==
  /\ raws["header"] = "plain" => pc = "header_json"
  /\ raws["payload"] = "plain" => pc = "payload_json"
  /\ raws["signature"] = "plain" => cln = "armed" /\ pool = "live"

SigningInv ==
  pc \in {"header", "header_json", "payload", "payload_json", "signature", "strings"}
  \/ result = "token" => signing = SigningInput(str)

\* What the stages behind have found in the segments.
PassedInv ==
  /\ pc \in {"header_json", "payload", "payload_json", "signature", "strings"} =>
       str[1].b64 = "ok"
  /\ pc \in {"payload", "payload_json", "signature", "strings"} =>
       str[1].json = "object"
  /\ pc \in {"payload_json", "signature", "strings"} => str[2].b64 = "ok"
  /\ pc \in {"signature", "strings"} => str[2].json = "object"
  /\ pc = "strings" => str[3].len = 0 \/ str[3].b64 = "ok"

IInv == /\ TypeOK /\ Split /\ ArmedInv /\ FieldsInv /\ JsonInv /\ OctetsInv
        /\ SigningInv /\ PassedInv /\ DecodesExactly

\* What the invariant gives a stage.
LEMMA StringFacts ==
  ASSUME IInv
  PROVE  /\ str \in Seq(Segment)
         /\ pc \notin {"start", "done"} =>
              /\ Len(str) = 3 /\ str[1].len > 0 /\ str[2].len > 0
              /\ str[1].len <= MaxJwtHeader
              /\ str[1].len + str[2].len + str[3].len + 2 <= MaxJwtSize
              /\ str[1] \in Segment /\ str[2] \in Segment /\ str[3] \in Segment
PROOF BY SplitFacts DEF IInv, TypeOK, Split

\* A failure keeps the invariant if it leaves no octets of the stage in the clear
\* and no document behind, and if there was a reason.
LEMMA FailKeepsIInv ==
  ASSUME IInv, TypeOK', NEW f, Fail(f), pc # "done", UNCHANGED fields,
         \A p \in Parts : json'[p] = json[p] \/ (p \notin fields /\ json'[p] = "freed"),
         raws' = raws \/ raws' = [raws EXCEPT !["header"] = "cleansed"]
                      \/ raws' = [raws EXCEPT !["payload"] = "cleansed"],
         pc = "header_json" => raws'["header"] # "plain",
         pc = "payload_json" => raws'["payload"] # "plain",
         f = {} => ~WellFormed(str)
  PROVE  IInv'
<1> USE DEF IInv
<1>1. pc' = "done" /\ result' = "NULL" /\ faulty' = f
      /\ UNCHANGED <<str, signing, alg, kid, cln, pool>>
  BY DEF Fail, views, ArmedInv
<1>2. Split' /\ ArmedInv' /\ SigningInv' /\ PassedInv'
  BY <1>1 DEF Split, ArmedInv, SigningInv, PassedInv
<1>3. FieldsInv'
  BY <1>1 DEF FieldsInv
<1>4. JsonInv'
  BY <1>1 DEF JsonInv
<1>5. OctetsInv'
  BY <1>1 DEF OctetsInv, TypeOK, Buffers, Parts
<1>6. DecodesExactly'
  BY <1>1 DEF DecodesExactly, WellFormed, Readable
<1>7. QED
  BY <1>2, <1>3, <1>4, <1>5, <1>6

\* decode.c:251-273: what is no token is refused before anything is made.
LEMMA RejectStringKeepsIInv ==
  ASSUME IInv, TypeOK', RejectString
  PROVE  IInv'
<1>1. ~WellFormed(str)
  BY SplitFacts DEF RejectString, IInv, TypeOK, WellFormed, Readable
<1>2. QED
  BY <1>1, FailKeepsIInv DEF RejectString

\* The token and its cleanup are allocated, the cleanup armed (decode.c).
LEMMA AllocTokenKeepsIInv ==
  ASSUME IInv, TypeOK', AllocToken
  PROVE  IInv'
<1>1. CASE GoTo("signing") /\ cln' = "armed" /\ UNCHANGED <<signing, json, fields, raws>>
  BY <1>1 DEF AllocToken, GoTo, IInv, Split, ArmedInv, FieldsInv, JsonInv, OctetsInv,
              SigningInv, PassedInv, DecodesExactly
<1>2. ASSUME NEW f, Fail({f}), UNCHANGED <<json, fields, raws>>
      PROVE  IInv'
  BY <1>2, FailKeepsIInv DEF AllocToken, IInv, OctetsInv
<1>3. QED
  BY <1>1, <1>2 DEF AllocToken

\* The copy of the signing input, which is the string up to the second dot.
LEMMA CopySigningInputKeepsIInv ==
  ASSUME IInv, TypeOK', CopySigningInput
  PROVE  IInv'
<1>1. CASE "alloc" \in Faults /\ Fail({"alloc"}) /\ UNCHANGED raws
  BY <1>1, FailKeepsIInv DEF CopySigningInput
<1>2. CASE /\ GoTo("header") /\ signing' = SigningInput(str)
           /\ raws' = [raws EXCEPT !["signing"] = "plain"] /\ UNCHANGED cln
  <2>1. \A b \in {"header", "payload", "signature"} : raws'[b] = raws[b]
    BY <1>2 DEF IInv, TypeOK, Buffers
  <2>2. QED
    BY <1>2, <2>1 DEF CopySigningInput, GoTo, IInv, Split, ArmedInv, FieldsInv,
         JsonInv, OctetsInv, SigningInv, PassedInv, DecodesExactly
<1>3. QED
  BY <1>1, <1>2 DEF CopySigningInput

\* Bad base64 of a part is refused; the decoded octets are in the clear until
\* they are parsed.
LEMMA DecodePartKeepsIInv ==
  ASSUME IInv, TypeOK', NEW part \in Parts, DecodePart(part)
  PROVE  IInv'
<1>1. CASE "alloc" \in Faults /\ Fail({"alloc"}) /\ UNCHANGED raws
  BY <1>1, FailKeepsIInv DEF DecodePart, Parts
<1>2. CASE SegmentOf(part).b64 = "bad" /\ Fail({}) /\ UNCHANGED raws
  <2>1. ~WellFormed(str)
    BY <1>2 DEF SegmentOf, WellFormed, Readable, Parts
  <2>2. QED
    BY <1>2, <2>1, FailKeepsIInv DEF DecodePart, Parts
<1>3. CASE /\ SegmentOf(part).b64 = "ok" /\ GoTo(JsonStage[part])
           /\ raws' = [raws EXCEPT ![part] = "plain"] /\ UNCHANGED <<signing, cln>>
  <2>1. \A b \in Buffers : raws'[b] = IF b = part THEN "plain" ELSE raws[b]
    BY <1>3 DEF IInv, TypeOK
  <2>2. OctetsInv'
    BY <1>3, <2>1 DEF DecodePart, IInv, OctetsInv, Buffers, Parts, GoTo, JsonStage
  <2>3. \/ pc = "header" /\ pc' = "header_json" /\ str[1].b64 = "ok"
        \/ pc = "payload" /\ pc' = "payload_json" /\ str[2].b64 = "ok"
    BY <1>3 DEF DecodePart, Parts, GoTo, JsonStage, SegmentOf
  <2>4. UNCHANGED <<json, fields, str, signing, cln, pool, result, faulty>>
    BY <1>3 DEF DecodePart, GoTo
  <2>5. QED
    BY <2>2, <2>3, <2>4 DEF IInv, Split, ArmedInv, FieldsInv, JsonInv, SigningInv,
         PassedInv, DecodesExactly
<1>4. QED
  BY <1>1, <1>2, <1>3 DEF DecodePart

\* The octets are cleansed whatever came of the parsing; only an object is kept.
LEMMA ParsePartKeepsIInv ==
  ASSUME IInv, TypeOK', NEW part \in Parts, ParsePart(part)
  PROVE  IInv'
<1>1. /\ \/ part = "header" /\ pc = "header_json"
         \/ part = "payload" /\ pc = "payload_json"
      /\ part \notin fields /\ raws' = [raws EXCEPT ![part] = "cleansed"]
      /\ part \in Buffers
  BY DEF ParsePart, Parts, JsonStage, IInv, FieldsInv, Buffers
<1>2. \A b \in Buffers : raws'[b] = IF b = part THEN "cleansed" ELSE raws[b]
  BY <1>1 DEF IInv, TypeOK
<1>3. ASSUME NEW f, Fail(f), UNCHANGED fields,
             json' = json \/ json' = drop_document(json, part),
             f = {} => SegmentOf(part).json # "object"
      PROVE  IInv'
  <2>1. f = {} => ~WellFormed(str)
    BY <1>1, <1>3 DEF SegmentOf, WellFormed, Readable
  <2>2. \A p \in Parts : json'[p] = json[p] \/ (p \notin fields /\ json'[p] = "freed")
    BY <1>1, <1>3 DEF drop_document, IInv, TypeOK
  <2>3. /\ pc # "done"
        /\ \/ raws' = [raws EXCEPT !["header"] = "cleansed"]
           \/ raws' = [raws EXCEPT !["payload"] = "cleansed"]
        /\ pc = "header_json" => raws'["header"] # "plain"
        /\ pc = "payload_json" => raws'["payload"] # "plain"
    <3>1. raws'[part] = "cleansed"
      BY <1>1, <1>2
    <3>2. CASE part = "header"
      BY <1>1, <3>1, <3>2
    <3>3. CASE part = "payload"
      BY <1>1, <3>1, <3>3
    <3>4. QED
      BY <1>1, <3>2, <3>3
  <2>4. QED
    BY <1>3, <2>1, <2>2, <2>3, FailKeepsIInv
<1>4. CASE /\ SegmentOf(part).json = "object" /\ GoTo(NextStage[part])
           /\ json' = [json EXCEPT ![part] = "live"] /\ fields' = fields \cup {part}
           /\ UNCHANGED <<signing, cln>>
  <2>1. \/ /\ part = "header" /\ pc' = "payload" /\ fields' = {"header"}
           /\ str[1].json = "object"
        \/ /\ part = "payload" /\ pc' = "signature" /\ fields' = Parts
           /\ str[2].json = "object"
    BY <1>1, <1>4 DEF GoTo, NextStage, SegmentOf, Parts, IInv, FieldsInv
  <2>2. UNCHANGED <<str, signing, cln, pool, result, faulty>>
    BY <1>4 DEF GoTo
  <2>3. JsonInv'
    <3>1. \A p \in Parts : json'[p] = IF p = part THEN "live" ELSE json[p]
      BY <1>4 DEF IInv, TypeOK
    <3>2. QED
      BY <1>1, <1>4, <2>1, <3>1 DEF IInv, JsonInv
  <2>4. OctetsInv'
    BY <1>1, <1>2, <2>1, <2>2 DEF IInv, OctetsInv, Buffers, Parts
  <2>5. FieldsInv' /\ ArmedInv'
    BY <1>1, <2>1, <2>2 DEF IInv, FieldsInv, ArmedInv
  <2>6. QED
    BY <1>1, <2>1, <2>2, <2>3, <2>4, <2>5
       DEF IInv, Split, SigningInv, PassedInv, DecodesExactly
<1>5. ASSUME NEW f, Fail(f) /\ UNCHANGED <<json, fields>>,
             f = {} => SegmentOf(part).json # "object"
      PROVE  IInv'
  BY <1>3, <1>5
<1>6. CASE /\ SegmentOf(part).json = "other" /\ Fail({})
           /\ json' = drop_document(json, part) /\ UNCHANGED fields
  BY <1>3, <1>6
<1>7. CASE SegmentOf(part).json = "bad" /\ Fail({}) /\ UNCHANGED <<json, fields>>
  BY <1>5, <1>7
<1>8. CASE "json" \in Faults /\ Fail({"json"}) /\ UNCHANGED <<json, fields>>
  BY <1>5, <1>8
<1>9. QED
  BY <1>4, <1>6, <1>7, <1>8 DEF ParsePart

\* Only a signature segment that is there can be bad.
LEMMA DecodeSignatureKeepsIInv ==
  ASSUME IInv, TypeOK', DecodeSignature
  PROVE  IInv'
<1>1. CASE "alloc" \in Faults /\ Fail({"alloc"}) /\ UNCHANGED raws
  BY <1>1, FailKeepsIInv DEF DecodeSignature
<1>2. CASE str[3].len > 0 /\ str[3].b64 = "bad" /\ Fail({}) /\ UNCHANGED raws
  <2>1. str[3].len # 0
    BY <1>2
  <2>2. ~WellFormed(str)
    BY <1>2, <2>1 DEF WellFormed
  <2>3. QED
    BY <1>2, <2>2, FailKeepsIInv DEF DecodeSignature
<1>3. CASE /\ str[3].len = 0 \/ str[3].b64 = "ok"
           /\ GoTo("strings") /\ UNCHANGED <<signing, cln>>
           /\ \/ UNCHANGED raws
              \/ raws' = [raws EXCEPT !["signature"] = IF str[3].raw > 0 THEN "plain" ELSE @]
  <2>1. \A b \in {"header", "payload"} : raws'[b] = raws[b]
    BY <1>3 DEF IInv, TypeOK, Buffers, Parts
  <2>2. OctetsInv'
    BY <1>3, <2>1 DEF DecodeSignature, GoTo, IInv, OctetsInv, ArmedInv
  <2>3. QED
    BY <1>3, <2>2 DEF DecodeSignature, GoTo, IInv, Split, ArmedInv, FieldsInv, JsonInv,
                      SigningInv, PassedInv, DecodesExactly
<1>4. QED
  BY <1>1, <1>2, <1>3 DEF DecodeSignature

\* A token is returned once all stages have passed.
LEMMA ReadHeaderStringsKeepsIInv ==
  ASSUME IInv, TypeOK', ReadHeaderStrings
  PROVE  IInv'
<1>1. WellFormed(str)
  BY StringFacts DEF ReadHeaderStrings, IInv, PassedInv, WellFormed, Readable
<1>2. DecodesExactly'
  BY <1>1 DEF ReadHeaderStrings, DecodesExactly, WellFormed, Readable, IInv, ArmedInv
<1>3. OctetsInv'
  BY DEF ReadHeaderStrings, IInv, OctetsInv
<1>4. QED
  BY <1>2, <1>3 DEF ReadHeaderStrings, IInv, Split, ArmedInv, FieldsInv, JsonInv,
                    SigningInv, PassedInv

\* nxe_jwx_token_cleanup leaves neither a document nor the signature's octets.
LEMMA DestroyPoolKeepsIInv ==
  ASSUME IInv, DestroyPool
  PROVE  IInv'
<1>1. /\ pc = "done" /\ pool = "live" /\ pool' = "destroyed"
      /\ alg' = NoView /\ kid' = NoView
      /\ UNCHANGED <<pc, str, signing, cln, result, faulty>>
  BY DEF DestroyPool
<1>2. CASE cln = "armed"
  <2>1. token_cleanup
    BY <1>2 DEF DestroyPool
  <2>2. fields' = {}
    BY <2>1 DEF token_cleanup
  <2>3. \A p \in Parts : json'[p] = IF json[p] = "live" THEN "freed" ELSE json[p]
    BY <2>1 DEF token_cleanup, json_free, IInv, JsonInv
  <2>4. json' \in [Parts -> {"none", "live", "freed", "double"}]
    BY <2>1 DEF token_cleanup, json_free, IInv, TypeOK
  <2>5. /\ raws' \in [Buffers -> {"none", "plain", "cleansed"}]
        /\ raws'["signature"] # "plain"
        /\ raws'["header"] = raws["header"] /\ raws'["payload"] = raws["payload"]
    BY <2>1 DEF token_cleanup, IInv, TypeOK, Buffers, Parts
  <2>6. TypeOK'
    BY <1>1, <2>2, <2>4, <2>5, NoViewType DEF IInv, TypeOK
  <2>7. JsonInv'
    BY <1>1, <2>2, <2>3 DEF IInv, JsonInv
  <2>8. OctetsInv'
    BY <1>1, <2>5 DEF IInv, OctetsInv
  <2>9. QED
    BY <1>1, <2>2, <2>6, <2>7, <2>8 DEF IInv, Split, ArmedInv, FieldsInv,
         SigningInv, PassedInv, DecodesExactly, WellFormed, Readable
<1>3. CASE cln # "armed"
  <2>1. UNCHANGED <<json, fields, raws>>
    BY <1>3 DEF DestroyPool
  <2>2. fields = {}
    BY <1>3 DEF IInv, FieldsInv
  <2>3. TypeOK'
    BY <1>1, <2>1, NoViewType DEF IInv, TypeOK
  <2>4. QED
    BY <1>1, <1>3, <2>1, <2>2, <2>3 DEF IInv, Split, ArmedInv, FieldsInv, JsonInv,
         OctetsInv, SigningInv, PassedInv, DecodesExactly, WellFormed, Readable, Parts
<1>4. QED
  BY <1>2, <1>3

\* The stages keep the invariant.
LEMMA InductiveStep ==
  ASSUME IInv, [Next]_vars
  PROVE  IInv'
<1>1. CASE DecodeStep
  <2>1. TypeOK'
    BY <1>1, DecodeStepType DEF IInv
  <2>2. QED
    BY <1>1, <2>1, RejectStringKeepsIInv, AllocTokenKeepsIInv,
       CopySigningInputKeepsIInv, DecodePartKeepsIInv, ParsePartKeepsIInv,
       DecodeSignatureKeepsIInv, ReadHeaderStringsKeepsIInv DEF DecodeStep
<1>2. CASE DestroyPool
  BY <1>2, DestroyPoolKeepsIInv
<1>3. CASE UNCHANGED vars
  BY <1>3 DEF vars, IInv, TypeOK, Split, ArmedInv, FieldsInv, JsonInv, OctetsInv,
              SigningInv, PassedInv, DecodesExactly, WellFormed, Readable
<1>4. QED
  BY <1>1, <1>2, <1>3 DEF Next

\* A string about to be decoded.
LEMMA InitIInv == Init => IInv
<1> SUFFICES ASSUME Init PROVE IInv
  OBVIOUS
<1>1. TypeOK
  BY TokenAssumption, NoViewType DEF Init, TypeOK, NoSigningInput
<1>2. QED
  BY <1>1 DEF Init, IInv, Split, ArmedInv, FieldsInv, JsonInv, OctetsInv, SigningInv,
              PassedInv, DecodesExactly, Buffers, Parts

\* The invariant of nxe_jwx_decode, over its stages and the pool's destruction.
LEMMA Invariant == Spec => []IInv
<1>1. IInv /\ [Next]_vars => IInv'
  BY InductiveStep
<1>2. QED
  BY InitIInv, <1>1, PTL DEF Spec

-----------------------------------------------------------------------------
(* The results. *)

\* Every variable of the decoder keeps its type, and the function answers exactly
\* when it returns.
THEOREM TypeCorrect == Spec => []TypeOK
<1>1. IInv => TypeOK
  BY DEF IInv
<1>2. QED
  BY <1>1, Invariant, PTL

\* nxe_jwx_decode (decode.c:251-335) returns a token exactly for the strings that
\* are one, whatever the limits, unless memory, the pool or nxe-json failed.
THEOREM DecodesExactlyAlways == Spec => []DecodesExactly
<1>1. IInv => DecodesExactly
  BY DEF IInv
<1>2. QED
  BY <1>1, Invariant, PTL

\* What the accessors hand out (decode.c:345-392) is complete while the pool lives.
THEOREM TokenWholeAlways == Spec => []TokenWhole
<1>1. IInv => TokenWhole
  BY DEF IInv, TokenWhole, FieldsInv, JsonInv, SigningInv, SigningInput, Parts
<1>2. QED
  BY <1>1, Invariant, PTL

\* No JSON document is out of reach of the cleanup at any stage, or freed twice
\* (decode.c:276-286, 199-208, 53-61).
THEOREM JsonReachableAlways == Spec => []JsonReachable
<1>1. IInv => JsonReachable
  BY DEF IInv, JsonReachable, FieldsInv, JsonInv
<1>2. QED
  BY <1>1, Invariant, PTL

\* Decoded octets are cleansed by the return, the signature's by the end of the
\* pool (decode.c:304, 316, 69-71).
THEOREM OctetsCleansedAlways == Spec => []OctetsCleansed
<1>1. IInv => OctetsCleansed
  BY DEF IInv, OctetsCleansed, OctetsInv
<1>2. QED
  BY <1>1, Invariant, PTL

\* The token keeps the promise of Custody for its two documents: each step of the
\* decoder is a step of the owner or changes nothing it owns, and the end of the
\* pool gives everything back.
THEOREM CustodyKept == Spec => KeepsCustody
<1> DEFINE Live == {p \in Parts : json[p] = "live"}
           Given == {p \in Parts : json[p] = "freed"}
<1>1. Init => Pool!Init
  BY DEF Init, Pool!Init
<1>2. IInv /\ IInv' /\ [Next]_vars
        => [Pool!Next]_<<Live, Given, pool = "live">>
  <2> SUFFICES ASSUME IInv, IInv', [Next]_vars
               PROVE  [Pool!Next]_<<Live, Given, pool = "live">>
    OBVIOUS
  <2>1. CASE DecodeStep
    <3>1. pc # "done" /\ pool = "live" /\ pool' = "live"
      BY <2>1 DEF IInv, ArmedInv, DecodeStep, RejectString, AllocToken, CopySigningInput,
           DecodePart, ParsePart, DecodeSignature, ReadHeaderStrings, Fail, GoTo,
           Parts, JsonStage
    <3>2. \A p \in Parts : json'[p] = json[p] \/ json[p] = "none"
      <4>1. ASSUME NEW part \in Parts, ParsePart(part), NEW p \in Parts
            PROVE  json'[p] = json[p] \/ json[p] = "none"
        <5>1. part \notin fields
          BY <4>1 DEF ParsePart, Parts, JsonStage, IInv, FieldsInv
        <5>2. json[part] = "none"
          BY <3>1, <5>1 DEF IInv, JsonInv
        <5>3. p # part => json'[p] = json[p]
          BY <4>1 DEF ParsePart, drop_document, IInv, TypeOK
        <5>4. QED
          BY <5>2, <5>3
      <4>2. QED
        BY <2>1, <4>1 DEF DecodeStep, RejectString, AllocToken, CopySigningInput,
             DecodePart, DecodeSignature, ReadHeaderStrings
    <3>3. Pool!Exchange
      BY <3>1, <3>2 DEF Pool!Exchange
    <3>4. QED
      BY <3>3 DEF Pool!Next
  <2>2. CASE DestroyPool
    <3>1. \A p \in Parts : json[p] = "live" => json'[p] = "freed"
      BY <2>2 DEF DestroyPool, token_cleanup, json_free, IInv, JsonInv, FieldsInv
    <3>2. \A p \in Parts : json[p] # "live" => json'[p] = json[p]
      BY <2>2 DEF DestroyPool, token_cleanup, json_free, IInv, JsonInv
    <3>3. Live' = {} /\ Given' = Given \cup Live
      BY <3>1, <3>2
    <3>4. Pool!Close
      BY <2>2, <3>3 DEF Pool!Close, DestroyPool
    <3>5. QED
      BY <3>4 DEF Pool!Next
  <2>3. CASE UNCHANGED vars
    BY <2>3 DEF vars
  <2>4. QED
    BY <2>1, <2>2, <2>3 DEF Next
<1>3. QED
  BY <1>1, <1>2, Invariant, PTL DEF Spec, KeepsCustody, Pool!Spec
=============================================================================
