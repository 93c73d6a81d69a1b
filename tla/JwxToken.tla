------------------------------ MODULE JwxToken ------------------------------
(***************************************************************************)
(* nxe_jwx_decode (nxe_jwx_decode.c), one stage per step, with a failure   *)
(* wherever the code handles one, and the token until its pool goes.       *)
(*                                                                         *)
(* The compact serialization is the sequence of its dot-separated          *)
(* segments.  A segment is what its stages find: its length, whether it is *)
(* base64url, how many octets it decodes to, what these are as JSON and    *)
(* the header strings in them.  id stands for the octets themselves.       *)
(***************************************************************************)
EXTENDS Naturals, Sequences

CONSTANTS
  Tokens,         \* the strings decoded
  MaxJwtSize,     \* NXE_JWX_MAX_JWT_SIZE
  MaxJwtHeader,   \* NXE_JWX_MAX_JWT_HEADER
  Faults          \* which failures happen: a subset of FaultKinds

Empty == "-"         \* an ngx_str_t of length zero
Absent == "absent"   \* a header member that is missing or no JSON string
NullToken == <<>>    \* a NULL token_str, or one with NULL data

Segment == [len : Nat, b64 : {"ok", "bad"}, raw : Nat,
            json : {"object", "other", "bad"},
            alg : STRING, kid : STRING, id : STRING]

FaultKinds == {"alloc", "cleanup", "json"}

ASSUME TokenAssumption ==
  /\ Tokens \subseteq Seq(Segment)
  /\ MaxJwtSize \in Nat /\ MaxJwtHeader \in Nat
  /\ Faults \subseteq FaultKinds

VARIABLES
  pc,        \* the stage reached; "done" once the function returned
  str,       \* token_str
  json,      \* the two JSON documents: "none", "live", "freed", "double"
  fields,    \* which of token->header, token->payload are not NULL
  raws,      \* octets in pool buffers: "none", "plain", "cleansed"
  signing,   \* token->signing_input
  alg, kid,  \* token->alg, token->kid: a value and where its bytes are
  cln,       \* the pool cleanup: "none", "armed"
  pool,      \* "live", "destroyed"
  result,    \* "none", "NULL", "token"
  faulty     \* failures that happened (history)

vars == <<pc, str, json, fields, raws, signing, alg, kid, cln, pool, result,
          faulty>>
views == <<alg, kid>>

-----------------------------------------------------------------------------
(* What the string is. *)

\* Octets of the string: the segments and the dots between them.
token_len(t) ==
  LET upto[n \in 0..Len(t)] == IF n = 0 THEN 0 ELSE upto[n - 1] + t[n].len + 1
  IN upto[Len(t)] - 1

\* Mistake: one octet too many is let through.
fits_loose(t) == token_len(t) <= MaxJwtSize + 1

\* Not NULL, not empty, not too large.
fits(t) == token_len(t) <= MaxJwtSize

args_ok(t) == t # NullToken /\ token_len(t) > 0 /\ fits(t)

\* Exactly two dots, nothing empty before the second, a short header; the
\* signature segment may be empty.
split_ok(t) == /\ Len(t) = 3
               /\ t[1].len > 0 /\ t[2].len > 0
               /\ t[1].len <= MaxJwtHeader

\* "<header_b64>.<payload_b64>".
SigningInput(t) == <<t[1], t[2]>>
NoSigningInput == <<>>

Parts == {"header", "payload"}
SegmentOf(part) == IF part = "header" THEN str[1] ELSE str[2]
Buffers == Parts \cup {"signing", "signature"}
JsonStage == [header |-> "header_json", payload |-> "payload_json"]
NextStage == [header |-> "payload", payload |-> "signature"]

View(v, m) == IF v \in {Absent, Empty} THEN [v |-> Empty, m |-> "null"]
              ELSE [v |-> v, m |-> m]
NoView == View(Empty, "null")

-----------------------------------------------------------------------------
Init ==
  /\ pc = "start" /\ str \in Tokens
  /\ json = [p \in Parts |-> "none"] /\ fields = {}
  /\ raws = [b \in Buffers |-> "none"]
  /\ signing = NoSigningInput /\ alg = NoView /\ kid = NoView
  /\ cln = "none" /\ pool = "live" /\ result = "none" /\ faulty = {}

\* Mistake: the failure is noted and the next stage entered all the same.
FailGoesOn(f) ==
  /\ result' = "NULL" /\ faulty' = faulty \cup f
  /\ UNCHANGED <<pc, str, signing, views, cln, pool>>

\* Every failure returns NULL and leaves the rest to the pool.
Fail(f) ==
  /\ pc' = "done" /\ result' = "NULL" /\ faulty' = faulty \cup f
  /\ UNCHANGED <<str, signing, views, cln, pool>>

GoTo(stage) ==
  pc' = stage /\ UNCHANGED <<str, views, pool, result, faulty>>

\* Size, then nxe_jwx_split_segments; nothing is allocated yet.
RejectString ==
  /\ pc = "start" /\ ~(args_ok(str) /\ split_ok(str))
  /\ Fail({}) /\ UNCHANGED <<json, fields, raws>>

\* Mistake: the cleanup is registered once the header is parsed.
AllocTokenBare ==
  /\ pc = "start" /\ args_ok(str) /\ split_ok(str)
  /\ GoTo("signing") /\ UNCHANGED <<json, fields, raws, signing, cln>>

\* The zeroed token and its cleanup, before anything there is to clean up.
AllocToken ==
  /\ pc = "start" /\ args_ok(str) /\ split_ok(str)
  /\ \/ GoTo("signing") /\ cln' = "armed" /\ UNCHANGED signing
     \/ \E f \in Faults \cap {"alloc", "cleanup"} : Fail({f})
  /\ UNCHANGED <<json, fields, raws>>

CopySigningInput ==
  /\ pc = "signing"
  /\ \/ /\ GoTo("header") /\ signing' = SigningInput(str)
        /\ raws' = [raws EXCEPT !["signing"] = "plain"] /\ UNCHANGED cln
     \/ "alloc" \in Faults /\ Fail({"alloc"}) /\ UNCHANGED raws
  /\ UNCHANGED <<json, fields>>

\* nxe_jwx_decode_b64url of the segment of a part.
DecodePart(part) ==
  /\ pc = part
  /\ \/ /\ SegmentOf(part).b64 = "ok" /\ GoTo(JsonStage[part])
        /\ raws' = [raws EXCEPT ![part] = "plain"]
        /\ UNCHANGED <<signing, cln>>
     \/ SegmentOf(part).b64 = "bad" /\ Fail({}) /\ UNCHANGED raws
     \/ "alloc" \in Faults /\ Fail({"alloc"}) /\ UNCHANGED raws
  /\ UNCHANGED <<json, fields>>

\* Mistake: a document that is no object is dropped without nxe_json_free.
drop_document_leaks(d, part) == [d EXCEPT ![part] = "live"]

\* A document that is no object is freed at once: the caller gets NULL.
drop_document(d, part) == [d EXCEPT ![part] = "freed"]

\* Mistake: the octets are cleansed after the test of the document.
ParsePartLate(part) ==
  /\ pc = JsonStage[part]
  /\ \/ /\ SegmentOf(part).json = "object" /\ GoTo(NextStage[part])
        /\ json' = [json EXCEPT ![part] = "live"] /\ fields' = fields \cup {part}
        /\ raws' = [raws EXCEPT ![part] = "cleansed"]
        /\ UNCHANGED <<signing, cln>>
     \/ /\ SegmentOf(part).json # "object" /\ Fail({})
        /\ UNCHANGED <<json, fields, raws>>

\* nxe_jwx_parse_json_object, then the decoded octets are cleansed whatever
\* came of it, then the result is looked at.
ParsePart(part) ==
  /\ pc = JsonStage[part]
  /\ raws' = [raws EXCEPT ![part] = "cleansed"]
  /\ \/ /\ SegmentOf(part).json = "object" /\ GoTo(NextStage[part])
        /\ json' = [json EXCEPT ![part] = "live"] /\ fields' = fields \cup {part}
        /\ UNCHANGED <<signing, cln>>
     \/ /\ SegmentOf(part).json = "other" /\ Fail({})
        /\ json' = drop_document(json, part) /\ UNCHANGED fields
     \/ /\ SegmentOf(part).json = "bad" /\ Fail({})
        /\ UNCHANGED <<json, fields>>
     \/ /\ "json" \in Faults /\ Fail({"json"})
        /\ UNCHANGED <<json, fields>>

\* An empty segment is an empty signature; so is one that decodes to nothing.
DecodeSignature ==
  /\ pc = "signature"
  /\ \/ str[3].len = 0 /\ GoTo("strings") /\ UNCHANGED <<raws, signing, cln>>
     \/ /\ str[3].len > 0 /\ str[3].b64 = "ok" /\ GoTo("strings")
        /\ raws' = [raws EXCEPT !["signature"] =
                      IF str[3].raw > 0 THEN "plain" ELSE @]
        /\ UNCHANGED <<signing, cln>>
     \/ str[3].len > 0 /\ str[3].b64 = "bad" /\ Fail({}) /\ UNCHANGED raws
     \/ /\ str[3].len > 0 /\ "alloc" \in Faults
        /\ Fail({"alloc"}) /\ UNCHANGED raws
  /\ UNCHANGED <<json, fields>>

\* Mistake: the header document is released once its strings are read.
ReadHeaderStringsFrees ==
  /\ pc = "strings"
  /\ alg' = View(str[1].alg, "header") /\ kid' = View(str[1].kid, "header")
  /\ pc' = "done" /\ result' = "token"
  /\ json' = [json EXCEPT !["header"] = "freed"] /\ fields' = {"payload"}
  /\ UNCHANGED <<str, raws, signing, cln, pool, faulty>>

\* nxe_jwx_read_header_string twice: views into the header document.
ReadHeaderStrings ==
  /\ pc = "strings"
  /\ alg' = View(str[1].alg, "header") /\ kid' = View(str[1].kid, "header")
  /\ pc' = "done" /\ result' = "token"
  /\ UNCHANGED <<str, json, fields, raws, signing, cln, pool, faulty>>

-----------------------------------------------------------------------------
(* The end of the token. *)

json_free(d) == IF d = "live" THEN "freed" ELSE "double"

\* Mistake: only the header document is released.
token_cleanup_header ==
  /\ json' = [p \in Parts |-> IF p \in fields /\ p = "header"
                              THEN json_free(json[p]) ELSE json[p]]
  /\ fields' = {}
  /\ raws' = [raws EXCEPT !["signature"] =
                IF @ = "plain" THEN "cleansed" ELSE @]

\* nxe_jwx_token_cleanup: both documents and the signature octets, not the
\* signing input.
token_cleanup ==
  /\ json' = [p \in Parts |-> IF p \in fields THEN json_free(json[p])
                              ELSE json[p]]
  /\ fields' = {}
  /\ raws' = [raws EXCEPT !["signature"] =
                IF @ = "plain" THEN "cleansed" ELSE @]

\* ngx_destroy_pool runs the handler; the views end with the token.
DestroyPool ==
  /\ pc = "done" /\ pool = "live"
  /\ pool' = "destroyed" /\ alg' = NoView /\ kid' = NoView
  /\ IF cln = "armed" THEN token_cleanup ELSE UNCHANGED <<json, fields, raws>>
  /\ UNCHANGED <<pc, str, signing, cln, result, faulty>>

DecodeStep == \/ RejectString \/ AllocToken \/ CopySigningInput
              \/ \E part \in Parts : DecodePart(part) \/ ParsePart(part)
              \/ DecodeSignature \/ ReadHeaderStrings

Next == DecodeStep \/ DestroyPool

Spec == Init /\ [][Next]_vars

\* The decoder runs to its end; every nginx pool is destroyed in the end.
FairSpec == Spec /\ WF_vars(DecodeStep) /\ WF_vars(DestroyPool)

-----------------------------------------------------------------------------
(* Properties. *)

\* Every variable keeps its type, and a token string is answered exactly when
\* the function returns.
TypeOK ==
  /\ pc \in {"start", "signing", "header", "header_json", "payload",
             "payload_json", "signature", "strings", "done"}
  /\ str \in Seq(Segment)
  /\ json \in [Parts -> {"none", "live", "freed", "double"}]
  /\ fields \subseteq Parts
  /\ raws \in [Buffers -> {"none", "plain", "cleansed"}]
  /\ signing = NoSigningInput \/ signing \in Segment \X Segment
  /\ cln \in {"none", "armed"} /\ pool \in {"live", "destroyed"}
  /\ result \in {"none", "NULL", "token"} /\ result = "none" <=> pc # "done"
  /\ faulty \subseteq FaultKinds
  /\ {alg, kid} \subseteq [v : STRING \cup {Empty}, m : {"null", "header"}]

(***************************************************************************)
(* The strings that are tokens, without the order of the tests.            *)
(***************************************************************************)
Readable(s) == s.len > 0 /\ s.b64 = "ok" /\ s.json = "object"
WellFormed(t) ==
  /\ Len(t) = 3 /\ Readable(t[1]) /\ Readable(t[2])
  /\ t[3].len = 0 \/ t[3].b64 = "ok"
  /\ t[1].len <= MaxJwtHeader
  /\ t[1].len + t[2].len + t[3].len + 2 <= MaxJwtSize

\* A string gives a token exactly if it is one and nothing ran out: no stage
\* lets through what a later one relies on it to refuse (decode.c:251-335).
DecodesExactly ==
  pc = "done" => (result = "token" <=> WellFormed(str) /\ faulty = {})

\* All or nothing: what the accessors hand out (decode.c:345-392) is a header
\* and a payload that are there, the very octets before the second dot, and
\* alg and kid as views into a header that is still allocated.
TokenWhole ==
  (result = "token" /\ pool = "live") =>
    /\ fields = Parts /\ \A p \in Parts : json[p] = "live"
    /\ signing = <<str[1], str[2]>>
    /\ \A v \in {alg, kid} : v.m = "header" => json["header"] = "live"

\* At every stage a live JSON document is one the armed cleanup will find in
\* the token, and none is freed twice (decode.c:276-286, 199-208, 53-61).
JsonReachable ==
  \A p \in Parts :
    /\ json[p] # "double"
    /\ json[p] = "live" => p \in fields /\ cln = "armed" /\ pool = "live"
    /\ p \in fields => json[p] = "live"

\* README "Known limitations": the raw segment buffers are cleansed.  The
\* decoded header and payload are by the time the decoder returns, on every
\* path, the signature when the pool goes (decode.c:304, 316, 69-71).
OctetsCleansed ==
  /\ pc = "done" => raws["header"] # "plain" /\ raws["payload"] # "plain"
  /\ pool = "destroyed" => raws["signature"] # "plain"

Pool == INSTANCE Custody WITH
  Resource <- Parts,
  held <- {p \in Parts : json[p] = "live"},
  spent <- {p \in Parts : json[p] = "freed"},
  open <- pool = "live"

\* The token keeps the promise of Custody for its two documents, through any
\* failure of the decoder and the end of the pool.
KeepsCustody == Pool!Spec

\* Whatever became of the string, in the end no document is left.
EventuallyReclaimed == <>[](\A p \in Parts : json[p] # "live")

=============================================================================
