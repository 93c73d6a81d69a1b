----------------------------- MODULE JwxClaims -----------------------------
(***************************************************************************)
(* The claim accessors (nxe_jwx_claims.c) as a caller drives them: any     *)
(* sequence of typed reads into the same output variables, going down into *)
(* the objects and arrays they return.                                     *)
(*                                                                         *)
(* A payload is a function from paths to nodes [type, value]; a pointer to *)
(* a node is a set with its path, {} if it is NULL.  The output pointer    *)
(* itself is never NULL here: that is an error and touches nothing.        *)
(***************************************************************************)
EXTENDS Integers, Sequences

CONSTANTS
  Payloads,    \* the payloads read
  Names,       \* the names asked for
  MaxReads     \* bound: reads in a behaviour

Kinds == {"string", "integer", "boolean", "array", "object"}
Null == {}
NoName == "null"    \* a NULL name

ASSUME ClaimsAssumption ==
  /\ MaxReads \in Nat
  /\ NoName \notin Names
  /\ \A p \in Payloads :
       /\ <<>> \in DOMAIN p
       /\ \A path \in DOMAIN p \ {<<>>} :
            LET up == SubSeq(path, 1, Len(path) - 1)
            IN up \in DOMAIN p /\ p[up].type = "object"

VARIABLES
  payload,   \* the JSON document
  obj,       \* what the next read looks into
  outs,      \* the caller's variable for each kind
  rc,        \* what the last read returned, "none" before it
  last,      \* the last read: kind, name, where
  reads

vars == <<payload, obj, outs, rc, last, reads>>

-----------------------------------------------------------------------------
\* nxe_json_object_get: the member of that name, NULL if there is none or the
\* node is no object.
object_get(where, name) ==
  {path \in {Append(w, name) : w \in where} : path \in DOMAIN payload}

\* What an output variable is set to before anything is looked at.
Reset == [string |-> Null, integer |-> 0, boolean |-> 0, array |-> Null,
          object |-> Null]

\* Mistake: a number that is not an integer is one.
is_kind_number(kind, node) ==
  node.type = kind \/ (kind = "integer" /\ node.type = "real")

\* The type test of the accessor of a kind.
is_kind(kind, node) == node.type = kind

\* A scalar by value, the others by reference.
Extract(kind, path) ==
  IF kind \in {"integer", "boolean"} THEN payload[path].value ELSE {path}

\* Mistake: the output is only written when there is something to write.
ClearedNot(kind) == outs

\* The output, reset on entry.
Cleared(kind) == [outs EXCEPT ![kind] = Reset[kind]]

Init ==
  /\ payload \in Payloads /\ obj = {<<>>} /\ outs = Reset /\ rc = "none"
  /\ last = [kind |-> "none", name |-> "none", at |-> Null] /\ reads = 0

Read(kind, name) ==
  /\ reads < MaxReads /\ reads' = reads + 1
  /\ last' = [kind |-> kind, name |-> name, at |-> obj]
  /\ UNCHANGED <<payload, obj>>

\* A NULL object, which an earlier read gave, or a NULL name.
GetBadArgument ==
  \E kind \in Kinds, name \in Names \cup {NoName} :
    /\ Read(kind, name) /\ (obj = Null \/ name = NoName)
    /\ rc' = "ERROR" /\ outs' = Cleared(kind)

GetAbsent ==
  \E kind \in Kinds, name \in Names :
    /\ Read(kind, name) /\ obj # Null /\ object_get(obj, name) = Null
    /\ rc' = "DECLINED" /\ outs' = Cleared(kind)

GetWrongType ==
  \E kind \in Kinds, name \in Names : \E path \in object_get(obj, name) :
    /\ Read(kind, name) /\ ~is_kind(kind, payload[path])
    /\ rc' = "ERROR" /\ outs' = Cleared(kind)

GetValue ==
  \E kind \in Kinds, name \in Names : \E path \in object_get(obj, name) :
    /\ Read(kind, name) /\ is_kind(kind, payload[path])
    /\ rc' = "OK" /\ outs' = [Cleared(kind) EXCEPT ![kind] = Extract(kind, path)]

\* The caller goes on where the last read pointed it, without a look at rc, or
\* starts again at the payload.
Descend ==
  /\ obj' \in {outs.object, outs.array, {<<>>}} /\ obj' # obj
  /\ UNCHANGED <<payload, outs, rc, last, reads>>

Next == GetBadArgument \/ GetAbsent \/ GetWrongType \/ GetValue \/ Descend

Spec == Init /\ [][Next]_vars

-----------------------------------------------------------------------------
(* Properties. *)

\* The path a read looks at: the member of that name below the pointer.
Below(where, name) == Append(CHOOSE w \in where : TRUE, name)

\* claims.h:31-41: present and of the type, absent, or of another type; in a
\* nested object as at the top, wherever earlier reads led.
AnswersAtPath ==
  rc # "none" =>
    LET asked == last.at # Null /\ last.name # NoName
        there == asked /\ Below(last.at, last.name) \in DOMAIN payload
    IN /\ rc = "DECLINED" <=> asked /\ ~there
       /\ rc = "OK" <=>
            there /\ payload[Below(last.at, last.name)].type = last.kind

\* An output never keeps the value of an earlier read: after a read that did
\* not succeed it is empty, so that a caller that goes on with it reads nothing
\* (claims.c:54-55, 77, 99, 121, 144).
NoStaleOutput ==
  rc \in {"DECLINED", "ERROR"} => outs[last.kind] = Reset[last.kind]

=============================================================================
