-------------------------- MODULE JwxClaimsProofs --------------------------
(***************************************************************************)
(* What the claim accessors answer, for every payload and every sequence   *)
(* of reads.  A pointer the caller goes on with was written by an earlier  *)
(* read: it is NULL or points at one node, whatever that read answered.    *)
(***************************************************************************)
EXTENDS JwxClaims, TLAPS

\* A pointer: NULL, or at one node.
IsPointer(s) == s = Null \/ \E path : s = {path}

\* The caller only ever holds pointers; each output is the caller's variable of
\* one kind.
PointersInv ==
  /\ IsPointer(obj) /\ IsPointer(last.at)
  /\ DOMAIN outs = Kinds
  /\ IsPointer(outs["object"]) /\ IsPointer(outs["array"])

IInv == /\ PointersInv /\ AnswersAtPath /\ NoStaleOutput
        /\ rc \in {"none", "OK", "DECLINED", "ERROR"}
        /\ rc # "none" => last.kind \in Kinds

\* The variables, by kind, as the accessors set them on entry.
LEMMA ResetKinds ==
  /\ DOMAIN Reset = Kinds
  /\ Reset["object"] = Null /\ Reset["array"] = Null
PROOF BY DEF Reset, Kinds

\* Writing one output: the others are the caller's as they were.
LEMMA Written ==
  ASSUME PointersInv, NEW kind \in Kinds, NEW v,
         kind \in {"object", "array"} => IsPointer(v)
  PROVE  LET o == [outs EXCEPT ![kind] = v]
         IN  /\ DOMAIN o = Kinds /\ o[kind] = v
             /\ IsPointer(o["object"]) /\ IsPointer(o["array"])
<1> DEFINE o == [outs EXCEPT ![kind] = v]
<1>1. DOMAIN o = Kinds /\ \A k \in Kinds : o[k] = IF k = kind THEN v ELSE outs[k]
  BY DEF PointersInv
<1>2. "object" \in Kinds /\ "array" \in Kinds
  BY DEF Kinds
<1> HIDE DEF o
<1>3. QED
  BY <1>1, <1>2 DEF PointersInv, o

\* An accessor that does not succeed leaves its own output reset.
LEMMA ClearedOutput ==
  ASSUME PointersInv, NEW kind \in Kinds
  PROVE  LET o == Cleared(kind)
         IN  /\ DOMAIN o = Kinds /\ o[kind] = Reset[kind]
             /\ IsPointer(o["object"]) /\ IsPointer(o["array"])
<1>1. kind \in {"object", "array"} => IsPointer(Reset[kind])
  BY ResetKinds DEF IsPointer
<1>2. QED
  BY <1>1, Written DEF Cleared

\* A read below a pointer that is not NULL finds at most the one node there.
LEMMA ObjectGet ==
  ASSUME NEW where, IsPointer(where), NEW name
  PROVE  /\ where = Null => object_get(where, name) = Null
         /\ where # Null => object_get(where, name)
                              = {Below(where, name)} \cap DOMAIN payload
<1>1. CASE where = Null
  BY <1>1 DEF object_get, Null
<1>2. ASSUME NEW path, where = {path}
      PROVE  object_get(where, name) = {Below(where, name)} \cap DOMAIN payload
  <2>1. (CHOOSE w \in where : TRUE) = path
    BY <1>2
  <2>2. Below(where, name) = Append(path, name)
    BY <2>1 DEF Below
  <2>3. object_get(where, name) = {Append(path, name)} \cap DOMAIN payload
    BY <1>2 DEF object_get
  <2>4. QED
    BY <2>2, <2>3
<1>3. ASSUME NEW path PROVE {path} # Null
  BY DEF Null
<1>4. QED
  BY <1>1, <1>2, <1>3 DEF IsPointer

-----------------------------------------------------------------------------
(* Every read keeps the invariant. *)

\* A read that is answered as it should be, and writes its own output.
LEMMA ReadKeepsIInv ==
  ASSUME IInv, NEW kind \in Kinds, NEW name, Read(kind, name),
         NEW result \in {"OK", "DECLINED", "ERROR"}, rc' = result,
         NEW asked, asked = (obj # Null /\ name # NoName),
         NEW there, there = (asked /\ Below(obj, name) \in DOMAIN payload),
         result = "DECLINED" <=> asked /\ ~there,
         result = "OK" <=> there /\ payload[Below(obj, name)].type = kind,
         DOMAIN outs' = Kinds,
         IsPointer(outs'["object"]), IsPointer(outs'["array"]),
         result # "OK" => outs'[kind] = Reset[kind]
  PROVE  IInv'
<1>1. /\ last' = [kind |-> kind, name |-> name, at |-> obj]
      /\ payload' = payload /\ obj' = obj
  BY DEF Read
<1>2. last'.kind = kind /\ last'.name = name /\ last'.at = obj
  BY <1>1
<1>3. PointersInv'
  BY <1>1, <1>2 DEF IInv, PointersInv, IsPointer
<1>4. AnswersAtPath'
  <2>1. Below(last.at, last.name)' = Below(obj, name)
    BY <1>2 DEF Below
  <2>2. QED
    BY <1>1, <1>2, <2>1 DEF AnswersAtPath
<1>5. NoStaleOutput'
  BY <1>2 DEF NoStaleOutput
<1>6. QED
  BY <1>2, <1>3, <1>4, <1>5 DEF IInv

\* A NULL object or name (claims.c:32-34): an error, and the output reset.
LEMMA BadArgumentKeepsIInv == ASSUME IInv, GetBadArgument PROVE IInv'
<1>1. PICK kind \in Kinds, name \in Names \cup {NoName} :
        /\ Read(kind, name) /\ (obj = Null \/ name = NoName)
        /\ rc' = "ERROR" /\ outs' = Cleared(kind)
  BY DEF GetBadArgument
<1> DEFINE asked == obj # Null /\ name # NoName
           there == asked /\ Below(obj, name) \in DOMAIN payload
<1>2. ~asked /\ ~there
  BY <1>1
<1>3. /\ DOMAIN outs' = Kinds /\ outs'[kind] = Reset[kind]
      /\ IsPointer(outs'["object"]) /\ IsPointer(outs'["array"])
  BY <1>1, ClearedOutput DEF IInv
<1> HIDE DEF asked, there
<1>4. QED
  BY <1>1, <1>2, <1>3, ReadKeepsIInv DEF asked, there

\* No such member: NGX_DECLINED, and the output reset.
LEMMA AbsentKeepsIInv == ASSUME IInv, GetAbsent PROVE IInv'
<1>1. PICK kind \in Kinds, name \in Names :
        /\ Read(kind, name) /\ obj # Null /\ object_get(obj, name) = Null
        /\ rc' = "DECLINED" /\ outs' = Cleared(kind)
  BY DEF GetAbsent
<1>2. name # NoName
  BY ClaimsAssumption
<1>3. Below(obj, name) \notin DOMAIN payload
  BY <1>1, ObjectGet DEF IInv, PointersInv, Null
<1>4. /\ DOMAIN outs' = Kinds /\ outs'[kind] = Reset[kind]
      /\ IsPointer(outs'["object"]) /\ IsPointer(outs'["array"])
  BY <1>1, ClearedOutput DEF IInv
<1>5. QED
  BY <1>1, <1>2, <1>3, <1>4, ReadKeepsIInv

\* Where a read finds a node, and which.
LEMMA Found ==
  ASSUME IInv, NEW name \in Names, NEW path \in object_get(obj, name)
  PROVE  /\ obj # Null /\ name # NoName
         /\ path = Below(obj, name) /\ path \in DOMAIN payload
PROOF BY ObjectGet, ClaimsAssumption DEF IInv, PointersInv, Null

\* A member of another type: NGX_ERROR, and the output reset.
LEMMA WrongTypeKeepsIInv == ASSUME IInv, GetWrongType PROVE IInv'
<1>1. PICK kind \in Kinds, name \in Names : \E path \in object_get(obj, name) :
        /\ Read(kind, name) /\ ~is_kind(kind, payload[path])
        /\ rc' = "ERROR" /\ outs' = Cleared(kind)
  BY DEF GetWrongType
<1>2. /\ obj # Null /\ name # NoName /\ Below(obj, name) \in DOMAIN payload
      /\ payload[Below(obj, name)].type # kind
  BY <1>1, Found DEF is_kind
<1>3. /\ DOMAIN outs' = Kinds /\ outs'[kind] = Reset[kind]
      /\ IsPointer(outs'["object"]) /\ IsPointer(outs'["array"])
  BY <1>1, ClearedOutput DEF IInv
<1>4. QED
  BY <1>1, <1>2, <1>3, ReadKeepsIInv

\* A member of the type asked for: its value, or a pointer to it.
LEMMA ValueKeepsIInv == ASSUME IInv, GetValue PROVE IInv'
<1>1. PICK kind \in Kinds, name \in Names : \E path \in object_get(obj, name) :
        /\ Read(kind, name) /\ is_kind(kind, payload[path])
        /\ rc' = "OK" /\ outs' = [Cleared(kind) EXCEPT ![kind] = Extract(kind, path)]
  BY DEF GetValue
<1>2. /\ obj # Null /\ name # NoName /\ Below(obj, name) \in DOMAIN payload
      /\ payload[Below(obj, name)].type = kind
  BY <1>1, Found DEF is_kind
<1>3. PICK path : outs' = [Cleared(kind) EXCEPT ![kind] = Extract(kind, path)]
  BY <1>1
<1>4. outs' = [outs EXCEPT ![kind] = Extract(kind, path)]
  BY <1>3 DEF Cleared
<1>5. kind \in {"object", "array"} => IsPointer(Extract(kind, path))
  BY DEF Extract, IsPointer
<1>6. /\ DOMAIN outs' = Kinds
      /\ IsPointer(outs'["object"]) /\ IsPointer(outs'["array"])
  BY <1>4, <1>5, Written DEF IInv
<1>7. QED
  BY <1>1, <1>2, <1>6, ReadKeepsIInv

\* Going on where a read pointed changes no answer.
LEMMA DescendKeepsIInv == ASSUME IInv, Descend PROVE IInv'
<1>1. IsPointer(outs.object) /\ IsPointer(outs.array)
  BY DEF IInv, PointersInv
<1>2. IsPointer(obj')
  BY <1>1 DEF Descend, IsPointer
<1>3. PointersInv'
  BY <1>2 DEF Descend, IInv, PointersInv, IsPointer
<1>4. AnswersAtPath' /\ NoStaleOutput'
  BY DEF Descend, IInv, AnswersAtPath, Below, NoStaleOutput
<1>5. QED
  BY <1>3, <1>4 DEF Descend, IInv

-----------------------------------------------------------------------------
(* The theorems. *)

\* The invariant of the accessors, over any sequence of reads.
LEMMA Invariant == Spec => []IInv
<1>1. Init => IInv
  <2> SUFFICES ASSUME Init PROVE IInv
    OBVIOUS
  <2>1. PointersInv
    BY ResetKinds DEF Init, PointersInv, IsPointer
  <2>2. AnswersAtPath /\ NoStaleOutput
    BY DEF Init, AnswersAtPath, NoStaleOutput
  <2>3. QED
    BY <2>1, <2>2 DEF Init, IInv
<1>2. IInv /\ [Next]_vars => IInv'
  <2> SUFFICES ASSUME IInv, [Next]_vars PROVE IInv'
    OBVIOUS
  <2>1. CASE GetBadArgument
    BY <2>1, BadArgumentKeepsIInv
  <2>2. CASE GetAbsent
    BY <2>2, AbsentKeepsIInv
  <2>3. CASE GetWrongType
    BY <2>3, WrongTypeKeepsIInv
  <2>4. CASE GetValue
    BY <2>4, ValueKeepsIInv
  <2>5. CASE Descend
    BY <2>5, DescendKeepsIInv
  <2>6. CASE UNCHANGED vars
    BY <2>6 DEF vars, IInv, PointersInv, AnswersAtPath, NoStaleOutput, IsPointer, Below
  <2>7. QED
    BY <2>1, <2>2, <2>3, <2>4, <2>5, <2>6 DEF Next
<1>3. QED
  BY <1>1, <1>2, PTL DEF Spec

\* Each accessor tells a member that is there and of its type from one that is
\* absent and from one of another type, at any depth and after any reads
\* (claims.h:31-41).
THEOREM AnswersAtPathAlways == Spec => []AnswersAtPath
<1>1. IInv => AnswersAtPath
  BY DEF IInv
<1>2. QED
  BY <1>1, Invariant, PTL

\* After a read that did not succeed the output holds nothing of the reads
\* before it (claims.c:54-55, 77, 99, 121, 144).
THEOREM NoStaleOutputAlways == Spec => []NoStaleOutput
<1>1. IInv => NoStaleOutput
  BY DEF IInv
<1>2. QED
  BY <1>1, Invariant, PTL
=============================================================================
