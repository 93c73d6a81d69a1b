-------------------------- MODULE JwxVerifyProofs --------------------------
(***************************************************************************)
(* What holds of key selection for every keyset, token and build: the      *)
(* answer of each entry point is the policy's verdict.  The passes are     *)
(* loops, so the argument is a loop invariant: what the flags and the      *)
(* keys passed over so far tell about the candidates.                      *)
(* From the verdict follows the order of the keys, which decides nothing;  *)
(* from a record of the keys each loop has tried, that it tries none twice *)
(* and what a caller may conclude from a refusal and the two queries.      *)
(***************************************************************************)
EXTENDS JwxVerify, JwxAlgProofs, FiniteSetTheorems, TLAPS

-----------------------------------------------------------------------------
(* Refusals by the algorithm table. *)

\* The refusals of nxe_jwx_jws_verify before the table and by it amount to:
\* the alg is the name of a row.
LEMMA AlgRefusal ==
  ASSUME NEW r
  PROVE  alg_refused(r) <=> r.alg \notin {a.name : a \in Algs} \ {"none"}
<1>1. CASE \E a \in Algs : a.name = r.alg
  BY <1>1, LookupFinds, NoAlgIsNoRow, AlgNames DEF alg_refused
<1>2. CASE ~\E a \in Algs : a.name = r.alg
  BY <1>2, LookupFinds, NoAlgIsNoRow DEF alg_refused
<1>3. QED
  BY <1>1, <1>2

-----------------------------------------------------------------------------
(* Type correctness. *)

\* Trying a key keeps the history a count for each key, and a new call starts
\* one.
LEMMA TriesTyped ==
  /\ \A r : Untried(r) \in [DOMAIN r.keys -> Nat]
  /\ (tries \in [DOMAIN req.keys -> Nat] /\ UNCHANGED req) =>
       \A j : Try(j) => tries' \in [DOMAIN req'.keys -> Nat]
PROOF BY DEF Untried, Try

\* Every variable of the verifier keeps its type.
THEOREM TypeCorrect == Spec => []TypeOK
<1>1. Init => TypeOK
  BY TriesTyped DEF Init, TypeOK
<1>2. TypeOK /\ [Next]_vars => TypeOK'
  <2> SUFFICES ASSUME TypeOK, [Next]_vars
               PROVE  TypeOK'
    OBVIOUS
  <2>1. CASE Call
    BY <2>1, TriesTyped, MaxCallsAssumption DEF Call, TypeOK
  <2>2. CASE Run
    <3>1. UNCHANGED req
      BY <2>2 DEF Run, Check, Pass1, Pass2, ByKid, NullArgument, Refuse,
                  Accepted, StartJws, StartByKid, RawUnknownKey, RawTry,
                  Pass1Skip, Pass1Try, Pass1Done, Pass2Skip, Pass2Try,
                  Pass2Done, ByKidSkip, ByKidTry, ByKidDone, Return, NextKey,
                  DeclineJws
    <3>2. UNCHANGED tries \/ \E j : Try(j)
      BY <2>2 DEF Run, Check, Pass1, Pass2, ByKid, NullArgument, Refuse,
                  StartJws, StartByKid, RawUnknownKey, RawTry,
                  Pass1Skip, Pass1Try, Pass1Done, Pass2Skip, Pass2Try,
                  Pass2Done, ByKidSkip, ByKidTry, ByKidDone, DeclineJws
    <3>3. tries' \in [DOMAIN req'.keys -> Nat]
      BY <3>1, <3>2, TriesTyped DEF TypeOK
    <3>4. CASE Check
      BY <3>1, <3>3, <3>4
         DEF TypeOK, Check, NullArgument, Refuse, StartJws, StartByKid,
             RawUnknownKey, RawTry, Noted, Return
    <3>5. CASE Pass1
      BY <3>1, <3>3, <3>5
         DEF TypeOK, Pass1, Pass1Skip, Pass1Try, Pass1Done, NextKey, Noted,
             Return, DeclineJws
    <3>6. CASE Pass2
      BY <3>1, <3>3, <3>6
         DEF TypeOK, Pass2, Pass2Skip, Pass2Try, Pass2Done, NextKey, Noted,
             Return, DeclineJws
    <3>7. CASE ByKid
      BY <3>1, <3>3, <3>7
         DEF TypeOK, ByKid, ByKidSkip, ByKidTry, ByKidDone, NextKey, Noted,
             Return
    <3>8. QED
      BY <2>2, <3>4, <3>5, <3>6, <3>7 DEF Run
  <2>3. CASE UNCHANGED vars
    BY <2>3 DEF vars, TypeOK
  <2>4. QED
    BY <2>1, <2>2, <2>3 DEF Next
<1>3. QED
  BY <1>1, <1>2, PTL DEF Spec

-----------------------------------------------------------------------------
(* What the loops know.  A loop over the keys has tried those of a set S    *)
(* (the keys of the kid, or the eligible ones) that come before index i.    *)

Upto(S, n) == {j \in S : j < n}
NoneAccepts(r, S) == \A j \in S : ~Verifies(r, j)
SomeError(r, S) == \E j \in S : Outcome(r, j) = "error"

Eligible(r) == {j \in DOMAIN r.keys : pass2_eligible(r, j)}
Open(r) == r.args = "ok" /\ Admissible(r)

CheckInv == pc = "check" => matched = 0 /\ interr = 0

\* matched tells whether pass 1 met the kid.
Pass1Inv == pc = "pass1" =>
  /\ req.op = "jws" /\ Open(req) /\ has_kid(req) /\ i <= Len(req.keys) + 1
  /\ NoneAccepts(req, Upto(Labelled(req), i))
  /\ matched = 1 <=> Upto(Labelled(req), i) # {}
  /\ interr = 1 <=> SomeError(req, Upto(Labelled(req), i))

\* A token with a kid reaches pass 2 only if no key has that kid.
Pass2Inv == pc = "pass2" =>
  /\ req.op = "jws" /\ Open(req) /\ i <= Len(req.keys) + 1
  /\ has_kid(req) => Labelled(req) = {}
  /\ NoneAccepts(req, Upto(Eligible(req), i))
  /\ interr = 1 <=> SomeError(req, Upto(Eligible(req), i))

ByKidInv == pc = "bykid" =>
  /\ req.op = "by_kid" /\ Open(req) /\ i <= Len(req.keys) + 1
  /\ NoneAccepts(req, Upto(Labelled(req), i))
  /\ logged = 1 <=> SomeError(req, Upto(Labelled(req), i))

\* Nothing is returned or, in the passes, logged before the end.
RunInv == /\ pc # "idle" => rc = "none"
          /\ pc # "check" => i <= Len(req.keys) + 1
          /\ pc \in {"check", "pass1", "pass2"} => logged = 0
          /\ pc = "check" => i = 1

IInv == /\ TypeOK /\ CheckInv /\ Pass1Inv /\ Pass2Inv /\ ByKidInv /\ RunInv
        /\ VerdictCorrect /\ InternalErrorReported

-----------------------------------------------------------------------------
(* Lemmas about one request. *)

\* What the parameters of the three entry points are: the fields of a request
\* and the array of keys with its indices.
LEMMA RequestFacts ==
  ASSUME NEW r \in Requests
  PROVE  /\ r.op \in {"jws", "raw", "by_kid"} /\ r.args \in {"ok", "null"}
         /\ r.sig.len \in Nat
         /\ Len(r.keys) \in Nat /\ DOMAIN r.keys = 1..Len(r.keys)
PROOF BY RequestsAssumption DEF Request, Signature

\* The loop test on k->kid (nxe_jwx_jws.c:529-535, 723-728) picks the labelled
\* keys of the policy.
LEMMA KidMatches ==
  ASSUME NEW r \in Requests, NEW j \in DOMAIN r.keys
  PROVE  kid_matches(r, j) <=> j \in Labelled(r)
PROOF BY DEF kid_matches, Labelled

\* One more index: the set tried grows by that index if it belongs to it.
LEMMA UptoNext ==
  ASSUME NEW S \in SUBSET Nat, NEW n \in Nat
  PROVE  /\ n \in S => Upto(S, n + 1) = Upto(S, n) \cup {n}
         /\ n \notin S => Upto(S, n + 1) = Upto(S, n)
<1>1. \A j \in S : j < n + 1 <=> j < n \/ j = n
  OBVIOUS
<1>2. \A j : j \in Upto(S, n + 1) <=> j \in S /\ (j < n \/ j = n)
  BY <1>1 DEF Upto
<1>3. \A j : j \in Upto(S, n) <=> j \in S /\ j < n
  BY DEF Upto
<1>4. QED
  BY <1>2, <1>3

\* A loop that starts has looked at no key; one that ran out of the array has
\* looked at all of its set.
LEMMA UptoEnds ==
  ASSUME NEW r \in Requests, NEW S \in SUBSET DOMAIN r.keys
  PROVE  /\ Upto(S, 1) = {}
         /\ \A n \in Nat : n > Len(r.keys) => Upto(S, n) = S
PROOF BY RequestFacts DEF Upto

\* What pass 2 walks are the candidates of a token it runs for.
LEMMA Pass2Candidates ==
  ASSUME NEW r \in Requests, r.op = "jws", has_kid(r) => Labelled(r) = {}
  PROVE  Candidates(r) = Eligible(r)
<1>1. CASE r.id = Empty
  BY <1>1 DEF Candidates, Eligible, pass2_eligible, has_kid
<1>2. CASE r.id # Empty
  BY <1>2 DEF Candidates, Eligible, pass2_eligible, has_kid, Unlabelled
<1>3. QED
  BY <1>1, <1>2

\* What pass 1 and verify_raw_by_kid walk are the candidates of their request.
LEMMA LabelledCandidates ==
  ASSUME NEW r \in Requests,
         r.op = "by_kid" \/ (r.op = "jws" /\ Labelled(r) # {})
  PROVE  Candidates(r) = Labelled(r)
<1>1. CASE r.op = "by_kid"
  BY <1>1 DEF Candidates
<1>2. CASE r.op = "jws" /\ Labelled(r) # {}
  BY <1>2 DEF Candidates, Labelled
<1>3. QED
  BY <1>1, <1>2

\* The search by thumbprint yields the one candidate of a raw call, if any.
LEMMA RawCandidates ==
  ASSUME NEW r \in Requests, r.op = "raw"
  PROVE  /\ find_by_thumbprint(r) = Candidates(r)
         /\ \A j, h \in Candidates(r) : j = h
<1> DEFINE hit(j) == r.keys[j].thumbprint # Empty /\ r.keys[j].thumbprint = r.id
<1>1. Named(r) = {j \in DOMAIN r.keys : hit(j)}
  BY DEF Named
<1>2. Candidates(r) = {j \in Named(r) : \A h \in Named(r) : j <= h}
  BY DEF Candidates
<1>3. find_by_thumbprint(r)
        = {j \in DOMAIN r.keys : hit(j) /\ \A h \in 1..(j - 1) : ~hit(h)}
  BY DEF find_by_thumbprint
<1> HIDE DEF hit
<1>4. QED
  BY <1>1, <1>2, <1>3, RequestFacts

\* A request that passes the early returns (nxe_jwx_jws.c:459-507) is admissible
\* for the policy.
LEMMA AcceptedOpen ==
  ASSUME NEW r \in Requests
  PROVE  (/\ r.args = "ok" /\ r.sig.len > 0
          /\ r.op = "jws" => ~alg_refused(r)) <=> Open(r)
PROOF BY AlgRefusal, RequestFacts DEF Open, Admissible

\* verify_with_key returns -1 exactly where the key fails inside the library.
LEMMA ErrorIsFailure ==
  ASSUME NEW r, NEW j
  PROVE  Outcome(r, j) = "error" <=> FailsInside(r, j)
PROOF BY DEF Outcome, verify_with_key, FailsInside, Malformed

\* The error flag of a loop that walked the candidates, as the property has it.
LEMMA SomeErrorIsFailure ==
  ASSUME NEW r
  PROVE  SomeError(r, Candidates(r))
           <=> \E j \in Candidates(r) : FailsInside(r, j)
PROOF BY ErrorIsFailure DEF SomeError

\* From what a loop found to the verdict.
LEMMA VerdictOf ==
  ASSUME NEW r \in Requests, Open(r)
  PROVE  /\ NoneAccepts(r, Candidates(r)) => Verdict(r) = "DECLINED"
         /\ (\E j \in Candidates(r) : Verifies(r, j)) => Verdict(r) = "OK"
PROOF BY DEF Open, Verdict, NoneAccepts

-----------------------------------------------------------------------------
(* The invariant. *)

\* The invariant holds when a first call enters one of the entry points.
LEMMA InitIInv == Init => IInv
<1> SUFFICES ASSUME Init PROVE IInv
  OBVIOUS
<1>1. TypeOK
  BY TriesTyped DEF Init, TypeOK
<1>2. QED
  BY <1>1 DEF Init, IInv, CheckInv, Pass1Inv, Pass2Inv, ByKidInv, RunInv,
                    VerdictCorrect, InternalErrorReported, Returned

\* Between calls everything is known; a new call knows nothing yet.
LEMMA CallKeepsIInv ==
  ASSUME IInv, TypeOK', Call
  PROVE  IInv'
PROOF BY DEF Call, IInv, CheckInv, Pass1Inv, Pass2Inv, ByKidInv, RunInv,
             VerdictCorrect, InternalErrorReported, Returned

\* A call that is answered or started before any loop.
LEMMA CheckKeepsIInv ==
  ASSUME IInv, TypeOK', Check
  PROVE  IInv'
<1>1. /\ req \in Requests /\ pc = "check" /\ i = 1 /\ rc = "none"
      /\ matched = 0 /\ interr = 0 /\ logged = 0
      /\ UNCHANGED <<req, i>>
  BY DEF IInv, TypeOK, CheckInv, RunInv, Check, NullArgument, Refuse, Accepted,
         StartJws, StartByKid, RawUnknownKey, RawTry, Return
<1>2. Upto(Labelled(req), 1) = {} /\ Upto(Eligible(req), 1) = {}
  BY <1>1, UptoEnds DEF Labelled, Eligible
<1>3. CASE NullArgument
  BY <1>1, <1>3, RequestFacts
     DEF NullArgument, Return, IInv, CheckInv, Pass1Inv, Pass2Inv, ByKidInv,
         RunInv, VerdictCorrect, Verdict, InternalErrorReported, Returned
<1>4. CASE Refuse
  <2>1. ~Open(req) /\ req.args = "ok" /\ ~Admissible(req)
    BY <1>1, <1>4, AcceptedOpen, RequestFacts DEF Refuse, Open
  <2>2. Verdict(req) = "DECLINED"
    BY <2>1 DEF Verdict
  <2>3. QED
    BY <1>1, <1>4, <2>1, <2>2, RequestFacts
       DEF Refuse, Return, IInv, CheckInv, Pass1Inv, Pass2Inv, ByKidInv,
           RunInv, VerdictCorrect, InternalErrorReported, Returned
<1>5. ASSUME Accepted PROVE Open(req)
  BY <1>1, <1>5, AcceptedOpen DEF Accepted
<1>6. CASE StartJws
  <2>1. Open(req)
    BY <1>5, <1>6 DEF StartJws
  <2>2. QED
    BY <1>1, <1>2, <1>6, <2>1, RequestFacts
       DEF StartJws, IInv, CheckInv, Pass1Inv, Pass2Inv, ByKidInv, RunInv,
           VerdictCorrect, InternalErrorReported, Returned,
           NoneAccepts, SomeError
<1>7. CASE StartByKid
  <2>1. Open(req)
    BY <1>5, <1>7 DEF StartByKid
  <2>2. QED
    BY <1>1, <1>2, <1>7, <2>1, RequestFacts
       DEF StartByKid, IInv, CheckInv, Pass1Inv, Pass2Inv, ByKidInv, RunInv,
           VerdictCorrect, InternalErrorReported, Returned,
           NoneAccepts, SomeError
<1>8. CASE RawUnknownKey
  <2>1. Open(req) /\ Candidates(req) = {}
    BY <1>1, <1>5, <1>8, RawCandidates DEF RawUnknownKey
  <2>2. Verdict(req) = "DECLINED"
    BY <1>1, <2>1, VerdictOf DEF NoneAccepts
  <2>3. QED
    BY <1>1, <1>8, <2>1, <2>2, RequestFacts
       DEF RawUnknownKey, Return, IInv, CheckInv, Pass1Inv, Pass2Inv, ByKidInv,
           RunInv, VerdictCorrect, InternalErrorReported, Returned
<1>9. CASE RawTry
  <2>1. PICK j \in Candidates(req) :
          /\ Return(IF Outcome(req, j) = "yes" THEN "OK" ELSE "DECLINED")
          /\ logged' = Noted(logged, Outcome(req, j))
    BY <1>1, <1>9, RawCandidates DEF RawTry
  <2>2. Open(req) /\ Candidates(req) = {j} /\ j \in DOMAIN req.keys
    BY <1>1, <1>5, <1>9, RawCandidates DEF RawTry, find_by_thumbprint
  <2>3. Verdict(req) = IF Verifies(req, j) THEN "OK" ELSE "DECLINED"
    BY <1>1, <2>2, VerdictOf DEF NoneAccepts
  <2>4. VerdictCorrect'
    BY <1>1, <2>1, <2>3 DEF VerdictCorrect, Return, Verifies
  <2>5. InternalErrorReported'
    BY <1>1, <2>1, <2>2, ErrorIsFailure
       DEF InternalErrorReported, Return, Noted, Open
  <2>6. QED
    BY <1>1, <2>1, <2>4, <2>5, RequestFacts
       DEF Return, IInv, CheckInv, Pass1Inv, Pass2Inv, ByKidInv, RunInv
<1>10. QED
  BY <1>3, <1>4, <1>6, <1>7, <1>8, <1>9 DEF Check

\* One iteration of pass 1, or its end.
LEMMA Pass1KeepsIInv ==
  ASSUME IInv, TypeOK', Pass1
  PROVE  IInv'
<1>1. /\ req \in Requests /\ pc = "pass1" /\ i \in Nat \ {0} /\ rc = "none"
      /\ matched \in {0, 1} /\ interr \in {0, 1}
      /\ logged = 0 /\ UNCHANGED req
      /\ Pass1Inv
  BY DEF IInv, TypeOK, RunInv, Pass1, Pass1Skip, Pass1Try, Pass1Done,
         Return, NextKey, DeclineJws
<1> DEFINE L == Labelled(req)
<1>2. L \subseteq DOMAIN req.keys /\ DOMAIN req.keys = 1..Len(req.keys)
      /\ L \in SUBSET Nat /\ Len(req.keys) \in Nat
  BY <1>1, RequestFacts DEF Labelled
<1>3. /\ i \in L => Upto(L, i + 1) = Upto(L, i) \cup {i}
      /\ i \notin L => Upto(L, i + 1) = Upto(L, i)
      /\ i > Len(req.keys) => Upto(L, i) = L
  BY <1>1, <1>2, UptoNext, UptoEnds
<1>4. i <= Len(req.keys) => (kid_matches(req, i) <=> i \in L)
  BY <1>1, <1>2, KidMatches
<1> HIDE DEF L
<1>5. CASE Pass1Skip
  BY <1>1, <1>2, <1>3, <1>4, <1>5
     DEF Pass1Skip, NextKey, L, IInv, CheckInv, Pass1Inv, Pass2Inv, ByKidInv,
         RunInv, VerdictCorrect, InternalErrorReported, Returned
<1>6. CASE Pass1Try /\ Verifies(req, i)
  <2>1. i \in L /\ Candidates(req) = L
    BY <1>1, <1>4, <1>6, LabelledCandidates DEF L, Pass1Try, Pass1Inv
  <2>2. Verdict(req) = "OK"
    BY <1>1, <1>6, <2>1, VerdictOf DEF Pass1Inv
  <2>3. QED
    BY <1>1, <1>2, <1>6, <2>2
       DEF Pass1Try, Verifies, NextKey, Return, IInv, CheckInv, Pass1Inv,
           Pass2Inv, ByKidInv, RunInv, VerdictCorrect, InternalErrorReported,
           Returned
<1>7. CASE Pass1Try /\ ~Verifies(req, i)
  <2>1. i \in L /\ NextKey /\ UNCHANGED logged
        /\ matched' = 1 /\ interr' = Noted(interr, Outcome(req, i))
        /\ i <= Len(req.keys)
    BY <1>1, <1>4, <1>7 DEF Pass1Try, Verifies
  <2>2. Upto(L, i + 1) = Upto(L, i) \cup {i}
    BY <1>3, <2>1
  <2>3. NoneAccepts(req, Upto(L, i + 1))
    BY <1>1, <1>7, <2>2 DEF Pass1Inv, NoneAccepts, L
  <2>4. interr' = 1 <=> SomeError(req, Upto(L, i + 1))
    BY <1>1, <2>1, <2>2 DEF Pass1Inv, SomeError, Noted, L
  <2>5. pc' = "pass1" /\ i' = i + 1 /\ UNCHANGED <<req, rc>>
    BY <1>1, <2>1 DEF NextKey
  <2>6. Pass1Inv'
    <3>1. i' =< Len(req.keys) + 1
      BY <1>1, <1>2, <2>1, <2>5 DEF Pass1Inv
    <3>2. NoneAccepts(req, Upto(L, i')) /\ (interr' = 1 <=> SomeError(req, Upto(L, i')))
      BY <2>3, <2>4, <2>5
    <3>3. matched' = 1 <=> Upto(L, i') # {}
      BY <2>1, <2>2, <2>5
    <3>4. QED
      BY <1>1, <2>1, <2>5, <3>1, <3>2, <3>3 DEF Pass1Inv, L
  <2>7. RunInv'
    BY <1>1, <1>2, <2>1, <2>5 DEF RunInv, Pass1Inv
  <2>8. QED
    BY <1>1, <2>5, <2>6, <2>7
       DEF IInv, CheckInv, Pass2Inv, ByKidInv, VerdictCorrect,
           InternalErrorReported, Returned
<1>8. CASE Pass1Done /\ pass2_runs(req, matched)
  <2>1. Labelled(req) = {} /\ interr = 0
    BY <1>1, <1>3, <1>8 DEF Pass1Done, pass2_runs, Pass1Inv, SomeError, L
  <2>2. Upto(Eligible(req), 1) = {}
    BY <1>1, UptoEnds DEF Eligible
  <2>3. QED
    BY <1>1, <1>2, <1>8, <2>1, <2>2
       DEF Pass1Done, NoneAccepts, SomeError, IInv, CheckInv, Pass1Inv,
           Pass2Inv, ByKidInv, RunInv, VerdictCorrect, InternalErrorReported,
           Returned
<1>9. CASE Pass1Done /\ ~pass2_runs(req, matched)
  <2>1. Upto(L, i) = L /\ L # {} /\ Candidates(req) = L
    BY <1>1, <1>3, <1>9, LabelledCandidates
       DEF Pass1Done, pass2_runs, Pass1Inv, L
  <2>2. Verdict(req) = "DECLINED"
    BY <1>1, <2>1, VerdictOf DEF Pass1Inv, L
  <2>3. interr = 1 <=> \E j \in Candidates(req) : FailsInside(req, j)
    BY <1>1, <2>1, SomeErrorIsFailure DEF Pass1Inv, L
  <2>4. QED
    BY <1>1, <1>2, <1>9, <2>2, <2>3
       DEF Pass1Done, DeclineJws, Return, Open, IInv, CheckInv,
           Pass1Inv, Pass2Inv, ByKidInv, RunInv, VerdictCorrect,
           InternalErrorReported, Returned
<1>10. QED
  BY <1>5, <1>6, <1>7, <1>8, <1>9 DEF Pass1, Pass1Try, Pass1Done

\* One iteration of pass 2, or its end.
LEMMA Pass2KeepsIInv ==
  ASSUME IInv, TypeOK', Pass2
  PROVE  IInv'
<1>1. /\ req \in Requests /\ pc = "pass2" /\ i \in Nat \ {0} /\ rc = "none"
      /\ interr \in {0, 1}
      /\ logged = 0 /\ UNCHANGED req
      /\ Pass2Inv
  BY DEF IInv, TypeOK, RunInv, Pass2, Pass2Skip, Pass2Try, Pass2Done,
         Return, NextKey, DeclineJws
<1> DEFINE C == Eligible(req)
<1>2. C \subseteq DOMAIN req.keys /\ DOMAIN req.keys = 1..Len(req.keys)
      /\ C \in SUBSET Nat /\ Len(req.keys) \in Nat
  BY <1>1, RequestFacts DEF Eligible
<1>3. /\ i \in C => Upto(C, i + 1) = Upto(C, i) \cup {i}
      /\ i \notin C => Upto(C, i + 1) = Upto(C, i)
      /\ i > Len(req.keys) => Upto(C, i) = C
  BY <1>1, <1>2, UptoNext, UptoEnds
<1>4. i <= Len(req.keys) => (pass2_eligible(req, i) <=> i \in C)
  BY <1>1, <1>2 DEF Eligible
<1>5. Candidates(req) = C /\ Open(req)
  BY <1>1, Pass2Candidates DEF Pass2Inv
<1> HIDE DEF C
<1>6. CASE Pass2Skip
  BY <1>1, <1>2, <1>3, <1>4, <1>6
     DEF Pass2Skip, NextKey, C, IInv, CheckInv, Pass1Inv, Pass2Inv, ByKidInv,
         RunInv, VerdictCorrect, InternalErrorReported, Returned
<1>7. CASE Pass2Try /\ Verifies(req, i)
  <2>1. Verdict(req) = "OK"
    BY <1>1, <1>4, <1>5, <1>7, VerdictOf DEF Pass2Try
  <2>2. QED
    BY <1>1, <1>2, <1>7, <2>1
       DEF Pass2Try, Verifies, NextKey, Return, IInv, CheckInv, Pass1Inv,
           Pass2Inv, ByKidInv, RunInv, VerdictCorrect, InternalErrorReported,
           Returned
<1>8. CASE Pass2Try /\ ~Verifies(req, i)
  <2>1. i \in C /\ NextKey
        /\ UNCHANGED <<matched, logged>>
        /\ interr' = Noted(interr, Outcome(req, i))
        /\ i <= Len(req.keys)
    BY <1>1, <1>4, <1>8 DEF Pass2Try, Verifies
  <2>2. Upto(C, i + 1) = Upto(C, i) \cup {i}
    BY <1>3, <2>1
  <2>3. NoneAccepts(req, Upto(C, i + 1))
    BY <1>1, <1>8, <2>2 DEF Pass2Inv, NoneAccepts, C
  <2>4. interr' = 1 <=> SomeError(req, Upto(C, i + 1))
    BY <1>1, <2>1, <2>2 DEF Pass2Inv, SomeError, Noted, C
  <2>5. QED
    BY <1>1, <1>2, <2>1, <2>3, <2>4
       DEF NextKey, C, IInv, CheckInv, Pass1Inv, Pass2Inv, ByKidInv, RunInv,
           VerdictCorrect, InternalErrorReported, Returned
<1>9. CASE Pass2Done
  <2>1. Upto(C, i) = Candidates(req)
    BY <1>1, <1>3, <1>5, <1>9 DEF Pass2Done
  <2>2. Verdict(req) = "DECLINED"
    BY <1>1, <1>5, <2>1, VerdictOf DEF Pass2Inv, C
  <2>3. interr = 1 <=> \E j \in Candidates(req) : FailsInside(req, j)
    BY <1>1, <2>1, SomeErrorIsFailure DEF Pass2Inv, C
  <2>4. QED
    BY <1>1, <1>2, <1>5, <1>9, <2>2, <2>3
       DEF Pass2Done, DeclineJws, Return, Open, IInv, CheckInv,
           Pass1Inv, Pass2Inv, ByKidInv, RunInv, VerdictCorrect,
           InternalErrorReported, Returned
<1>10. QED
  BY <1>6, <1>7, <1>8, <1>9 DEF Pass2, Pass2Try

\* One iteration of verify_raw_by_kid, or its end.
LEMMA ByKidKeepsIInv ==
  ASSUME IInv, TypeOK', ByKid
  PROVE  IInv'
<1>1. /\ req \in Requests /\ pc = "bykid" /\ i \in Nat \ {0} /\ rc = "none"
      /\ logged \in {0, 1}
      /\ UNCHANGED req
      /\ ByKidInv
  BY DEF IInv, TypeOK, RunInv, ByKid, ByKidSkip, ByKidTry, ByKidDone,
         Return, NextKey
<1> DEFINE L == Labelled(req)
<1>2. L \subseteq DOMAIN req.keys /\ DOMAIN req.keys = 1..Len(req.keys)
      /\ L \in SUBSET Nat /\ Len(req.keys) \in Nat
  BY <1>1, RequestFacts DEF Labelled
<1>3. /\ i \in L => Upto(L, i + 1) = Upto(L, i) \cup {i}
      /\ i \notin L => Upto(L, i + 1) = Upto(L, i)
      /\ i > Len(req.keys) => Upto(L, i) = L
  BY <1>1, <1>2, UptoNext, UptoEnds
<1>4. i <= Len(req.keys) => (kid_matches(req, i) <=> i \in L)
  BY <1>1, <1>2, KidMatches
<1>5. Candidates(req) = L /\ Open(req)
  BY <1>1, LabelledCandidates DEF ByKidInv
<1> HIDE DEF L
<1>6. CASE ByKidSkip
  BY <1>1, <1>2, <1>3, <1>4, <1>6
     DEF ByKidSkip, NextKey, L, IInv, CheckInv, Pass1Inv, Pass2Inv, ByKidInv,
         RunInv, VerdictCorrect, InternalErrorReported, Returned
<1>7. CASE ByKidTry /\ Verifies(req, i)
  <2>1. Verdict(req) = "OK"
    BY <1>1, <1>4, <1>5, <1>7, VerdictOf DEF ByKidTry
  <2>2. QED
    BY <1>1, <1>2, <1>7, <2>1
       DEF ByKidTry, Verifies, NextKey, Return, IInv, CheckInv, Pass1Inv,
           Pass2Inv, ByKidInv, RunInv, VerdictCorrect, InternalErrorReported,
           Returned
<1>8. CASE ByKidTry /\ ~Verifies(req, i)
  <2>1. i \in L /\ NextKey
        /\ UNCHANGED <<matched, interr>>
        /\ logged' = Noted(logged, Outcome(req, i))
        /\ i <= Len(req.keys)
    BY <1>1, <1>4, <1>8 DEF ByKidTry, Verifies
  <2>2. Upto(L, i + 1) = Upto(L, i) \cup {i}
    BY <1>3, <2>1
  <2>3. NoneAccepts(req, Upto(L, i + 1))
    BY <1>1, <1>8, <2>2 DEF ByKidInv, NoneAccepts, L
  <2>4. logged' = 1 <=> SomeError(req, Upto(L, i + 1))
    BY <1>1, <2>1, <2>2 DEF ByKidInv, SomeError, Noted, L
  <2>5. QED
    BY <1>1, <1>2, <2>1, <2>3, <2>4
       DEF NextKey, L, IInv, CheckInv, Pass1Inv, Pass2Inv, ByKidInv, RunInv,
           VerdictCorrect, InternalErrorReported, Returned
<1>9. CASE ByKidDone
  <2>1. Upto(L, i) = Candidates(req)
    BY <1>1, <1>3, <1>5, <1>9 DEF ByKidDone
  <2>2. Verdict(req) = "DECLINED"
    BY <1>1, <1>5, <2>1, VerdictOf DEF ByKidInv, L
  <2>3. logged = 1 <=> \E j \in Candidates(req) : FailsInside(req, j)
    BY <1>1, <2>1, SomeErrorIsFailure DEF ByKidInv, L
  <2>4. QED
    BY <1>1, <1>2, <1>5, <1>9, <2>2, <2>3
       DEF ByKidDone, Return, Open, IInv, CheckInv,
           Pass1Inv, Pass2Inv, ByKidInv, RunInv, VerdictCorrect,
           InternalErrorReported, Returned
<1>10. QED
  BY <1>6, <1>7, <1>8, <1>9 DEF ByKid, ByKidTry

\* Nothing the invariant speaks of changes outside the entry points.
LEMMA StutterKeepsIInv ==
  ASSUME IInv, UNCHANGED vars
  PROVE  IInv'
<1>1. TypeOK' /\ CheckInv' /\ RunInv'
  BY DEF IInv, vars, TypeOK, CheckInv, RunInv
<1>2. Pass1Inv' /\ Pass2Inv' /\ ByKidInv'
  BY DEF IInv, vars, Pass1Inv, Pass2Inv, ByKidInv
<1>3. VerdictCorrect' /\ InternalErrorReported'
  BY DEF IInv, vars, VerdictCorrect, InternalErrorReported, Returned
<1>4. QED
  BY <1>1, <1>2, <1>3 DEF IInv

-----------------------------------------------------------------------------
(* The theorems. *)

\* The invariant of the loops: at every iteration the flags kid_matched_any and
\* any_internal_error and the log say what the keys walked so far have shown,
\* and none of them has verified.
THEOREM Inductive == Spec => []IInv
<1>1. IInv /\ TypeOK' /\ [Next]_vars => IInv'
  BY CallKeepsIInv, CheckKeepsIInv, Pass1KeepsIInv, Pass2KeepsIInv,
     ByKidKeepsIInv, StutterKeepsIInv DEF Next, Run
<1>2. QED
  BY <1>1, InitIInv, TypeCorrect, PTL DEF Spec

\* For every keyset, token, message, build and pattern of OpenSSL failures,
\* nxe_jwx_jws_verify, _verify_raw and _verify_raw_by_kid return what the
\* declarative policy says.
THEOREM VerdictIsPolicy == Spec => []VerdictCorrect
<1>1. IInv => VerdictCorrect
  BY DEF IInv
<1>2. QED
  BY <1>1, Inductive, PTL

\* An internal error is logged exactly when it took part in a refusal.
THEOREM ErrorsReported == Spec => []InternalErrorReported
<1>1. IInv => InternalErrorReported
  BY DEF IInv
<1>2. QED
  BY <1>1, Inductive, PTL

\* A token naming a kid is accepted only by a key of that kid or, when there
\* is none, by an unlabelled key.
THEOREM KidStrict == Spec => []NoKeyConfusion
<1>1. ASSUME TypeOK, VerdictCorrect
      PROVE  NoKeyConfusion
  <2> SUFFICES ASSUME Returned, rc = "OK", req.op = "jws", req.id # Empty
               PROVE  \E j \in DOMAIN req.keys :
                        /\ Verifies(req, j)
                        /\ \/ req.keys[j].kid = req.id
                           \/ /\ req.keys[j].kid = Empty
                              /\ \A h \in DOMAIN req.keys :
                                   req.keys[h].kid # req.id
    BY DEF NoKeyConfusion
  <2>1. PICK j \in Candidates(req) : Verifies(req, j)
    BY <1>1 DEF VerdictCorrect, Verdict
  <2>2. CASE Labelled(req) # {}
    BY <2>1, <2>2 DEF Candidates, Labelled
  <2>3. CASE Labelled(req) = {}
    BY <2>1, <2>3 DEF Candidates, Labelled, Unlabelled
  <2>4. QED
    BY <2>2, <2>3
<1>2. QED
  BY <1>1, TypeCorrect, VerdictIsPolicy, PTL

\* For a kid of the keyset and a supported alg, verify_raw_by_kid agrees with
\* jws_verify.
THEOREM ByKidAgrees == Spec => []ByKidMirrorsPass1
<1>1. ASSUME TypeOK, VerdictCorrect
      PROVE  ByKidMirrorsPass1
  <2> SUFFICES ASSUME Returned, req.op = "by_kid", Labelled(req) # {},
                      ~alg_refused(req)
               PROVE  rc = Verdict([req EXCEPT !.op = "jws"])
    BY DEF ByKidMirrorsPass1
  <2> DEFINE r == [req EXCEPT !.op = "jws"]
  <2>1. req \in Request
    BY <1>1, RequestsAssumption DEF TypeOK
  <2>2. /\ r.op = "jws" /\ r.args = req.args /\ r.alg = req.alg /\ r.id = req.id
        /\ r.msg = req.msg /\ r.sig = req.sig /\ r.keys = req.keys
    BY <2>1 DEF Request
  <2>3. req.alg \in {a.name : a \in Algs} \ {"none"} /\ req.alg # Empty
    BY AlgRefusal DEF alg_refused
  <2> HIDE DEF r
  <2>5. Labelled(r) = Labelled(req) /\ (Admissible(r) <=> Admissible(req))
    BY <2>2, <2>3 DEF Labelled, Admissible
  <2>6. Candidates(r) = Labelled(req) /\ Candidates(req) = Labelled(req)
    BY <2>2, <2>5 DEF Candidates, Labelled
  <2>7. \A j \in Labelled(req) : Verifies(r, j) <=> Verifies(req, j)
    BY <2>2, <2>3 DEF Verifies, Outcome, effective_alg
  <2>8. Verdict(r) = Verdict(req)
    BY <2>2, <2>5, <2>6, <2>7 DEF Verdict
  <2>9. QED
    BY <1>1, <2>8 DEF VerdictCorrect, r
<1>2. QED
  BY <1>1, TypeCorrect, VerdictIsPolicy, PTL

\* The detailed machine implements the abstract one: a call is a Submit, the
\* step that returns is the Answer, every other step stutters.
THEOREM ImplementsPolicy == Spec => PolicySpec
<1>1. Init => Policy!Init
  BY DEF Init, Policy!Init
<1>2. IInv /\ IInv' /\ [Next]_vars => [Policy!Next]_(Policy!vars)
  <2> SUFFICES ASSUME IInv, IInv', [Next]_vars
               PROVE  [Policy!Next]_(Policy!vars)
    OBVIOUS
  <2>1. CASE Call
    BY <2>1 DEF Call, IInv, TypeOK, Policy!Next, Policy!Submit
  <2>2. CASE Run
    <3>1. pc # "idle" /\ req' = req
      BY <2>2 DEF Run, Check, Pass1, Pass2, ByKid, NullArgument, Refuse,
                  Accepted, StartJws, StartByKid, RawUnknownKey, RawTry,
                  Pass1Skip, Pass1Try, Pass1Done, Pass2Skip, Pass2Try,
                  Pass2Done, ByKidSkip, ByKidTry, ByKidDone, Return, NextKey,
                  DeclineJws
    <3>2. CASE pc' = "idle"
      BY <3>1, <3>2 DEF IInv, VerdictCorrect, Returned, Policy!Next,
                        Policy!Answer
    <3>3. CASE pc' # "idle"
      BY <3>1, <3>3 DEF IInv, RunInv, Policy!vars
    <3>4. QED
      BY <3>2, <3>3
  <2>3. CASE UNCHANGED vars
    BY <2>3 DEF vars, Policy!vars
  <2>4. QED
    BY <2>1, <2>2, <2>3 DEF Next
<1>3. QED
  BY <1>1, <1>2, Inductive, PTL DEF Spec, PolicySpec, Policy!Spec

-----------------------------------------------------------------------------
(* Algorithm confusion. *)

\* nxe_jwx_algs[] against RFC 7518 / 8037: the family and curve of a row are
\* those its name stands for.
LEMMA TableConforms ==
  \A a \in Algs :
    /\ a.family \in {"RSA", "RSA_PSS"} => KtyOf(a.name) = "RSA"
    /\ a.family = "ECDSA" => /\ KtyOf(a.name) = "EC"
                             /\ GroupOf(a.name) = a.ec_curve
    /\ a.family = "EDDSA" => KtyOf(a.name) = "OKP"
    /\ a.family = "HMAC" => KtyOf(a.name) = "oct"
    /\ FamilyOf(a.name) = a.family
<1> DEFINE Conforms(a) ==
      /\ a.family \in {"RSA", "RSA_PSS"} => KtyOf(a.name) = "RSA"
      /\ a.family = "ECDSA" => /\ KtyOf(a.name) = "EC"
                               /\ GroupOf(a.name) = a.ec_curve
      /\ a.family = "EDDSA" => KtyOf(a.name) = "OKP"
      /\ a.family = "HMAC" => KtyOf(a.name) = "oct"
      /\ FamilyOf(a.name) = a.family
<1>1. \A a \in PublicKeyAlgs : Conforms(a)
  BY DEF PublicKeyAlgs, Row, KtyOf, GroupOf, FamilyOf
<1>2. \A a \in HmacAlgs : Conforms(a)
  BY DEF HmacAlgs, Row, KtyOf, GroupOf, FamilyOf
<1>3. QED
  BY <1>1, <1>2 DEF Algs

\* The algorithm derived from a key is a row of the table or NULL.
LEMMA AlgFromKey ==
  ASSUME NEW k
  PROVE  alg_from_key(k) \in Algs \/ alg_from_key(k) = NoAlg
PROOF BY DEF alg_from_key

\* Whatever the keyset mixes, a signature is accepted only under the key type,
\* curve, pin, material and scheme that its algorithm asks for.
THEOREM NoAlgConfusion == Spec => []AlgRespected
<1>1. ASSUME TypeOK, VerdictCorrect
      PROVE  AlgRespected
  <2> SUFFICES ASSUME Returned, rc = "OK"
               PROVE  AlgRespected
    BY DEF AlgRespected
  <2>1. PICK j \in Candidates(req) : Verifies(req, j)
    BY <1>1 DEF VerdictCorrect, Verdict
  <2>2. j \in DOMAIN req.keys
    BY <1>1, <2>1, RequestFacts
       DEF TypeOK, Candidates, Named, Labelled, Unlabelled
  <2> DEFINE a == effective_alg(req, j)
             k == req.keys[j]
  <2>3. a # NoAlg /\ verify_with_key(k, a, req.msg, req.sig) = "yes"
    BY <2>1 DEF Verifies, Outcome
  <2>4. a \in Algs
    BY <2>3, LookupFinds, AlgFromKey DEF effective_alg
  <2>5. req.alg # Empty => a.name = req.alg
    BY <2>3, LookupFinds DEF effective_alg
  <2> HIDE DEF a, k
  <2>6. key_compatible(k, a) /\ Genuine(k.mat, a, req.msg, req.sig)
    BY <2>3 DEF verify_with_key
  <2>7. k.kty = KtyOf(a.name) /\ (k.alg # Empty => k.alg = a.name)
    BY <2>4, <2>6, TableConforms DEF key_compatible
  <2>8. k.kty = "EC" => k.mat.group = GroupOf(a.name)
    BY <2>4, <2>6, TableConforms DEF key_compatible, ec_curve_matches
  <2>9. \/ req.sig.family = FamilyOf(a.name)
        \/ /\ FamilyOf(a.name) = "RSA" /\ k.mat.base = "RSA-PSS"
           /\ req.sig.family = "RSA_PSS"
    BY <2>4, <2>6, TableConforms DEF Genuine, SchemeFamily
  <2>10. QED
    BY <2>2, <2>4, <2>5, <2>6, <2>7, <2>8, <2>9 DEF AlgRespected, Genuine, k
<1>2. QED
  BY <1>1, TypeCorrect, VerdictIsPolicy, PTL

-----------------------------------------------------------------------------
(* Failures of OpenSSL. *)

\* Serving a handle changes nothing else of the key.
LEMMA ServedKey ==
  ASSUME NEW k \in Key, NEW l, l = [k EXCEPT !.ossl = "ok"]
  PROVE  /\ l.kty = k.kty /\ l.kid = k.kid /\ l.alg = k.alg /\ l.mat = k.mat
         /\ l.thumbprint = k.thumbprint /\ l.ossl = "ok"
PROOF BY DEF Key

\* The derived algorithm depends on the type and the group only.
LEMMA SameAlg ==
  ASSUME NEW k, NEW l, k.kty = l.kty, k.mat = l.mat
  PROVE  alg_from_key(k) = alg_from_key(l)
<1> DEFINE fit(x) == {a \in Algs :
                        \/ x.kty = "OKP" /\ a.family = "EDDSA"
                        \/ x.kty = "EC" /\ a.family = "ECDSA"
                                        /\ ec_curve_matches(x, a.ec_curve)}
<1>1. fit(k) = fit(l)
  BY DEF ec_curve_matches
<1>2. alg_from_key(k) = IF fit(k) = {} THEN NoAlg ELSE CHOOSE a \in fit(k) : TRUE
  BY DEF alg_from_key
<1>3. alg_from_key(l) = IF fit(l) = {} THEN NoAlg ELSE CHOOSE a \in fit(l) : TRUE
  BY DEF alg_from_key
<1> HIDE DEF fit
<1>4. QED
  BY <1>1, <1>2, <1>3

\* The candidates do not depend on how OpenSSL serves the handles.
LEMMA ServedCandidates ==
  ASSUME NEW r \in Requests, NEW s, s = [r EXCEPT !.keys = Served(r.keys)]
  PROVE  /\ s.args = r.args /\ s.op = r.op
         /\ Admissible(s) <=> Admissible(r)
         /\ Candidates(s) = Candidates(r)
         /\ \A j \in Candidates(r) : Verifies(r, j) => Verifies(s, j)
         /\ \A j \in Candidates(r) :
              Verifies(s, j) /\ r.keys[j].ossl = "ok" => Verifies(r, j)
<1>1. r \in Request /\ r.keys \in Seq(Key)
  BY RequestsAssumption DEF Request
<1>2. /\ s.op = r.op /\ s.args = r.args /\ s.alg = r.alg /\ s.id = r.id
      /\ s.msg = r.msg /\ s.sig = r.sig /\ s.keys = Served(r.keys)
  BY <1>1 DEF Request
<1>3. DOMAIN s.keys = DOMAIN r.keys
  BY <1>2 DEF Served
<1>4. \A j \in DOMAIN r.keys :
        /\ s.keys[j] = [r.keys[j] EXCEPT !.ossl = "ok"]
        /\ r.keys[j] \in Key
  BY <1>1, <1>2 DEF Served
<1>5. \A j \in DOMAIN r.keys :
        /\ s.keys[j].kty = r.keys[j].kty /\ s.keys[j].kid = r.keys[j].kid
        /\ s.keys[j].alg = r.keys[j].alg /\ s.keys[j].mat = r.keys[j].mat
        /\ s.keys[j].thumbprint = r.keys[j].thumbprint
        /\ s.keys[j].ossl = "ok"
  <2> TAKE j \in DOMAIN r.keys
  <2>1. r.keys[j] \in Key /\ s.keys[j] = [r.keys[j] EXCEPT !.ossl = "ok"]
    BY <1>4
  <2> DEFINE k == r.keys[j]
             l == s.keys[j]
  <2>2. k \in Key /\ l = [k EXCEPT !.ossl = "ok"]
    BY <2>1
  <2> HIDE DEF k, l
  <2>3. /\ l.kty = k.kty /\ l.kid = k.kid /\ l.alg = k.alg /\ l.mat = k.mat
        /\ l.thumbprint = k.thumbprint /\ l.ossl = "ok"
    BY <2>2, ServedKey
  <2>4. QED
    BY <2>3 DEF k, l
<1>6. Labelled(s) = Labelled(r) /\ Unlabelled(s) = Unlabelled(r)
      /\ Named(s) = Named(r)
  BY <1>2, <1>3, <1>5 DEF Labelled, Unlabelled, Named
<1>7. Candidates(s) = Candidates(r)
  BY <1>2, <1>3, <1>6 DEF Candidates
<1>8. Admissible(s) <=> Admissible(r)
  BY <1>2 DEF Admissible
<1>9. Candidates(r) \subseteq DOMAIN r.keys
  BY RequestFacts DEF Candidates, Named, Labelled, Unlabelled
<1>10. \A j \in DOMAIN r.keys : effective_alg(s, j) = effective_alg(r, j)
  BY <1>2, <1>5, SameAlg DEF effective_alg
<1>11. ASSUME NEW j \in DOMAIN r.keys
       PROVE  /\ Verifies(r, j) => Verifies(s, j)
              /\ Verifies(s, j) /\ r.keys[j].ossl = "ok" => Verifies(r, j)
  <2> DEFINE a == effective_alg(r, j)
  <2>1. key_compatible(s.keys[j], a) <=> key_compatible(r.keys[j], a)
    BY <1>5 DEF key_compatible, ec_curve_matches
  <2> HIDE DEF a
  <2>2. /\ Outcome(r, j) = IF a = NoAlg THEN "no"
                           ELSE verify_with_key(r.keys[j], a, r.msg, r.sig)
        /\ Outcome(s, j) = IF a = NoAlg THEN "no"
                           ELSE verify_with_key(s.keys[j], a, r.msg, r.sig)
    BY <1>2, <1>10 DEF Outcome, a
  <2>3. QED
    BY <1>5, <2>1, <2>2 DEF Verifies, verify_with_key
<1>12. QED
  BY <1>2, <1>7, <1>8, <1>9, <1>11

\* An OpenSSL failure can only take an acceptance away, and only when it hits
\* every key that would have given it.
THEOREM FaultIsolation == Spec => []FaultsOnlyDecline
<1>1. ASSUME TypeOK, VerdictCorrect
      PROVE  FaultsOnlyDecline
  <2> DEFINE s == [req EXCEPT !.keys = Served(req.keys)]
  <2> SUFFICES ASSUME Returned
               PROVE  /\ rc = "OK" => Verdict(s) = "OK"
                      /\ rc = "ERROR" <=> req.args = "null"
                      /\ (rc = "DECLINED" /\ Verdict(s) = "OK") =>
                           \A j \in Candidates(req) :
                             Verifies(s, j) => req.keys[j].ossl # "ok"
    BY DEF FaultsOnlyDecline
  <2>1. rc = Verdict(req) /\ req \in Requests
    BY <1>1 DEF VerdictCorrect, TypeOK
  <2>2. /\ s.args = req.args
        /\ Admissible(s) <=> Admissible(req)
        /\ Candidates(s) = Candidates(req)
        /\ \A j \in Candidates(req) : Verifies(req, j) => Verifies(s, j)
        /\ \A j \in Candidates(req) :
             Verifies(s, j) /\ req.keys[j].ossl = "ok" => Verifies(req, j)
    BY <2>1, ServedCandidates
  <2> HIDE DEF s
  <2>3. QED
    BY <2>1, <2>2 DEF Verdict
<1>2. QED
  BY <1>1, TypeCorrect, VerdictIsPolicy, PTL

-----------------------------------------------------------------------------
(* The order of the keys. *)

\* Any renumbering of the slots reaches every slot.
LEMMA PermutationReaches ==
  ASSUME NEW r \in Requests, NEW p \in Permutations1(r.keys),
         NEW j \in DOMAIN r.keys
  PROVE  \E h \in DOMAIN r.keys : p[h] = j
<1> DEFINE D == DOMAIN r.keys
<1>1. IsFiniteSet(D)
  BY RequestFacts, FS_Interval
<1>2. p \in Injection(D, D)
  BY DEF Permutations1, Injection, IsInjective
<1>3. p \in Surjection(D, D)
  BY <1>1, <1>2, FS_Injection
<1>4. QED
  BY <1>3 DEF Surjection

\* The same keys in another order: the same verdict on a token or a kid.
LEMMA PermutedVerdict ==
  ASSUME NEW r \in Requests, r.op # "raw", NEW p \in Permutations1(r.keys)
  PROVE  Verdict([r EXCEPT !.keys = Permuted(r.keys, p)]) = Verdict(r)
<1> DEFINE D == DOMAIN r.keys
           s == [r EXCEPT !.keys = Permuted(r.keys, p)]
<1>1. /\ s.op = r.op /\ s.args = r.args /\ s.alg = r.alg /\ s.id = r.id
      /\ s.msg = r.msg /\ s.sig = r.sig /\ s.keys = Permuted(r.keys, p)
  BY RequestsAssumption DEF Request
<1>2. DOMAIN s.keys = D /\ \A j \in D : p[j] \in D /\ s.keys[j] = r.keys[p[j]]
  BY <1>1 DEF Permuted, Permutations1
<1>3. \A j \in D : \E h \in D : p[h] = j
  BY PermutationReaches
<1>4. r.op \in {"jws", "by_kid"}
  BY RequestFacts
<1> HIDE DEF s, D
<1>5. /\ Labelled(s) = {j \in D : p[j] \in Labelled(r)}
      /\ Unlabelled(s) = {j \in D : p[j] \in Unlabelled(r)}
  BY <1>1, <1>2 DEF Labelled, Unlabelled, D
<1>6. Labelled(r) \subseteq D /\ Unlabelled(r) \subseteq D
  BY DEF Labelled, Unlabelled, D
<1>7. Labelled(s) = {} <=> Labelled(r) = {}
  BY <1>3, <1>5, <1>6
<1>8. Candidates(s) = {j \in D : p[j] \in Candidates(r)} /\ Candidates(r) \subseteq D
  <2>1. CASE r.op = "by_kid"
    BY <1>1, <1>5, <1>6, <2>1 DEF Candidates
  <2>2. CASE r.op = "jws" /\ r.id = Empty
    BY <1>1, <1>2, <2>2 DEF Candidates, D
  <2>3. CASE r.op = "jws" /\ r.id # Empty
    BY <1>1, <1>5, <1>6, <1>7, <2>3 DEF Candidates
  <2>4. QED
    BY <1>4, <2>1, <2>2, <2>3
<1>9. \A j \in D : Verifies(s, j) <=> Verifies(r, p[j])
  BY <1>1, <1>2 DEF Verifies, Outcome, effective_alg
<1>10. Admissible(s) <=> Admissible(r)
  BY <1>1 DEF Admissible
<1>11. (\E j \in Candidates(s) : Verifies(s, j))
         <=> \E j \in Candidates(r) : Verifies(r, j)
  BY <1>3, <1>8, <1>9
<1>12. Verdict(s) = Verdict(r)
  BY <1>1, <1>10, <1>11 DEF Verdict
<1>13. QED
  BY <1>12 DEF s

\* The order of the keys in the document does not decide a jws or by_kid call,
\* duplicate kids and keys without one included.
THEOREM OrderIrrelevantAlways == Spec => []OrderIrrelevant
<1>1. ASSUME TypeOK, VerdictCorrect PROVE OrderIrrelevant
  <2>1. req \in Requests
    BY <1>1 DEF TypeOK
  <2>2. QED
    BY <1>1, <2>1, PermutedVerdict DEF VerdictCorrect, OrderIrrelevant
<1>2. QED
  BY <1>1, TypeCorrect, VerdictIsPolicy, PTL

-----------------------------------------------------------------------------
(* What a refusal tells. *)

\* Among some slots there is a first one.
LEMMA Least ==
  ASSUME NEW S \in SUBSET Nat, S # {}
  PROVE  \E m \in S : \A n \in S : m <= n
<1> DEFINE Intervals == {1..n : n \in S}
           R == StrictSubsetOrdering(Nat)
<1>1. IsWellFoundedOn(R, FiniteSubsetsOf(Nat))
  BY FS_StrictSubsetOrderingWellFounded
<1>2. Intervals \subseteq FiniteSubsetsOf(Nat) /\ Intervals # {}
  <2>1. ASSUME NEW n \in S PROVE 1..n \in SUBSET Nat /\ IsFiniteSet(1..n)
    BY FS_Interval
  <2>2. QED
    BY <2>1 DEF FiniteSubsetsOf
<1>3. PICK x \in Intervals : \A y \in Intervals : <<y, x>> \notin R
  <2> HIDE DEF Intervals, R
  <2>1. QED
    BY <1>1, <1>2, WFMin
<1>4. PICK m \in S : x = 1..m
  BY <1>3
<1>5. ASSUME NEW n \in S, n < m PROVE FALSE
  <2>1. /\ 1..n \subseteq 1..m /\ 1..n # 1..m
        /\ 1..n \in SUBSET Nat /\ 1..m \in SUBSET Nat
    <3>1. m \in 1..m /\ m \notin 1..n
      BY <1>5
    <3>2. QED
      BY <1>5, <3>1
  <2>2. <<1..n, 1..m>> \in R
    BY <2>1 DEF StrictSubsetOrdering
  <2>3. QED
    BY <1>3, <1>4, <2>2
<1>6. QED
  BY <1>5

\* nxe_jwx_jwks_has_kid answers for the keys that pass 1 would try.
LEMMA HasKid ==
  ASSUME NEW r \in Requests
  PROVE  jwks_has_kid(r) <=> Labelled(r) # {}
<1>1. Labelled(r) \in SUBSET Nat /\ DOMAIN r.keys = 1..Len(r.keys)
  BY RequestFacts DEF Labelled
<1>2. find_by_kid(r) = {j \in Labelled(r) : \A h \in 1..(j - 1) : h \notin Labelled(r)}
  BY <1>1, RequestFacts DEF find_by_kid, Labelled
<1>3. Labelled(r) # {} =>
        \E m \in Labelled(r) : \A h \in 1..(m - 1) : h \notin Labelled(r)
  <2>1. SUFFICES ASSUME Labelled(r) # {}
                 PROVE  \E m \in Labelled(r) :
                          \A h \in 1..(m - 1) : h \notin Labelled(r)
    OBVIOUS
  <2>2. PICK m \in Labelled(r) : \A n \in Labelled(r) : m <= n
    BY <1>1, <2>1, Least
  <2>3. \A h \in 1..(m - 1) : ~(m <= h)
    BY <1>1
  <2>4. QED
    BY <2>2, <2>3
<1>4. QED
  BY <1>2, <1>3 DEF jwks_has_kid

\* The record of a loop that has tried each key of S before index n, once.
Once(r, S, n) == [j \in DOMAIN r.keys |-> IF j \in Upto(S, n) THEN 1 ELSE 0]

\* The record of a loop: none at its start, one key more, or the same.
LEMMA OnceNext ==
  ASSUME NEW r \in Requests, NEW S \in SUBSET DOMAIN r.keys, NEW n \in Nat
  PROVE  /\ Once(r, S, 1) = Untried(r)
         /\ n \in S => Once(r, S, n + 1) = [Once(r, S, n) EXCEPT ![n] = @ + 1]
         /\ n \notin S => Once(r, S, n + 1) = Once(r, S, n)
<1>1. S \in SUBSET Nat
  BY RequestFacts
<1>2. Once(r, S, 1) = Untried(r)
  BY UptoEnds DEF Once, Untried
<1>3. ASSUME n \in S
      PROVE  Once(r, S, n + 1) = [Once(r, S, n) EXCEPT ![n] = @ + 1]
  <2>1. Upto(S, n + 1) = Upto(S, n) \cup {n} /\ n \notin Upto(S, n)
    BY <1>1, <1>3, UptoNext DEF Upto
  <2>2. QED
    BY <1>3, <2>1 DEF Once
<1>4. n \notin S => Once(r, S, n + 1) = Once(r, S, n)
  BY <1>1, UptoNext DEF Once
<1>5. QED
  BY <1>2, <1>3, <1>4

\* What such a record says after a step.
LEMMA OnceTells ==
  ASSUME NEW S, NEW n, UNCHANGED req, S \subseteq DOMAIN req.keys,
         tries' = Once(req, S, n)
  PROVE  EachKeyOnce' /\ Tried' = Upto(S, n)
<1>1. EachKeyOnce'
  BY DEF EachKeyOnce, Once
<1>2. Upto(S, n) \subseteq DOMAIN req.keys
  BY DEF Upto
<1>3. Tried' = Upto(S, n)
  BY <1>2 DEF Tried, Once
<1>4. QED
  BY <1>1, <1>3

\* Every loop has tried, once, exactly the keys of its set that it went past.
TriesInv ==
  /\ pc = "check" => tries = Untried(req)
  /\ pc \in {"pass1", "bykid"} => tries = Once(req, Labelled(req), i)
  /\ pc = "pass2" => tries = Once(req, Eligible(req), i)
  /\ EachKeyOnce /\ QueriesDisambiguate

\* A return without a refusal, and a step that does not return, say nothing of
\* what a refusal tells.
LEMMA NotRefused ==
  ASSUME pc' # "idle" \/ rc' # "DECLINED"
  PROVE  QueriesDisambiguate'
PROOF BY DEF QueriesDisambiguate, Returned

\* Before any loop no key has been tried; verify_raw tries the one it finds.
LEMMA CheckTries == ASSUME IInv, TriesInv, Check PROVE TriesInv'
<1>1. /\ req \in Requests /\ pc = "check" /\ i = 1 /\ rc = "none"
      /\ tries = Untried(req) /\ UNCHANGED <<req, i>> /\ EachKeyOnce
  BY DEF IInv, TypeOK, TriesInv, RunInv, Check, NullArgument, Refuse, Accepted,
         StartJws, StartByKid, RawUnknownKey, RawTry, Return
<1>2. /\ Once(req, Labelled(req), 1) = Untried(req)
      /\ Once(req, Eligible(req), 1) = Untried(req)
  BY <1>1, OnceNext DEF Labelled, Eligible
<1>3. tries' = tries => EachKeyOnce'
  BY <1>1 DEF EachKeyOnce
<1>4. CASE NullArgument
  BY <1>3, <1>4, NotRefused DEF NullArgument, Return, TriesInv
<1>5. CASE Refuse
  <2>1. ~Admissible(req)
    BY <1>1, <1>5, AcceptedOpen, RequestFacts DEF Refuse, Open
  <2>2. QueriesDisambiguate'
    BY <1>1, <2>1 DEF QueriesDisambiguate, Admissible
  <2>3. QED
    BY <1>3, <1>5, <2>2 DEF Refuse, Return, TriesInv
<1>6. CASE StartJws \/ StartByKid
  <2>1. tries' = tries /\ pc' \in {"pass1", "pass2", "bykid"}
    BY <1>1, <1>6 DEF StartJws, StartByKid
  <2>2. /\ Labelled(req)' = Labelled(req) /\ Eligible(req)' = Eligible(req)
        /\ i' = 1 /\ UNCHANGED req
    BY <1>1 DEF Labelled, Eligible, pass2_eligible, has_kid
  <2>3. QED
    BY <1>1, <1>2, <1>3, <2>1, <2>2, NotRefused DEF TriesInv, Once, Upto
<1>7. CASE RawUnknownKey
  <2>1. /\ req.op = "raw" /\ find_by_thumbprint(req) = {}
        /\ tries' = tries /\ pc' = "idle"
    BY <1>1, <1>7 DEF RawUnknownKey, Return
  <2>2. Tried' = {}
    BY <1>1, <2>1 DEF Tried, Untried
  <2>3. QueriesDisambiguate'
    BY <1>1, <2>1, <2>2 DEF QueriesDisambiguate, jwks_has_thumbprint, find_by_thumbprint
  <2>4. QED
    BY <1>3, <2>1, <2>3 DEF TriesInv
<1>8. CASE RawTry
  <2>1. PICK j \in find_by_thumbprint(req) :
          /\ tries' = [Untried(req) EXCEPT ![j] = @ + 1] /\ pc' = "idle"
    BY <1>1, <1>8 DEF RawTry, Try, Return
  <2>2. req.op = "raw" /\ j \in Named(req) /\ j \in DOMAIN req.keys
    BY <1>8, <2>1 DEF RawTry, find_by_thumbprint, Named
  <2>3. tries' = [h \in DOMAIN req.keys |-> IF h = j THEN 1 ELSE 0]
    BY <2>1, <2>2 DEF Untried
  <2>4. EachKeyOnce' /\ Tried' = {j}
    <3>1. EachKeyOnce'
      BY <1>1, <2>3 DEF EachKeyOnce
    <3>2. Tried' = {j}
      BY <1>1, <2>2, <2>3 DEF Tried
    <3>3. QED
      BY <3>1, <3>2
  <2>5. jwks_has_thumbprint(req)' /\ Named(req)' = Named(req) /\ req' = req
    BY <1>1, <2>1 DEF jwks_has_thumbprint, find_by_thumbprint, Named
  <2>6. QueriesDisambiguate'
    BY <2>2, <2>4, <2>5 DEF QueriesDisambiguate
  <2>7. QED
    BY <2>1, <2>4, <2>6 DEF TriesInv
<1>9. QED
  BY <1>4, <1>5, <1>6, <1>7, <1>8 DEF Check

\* Pass 1 tries the keys of the kid it comes past, once each, and no other.
LEMMA Pass1Tries == ASSUME IInv, TriesInv, Pass1 PROVE TriesInv'
<1> DEFINE L == Labelled(req)
<1>1. /\ req \in Requests /\ pc = "pass1" /\ i \in Nat \ {0} /\ UNCHANGED req
      /\ Pass1Inv /\ tries = Once(req, L, i) /\ matched \in {0, 1}
  BY DEF IInv, TypeOK, TriesInv, Pass1, Pass1Skip, Pass1Try, Pass1Done,
         Return, NextKey, DeclineJws
<1>2. L \in SUBSET DOMAIN req.keys /\ DOMAIN req.keys = 1..Len(req.keys)
      /\ Len(req.keys) \in Nat
  BY <1>1, RequestFacts DEF Labelled
<1>3. i <= Len(req.keys) => (kid_matches(req, i) <=> i \in L)
  BY <1>1, <1>2, KidMatches
<1>4. Labelled(req)' = L
  BY <1>1 DEF Labelled
<1> HIDE DEF L
<1>5. /\ i \in L => Once(req, L, i + 1) = [Once(req, L, i) EXCEPT ![i] = @ + 1]
      /\ i \notin L => Once(req, L, i + 1) = Once(req, L, i)
      /\ i > Len(req.keys) => Upto(L, i) = L
  <2>1. i \in Nat
    BY <1>1
  <2>2. i > Len(req.keys) => Upto(L, i) = L
    BY <1>1, <1>2, <2>1, UptoEnds
  <2>3. QED
    BY <1>1, <1>2, <2>1, <2>2, OnceNext
<1>6. ASSUME NEW n, tries' = Once(req, L, n) PROVE EachKeyOnce' /\ Tried' = Upto(L, n)
  BY <1>1, <1>2, <1>6, OnceTells
<1>7. CASE Pass1Skip \/ (Pass1Try /\ NextKey)
  <2>1. pc' = "pass1" /\ i' = i + 1 /\ tries' = Once(req, L, i + 1)
    BY <1>1, <1>3, <1>5, <1>7 DEF Pass1Skip, Pass1Try, Try, NextKey
  <2>2. QED
    BY <1>1, <1>4, <1>6, <2>1, NotRefused DEF TriesInv
<1>8. CASE Pass1Try /\ Return("OK")
  <2>1. pc' = "idle" /\ rc' = "OK" /\ tries' = Once(req, L, i + 1)
    BY <1>1, <1>3, <1>5, <1>8 DEF Pass1Try, Try, Return
  <2>2. QED
    BY <1>6, <2>1, NotRefused DEF TriesInv
<1>9. CASE Pass1Done /\ pass2_runs(req, matched)
  <2>1. L = {}
    BY <1>1, <1>5, <1>9 DEF Pass1Done, pass2_runs, Pass1Inv, L
  <2>2. tries = Untried(req)
    BY <1>1, <2>1 DEF Once, Untried, Upto
  <2>3. Once(req, Eligible(req), 1) = Untried(req)
    BY <1>1, OnceNext DEF Eligible
  <2>4. pc' = "pass2" /\ i' = 1 /\ tries' = tries
    BY <1>9 DEF Pass1Done, DeclineJws
  <2>5. EachKeyOnce'
    BY <1>1, <1>6, <2>4
  <2>6. Once(req, Eligible(req), i)' = Once(req, Eligible(req), 1)
    BY <1>1, <2>4 DEF Once, Upto, Eligible, pass2_eligible, has_kid
  <2>7. QED
    BY <2>2, <2>3, <2>4, <2>5, <2>6, NotRefused DEF TriesInv
<1>10. CASE Pass1Done /\ ~pass2_runs(req, matched)
  <2>1. Upto(L, i) = L /\ L # {} /\ pc' = "idle" /\ tries' = tries
        /\ req.op = "jws" /\ req.id # Empty
    BY <1>1, <1>5, <1>10
       DEF Pass1Done, pass2_runs, Pass1Inv, DeclineJws, Return, has_kid, L
  <2>2. EachKeyOnce' /\ Tried' = Labelled(req)
    BY <1>1, <1>6, <2>1 DEF L
  <2>3. jwks_has_kid(req)
    BY <1>1, <2>1, HasKid DEF L
  <2>4. QueriesDisambiguate'
    BY <1>1, <2>1, <2>2, <2>3
       DEF QueriesDisambiguate, jwks_has_kid, find_by_kid, Labelled
  <2>5. QED
    BY <2>1, <2>2, <2>4 DEF TriesInv
<1>11. QED
  BY <1>7, <1>8, <1>9, <1>10 DEF Pass1, Pass1Try, Pass1Done

\* Pass 2 starts having tried none, and tries the eligible ones it comes past.
LEMMA Pass2Tries == ASSUME IInv, TriesInv, Pass2 PROVE TriesInv'
<1> DEFINE C == Eligible(req)
<1>1. /\ req \in Requests /\ pc = "pass2" /\ i \in Nat \ {0} /\ UNCHANGED req
      /\ Pass2Inv /\ tries = Once(req, C, i)
  BY DEF IInv, TypeOK, TriesInv, Pass2, Pass2Skip, Pass2Try, Pass2Done,
         Return, NextKey, DeclineJws
<1>2. C \in SUBSET DOMAIN req.keys /\ DOMAIN req.keys = 1..Len(req.keys)
      /\ Len(req.keys) \in Nat
  BY <1>1, RequestFacts DEF Eligible
<1>3. i <= Len(req.keys) => (pass2_eligible(req, i) <=> i \in C)
  BY <1>1, <1>2 DEF Eligible
<1>4. Eligible(req)' = C
  BY <1>1 DEF Eligible, pass2_eligible, has_kid
<1> HIDE DEF C
<1>5. /\ i \in C => Once(req, C, i + 1) = [Once(req, C, i) EXCEPT ![i] = @ + 1]
      /\ i \notin C => Once(req, C, i + 1) = Once(req, C, i)
      /\ i > Len(req.keys) => Upto(C, i) = C
  <2>1. i \in Nat
    BY <1>1
  <2>2. i > Len(req.keys) => Upto(C, i) = C
    BY <1>1, <1>2, <2>1, UptoEnds
  <2>3. QED
    BY <1>1, <1>2, <2>1, <2>2, OnceNext
<1>6. ASSUME NEW n, tries' = Once(req, C, n) PROVE EachKeyOnce' /\ Tried' = Upto(C, n)
  BY <1>1, <1>2, <1>6, OnceTells
<1>7. CASE Pass2Skip \/ (Pass2Try /\ NextKey)
  <2>1. pc' = "pass2" /\ i' = i + 1 /\ tries' = Once(req, C, i + 1)
    BY <1>1, <1>3, <1>5, <1>7 DEF Pass2Skip, Pass2Try, Try, NextKey
  <2>2. QED
    BY <1>1, <1>4, <1>6, <2>1, NotRefused DEF TriesInv
<1>8. CASE Pass2Try /\ Return("OK")
  <2>1. pc' = "idle" /\ rc' = "OK" /\ tries' = Once(req, C, i + 1)
    BY <1>1, <1>3, <1>5, <1>8 DEF Pass2Try, Try, Return
  <2>2. QED
    BY <1>6, <2>1, NotRefused DEF TriesInv
<1>9. CASE Pass2Done
  <2>1. Upto(C, i) = C /\ pc' = "idle" /\ tries' = tries /\ req.op = "jws"
    BY <1>1, <1>5, <1>9 DEF Pass2Done, DeclineJws, Return, Pass2Inv
  <2>2. EachKeyOnce' /\ Tried' = C
    BY <1>1, <1>6, <2>1
  <2>3. CASE req.id # Empty
    <3>1. Labelled(req) = {}
      BY <1>1, <2>3 DEF Pass2Inv, has_kid
    <3>2. C = Unlabelled(req) /\ ~jwks_has_kid(req)
      BY <1>1, <2>3, <3>1, HasKid
         DEF C, Eligible, Unlabelled, pass2_eligible, has_kid
    <3>3. QueriesDisambiguate'
      BY <1>1, <2>1, <2>2, <2>3, <3>2
         DEF QueriesDisambiguate, jwks_has_kid, find_by_kid, Unlabelled
    <3>4. QED
      BY <2>1, <2>2, <3>3 DEF TriesInv
  <2>4. CASE req.id = Empty
    <3>1. C = DOMAIN req.keys
      BY <1>2, <2>4 DEF C, Eligible, pass2_eligible, has_kid
    <3>2. QueriesDisambiguate'
      BY <1>1, <2>1, <2>2, <2>4, <3>1 DEF QueriesDisambiguate
    <3>3. QED
      BY <2>1, <2>2, <3>2 DEF TriesInv
  <2>5. QED
    BY <2>3, <2>4
<1>10. QED
  BY <1>7, <1>8, <1>9 DEF Pass2, Pass2Try

\* verify_raw_by_kid tries the keys of the kid it comes past, once each.
LEMMA ByKidTries == ASSUME IInv, TriesInv, ByKid PROVE TriesInv'
<1> DEFINE L == Labelled(req)
<1>1. /\ req \in Requests /\ pc = "bykid" /\ i \in Nat \ {0} /\ UNCHANGED req
      /\ ByKidInv /\ tries = Once(req, L, i)
  BY DEF IInv, TypeOK, TriesInv, ByKid, ByKidSkip, ByKidTry, ByKidDone,
         Return, NextKey
<1>2. L \in SUBSET DOMAIN req.keys /\ DOMAIN req.keys = 1..Len(req.keys)
      /\ Len(req.keys) \in Nat
  BY <1>1, RequestFacts DEF Labelled
<1>3. i <= Len(req.keys) => (kid_matches(req, i) <=> i \in L)
  BY <1>1, <1>2, KidMatches
<1>4. Labelled(req)' = L
  BY <1>1 DEF Labelled
<1> HIDE DEF L
<1>5. /\ i \in L => Once(req, L, i + 1) = [Once(req, L, i) EXCEPT ![i] = @ + 1]
      /\ i \notin L => Once(req, L, i + 1) = Once(req, L, i)
      /\ i > Len(req.keys) => Upto(L, i) = L
  <2>1. i \in Nat
    BY <1>1
  <2>2. i > Len(req.keys) => Upto(L, i) = L
    BY <1>1, <1>2, <2>1, UptoEnds
  <2>3. QED
    BY <1>1, <1>2, <2>1, <2>2, OnceNext
<1>6. ASSUME NEW n, tries' = Once(req, L, n) PROVE EachKeyOnce' /\ Tried' = Upto(L, n)
  BY <1>1, <1>2, <1>6, OnceTells
<1>7. CASE ByKidSkip \/ (ByKidTry /\ NextKey)
  <2>1. pc' = "bykid" /\ i' = i + 1 /\ tries' = Once(req, L, i + 1)
    BY <1>1, <1>3, <1>5, <1>7 DEF ByKidSkip, ByKidTry, Try, NextKey
  <2>2. QED
    BY <1>1, <1>4, <1>6, <2>1, NotRefused DEF TriesInv
<1>8. CASE ByKidTry /\ Return("OK")
  <2>1. pc' = "idle" /\ rc' = "OK" /\ tries' = Once(req, L, i + 1)
    BY <1>1, <1>3, <1>5, <1>8 DEF ByKidTry, Try, Return
  <2>2. QED
    BY <1>6, <2>1, NotRefused DEF TriesInv
<1>9. CASE ByKidDone
  <2>1. /\ Upto(L, i) = L /\ pc' = "idle" /\ tries' = tries
        /\ req.op = "by_kid"
    BY <1>1, <1>5, <1>9 DEF ByKidDone, Return, ByKidInv
  <2>2. EachKeyOnce' /\ Tried' = Labelled(req)
    BY <1>1, <1>6, <2>1 DEF L
  <2>3. jwks_has_kid(req) <=> Labelled(req) # {}
    BY <1>1, HasKid
  <2>4. QueriesDisambiguate'
    BY <1>1, <2>1, <2>2, <2>3
       DEF QueriesDisambiguate, jwks_has_kid, find_by_kid, Labelled
  <2>5. QED
    BY <2>1, <2>2, <2>4 DEF TriesInv
<1>10. QED
  BY <1>7, <1>8, <1>9 DEF ByKid, ByKidTry

\* Each loop, at each iteration, has tried the keys of its set that it has come
\* past, each of them once.
THEOREM TriesInductive == Spec => []TriesInv
<1>1. Init => TriesInv
  <2> SUFFICES ASSUME Init PROVE TriesInv
    OBVIOUS
  <2>1. EachKeyOnce
    BY DEF Init, EachKeyOnce, Untried
  <2>2. QED
    BY <2>1 DEF Init, TriesInv, QueriesDisambiguate, Returned
<1>2. IInv /\ TriesInv /\ [Next]_vars => TriesInv'
  <2> SUFFICES ASSUME IInv, TriesInv, [Next]_vars PROVE TriesInv'
    OBVIOUS
  <2>1. CASE Call
    <3>1. EachKeyOnce'
      BY <2>1 DEF Call, EachKeyOnce, Untried
    <3>2. QED
      BY <2>1, <3>1, NotRefused DEF Call, TriesInv, Untried
  <2>2. CASE UNCHANGED vars
    <3>1. EachKeyOnce' /\ QueriesDisambiguate'
      BY <2>2 DEF vars, TriesInv, EachKeyOnce, QueriesDisambiguate, Returned, Tried
    <3>2. pc' = "check" => tries' = Untried(req')
      BY <2>2 DEF vars, TriesInv
    <3>3. pc' \in {"pass1", "bykid"} => tries' = Once(req', Labelled(req'), i')
      BY <2>2 DEF vars, TriesInv
    <3>4. pc' = "pass2" => tries' = Once(req', Eligible(req'), i')
      BY <2>2 DEF vars, TriesInv
    <3>5. QED
      BY <3>1, <3>2, <3>3, <3>4 DEF TriesInv
  <2>3. QED
    BY <2>1, <2>2, CheckTries, Pass1Tries, Pass2Tries, ByKidTries DEF Next, Run
<1>3. QED
  BY <1>1, <1>2, Inductive, PTL DEF Spec

\* In one call no key is tried twice, neither by the two passes nor by a raw
\* lookup.
THEOREM OneAttemptPerKey == Spec => []EachKeyOnce
<1>1. TriesInv => EachKeyOnce
  BY DEF TriesInv
<1>2. QED
  BY <1>1, TriesInductive, PTL

\* nxe_jwx_jwks.h:99-108, 135-143: after a refusal the queries tell which keys
\* were tried: those of the kid if the keyset has it, else those without one;
\* and a keyid is unknown exactly if no key was tried.
THEOREM QueriesDisambiguateAlways == Spec => []QueriesDisambiguate
<1>1. TriesInv => QueriesDisambiguate
  BY DEF TriesInv
<1>2. QED
  BY <1>1, TriesInductive, PTL
=============================================================================
