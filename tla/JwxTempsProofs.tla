--------------------------- MODULE JwxTempsProofs ---------------------------
(***************************************************************************)
(* Why every temporary is given back exactly once, whichever call fails.   *)
(* A routine keeps a discipline that can be read off the list of its calls *)
(* (Disciplined); any routine that keeps it is balanced, which is the      *)
(* invariant of the interpreter below; and each routine of the library     *)
(* keeps it.                                                               *)
(***************************************************************************)
EXTENDS JwxTemps, FiniteSetTheorems, TLAPS

-----------------------------------------------------------------------------
(* The discipline of a routine. *)

\* The objects of the calls of these kinds before its nth call.
Past(r, kinds, n) ==
  {t \in Objects(r) : \E m \in 1..(n - 1) : /\ r.steps[m].do \in kinds
                                            /\ t \in r.steps[m].objects}

Made(r, n) == Past(r, {"make", "try"}, n)
Given(r, n) == Past(r, {"give"}, n)
Gone(r, n) == Past(r, {"free"}, n)

\* Objects it may still have to give back, and those it certainly has.
Out(r, n) == Made(r, n) \ (Given(r, n) \cup Gone(r, n))
Sure(r, n) == Past(r, {"make", "need"}, n) \ (Given(r, n) \cup Gone(r, n))

Gives(r) == {n \in DOMAIN r.steps : r.steps[n].do = "give"}

IsSecret(r) == r.name = "jwk_thumbprint"

\* An object is made once, and not after it was freed; what is given is there,
\* and so is its new owner; nothing is freed twice; a failure frees all there
\* may be, and of a secret there is one copy at most.
CallDisciplined(r, n) ==
  LET s == r.steps[n] IN
  /\ s.clears
  /\ s.do \in {"make", "try"} => s.objects \cap (Made(r, n) \cup Gone(r, n)) = {}
  /\ s.do = "give" => s.objects \subseteq Sure(r, n) /\ s.to \in Sure(r, n) \ s.objects
  /\ s.do = "free" => s.objects \cap Gone(r, n) = {}
  /\ s.do \notin {"free", "try"} =>
       /\ s.undo \subseteq Sure(r, n) /\ s.frees \cap Gone(r, n) = {}
       /\ IF IsSecret(r) THEN \A t, u \in Out(r, n) : t = u
          ELSE Out(r, n) \subseteq s.undo \cup s.frees

\* A chain of owners has at most two links.
Shallow(r) ==
  \A k, m, l \in Gives(r) : r.steps[k].to \in r.steps[m].objects =>
                              r.steps[m].to \notin r.steps[l].objects

\* A success keeps what it is to keep, and has it.
EndDisciplined(r) ==
  LET n == Len(r.steps) + 1 IN r.keeps = Out(r, n) /\ r.keeps \subseteq Sure(r, n)

\* The discipline; a routine with copies of a secret gives nothing away.
Disciplined(r) ==
  /\ Len(r.steps) \in Nat /\ DOMAIN r.steps = 1..Len(r.steps)
  /\ Here \notin Objects(r)
  /\ IsSecret(r) =>
       Gives(r) = {} /\ r.keeps = {} /\ SecretCopies \subseteq Objects(r)
  /\ \A n \in DOMAIN r.steps : CallDisciplined(r, n)
  /\ Shallow(r) /\ EndDisciplined(r)

\* One more call.
LEMMA PastGrows ==
  ASSUME NEW r, NEW kinds, Disciplined(r), NEW n \in DOMAIN r.steps
  PROVE  /\ n + 1 \in 1..(Len(r.steps) + 1)
         /\ Past(r, kinds, n + 1) =
              Past(r, kinds, n)
              \cup IF r.steps[n].do \in kinds THEN r.steps[n].objects ELSE {}
<1>1. /\ n \in Nat /\ n + 1 \in 1..(Len(r.steps) + 1)
      /\ r.steps[n].objects \subseteq Objects(r)
      /\ 1..(n + 1 - 1) = 1..(n - 1) \cup {n}
  BY DEF Disciplined, Objects
<1>2. QED
  BY <1>1 DEF Past

-----------------------------------------------------------------------------
(* The invariant. *)

Whole == /\ Disciplined(routine)
         /\ at \in 1..(Len(routine.steps) + 1)
         /\ ret # "none" => at = Len(routine.steps) + 1
         /\ DOMAIN obj = Objects(routine) /\ DOMAIN owner = Objects(routine)

Roots == {f \in DOMAIN owner : owner[f] = Here}

\* The pointers are to what was made and not given away; the objects a pointer
\* owns are live until it is freed.
PointersInv ==
  /\ Given(routine, at) \subseteq Made(routine, at)
  /\ Sure(routine, at) \subseteq ptr
  /\ ptr \subseteq Made(routine, at) \ Given(routine, at)
  /\ Roots = Objects(routine) \ Given(routine, at)
  /\ \A f \in Roots : obj[f] = IF f \notin ptr THEN "none"
                               ELSE IF f \in Gone(routine, at) THEN "freed" ELSE "live"

\* Something owned shares the fate of its owner, which was made before.
OwnersInv ==
  \A t \in DOMAIN owner \ Roots :
    /\ owner[t] \in Made(routine, at) /\ obj[t] = obj[owner[t]]
    /\ \E k \in Gives(routine) : /\ t \in routine.steps[k].objects
                                 /\ owner[t] = routine.steps[k].to

IInv == /\ Whole
        /\ ret = "none" => PointersInv /\ OwnersInv
        /\ ret # "none" => TempsBalanced /\ SecretCopiesCleansed

-----------------------------------------------------------------------------
(* Ownership. *)

\* Everything has one root, which shares its fate.
LEMMA RootOf ==
  ASSUME Whole, OwnersInv, NEW t \in DOMAIN owner
  PROVE  \E f \in Roots : t \in Released(f) /\ obj[t] = obj[f]
<1>1. /\ DOMAIN owner = Objects(routine) /\ Made(routine, at) \subseteq Objects(routine)
      /\ \A k, m, l \in Gives(routine) :
            routine.steps[k].to \in routine.steps[m].objects =>
              routine.steps[m].to \notin routine.steps[l].objects
      /\ DOMAIN obj = DOMAIN owner
  BY DEF Whole, Disciplined, Shallow, Made, Past
<1>2. CASE t \in Roots
  BY <1>2 DEF Released
<1>3. CASE t \notin Roots
  <2>1. owner[t] \in DOMAIN owner /\ obj[t] = obj[owner[t]]
    BY <1>1, <1>3 DEF OwnersInv
  <2>2. CASE owner[t] \in Roots
    BY <1>3, <2>1, <2>2 DEF Released
  <2>3. CASE owner[t] \notin Roots
    <3> DEFINE w == owner[owner[t]]
    <3>1. w \in DOMAIN owner /\ obj[t] = obj[w]
      BY <1>1, <2>1, <2>3 DEF OwnersInv
    <3>2. w \in Roots
      <4>1. SUFFICES ASSUME w \notin Roots PROVE FALSE
        OBVIOUS
      <4>2. PICK k \in Gives(routine) : t \in routine.steps[k].objects
                                        /\ owner[t] = routine.steps[k].to
        BY <1>3 DEF OwnersInv
      <4>3. PICK m \in Gives(routine) : owner[t] \in routine.steps[m].objects
                                        /\ w = routine.steps[m].to
        BY <2>1, <2>3 DEF OwnersInv
      <4>4. PICK l \in Gives(routine) : w \in routine.steps[l].objects
        BY <3>1, <4>1 DEF OwnersInv
      <4>5. QED
        BY <1>1, <4>2, <4>3, <4>4
    <3>3. t \in Released(w)
      BY <2>1, <3>1 DEF Released
    <3>4. QED
      BY <3>1, <3>2, <3>3
  <2>4. QED
    BY <2>2, <2>3
<1>4. QED
  BY <1>2, <1>3

\* Nothing has two roots.
LEMMA OneRoot ==
  ASSUME Whole, NEW f \in Roots, NEW g \in Roots, NEW t \in DOMAIN owner,
         t \in Released(f), t \in Released(g)
  PROVE  f = g
<1>1. \A u \in DOMAIN owner : u # Here
  BY DEF Whole, Disciplined
<1>2. /\ t = f \/ owner[t] = f \/ (owner[t] \in DOMAIN owner /\ owner[owner[t]] = f)
      /\ t = g \/ owner[t] = g \/ (owner[t] \in DOMAIN owner /\ owner[owner[t]] = g)
  BY DEF Released
<1>3. f # Here /\ g # Here /\ owner[f] = Here /\ owner[g] = Here
  BY <1>1 DEF Roots
<1>4. QED
  BY <1>1, <1>2, <1>3

\* Something owned is released with its owner.
LEMMA OwnedReleased ==
  ASSUME Whole, OwnersInv, NEW t \in DOMAIN owner \ Roots, NEW f \in Roots
  PROVE  t \in Released(f) <=> owner[t] \in Released(f)
<1>1. /\ DOMAIN owner = Objects(routine) /\ Made(routine, at) \subseteq Objects(routine)
      /\ DOMAIN obj = DOMAIN owner
  BY DEF Whole, Made, Past
<1>2. owner[t] \in DOMAIN owner
  BY <1>1 DEF OwnersInv
<1>3. PICK g \in Roots : t \in Released(g)
  BY RootOf
<1>4. PICK h \in Roots : owner[t] \in Released(h)
  BY RootOf, <1>2
<1>5. t \in Released(g) => owner[t] \in Released(g)
  BY <1>2, <1>3 DEF Released, Roots
<1>6. g = h
  BY <1>2, <1>3, <1>4, <1>5, OneRoot
<1>7. QED
  BY <1>2, <1>3, <1>4, <1>6, OneRoot

\* Frees of distinct live roots release each object once.
LEMMA FreedOnce ==
  ASSUME Whole, OwnersInv, NEW us, NEW ts, us \subseteq Roots, ts \subseteq Roots,
         us \cap ts = {}, \A f \in us \cup ts : obj[f] = "live"
  PROVE  /\ DOMAIN Freed(us, ts) = DOMAIN obj
         /\ \A t \in DOMAIN obj :
              Freed(us, ts)[t] = IF \E f \in us \cup ts : t \in Released(f)
                                 THEN "freed" ELSE obj[t]
<1>1. DOMAIN obj = DOMAIN owner
  BY DEF Whole
<1>2. SUFFICES ASSUME NEW t \in DOMAIN obj
               PROVE  Freed(us, ts)[t] = IF \E f \in us \cup ts : t \in Released(f)
                                         THEN "freed" ELSE obj[t]
  BY DEF Freed
<1> DEFINE U == {f \in us : t \in Released(f)}
           T == {f \in ts : t \in Released(f)}
<1>3. Freed(us, ts)[t] =
        IF Cardinality(U) + Cardinality(T) = 0 THEN obj[t]
        ELSE IF Cardinality(U) + Cardinality(T) = 1 /\ obj[t] = "live" THEN "freed"
        ELSE "double"
  BY Zenon DEF Freed
<1>4. Cardinality({}) = 0 /\ \A f : Cardinality({f}) = 1
  BY FS_EmptySet, FS_Singleton
<1>5. CASE \E f \in us \cup ts : t \in Released(f)
  <2>1. PICK f \in us \cup ts : t \in Released(f)
    BY <1>5
  <2>2. U \cup T = {f} /\ U \cap T = {}
    BY <1>1, <2>1, OneRoot
  <2>3. (U = {f} /\ T = {}) \/ (U = {} /\ T = {f})
    BY <2>2
  <2>4. PICK g \in Roots : t \in Released(g) /\ obj[t] = obj[g]
    BY <1>1, RootOf
  <2>5. obj[t] = "live"
    BY <1>1, <2>1, <2>4, OneRoot
  <2> HIDE DEF U, T
  <2>6. Cardinality(U) + Cardinality(T) = 1
    BY <1>4, <2>3
  <2>7. QED
    BY <1>3, <1>5, <2>5, <2>6
<1>6. CASE ~\E f \in us \cup ts : t \in Released(f)
  <2>1. U = {} /\ T = {}
    BY <1>6
  <2> HIDE DEF U, T
  <2>2. Cardinality(U) + Cardinality(T) = 0
    BY <1>4, <2>1
  <2>3. QED
    BY <1>3, <1>6, <2>2
<1>7. QED
  BY <1>5, <1>6

-----------------------------------------------------------------------------
(* Each step keeps the invariant. *)

\* After frees of live pointers that are not given away nothing is freed twice,
\* and what is owned still shares the fate of its owner.
LEMMA AfterFrees ==
  ASSUME Whole, PointersInv, OwnersInv, NEW us, NEW ts,
         us \cup ts \subseteq ptr \ Gone(routine, at), us \cap ts = {}
  PROVE  /\ us \cup ts \subseteq Roots
         /\ DOMAIN Freed(us, ts) = DOMAIN obj
         /\ \A f \in Roots :
              Freed(us, ts)[f] = IF f \in us \cup ts THEN "freed" ELSE obj[f]
         /\ \A t \in DOMAIN owner \ Roots :
              owner[t] \in DOMAIN owner /\ Freed(us, ts)[t] = Freed(us, ts)[owner[t]]
         /\ \A t \in DOMAIN obj :
              \E f \in Roots : t \in Released(f) /\ Freed(us, ts)[t] = Freed(us, ts)[f]
<1>1. us \cup ts \subseteq Roots /\ \A f \in us \cup ts : obj[f] = "live"
  BY DEF PointersInv, Made, Past
<1>2. /\ DOMAIN Freed(us, ts) = DOMAIN obj
      /\ \A t \in DOMAIN obj :
           Freed(us, ts)[t] = IF \E f \in us \cup ts : t \in Released(f)
                              THEN "freed" ELSE obj[t]
  BY <1>1, FreedOnce
<1>3. /\ DOMAIN owner = Objects(routine) /\ Made(routine, at) \subseteq Objects(routine)
      /\ DOMAIN obj = DOMAIN owner
  BY DEF Whole, Made, Past
<1>4. ASSUME NEW f \in Roots
      PROVE  Freed(us, ts)[f] = IF f \in us \cup ts THEN "freed" ELSE obj[f]
  <2>1. f \in DOMAIN owner /\ f \in Released(f)
    BY DEF Released, Roots
  <2>2. \A g \in Roots : f \in Released(g) => f = g
    BY <2>1, OneRoot
  <2>3. QED
    BY <1>1, <1>2, <1>3, <2>1, <2>2
<1>5. ASSUME NEW t \in DOMAIN owner \ Roots
      PROVE  owner[t] \in DOMAIN owner /\ Freed(us, ts)[t] = Freed(us, ts)[owner[t]]
  <2>1. owner[t] \in DOMAIN owner /\ obj[t] = obj[owner[t]]
    BY <1>3 DEF OwnersInv
  <2>2. \A f \in Roots : t \in Released(f) <=> owner[t] \in Released(f)
    BY OwnedReleased
  <2>3. QED
    BY <1>1, <1>2, <1>3, <2>1, <2>2
<1>6. ASSUME NEW t \in DOMAIN obj
      PROVE  \E f \in Roots : t \in Released(f) /\ Freed(us, ts)[t] = Freed(us, ts)[f]
  <2>1. PICK f \in Roots : t \in Released(f) /\ obj[t] = obj[f]
    BY <1>3, RootOf
  <2>2. \A g \in Roots : t \in Released(g) => f = g
    BY <1>3, <2>1, OneRoot
  <2>3. f \in DOMAIN obj /\ f \in Released(f)
    BY <1>3 DEF Roots, Released
  <2>4. \A g \in Roots : f \in Released(g) => f = g
    BY <1>3, <2>3, OneRoot
  <2>5. QED
    BY <1>1, <1>2, <2>1, <2>2, <2>3, <2>4
<1>7. QED
  BY <1>1, <1>2, <1>4, <1>5, <1>6

\* The next call, and the objects behind it.
LEMMA NextCall ==
  ASSUME Whole, NEW s \in Next1
  PROVE  /\ at \in DOMAIN routine.steps /\ s = routine.steps[at]
         /\ CallDisciplined(routine, at)
         /\ s.objects \subseteq Objects(routine)
         /\ ret = "none"
<1>1. at \in DOMAIN routine.steps /\ s = routine.steps[at]
  BY DEF Next1, Whole, Disciplined
<1>2. QED
  BY <1>1 DEF Whole, Disciplined, Objects

\* What a call that succeeds leaves to the rest of the routine.
LEMMA Onwards ==
  ASSUME Whole, NEW s \in Next1, Proceed, DOMAIN obj' = DOMAIN obj,
         DOMAIN owner' = DOMAIN owner, PointersInv', OwnersInv'
  PROVE  IInv'
<1>1. at \in DOMAIN routine.steps /\ ret = "none"
  BY NextCall
<1>2. at + 1 \in 1..(Len(routine.steps) + 1)
  BY <1>1, PastGrows DEF Whole
<1>3. Whole'
  BY <1>1, <1>2 DEF Whole, Proceed
<1>4. QED
  BY <1>1, <1>3 DEF IInv, Proceed

\* The sets of the discipline after the next call.
LEMMA SetsGrow ==
  ASSUME Whole, NEW s \in Next1, Proceed
  PROVE  /\ Made(routine, at)' = Made(routine, at)
              \cup IF s.do \in {"make", "try"} THEN s.objects ELSE {}
         /\ Given(routine, at)' = Given(routine, at)
              \cup IF s.do = "give" THEN s.objects ELSE {}
         /\ Gone(routine, at)' = Gone(routine, at)
              \cup IF s.do = "free" THEN s.objects ELSE {}
         /\ Sure(routine, at)' =
              (Past(routine, {"make", "need"}, at)
                \cup IF s.do \in {"make", "need"} THEN s.objects ELSE {})
              \ (Given(routine, at)' \cup Gone(routine, at)')
<1>1. at \in DOMAIN routine.steps /\ s = routine.steps[at] /\ Disciplined(routine)
  BY NextCall DEF Whole
<1>2. routine' = routine /\ at' = at + 1
  BY DEF Proceed
<1>3. \A kinds : Past(routine, kinds, at + 1) =
                   Past(routine, kinds, at)
                   \cup IF s.do \in kinds THEN s.objects ELSE {}
  BY <1>1, PastGrows
<1>4. QED
  BY <1>2, <1>3 DEF Made, Given, Gone, Sure

\* An allocation that succeeds: a new root, which owns nothing.
LEMMA MakeKeeps == ASSUME IInv, Make PROVE IInv'
<1>1. PICK s \in Next1 :
        /\ s.do \in {"make", "try"}
        /\ ptr' = ptr \cup s.objects
        /\ obj' = [t \in DOMAIN obj |-> IF t \in s.objects THEN "live" ELSE obj[t]]
        /\ Proceed /\ UNCHANGED owner
  BY DEF Make
<1>2. Whole /\ PointersInv /\ OwnersInv
  BY <1>1, NextCall DEF IInv
<1>3. /\ s.objects \cap (Made(routine, at) \cup Gone(routine, at)) = {}
      /\ s.objects \subseteq Objects(routine)
  BY <1>1, <1>2, NextCall DEF CallDisciplined
<1>4. /\ Made(routine, at)' = Made(routine, at) \cup s.objects
      /\ Given(routine, at)' = Given(routine, at)
      /\ Gone(routine, at)' = Gone(routine, at)
      /\ Sure(routine, at)' \subseteq Sure(routine, at) \cup s.objects
  BY <1>1, <1>2, SetsGrow DEF Sure
<1>5. /\ routine' = routine /\ Roots' = Roots /\ DOMAIN obj' = DOMAIN obj
  BY <1>1 DEF Proceed, Roots
<1>6. PointersInv'
  <2>1. Objects(routine) = DOMAIN obj /\ Roots \subseteq DOMAIN obj
    BY <1>2 DEF Whole, Roots
  <2>2. QED
    BY <1>1, <1>2, <1>3, <1>4, <1>5, <2>1 DEF PointersInv
<1>7. OwnersInv'
  <2>1. SUFFICES ASSUME NEW t \in DOMAIN owner \ Roots
                 PROVE  /\ owner[t] \in Made(routine, at)' /\ obj'[t] = obj'[owner[t]]
                        /\ \E k \in Gives(routine) : /\ t \in routine.steps[k].objects
                                                     /\ owner[t] = routine.steps[k].to
    BY <1>1, <1>5 DEF OwnersInv
  <2>2. t \in Given(routine, at) /\ t \notin s.objects
    BY <1>2, <1>3 DEF PointersInv, Whole
  <2>3. owner[t] \in Made(routine, at) /\ obj[t] = obj[owner[t]]
    BY <1>2 DEF OwnersInv
  <2>4. t \in DOMAIN obj /\ owner[t] \in DOMAIN obj
    BY <1>2, <2>3 DEF Whole, Made, Past
  <2>5. obj'[t] = obj'[owner[t]]
    BY <1>1, <1>3, <2>2, <2>3, <2>4
  <2>6. QED
    BY <1>2, <1>4, <2>3, <2>5 DEF OwnersInv
<1>8. QED
  BY <1>1, <1>2, <1>5, <1>6, <1>7, Onwards

\* A call that moves nothing, or an allocation that failed quietly.
LEMMA PassKeeps == ASSUME IInv, Pass \/ TryFails PROVE IInv'
<1>1. PICK s \in Next1 :
        /\ s.do \in {"try", "call"} \/ (s.do = "need" /\ s.objects \subseteq ptr)
        /\ Proceed /\ UNCHANGED <<ptr, obj, owner>>
  BY DEF Pass, TryFails
<1>2. Whole /\ PointersInv /\ OwnersInv
  BY <1>1, NextCall DEF IInv
<1>3. /\ Made(routine, at) \subseteq Made(routine, at)'
      /\ Given(routine, at)' = Given(routine, at)
      /\ Gone(routine, at)' = Gone(routine, at)
      /\ Sure(routine, at)' \subseteq ptr
  BY <1>1, <1>2, SetsGrow DEF Sure, PointersInv
<1>4. routine' = routine /\ Roots' = Roots /\ Gives(routine)' = Gives(routine)
  BY <1>1 DEF Proceed, Roots
<1>5. PointersInv'
  BY <1>1, <1>2, <1>3, <1>4 DEF PointersInv
<1>6. OwnersInv'
  BY <1>1, <1>2, <1>3, <1>4 DEF OwnersInv
<1>7. QED
  BY <1>1, <1>2, <1>5, <1>6, Onwards

\* A transfer: what is given has an owner now, and no pointer.
LEMMA TransferKeeps == ASSUME IInv, Transfer PROVE IInv'
<1>1. PICK s \in Next1 :
        /\ s.do = "give"
        /\ owner' = [t \in DOMAIN owner |->
                       IF t \in s.objects THEN s.to ELSE owner[t]]
        /\ ptr' = IF s.clears THEN ptr \ s.objects ELSE ptr
        /\ Proceed /\ UNCHANGED obj
  BY DEF Transfer
<1>2. Whole /\ PointersInv /\ OwnersInv
  BY <1>1, NextCall DEF IInv
<1>3. /\ at \in DOMAIN routine.steps /\ s = routine.steps[at]
      /\ s.objects \subseteq Sure(routine, at) /\ s.to \in Sure(routine, at) \ s.objects
      /\ s.clears
  BY <1>1, <1>2, NextCall DEF CallDisciplined
<1>4. /\ Made(routine, at)' = Made(routine, at)
      /\ Given(routine, at)' = Given(routine, at) \cup s.objects
      /\ Gone(routine, at)' = Gone(routine, at)
      /\ Sure(routine, at)' \subseteq Sure(routine, at) \ s.objects
  BY <1>1, <1>2, SetsGrow DEF Sure
<1>5. /\ Sure(routine, at) \subseteq Roots
      /\ \A t \in Sure(routine, at) : obj[t] = "live" /\ t \in Made(routine, at)
  BY <1>2 DEF PointersInv, Sure, Past, Given
<1>6. s.to # Here
  BY <1>2, <1>3 DEF Sure, Past, Whole, Disciplined
<1>7. /\ routine' = routine /\ DOMAIN owner' = DOMAIN owner
      /\ Gives(routine)' = Gives(routine) /\ at \in Gives(routine)
  BY <1>1, <1>3 DEF Proceed, Gives
<1>8. Roots' = Roots \ s.objects
  BY <1>1, <1>6, <1>7 DEF Roots
<1>9. PointersInv'
  BY <1>1, <1>2, <1>3, <1>4, <1>5, <1>7, <1>8 DEF PointersInv
<1>10. OwnersInv'
  <2>1. SUFFICES ASSUME NEW t \in DOMAIN owner \ Roots'
                 PROVE  /\ owner'[t] \in Made(routine, at) /\ obj[t] = obj[owner'[t]]
                        /\ \E k \in Gives(routine) : /\ t \in routine.steps[k].objects
                                                     /\ owner'[t] = routine.steps[k].to
    BY <1>1, <1>4, <1>7 DEF OwnersInv
  <2>2. CASE t \in s.objects
    BY <1>1, <1>3, <1>5, <1>7, <2>2
  <2>3. CASE t \notin s.objects
    BY <1>1, <1>2, <1>8, <2>1, <2>3 DEF OwnersInv
  <2>4. QED
    BY <2>2, <2>3
<1>11. QED
  BY <1>1, <1>2, <1>7, <1>9, <1>10, Onwards

\* A release: each pointer once, with what it owns.
LEMMA ReleaseKeeps == ASSUME IInv, Release PROVE IInv'
<1>1. PICK s \in Next1 :
        /\ s.do = "free" /\ obj' = Freed({}, s.objects \cap ptr)
        /\ Proceed /\ UNCHANGED <<ptr, owner>>
  BY DEF Release
<1>2. Whole /\ PointersInv /\ OwnersInv
  BY <1>1, NextCall DEF IInv
<1>3. s.objects \cap Gone(routine, at) = {}
  BY <1>1, <1>2, NextCall DEF CallDisciplined
<1>4. /\ Made(routine, at)' = Made(routine, at)
      /\ Given(routine, at)' = Given(routine, at)
      /\ Gone(routine, at)' = Gone(routine, at) \cup s.objects
      /\ Sure(routine, at)' \subseteq Sure(routine, at)
  BY <1>1, <1>2, SetsGrow DEF Sure
<1>5. routine' = routine /\ Roots' = Roots /\ Gives(routine)' = Gives(routine)
  BY <1>1 DEF Proceed, Roots
<1>6. /\ DOMAIN obj' = DOMAIN obj
      /\ \A f \in Roots : obj'[f] = IF f \in s.objects \cap ptr THEN "freed" ELSE obj[f]
      /\ \A t \in DOMAIN owner \ Roots : obj'[t] = obj'[owner[t]]
  <2>1. {} \cup (s.objects \cap ptr) \subseteq ptr \ Gone(routine, at)
    BY <1>3
  <2>2. QED
    BY <1>1, <1>2, <2>1, AfterFrees
<1>7. PointersInv'
  BY <1>1, <1>2, <1>4, <1>5, <1>6 DEF PointersInv
<1>8. OwnersInv'
  BY <1>1, <1>2, <1>4, <1>5, <1>6 DEF OwnersInv
<1>9. QED
  BY <1>1, <1>2, <1>6, <1>7, <1>8, Onwards

\* A failure: the way out frees all there is, or leaves one copy of a secret.
LEMMA FailsKeeps == ASSUME IInv, Fails PROVE IInv'
<1>1. PICK s \in Next1 :
        /\ s.do \notin {"free", "try"}
        /\ ptr' = IF s.clears THEN ptr \ s.undo ELSE ptr
        /\ obj' = Freed(s.undo, s.frees \cap ptr')
        /\ ret' = "ERROR" /\ at' = Len(routine.steps) + 1
        /\ UNCHANGED <<routine, owner>>
  BY DEF Fails
<1>2. Whole /\ PointersInv /\ OwnersInv
  BY <1>1, NextCall DEF IInv
<1>3. /\ s.clears /\ s.undo \subseteq Sure(routine, at)
      /\ s.frees \cap Gone(routine, at) = {}
      /\ IF IsSecret(routine) THEN \A t, u \in Out(routine, at) : t = u
         ELSE Out(routine, at) \subseteq s.undo \cup s.frees
  BY <1>1, <1>2, NextCall DEF CallDisciplined
<1> DEFINE us == s.undo
           ts == s.frees \cap (ptr \ s.undo)
<1>4. /\ obj' = Freed(us, ts) /\ us \cap ts = {}
      /\ us \cup ts \subseteq ptr \ Gone(routine, at)
  BY <1>1, <1>2, <1>3 DEF PointersInv, Sure
<1> HIDE DEF us, ts
<1>5. /\ DOMAIN obj' = DOMAIN obj
      /\ \A f \in Roots : obj'[f] = IF f \in us \cup ts THEN "freed" ELSE obj[f]
      /\ \A t \in DOMAIN obj : \E f \in Roots : t \in Released(f) /\ obj'[t] = obj'[f]
  BY <1>2, <1>4, AfterFrees
<1>6. Whole'
  <2>1. Len(routine.steps) + 1 \in 1..(Len(routine.steps) + 1)
    BY <1>2 DEF Whole, Disciplined
  <2>2. QED
    BY <1>1, <1>2, <1>5, <2>1 DEF Whole
<1>7. \A f \in Roots : obj'[f] = "live" =>
         f \in Out(routine, at) /\ f \in ptr /\ f \notin us \cup ts
  BY <1>2, <1>5 DEF PointersInv, Out
<1>8. TempsBalanced'
  <2>1. SUFFICES ASSUME NEW t \in DOMAIN obj
                 PROVE  obj'[t] # "double" /\ (~IsThumbprint => obj'[t] # "live")
    BY <1>1, <1>5 DEF TempsBalanced, IsThumbprint
  <2>2. PICK f \in Roots : obj'[t] = obj'[f]
    BY <1>5
  <2>3. obj'[f] # "double"
    BY <1>2, <1>5 DEF PointersInv
  <2>4. ASSUME ~IsThumbprint, obj'[f] = "live" PROVE FALSE
    <3>1. f \in s.undo \cup s.frees /\ f \in ptr
      BY <1>3, <1>7, <2>4 DEF IsSecret, IsThumbprint
    <3>2. QED
      BY <1>7, <2>4, <3>1 DEF us, ts
  <2>5. QED
    BY <2>2, <2>3, <2>4
<1>9. SecretCopiesCleansed'
  <2> DEFINE L == {t \in SecretCopies : obj'[t] = "live"}
  <2>1. SUFFICES ASSUME IsSecret(routine) PROVE Cardinality(L) <= 1
    BY <1>1 DEF SecretCopiesCleansed, IsThumbprint, IsSecret
  <2>2. SecretCopies \subseteq Roots
    BY <1>2, <2>1 DEF PointersInv, Whole, Disciplined, Given, Past, Gives
  <2>3. \A t, u \in L : t = u
    BY <1>3, <1>7, <2>1, <2>2
  <2>4. L = {} \/ \E t : L = {t}
    BY <2>3
  <2> HIDE DEF L
  <2>5. QED
    BY <2>4, FS_EmptySet, FS_Singleton
<1>10. QED
  BY <1>1, <1>6, <1>8, <1>9 DEF IInv

\* A success: what is live is what is kept, and what that owns.
LEMMA ReturnKeeps == ASSUME IInv, Return PROVE IInv'
<1>1. /\ Next1 = {} /\ ret = "none" /\ ret' = "OK"
      /\ UNCHANGED <<routine, at, ptr, obj, owner>>
  BY DEF Return
<1>2. Whole /\ PointersInv /\ OwnersInv
  BY <1>1 DEF IInv
<1>3. at = Len(routine.steps) + 1
  <2>1. ~(at <= Len(routine.steps))
    BY <1>1 DEF Next1
  <2>2. QED
    BY <1>2, <2>1 DEF Whole, Disciplined
<1>4. Whole'
  BY <1>1, <1>2, <1>3 DEF Whole
<1>5. routine.keeps = Out(routine, at) /\ routine.keeps \subseteq Sure(routine, at)
  BY <1>2, <1>3 DEF Whole, Disciplined, EndDisciplined
<1>6. \A f \in Roots : /\ f \in DOMAIN obj /\ obj[f] # "double"
                       /\ obj[f] = "live" <=> f \in routine.keeps
  <2>1. \A f \in Roots : f \in DOMAIN obj
    BY <1>2 DEF Whole, Roots
  <2>2. QED
    BY <1>2, <1>5, <2>1 DEF PointersInv, Out, Sure
<1>7. routine.keeps \subseteq Roots
  BY <1>2, <1>5 DEF PointersInv, Out, Made, Past
<1>8. ASSUME NEW t \in DOMAIN obj
      PROVE  obj[t] # "double" /\ (obj[t] = "live" <=> Kept(t))
  <2>1. t \in DOMAIN owner
    BY <1>2 DEF Whole
  <2>2. PICK f \in Roots : t \in Released(f) /\ obj[t] = obj[f]
    BY <1>2, <2>1, RootOf
  <2>3. \A g \in Roots : t \in Released(g) => f = g
    BY <1>2, <2>1, <2>2, OneRoot
  <2>4. Kept(t) <=> f \in routine.keeps
    BY <1>6, <1>7, <2>2, <2>3 DEF Kept
  <2>5. QED
    BY <1>6, <2>2, <2>4
<1>9. TempsBalanced'
  <2>1. \A t \in DOMAIN obj : Kept(t)' <=> Kept(t)
    BY <1>1 DEF Kept, Released
  <2>2. QED
    BY <1>1, <1>8, <2>1 DEF TempsBalanced, Kept, Released
<1>10. SecretCopiesCleansed'
  <2> DEFINE L == {t \in SecretCopies : obj[t] = "live"}
  <2>1. SUFFICES ASSUME IsSecret(routine) PROVE Cardinality(L) <= 0
    BY <1>1 DEF SecretCopiesCleansed, IsThumbprint, IsSecret
  <2>2. L = {}
    BY <1>2, <1>5, <1>6, <2>1 DEF PointersInv, Whole, Disciplined, Given, Past, Gives
  <2> HIDE DEF L
  <2>3. QED
    BY <2>2, FS_EmptySet
<1>11. QED
  BY <1>1, <1>4, <1>9, <1>10 DEF IInv

-----------------------------------------------------------------------------
(* The routines of the library. *)

\* What a call of a routine is.
Does(s, do, objects, frees) ==
  /\ s.do = do /\ s.objects = objects /\ s.frees = frees
  /\ s.clears /\ s.undo = {}

\* What a call that hands objects over is.
Hands(s, objects, to, undo, frees) ==
  /\ s.do = "give" /\ s.objects = objects /\ s.to = to /\ s.undo = undo
  /\ s.frees = frees /\ s.clears

\* nxe_jwx_ecdsa_raw_to_der: r and s go to sig, and are not freed twice.
LEMMA RawToDer ==
  \A v : Disciplined(Routine("ecdsa_raw_to_der", v, {}, ecdsa_raw_to_der))
<1> DEFINE q == ecdsa_raw_to_der
           F == {"r", "s", "sig"}
<1>1. Len(q) = 9 /\ DOMAIN q = 1..9
  BY DEF ecdsa_raw_to_der, Under
<1>2. Does(q[1], "try", {"r"}, F)
  BY DEF ecdsa_raw_to_der, Under, Does, Try, Step
<1>3. Does(q[2], "try", {"s"}, F)
  BY DEF ecdsa_raw_to_der, Under, Does, Try, Step
<1>4. Does(q[3], "need", {"r", "s"}, F)
  BY DEF ecdsa_raw_to_der, Under, Does, Need, Step
<1>5. Does(q[4], "make", {"sig"}, F)
  BY DEF ecdsa_raw_to_der, Under, Does, New, Step
<1>6. Hands(q[5], {"r", "s"}, "sig", {}, F)
  BY DEF ecdsa_raw_to_der, Under, Hands, Give, Step
<1>7. Does(q[6], "call", {}, F)
  BY DEF ecdsa_raw_to_der, Under, Does, Call, Step
<1>8. Does(q[7], "call", {}, F)
  BY DEF ecdsa_raw_to_der, Under, Does, Call, Step
<1>9. Does(q[8], "call", {}, F)
  BY DEF ecdsa_raw_to_der, Under, Does, Call, Step
<1>10. Does(q[9], "free", {"r", "s", "sig"}, {})
  BY DEF ecdsa_raw_to_der, Under, Does, Free, Step
<1> HIDE DEF q
<1> SUFFICES ASSUME NEW r, r.name = "ecdsa_raw_to_der", r.keeps = {}, r.steps = q
             PROVE  Disciplined(r)
  BY DEF Routine, q
<1>11. Objects(r) = {"r", "s", "sig"} /\ Gives(r) = {5}
  BY <1>1, <1>2, <1>3, <1>4, <1>5, <1>6, <1>7, <1>8, <1>9, <1>10
     DEF Objects, Gives, Does, Hands
<1>12. \A n \in 1..9 : CallDisciplined(r, n)
  BY <1>2, <1>3, <1>4, <1>5, <1>6, <1>7, <1>8, <1>9, <1>10, <1>11
     DEF CallDisciplined, IsSecret, Out, Sure, Made, Given, Gone, Past, Does, Hands
<1>13. Out(r, 10) = {} /\ {} \subseteq Sure(r, 10)
  BY <1>2, <1>3, <1>4, <1>5, <1>6, <1>7, <1>8, <1>9, <1>10, <1>11
     DEF Out, Sure, Made, Given, Gone, Past, Does, Hands
<1>14. QED
  BY <1>1, <1>2, <1>3, <1>4, <1>5, <1>6, <1>7, <1>8, <1>9, <1>10, <1>11, <1>12, <1>13
     DEF Disciplined, EndDisciplined, Shallow, IsSecret, Here, SecretCopies, Hands

\* nxe_jwx_evp_verify: the digest context goes, whatever the answer.
LEMMA EvpVerify ==
  \A v : Disciplined(Routine("evp_verify", v, {}, evp_verify))
<1> DEFINE q == evp_verify
<1>1. Len(q) = 5 /\ DOMAIN q = 1..5
  BY DEF evp_verify, Under
<1>2. /\ Does(q[1], "call", {}, {}) /\ Does(q[3], "call", {}, {"ctx"})
  BY DEF evp_verify, Under, Does, Call, Step
<1>3. Does(q[4], "call", {}, {"ctx"})
  BY DEF evp_verify, Under, Does, Call, Step
<1>4. Does(q[2], "make", {"ctx"}, {})
  BY DEF evp_verify, Under, Does, New, Step
<1>5. Does(q[5], "free", {"ctx"}, {})
  BY DEF evp_verify, Under, Does, Free, Step
<1> HIDE DEF q
<1> SUFFICES ASSUME NEW r, r.name = "evp_verify", r.keeps = {}, r.steps = q
             PROVE  Disciplined(r)
  BY DEF Routine, q
<1>6. Objects(r) = {"ctx"} /\ Gives(r) = {}
  BY <1>1, <1>2, <1>3, <1>4, <1>5 DEF Objects, Gives, Does
<1>7. \A n \in 1..5 : CallDisciplined(r, n)
  BY <1>2, <1>3, <1>4, <1>5, <1>6
     DEF CallDisciplined, IsSecret, Out, Sure, Made, Given, Gone, Past, Does
<1>8. Out(r, 6) = {} /\ {} \subseteq Sure(r, 6)
  BY <1>2, <1>3, <1>4, <1>5, <1>6
     DEF Out, Sure, Made, Given, Gone, Past, Does
<1>9. QED
  BY <1>1, <1>2, <1>3, <1>4, <1>5, <1>6, <1>7, <1>8
     DEF Disciplined, EndDisciplined, Shallow, IsSecret, Here, SecretCopies

\* nxe_jwx_hmac_verify: the MAC to compare with is cleansed.
LEMMA HmacVerify ==
  \A v : Disciplined(Routine("hmac_verify", v, {}, hmac_verify))
<1> DEFINE q == hmac_verify
<1>1. Len(q) = 3 /\ DOMAIN q = 1..3
  BY DEF hmac_verify
<1>2. Does(q[1], "call", {}, {})
  BY DEF hmac_verify, Does, Call, Step
<1>3. Does(q[2], "make", {"mac"}, {})
  BY DEF hmac_verify, Does, New, Step
<1>4. Does(q[3], "free", {"mac"}, {})
  BY DEF hmac_verify, Does, Free, Step
<1> HIDE DEF q
<1> SUFFICES ASSUME NEW r, r.name = "hmac_verify", r.keeps = {}, r.steps = q
             PROVE  Disciplined(r)
  BY DEF Routine, q
<1>5. Objects(r) = {"mac"} /\ Gives(r) = {}
  BY <1>1, <1>2, <1>3, <1>4 DEF Objects, Gives, Does
<1>6. \A n \in 1..3 : CallDisciplined(r, n)
  BY <1>2, <1>3, <1>4, <1>5
     DEF CallDisciplined, IsSecret, Out, Sure, Made, Given, Gone, Past, Does
<1>7. Out(r, 4) = {} /\ {} \subseteq Sure(r, 4)
  BY <1>2, <1>3, <1>4, <1>5
     DEF Out, Sure, Made, Given, Gone, Past, Does
<1>8. QED
  BY <1>1, <1>2, <1>3, <1>4, <1>5, <1>6, <1>7
     DEF Disciplined, EndDisciplined, Shallow, IsSecret, Here, SecretCopies

\* nxe_jwx_ecdsa_der_to_raw: the parsed signature goes.
LEMMA DerToRaw ==
  \A v : Disciplined(Routine("ecdsa_der_to_raw", v, {}, ecdsa_der_to_raw))
<1> DEFINE q == ecdsa_der_to_raw
<1>1. Len(q) = 4 /\ DOMAIN q = 1..4
  BY DEF ecdsa_der_to_raw, Under
<1>2. Does(q[1], "make", {"sig"}, {})
  BY DEF ecdsa_der_to_raw, Under, Does, New, Step
<1>3. /\ Does(q[2], "call", {}, {"sig"}) /\ Does(q[3], "call", {}, {"sig"})
  BY DEF ecdsa_der_to_raw, Under, Does, Call, Step
<1>4. Does(q[4], "free", {"sig"}, {})
  BY DEF ecdsa_der_to_raw, Under, Does, Free, Step
<1> HIDE DEF q
<1> SUFFICES ASSUME NEW r, r.name = "ecdsa_der_to_raw", r.keeps = {}, r.steps = q
             PROVE  Disciplined(r)
  BY DEF Routine, q
<1>5. Objects(r) = {"sig"} /\ Gives(r) = {}
  BY <1>1, <1>2, <1>3, <1>4 DEF Objects, Gives, Does
<1>6. \A n \in 1..4 : CallDisciplined(r, n)
  BY <1>2, <1>3, <1>4, <1>5
     DEF CallDisciplined, IsSecret, Out, Sure, Made, Given, Gone, Past, Does
<1>7. Out(r, 5) = {} /\ {} \subseteq Sure(r, 5)
  BY <1>2, <1>3, <1>4, <1>5
     DEF Out, Sure, Made, Given, Gone, Past, Does
<1>8. QED
  BY <1>1, <1>2, <1>3, <1>4, <1>5, <1>6, <1>7
     DEF Disciplined, EndDisciplined, Shallow, IsSecret, Here, SecretCopies

\* nxe_jwx_evp_sign: the digest context goes.
LEMMA EvpSign ==
  \A v : Disciplined(Routine("evp_sign", v, {}, evp_sign))
<1> DEFINE q == evp_sign
<1>1. Len(q) = 8 /\ DOMAIN q = 1..8
  BY DEF evp_sign, Under
<1>2. Does(q[1], "call", {}, {})
  BY DEF evp_sign, Under, Does, Call, Step
<1>3. Does(q[2], "make", {"ctx"}, {})
  BY DEF evp_sign, Under, Does, New, Step
<1>4. Does(q[3], "call", {}, {"ctx"})
  BY DEF evp_sign, Under, Does, Call, Step
<1>5. Does(q[4], "call", {}, {"ctx"})
  BY DEF evp_sign, Under, Does, Call, Step
<1>6. Does(q[5], "call", {}, {"ctx"})
  BY DEF evp_sign, Under, Does, Call, Step
<1>7. Does(q[6], "call", {}, {"ctx"})
  BY DEF evp_sign, Under, Does, Call, Step
<1>8. Does(q[7], "call", {}, {"ctx"})
  BY DEF evp_sign, Under, Does, Call, Step
<1>9. Does(q[8], "free", {"ctx"}, {})
  BY DEF evp_sign, Under, Does, Free, Step
<1> HIDE DEF q
<1> SUFFICES ASSUME NEW r, r.name = "evp_sign", r.keeps = {}, r.steps = q
             PROVE  Disciplined(r)
  BY DEF Routine, q
<1>10. Objects(r) = {"ctx"} /\ Gives(r) = {}
  BY <1>1, <1>2, <1>3, <1>4, <1>5, <1>6, <1>7, <1>8, <1>9 DEF Objects, Gives, Does
<1>11. \A n \in 1..8 : CallDisciplined(r, n)
  BY <1>2, <1>3, <1>4, <1>5, <1>6, <1>7, <1>8, <1>9, <1>10
     DEF CallDisciplined, IsSecret, Out, Sure, Made, Given, Gone, Past, Does
<1>12. Out(r, 9) = {} /\ {} \subseteq Sure(r, 9)
  BY <1>2, <1>3, <1>4, <1>5, <1>6, <1>7, <1>8, <1>9, <1>10
     DEF Out, Sure, Made, Given, Gone, Past, Does
<1>13. QED
  BY <1>1, <1>2, <1>3, <1>4, <1>5, <1>6, <1>7, <1>8, <1>9, <1>10, <1>11, <1>12
     DEF Disciplined, EndDisciplined, Shallow, IsSecret, Here, SecretCopies

\* nxe_jwx_hmac_sign: the MAC is cleansed once it is copied.
LEMMA HmacSign ==
  \A v : Disciplined(Routine("hmac_sign", v, {}, hmac_sign))
<1> DEFINE q == hmac_sign
<1>1. Len(q) = 4 /\ DOMAIN q = 1..4
  BY DEF hmac_sign, Under
<1>2. /\ Does(q[1], "call", {}, {}) /\ Does(q[3], "call", {}, {"tmp"})
  BY DEF hmac_sign, Under, Does, Call, Step
<1>3. Does(q[2], "make", {"tmp"}, {})
  BY DEF hmac_sign, Under, Does, New, Step
<1>4. Does(q[4], "free", {"tmp"}, {})
  BY DEF hmac_sign, Under, Does, Free, Step
<1> HIDE DEF q
<1> SUFFICES ASSUME NEW r, r.name = "hmac_sign", r.keeps = {}, r.steps = q
             PROVE  Disciplined(r)
  BY DEF Routine, q
<1>5. Objects(r) = {"tmp"} /\ Gives(r) = {}
  BY <1>1, <1>2, <1>3, <1>4 DEF Objects, Gives, Does
<1>6. \A n \in 1..4 : CallDisciplined(r, n)
  BY <1>2, <1>3, <1>4, <1>5
     DEF CallDisciplined, IsSecret, Out, Sure, Made, Given, Gone, Past, Does
<1>7. Out(r, 5) = {} /\ {} \subseteq Sure(r, 5)
  BY <1>2, <1>3, <1>4, <1>5
     DEF Out, Sure, Made, Given, Gone, Past, Does
<1>8. QED
  BY <1>1, <1>2, <1>3, <1>4, <1>5, <1>6, <1>7
     DEF Disciplined, EndDisciplined, Shallow, IsSecret, Here, SecretCopies

\* nxe_jwx_load_pem_privkey: the BIO goes, the key stays.
LEMMA LoadPem ==
  \A v : Disciplined(Routine("load_pem", v, {"pkey"}, load_pem))
<1> DEFINE q == load_pem
<1>1. Len(q) = 3 /\ DOMAIN q = 1..3
  BY DEF load_pem, Under
<1>2. /\ Does(q[1], "make", {"bio"}, {}) /\ Does(q[2], "make", {"pkey"}, {"bio"})
  BY DEF load_pem, Under, Does, New, Step
<1>3. Does(q[3], "free", {"bio"}, {})
  BY DEF load_pem, Under, Does, Free, Step
<1> HIDE DEF q
<1> SUFFICES ASSUME NEW r, r.name = "load_pem", r.keeps = {"pkey"}, r.steps = q
             PROVE  Disciplined(r)
  BY DEF Routine, q
<1>4. Objects(r) = {"bio", "pkey"} /\ Gives(r) = {}
  BY <1>1, <1>2, <1>3 DEF Objects, Gives, Does
<1>5. \A n \in 1..3 : CallDisciplined(r, n)
  BY <1>2, <1>3, <1>4
     DEF CallDisciplined, IsSecret, Out, Sure, Made, Given, Gone, Past, Does
<1>6. Out(r, 4) = {"pkey"} /\ {"pkey"} \subseteq Sure(r, 4)
  BY <1>2, <1>3, <1>4
     DEF Out, Sure, Made, Given, Gone, Past, Does
<1>7. QED
  BY <1>1, <1>2, <1>3, <1>4, <1>5, <1>6
     DEF Disciplined, EndDisciplined, Shallow, IsSecret, Here, SecretCopies

\* nxe_jwx_validate_claims_object: the JSON of the claims goes.
LEMMA ClaimsObject ==
  \A v : Disciplined(Routine("validate_claims_object", v, {}, validate_claims_object))
<1> DEFINE q == validate_claims_object
<1>1. Len(q) = 3 /\ DOMAIN q = 1..3
  BY DEF validate_claims_object, Under
<1>2. Does(q[1], "make", {"json"}, {})
  BY DEF validate_claims_object, Under, Does, New, Step
<1>3. Does(q[2], "call", {}, {"json"})
  BY DEF validate_claims_object, Under, Does, Call, Step
<1>4. Does(q[3], "free", {"json"}, {})
  BY DEF validate_claims_object, Under, Does, Free, Step
<1> HIDE DEF q
<1> SUFFICES ASSUME NEW r, r.name = "validate_claims_object", r.keeps = {}, r.steps = q
             PROVE  Disciplined(r)
  BY DEF Routine, q
<1>5. Objects(r) = {"json"} /\ Gives(r) = {}
  BY <1>1, <1>2, <1>3, <1>4 DEF Objects, Gives, Does
<1>6. \A n \in 1..3 : CallDisciplined(r, n)
  BY <1>2, <1>3, <1>4, <1>5
     DEF CallDisciplined, IsSecret, Out, Sure, Made, Given, Gone, Past, Does
<1>7. Out(r, 4) = {} /\ {} \subseteq Sure(r, 4)
  BY <1>2, <1>3, <1>4, <1>5
     DEF Out, Sure, Made, Given, Gone, Past, Does
<1>8. QED
  BY <1>1, <1>2, <1>3, <1>4, <1>5, <1>6, <1>7
     DEF Disciplined, EndDisciplined, Shallow, IsSecret, Here, SecretCopies

\* nxe_jwx_build_header: the JSON of the kid goes before the pool is asked.
LEMMA BuildHeader ==
  \A v : Disciplined(Routine("build_header", v, {}, build_header))
<1> DEFINE q == build_header
<1>1. Len(q) = 4 /\ DOMAIN q = 1..4
  BY DEF build_header, Under
<1>2. Does(q[1], "make", {"node"}, {})
  BY DEF build_header, Under, Does, New, Step
<1>3. /\ Does(q[2], "call", {}, {"node"}) /\ Does(q[4], "call", {}, {})
  BY DEF build_header, Under, Does, Call, Step
<1>4. Does(q[3], "free", {"node"}, {})
  BY DEF build_header, Under, Does, Free, Step
<1> HIDE DEF q
<1> SUFFICES ASSUME NEW r, r.name = "build_header", r.keeps = {}, r.steps = q
             PROVE  Disciplined(r)
  BY DEF Routine, q
<1>5. Objects(r) = {"node"} /\ Gives(r) = {}
  BY <1>1, <1>2, <1>3, <1>4 DEF Objects, Gives, Does
<1>6. \A n \in 1..4 : CallDisciplined(r, n)
  BY <1>2, <1>3, <1>4, <1>5
     DEF CallDisciplined, IsSecret, Out, Sure, Made, Given, Gone, Past, Does
<1>7. Out(r, 5) = {} /\ {} \subseteq Sure(r, 5)
  BY <1>2, <1>3, <1>4, <1>5
     DEF Out, Sure, Made, Given, Gone, Past, Does
<1>8. QED
  BY <1>1, <1>2, <1>3, <1>4, <1>5, <1>6, <1>7
     DEF Disciplined, EndDisciplined, Shallow, IsSecret, Here, SecretCopies

\* nxe_jwx_build_rsa_key and _ec_key under 3.0: everything but the key goes.
LEMMA BuildKey30 ==
  \A v : Disciplined(Routine("build_key", v, {"pkey"}, build_key_30))
<1> DEFINE q == build_key_30
           F == {"params", "bld", "ctx"}
<1>1. Len(q) = 8 /\ DOMAIN q = 1..8
  BY DEF build_key_30, Under
<1>2. Does(q[1], "make", {"bld"}, F)
  BY DEF build_key_30, Under, Does, New, Step
<1>3. Does(q[4], "make", {"params"}, F)
  BY DEF build_key_30, Under, Does, New, Step
<1>4. Does(q[5], "make", {"ctx"}, F)
  BY DEF build_key_30, Under, Does, New, Step
<1>5. Does(q[7], "make", {"pkey"}, F)
  BY DEF build_key_30, Under, Does, New, Step
<1>6. Does(q[2], "call", {}, F)
  BY DEF build_key_30, Under, Does, Call, Step
<1>7. Does(q[3], "call", {}, F)
  BY DEF build_key_30, Under, Does, Call, Step
<1>8. Does(q[6], "call", {}, F)
  BY DEF build_key_30, Under, Does, Call, Step
<1>9. Does(q[8], "free", {"params", "bld", "ctx"}, {})
  BY DEF build_key_30, Under, Does, Free, Step
<1> HIDE DEF q
<1> SUFFICES ASSUME NEW r, r.name = "build_key", r.keeps = {"pkey"}, r.steps = q
             PROVE  Disciplined(r)
  BY DEF Routine, q
<1>10. Objects(r) = {"params", "bld", "ctx", "pkey"} /\ Gives(r) = {}
  BY <1>1, <1>2, <1>3, <1>4, <1>5, <1>6, <1>7, <1>8, <1>9 DEF Objects, Gives, Does
<1>11. \A n \in 1..8 : CallDisciplined(r, n)
  BY <1>2, <1>3, <1>4, <1>5, <1>6, <1>7, <1>8, <1>9, <1>10
     DEF CallDisciplined, IsSecret, Out, Sure, Made, Given, Gone, Past, Does
<1>12. Out(r, 9) = {"pkey"} /\ {"pkey"} \subseteq Sure(r, 9)
  BY <1>2, <1>3, <1>4, <1>5, <1>6, <1>7, <1>8, <1>9, <1>10
     DEF Out, Sure, Made, Given, Gone, Past, Does
<1>13. QED
  BY <1>1, <1>2, <1>3, <1>4, <1>5, <1>6, <1>7, <1>8, <1>9, <1>10, <1>11, <1>12
     DEF Disciplined, EndDisciplined, Shallow, IsSecret, Here, SecretCopies

\* nxe_jwx_build_rsa_key under 1.1: n and e go to rsa, and rsa to pkey, the
\* longest chain of owners there is.
LEMMA BuildRsa11 ==
  \A v : Disciplined(Routine("build_rsa_key", v, {"pkey"}, build_rsa_key_11))
<1> DEFINE q == build_rsa_key_11
           F == {"pkey", "rsa", "n_dup", "e_dup"}
<1>1. Len(q) = 7 /\ DOMAIN q = 1..7
  BY DEF build_rsa_key_11, Under
<1>2. Does(q[1], "try", {"n_dup"}, F)
  BY DEF build_rsa_key_11, Under, Does, Try, Step
<1>3. Does(q[2], "try", {"e_dup"}, F)
  BY DEF build_rsa_key_11, Under, Does, Try, Step
<1>4. Does(q[3], "need", {"n_dup", "e_dup"}, F)
  BY DEF build_rsa_key_11, Under, Does, Need, Step
<1>5. Does(q[4], "make", {"rsa"}, F)
  BY DEF build_rsa_key_11, Under, Does, New, Step
<1>6. Does(q[6], "make", {"pkey"}, F)
  BY DEF build_rsa_key_11, Under, Does, New, Step
<1>7. Hands(q[5], {"n_dup", "e_dup"}, "rsa", {}, F)
  BY DEF build_rsa_key_11, Under, Hands, Give, Step
<1>8. Hands(q[7], {"rsa"}, "pkey", {"pkey"}, F)
  BY DEF build_rsa_key_11, Under, Hands, Assign, Give, Step
<1> HIDE DEF q
<1> SUFFICES ASSUME NEW r, r.name = "build_rsa_key", r.keeps = {"pkey"}, r.steps = q
             PROVE  Disciplined(r)
  BY DEF Routine, q
<1>9. Objects(r) = {"pkey", "rsa", "n_dup", "e_dup"} /\ Gives(r) = {5, 7}
  BY <1>1, <1>2, <1>3, <1>4, <1>5, <1>6, <1>7, <1>8 DEF Objects, Gives, Does, Hands
<1>10. \A n \in 1..7 : CallDisciplined(r, n)
  <2>1. \A n \in 1..4 : CallDisciplined(r, n)
    BY <1>2, <1>3, <1>4, <1>5, <1>6, <1>7, <1>8, <1>9
       DEF CallDisciplined, IsSecret, Out, Sure, Made, Given, Gone, Past, Does, Hands
  <2>2. \A n \in {5, 6} : CallDisciplined(r, n)
    BY <1>2, <1>3, <1>4, <1>5, <1>6, <1>7, <1>8, <1>9
       DEF CallDisciplined, IsSecret, Out, Sure, Made, Given, Gone, Past, Does, Hands
  <2>3. CallDisciplined(r, 7)
    BY <1>2, <1>3, <1>4, <1>5, <1>6, <1>7, <1>8, <1>9
       DEF CallDisciplined, IsSecret, Out, Sure, Made, Given, Gone, Past, Does, Hands
  <2>4. QED
    BY <2>1, <2>2, <2>3
<1>11. Out(r, 8) = {"pkey"} /\ {"pkey"} \subseteq Sure(r, 8)
  BY <1>2, <1>3, <1>4, <1>5, <1>6, <1>7, <1>8, <1>9
     DEF Out, Sure, Made, Given, Gone, Past, Does, Hands
<1>12. QED
  BY <1>1, <1>2, <1>3, <1>4, <1>5, <1>6, <1>7, <1>8, <1>9, <1>10, <1>11
     DEF Disciplined, EndDisciplined, Shallow, IsSecret, Here, SecretCopies, Hands

\* nxe_jwx_build_ec_key under 1.1: ec goes to pkey.
LEMMA BuildEc11 ==
  \A v : Disciplined(Routine("build_ec_key", v, {"pkey"}, build_ec_key_11))
<1> DEFINE q == build_ec_key_11
           F == {"pkey", "ec"}
<1>1. Len(q) = 4 /\ DOMAIN q = 1..4
  BY DEF build_ec_key_11, Under
<1>2. /\ Does(q[1], "make", {"ec"}, F) /\ Does(q[3], "make", {"pkey"}, F)
  BY DEF build_ec_key_11, Under, Does, New, Step
<1>3. Does(q[2], "call", {}, F)
  BY DEF build_ec_key_11, Under, Does, Call, Step
<1>4. Hands(q[4], {"ec"}, "pkey", {"pkey"}, F)
  BY DEF build_ec_key_11, Under, Hands, Assign, Give, Step
<1> HIDE DEF q
<1> SUFFICES ASSUME NEW r, r.name = "build_ec_key", r.keeps = {"pkey"}, r.steps = q
             PROVE  Disciplined(r)
  BY DEF Routine, q
<1>5. Objects(r) = {"pkey", "ec"} /\ Gives(r) = {4}
  BY <1>1, <1>2, <1>3, <1>4 DEF Objects, Gives, Does, Hands
<1>6. \A n \in 1..4 : CallDisciplined(r, n)
  BY <1>2, <1>3, <1>4, <1>5
     DEF CallDisciplined, IsSecret, Out, Sure, Made, Given, Gone, Past, Does, Hands
<1>7. Out(r, 5) = {"pkey"} /\ {"pkey"} \subseteq Sure(r, 5)
  BY <1>2, <1>3, <1>4, <1>5
     DEF Out, Sure, Made, Given, Gone, Past, Does, Hands
<1>8. QED
  BY <1>1, <1>2, <1>3, <1>4, <1>5, <1>6, <1>7
     DEF Disciplined, EndDisciplined, Shallow, IsSecret, Here, SecretCopies, Hands

\* nxe_jwx_parse_rsa: n and e go, of which the key has copies.
LEMMA ParseRsa ==
  \A v : Disciplined(Routine("parse_rsa", v, {"pkey"}, parse_rsa))
<1> DEFINE q == parse_rsa
           F == {"n_bn", "e_bn"}
<1>1. Len(q) = 8 /\ DOMAIN q = 1..8
  BY DEF parse_rsa, Under
<1>2. Does(q[1], "call", {}, {})
  BY DEF parse_rsa, Under, Does, Call, Step
<1>3. Does(q[2], "call", {}, {})
  BY DEF parse_rsa, Under, Does, Call, Step
<1>4. Does(q[6], "call", {}, F)
  BY DEF parse_rsa, Under, Does, Call, Step
<1>5. Does(q[3], "try", {"n_bn"}, F)
  BY DEF parse_rsa, Under, Does, Try, Step
<1>6. Does(q[4], "try", {"e_bn"}, F)
  BY DEF parse_rsa, Under, Does, Try, Step
<1>7. Does(q[5], "need", {"n_bn", "e_bn"}, F)
  BY DEF parse_rsa, Under, Does, Need, Step
<1>8. Does(q[7], "make", {"pkey"}, F)
  BY DEF parse_rsa, Under, Does, New, Step
<1>9. Does(q[8], "free", {"n_bn", "e_bn"}, {})
  BY DEF parse_rsa, Under, Does, Free, Step
<1> HIDE DEF q
<1> SUFFICES ASSUME NEW r, r.name = "parse_rsa", r.keeps = {"pkey"}, r.steps = q
             PROVE  Disciplined(r)
  BY DEF Routine, q
<1>10. Objects(r) = {"n_bn", "e_bn", "pkey"} /\ Gives(r) = {}
  BY <1>1, <1>2, <1>3, <1>4, <1>5, <1>6, <1>7, <1>8, <1>9 DEF Objects, Gives, Does
<1>11. \A n \in 1..8 : CallDisciplined(r, n)
  BY <1>2, <1>3, <1>4, <1>5, <1>6, <1>7, <1>8, <1>9, <1>10
     DEF CallDisciplined, IsSecret, Out, Sure, Made, Given, Gone, Past, Does
<1>12. Out(r, 9) = {"pkey"} /\ {"pkey"} \subseteq Sure(r, 9)
  BY <1>2, <1>3, <1>4, <1>5, <1>6, <1>7, <1>8, <1>9, <1>10
     DEF Out, Sure, Made, Given, Gone, Past, Does
<1>13. QED
  BY <1>1, <1>2, <1>3, <1>4, <1>5, <1>6, <1>7, <1>8, <1>9, <1>10, <1>11, <1>12
     DEF Disciplined, EndDisciplined, Shallow, IsSecret, Here, SecretCopies

\* nxe_jwx_thumbprint_rsa under 3.0: n and e go.
LEMMA ThumbprintRsa30 ==
  \A v : Disciplined(Routine("thumbprint_rsa", v, {}, thumbprint_rsa_30))
<1> DEFINE q == thumbprint_rsa_30
           F == {"n", "e"}
<1>1. Len(q) = 6 /\ DOMAIN q = 1..6
  BY DEF thumbprint_rsa_30, Under
<1>2. /\ Does(q[1], "make", {"n"}, F) /\ Does(q[2], "make", {"e"}, F)
  BY DEF thumbprint_rsa_30, Under, Does, New, Step
<1>3. /\ Does(q[3], "call", {}, F) /\ Does(q[4], "call", {}, F)
  BY DEF thumbprint_rsa_30, Under, Does, Call, Step
<1>4. Does(q[6], "call", {}, {})
  BY DEF thumbprint_rsa_30, Under, Does, Call, Step
<1>5. Does(q[5], "free", {"n", "e"}, {})
  BY DEF thumbprint_rsa_30, Under, Does, Free, Step
<1> HIDE DEF q
<1> SUFFICES ASSUME NEW r, r.name = "thumbprint_rsa", r.keeps = {}, r.steps = q
             PROVE  Disciplined(r)
  BY DEF Routine, q
<1>6. Objects(r) = {"n", "e"} /\ Gives(r) = {}
  BY <1>1, <1>2, <1>3, <1>4, <1>5 DEF Objects, Gives, Does
<1>7. \A n \in 1..6 : CallDisciplined(r, n)
  BY <1>2, <1>3, <1>4, <1>5, <1>6
     DEF CallDisciplined, IsSecret, Out, Sure, Made, Given, Gone, Past, Does
<1>8. Out(r, 7) = {} /\ {} \subseteq Sure(r, 7)
  BY <1>2, <1>3, <1>4, <1>5, <1>6
     DEF Out, Sure, Made, Given, Gone, Past, Does
<1>9. QED
  BY <1>1, <1>2, <1>3, <1>4, <1>5, <1>6, <1>7, <1>8
     DEF Disciplined, EndDisciplined, Shallow, IsSecret, Here, SecretCopies

\* nxe_jwx_thumbprint_ec under 3.0: x and y go.
LEMMA ThumbprintEc30 ==
  \A v : Disciplined(Routine("thumbprint_ec", v, {}, thumbprint_ec_30))
<1> DEFINE q == thumbprint_ec_30
           F == {"x", "y"}
<1>1. Len(q) = 7 /\ DOMAIN q = 1..7
  BY DEF thumbprint_ec_30, Under
<1>2. Does(q[1], "call", {}, {})
  BY DEF thumbprint_ec_30, Under, Does, Call, Step
<1>3. Does(q[4], "call", {}, F)
  BY DEF thumbprint_ec_30, Under, Does, Call, Step
<1>4. Does(q[5], "call", {}, F)
  BY DEF thumbprint_ec_30, Under, Does, Call, Step
<1>5. Does(q[7], "call", {}, {})
  BY DEF thumbprint_ec_30, Under, Does, Call, Step
<1>6. Does(q[2], "make", {"x"}, F)
  BY DEF thumbprint_ec_30, Under, Does, New, Step
<1>7. Does(q[3], "make", {"y"}, F)
  BY DEF thumbprint_ec_30, Under, Does, New, Step
<1>8. Does(q[6], "free", {"x", "y"}, {})
  BY DEF thumbprint_ec_30, Under, Does, Free, Step
<1> HIDE DEF q
<1> SUFFICES ASSUME NEW r, r.name = "thumbprint_ec", r.keeps = {}, r.steps = q
             PROVE  Disciplined(r)
  BY DEF Routine, q
<1>9. Objects(r) = {"x", "y"} /\ Gives(r) = {}
  BY <1>1, <1>2, <1>3, <1>4, <1>5, <1>6, <1>7, <1>8 DEF Objects, Gives, Does
<1>10. \A n \in 1..7 : CallDisciplined(r, n)
  BY <1>2, <1>3, <1>4, <1>5, <1>6, <1>7, <1>8, <1>9
     DEF CallDisciplined, IsSecret, Out, Sure, Made, Given, Gone, Past, Does
<1>11. Out(r, 8) = {} /\ {} \subseteq Sure(r, 8)
  BY <1>2, <1>3, <1>4, <1>5, <1>6, <1>7, <1>8, <1>9
     DEF Out, Sure, Made, Given, Gone, Past, Does
<1>12. QED
  BY <1>1, <1>2, <1>3, <1>4, <1>5, <1>6, <1>7, <1>8, <1>9, <1>10, <1>11
     DEF Disciplined, EndDisciplined, Shallow, IsSecret, Here, SecretCopies

\* nxe_jwx_thumbprint_ec under 1.1: x and y, which are tested together, go.
LEMMA ThumbprintEc11 ==
  \A v : Disciplined(Routine("thumbprint_ec", v, {}, thumbprint_ec_11))
<1> DEFINE q == thumbprint_ec_11
           F == {"x", "y"}
<1>1. Len(q) = 11 /\ DOMAIN q = 1..11
  BY DEF thumbprint_ec_11, Under
<1>2. Does(q[1], "call", {}, {})
  BY DEF thumbprint_ec_11, Under, Does, Call, Step
<1>3. Does(q[2], "call", {}, {})
  BY DEF thumbprint_ec_11, Under, Does, Call, Step
<1>4. Does(q[3], "call", {}, {})
  BY DEF thumbprint_ec_11, Under, Does, Call, Step
<1>5. Does(q[7], "call", {}, F)
  BY DEF thumbprint_ec_11, Under, Does, Call, Step
<1>6. Does(q[8], "call", {}, F)
  BY DEF thumbprint_ec_11, Under, Does, Call, Step
<1>7. Does(q[9], "call", {}, F)
  BY DEF thumbprint_ec_11, Under, Does, Call, Step
<1>8. Does(q[11], "call", {}, {})
  BY DEF thumbprint_ec_11, Under, Does, Call, Step
<1>9. Does(q[4], "try", {"x"}, F)
  BY DEF thumbprint_ec_11, Under, Does, Try, Step
<1>10. Does(q[5], "try", {"y"}, F)
  BY DEF thumbprint_ec_11, Under, Does, Try, Step
<1>11. Does(q[6], "need", {"x", "y"}, F)
  BY DEF thumbprint_ec_11, Under, Does, Need, Step
<1>12. Does(q[10], "free", {"x", "y"}, {})
  BY DEF thumbprint_ec_11, Under, Does, Free, Step
<1> HIDE DEF q
<1> SUFFICES ASSUME NEW r, r.name = "thumbprint_ec", r.keeps = {}, r.steps = q
             PROVE  Disciplined(r)
  BY DEF Routine, q
<1>13. Objects(r) = {"x", "y"} /\ Gives(r) = {}
  BY <1>1, <1>2, <1>3, <1>4, <1>5, <1>6, <1>7, <1>8, <1>9, <1>10, <1>11, <1>12
     DEF Objects, Gives, Does
<1>14. \A n \in 1..11 : CallDisciplined(r, n)
  BY <1>2, <1>3, <1>4, <1>5, <1>6, <1>7, <1>8, <1>9, <1>10, <1>11, <1>12, <1>13
     DEF CallDisciplined, IsSecret, Out, Sure, Made, Given, Gone, Past, Does
<1>15. Out(r, 12) = {} /\ {} \subseteq Sure(r, 12)
  BY <1>2, <1>3, <1>4, <1>5, <1>6, <1>7, <1>8, <1>9, <1>10, <1>11, <1>12, <1>13
     DEF Out, Sure, Made, Given, Gone, Past, Does
<1>16. QED
  BY <1>1, <1>2, <1>3, <1>4, <1>5, <1>6, <1>7, <1>8, <1>9, <1>10, <1>11, <1>12,
     <1>13, <1>14, <1>15
     DEF Disciplined, EndDisciplined, Shallow, IsSecret, Here, SecretCopies

\* nxe_jwx_jwk_thumbprint of an oct key: when a call fails there is one copy
\* of the secret at most, and none is left at the end.
LEMMA Thumbprint ==
  \A v : Disciplined(Routine("jwk_thumbprint", v, {}, jwk_thumbprint))
<1> DEFINE q == jwk_thumbprint
<1>1. Len(q) = 7 /\ DOMAIN q = 1..7
  BY DEF jwk_thumbprint, thumbprint_oct
<1>2. Does(q[1], "make", {"k_b64"}, {})
  BY DEF jwk_thumbprint, thumbprint_oct, Does, New, Step
<1>3. Does(q[2], "make", {"json"}, {})
  BY DEF jwk_thumbprint, thumbprint_oct, Does, New, Step
<1>4. Does(q[3], "free", {"k_b64"}, {})
  BY DEF jwk_thumbprint, thumbprint_oct, Does, Free, Step
<1>5. Does(q[6], "free", {"json"}, {})
  BY DEF jwk_thumbprint, thumbprint_oct, Does, Free, Step
<1>6. Does(q[4], "call", {}, {})
  BY DEF jwk_thumbprint, thumbprint_oct, Does, Call, Step
<1>7. Does(q[5], "call", {}, {})
  BY DEF jwk_thumbprint, thumbprint_oct, Does, Call, Step
<1>8. Does(q[7], "call", {}, {})
  BY DEF jwk_thumbprint, thumbprint_oct, Does, Call, Step
<1> HIDE DEF q
<1> SUFFICES ASSUME NEW r, r.name = "jwk_thumbprint", r.keeps = {}, r.steps = q
             PROVE  Disciplined(r)
  BY DEF Routine, q
<1>9. Objects(r) = {"k_b64", "json"} /\ Gives(r) = {}
  BY <1>1, <1>2, <1>3, <1>4, <1>5, <1>6, <1>7, <1>8 DEF Objects, Gives, Does
<1>10. \A n \in 1..7 : CallDisciplined(r, n)
  BY <1>2, <1>3, <1>4, <1>5, <1>6, <1>7, <1>8, <1>9
     DEF CallDisciplined, IsSecret, Out, Sure, Made, Given, Gone, Past, Does
<1>11. Out(r, 8) = {} /\ {} \subseteq Sure(r, 8)
  BY <1>2, <1>3, <1>4, <1>5, <1>6, <1>7, <1>8, <1>9
     DEF Out, Sure, Made, Given, Gone, Past, Does
<1>12. QED
  BY <1>1, <1>2, <1>3, <1>4, <1>5, <1>6, <1>7, <1>8, <1>9, <1>10, <1>11
     DEF Disciplined, EndDisciplined, Shallow, IsSecret, Here, SecretCopies

\* Every function that makes OpenSSL or JSON objects keeps the discipline.
LEMMA AllDisciplined == \A r \in All : Disciplined(r)
BY RawToDer, EvpVerify, HmacVerify, DerToRaw, EvpSign, HmacSign, LoadPem,
   ClaimsObject, BuildHeader, BuildKey30, BuildRsa11, BuildEc11, ParseRsa,
   ThumbprintRsa30, ThumbprintEc30, ThumbprintEc11, Thumbprint
   DEF All

-----------------------------------------------------------------------------
(* The theorems. *)

\* At its first call a function has made nothing, and its pointers are NULL
\* (jws.c:121-122).
LEMMA Starts == Init => IInv
<1>1. SUFFICES ASSUME Init PROVE Whole /\ PointersInv /\ OwnersInv /\ ret = "none"
  BY DEF IInv
<1>2. Disciplined(routine) /\ at = 1 /\ ptr = {} /\ ret = "none"
  BY <1>1, AllDisciplined DEF Init
<1>3. Whole
  BY <1>1, <1>2 DEF Init, Whole, Disciplined
<1>4. \A kinds : Past(routine, kinds, 1) = {}
  BY DEF Past
<1>5. \A t \in Objects(routine) : obj[t] = "none" /\ owner[t] = Here
  BY <1>1 DEF Init
<1>6. Roots = Objects(routine)
  BY <1>3, <1>5 DEF Roots, Whole
<1>7. PointersInv
  BY <1>2, <1>4, <1>5, <1>6 DEF PointersInv, Given, Made, Gone, Sure
<1>8. OwnersInv
  BY <1>3, <1>6 DEF OwnersInv, Whole
<1>9. QED
  BY <1>2, <1>3, <1>7, <1>8

\* Whatever call comes next, and whether or not it fails.
LEMMA StepKeeps == IInv /\ [Next]_vars => IInv'
<1>1. SUFFICES ASSUME IInv, [Next]_vars PROVE IInv'
  OBVIOUS
<1>2. CASE Make
  BY <1>1, <1>2, MakeKeeps
<1>3. CASE TryFails \/ Pass
  BY <1>1, <1>3, PassKeeps
<1>4. CASE Transfer
  BY <1>1, <1>4, TransferKeeps
<1>5. CASE Release
  BY <1>1, <1>5, ReleaseKeeps
<1>6. CASE Fails
  BY <1>1, <1>6, FailsKeeps
<1>7. CASE Return
  BY <1>1, <1>7, ReturnKeeps
<1>8. CASE UNCHANGED vars
  <2>1. UNCHANGED <<routine, at, ptr, obj, owner, ret>>
    BY <1>8 DEF vars
  <2>2. Whole' = Whole /\ PointersInv' = PointersInv /\ OwnersInv' = OwnersInv
    BY <2>1 DEF Whole, PointersInv, OwnersInv, Roots
  <2>3. TempsBalanced' = TempsBalanced /\ SecretCopiesCleansed' = SecretCopiesCleansed
    BY <2>1 DEF TempsBalanced, SecretCopiesCleansed, IsThumbprint, Kept, Released
  <2>4. QED
    BY <1>1, <2>1, <2>2, <2>3 DEF IInv
<1>9. QED
  BY <1>1, <1>2, <1>3, <1>4, <1>5, <1>6, <1>7, <1>8 DEF Next

\* The invariant of a function between two of its calls.
THEOREM TempsInductive == Spec => []IInv
BY Starts, StepKeeps, PTL DEF Spec

\* Before a function returns nothing it made was freed twice.
LEMMA Balanced == IInv => TempsBalanced /\ SecretCopiesCleansed
<1>1. SUFFICES ASSUME IInv, ret = "none" PROVE TempsBalanced /\ SecretCopiesCleansed
  BY DEF IInv
<1>2. Whole /\ PointersInv /\ OwnersInv
  BY <1>1 DEF IInv
<1>3. ASSUME NEW t \in DOMAIN obj PROVE obj[t] # "double"
  <2>1. PICK f \in Roots : obj[t] = obj[f]
    BY <1>2, RootOf DEF Whole
  <2>2. QED
    BY <1>2, <2>1 DEF PointersInv
<1>4. QED
  BY <1>1, <1>3 DEF TempsBalanced, SecretCopiesCleansed

\* Whichever call of whichever function fails, under either build, everything
\* it made is given back exactly once, and a success keeps the key alone.
THEOREM TempsBalancedAlways == Spec => []TempsBalanced
BY TempsInductive, Balanced, PTL

\* A thumbprint of an oct key leaves no copy of the secret in the pool, and a
\* failure to make one leaves one copy at most.
THEOREM SecretCopiesCleansedAlways == Spec => []SecretCopiesCleansed
BY TempsInductive, Balanced, PTL

=============================================================================
