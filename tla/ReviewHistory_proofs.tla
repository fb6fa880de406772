------------------------ MODULE ReviewHistory_proofs ------------------------
(***************************************************************************)
(* ReviewHistory for every set of problems, every quota and any number of  *)
(* saves and crashes: unlocks survive the pruning of what earned them,     *)
(* answers to a replaced quiz are refused, and the cached counter is the   *)
(* sum of the rows, kept within the quota by giving up the oldest rows and *)
(* no more.  What a sum computes is shown by induction over the subsets of *)
(* a finite set: a set of exceptions has a smallest one.                   *)
(***************************************************************************)
EXTENDS ReviewHistory, FiniteSetTheorems, WellFoundedInduction, TLAPS

-----------------------------------------------------------------------------
(* Sums of bytes *)

\* Induction over the subsets of a finite set: of those that are an exception
\* to a claim, one has no smaller exception.
LEMMA SmallestSet ==
    ASSUME NEW S, IsFiniteSet(S), NEW T \in SUBSET SUBSET S, T # {}
    PROVE  \E m \in T : \A u \in T : u \subseteq m => u = m
<1>1. IsWellFoundedOn(StrictSubsetOrdering(S), FiniteSubsetsOf(S))
  BY FS_StrictSubsetOrderingWellFounded
<1>2. T \subseteq FiniteSubsetsOf(S)
  BY FS_Subset DEF FiniteSubsetsOf
<1>3. PICK m \in T : \A y \in T : <<y, m>> \notin StrictSubsetOrdering(S)
  BY <1>1, <1>2, WFMin
<1>4. ASSUME NEW u \in T, u \subseteq m PROVE u = m
  BY <1>2, <1>3, <1>4 DEF StrictSubsetOrdering
<1>. QED
  BY <1>3, <1>4

\* The element that the sum of s takes next.
Any(s) == CHOOSE x \in s : TRUE

\* g is the sum of each part of R, as MapThenSumSet computes it.
AddsUp(g, R) ==
    g = [s \in SUBSET R |-> IF s = {} THEN 0 ELSE Any(s).bytes + g[s \ {Any(s)}]]

LEMMA AnyIn == ASSUME NEW s, s # {} PROVE Any(s) \in s
  BY DEF Any

LEMMA BytesIs == ASSUME NEW R PROVE Bytes(R) = (CHOOSE g : AddsUp(g, R))[R]
  BY DEF Bytes, MapThenSumSet, MapThenFoldSet, AddsUp, Any

LEMMA AddsUpAt ==
    ASSUME NEW g, NEW R, AddsUp(g, R), NEW s \in SUBSET R
    PROVE  g[s] = IF s = {} THEN 0 ELSE Any(s).bytes + g[s \ {Any(s)}]
  BY DEF AddsUp

LEMMA SumIsUnique ==
    ASSUME NEW R, NEW S, IsFiniteSet(R), NEW g, NEW h, AddsUp(g, R), AddsUp(h, S)
    PROVE  \A s \in SUBSET (R \cap S) : g[s] = h[s]
<1> DEFINE T == {s \in SUBSET (R \cap S) : g[s] # h[s]}
<1> SUFFICES ASSUME T # {} PROVE FALSE
  OBVIOUS
<1>1. PICK m \in T : \A u \in T : u \subseteq m => u = m
  <2>1. T \in SUBSET SUBSET R
    OBVIOUS
  <2> HIDE DEF T
  <2>. QED
    BY <2>1, SmallestSet
<1>2. m \in SUBSET R /\ m \in SUBSET S /\ g[m] # h[m]
  BY <1>1
<1>3. m # {}
  BY <1>2, AddsUpAt
<1>4. Any(m) \in m
  BY <1>3, AnyIn
<1>5. m \ {Any(m)} \notin T
  BY <1>1, <1>4
<1>6. g[m \ {Any(m)}] = h[m \ {Any(m)}]
  BY <1>2, <1>5
<1>7. g[m] = Any(m).bytes + g[m \ {Any(m)}]
  BY <1>2, <1>3, AddsUpAt
<1>8. h[m] = Any(m).bytes + h[m \ {Any(m)}]
  BY <1>2, <1>3, AddsUpAt
<1>. QED
  BY <1>2, <1>6, <1>7, <1>8

LEMMA SumExists ==
    ASSUME NEW R, IsFiniteSet(R)
    PROVE  \E g : AddsUp(g, R)
<1> DEFINE T == {s \in SUBSET R : ~\E g : AddsUp(g, s)}
<1> SUFFICES ASSUME T # {} PROVE FALSE
  OBVIOUS
<1>1. PICK m \in T : \A u \in T : u \subseteq m => u = m
  <2>1. T \in SUBSET SUBSET R
    OBVIOUS
  <2> HIDE DEF T
  <2>. QED
    BY <2>1, SmallestSet
<1>2. m \in SUBSET R /\ ~\E g : AddsUp(g, m)
  BY <1>1
<1> DEFINE G(s) == CHOOSE g : AddsUp(g, s)
<1>3. ASSUME NEW s \in SUBSET m, s # m PROVE AddsUp(G(s), s)
  <2>1. s \in SUBSET R /\ s \notin T
    BY <1>1, <1>2, <1>3
  <2>2. \E g : AddsUp(g, s)
    BY <2>1
  <2>. QED
    BY <2>2
<1> DEFINE top == IF m = {} THEN 0 ELSE Any(m).bytes + G(m \ {Any(m)})[m \ {Any(m)}]
           h == [s \in SUBSET m |-> IF s = m THEN top ELSE G(s)[s]]
<1> HIDE DEF T, G, top
<1>4. ASSUME NEW s \in SUBSET m
      PROVE  h[s] = IF s = {} THEN 0 ELSE Any(s).bytes + h[s \ {Any(s)}]
  <2>1. s # {} => Any(s) \in s /\ s \ {Any(s)} \in SUBSET m /\ s \ {Any(s)} # m
    BY AnyIn
  <2>2. CASE s = m
    BY <2>1, <2>2 DEF top
  <2>3. CASE s # m /\ s = {}
    BY <1>3, <2>3, AddsUpAt
  <2>4. CASE s # m /\ s # {}
    <3> DEFINE u == s \ {Any(s)}
    <3>1. AddsUp(G(s), s) /\ AddsUp(G(u), u) /\ IsFiniteSet(s)
      BY <1>2, <1>3, <2>1, <2>4, FS_Subset
    <3>2. G(s)[s] = Any(s).bytes + G(s)[u]
      BY <2>4, <3>1, AddsUpAt
    <3>3. G(s)[u] = G(u)[u]
      <4>1. u \in SUBSET (s \cap u)
        OBVIOUS
      <4>. QED
        BY <3>1, <4>1, SumIsUnique
    <3>4. h[s] = G(s)[s] /\ h[u] = G(u)[u]
      BY <2>1, <2>4
    <3>. QED
      BY <2>4, <3>2, <3>3, <3>4
  <2>. QED
    BY <2>2, <2>3, <2>4
<1>5. AddsUp(h, m)
  <2>1. h = [s \in SUBSET m |-> h[s]]
    OBVIOUS
  <2> HIDE DEF h
  <2>. QED
    BY <1>4, <2>1 DEF AddsUp
<1>. QED
  BY <1>2, <1>5

\* What Bytes computes: nothing for no records, else some record and the rest.
LEMMA BytesStep ==
    ASSUME NEW R, IsFiniteSet(R)
    PROVE  Bytes(R) = IF R = {} THEN 0 ELSE Any(R).bytes + Bytes(R \ {Any(R)})
<1> DEFINE G(s) == CHOOSE g : AddsUp(g, s)
           u == R \ {Any(R)}
<1>1. IsFiniteSet(u)
  BY FS_Subset
<1>2. AddsUp(G(R), R) /\ AddsUp(G(u), u)
  BY <1>1, SumExists
<1>3. Bytes(R) = G(R)[R] /\ Bytes(u) = G(u)[u]
  BY BytesIs
<1> HIDE DEF G
<1>4. G(R)[u] = G(u)[u]
  BY <1>2, SumIsUnique
<1>5. G(R)[R] = IF R = {} THEN 0 ELSE Any(R).bytes + G(R)[u]
  BY <1>2, AddsUpAt
<1>. QED
  BY <1>3, <1>4, <1>5

Sized(R) == IsFiniteSet(R) /\ \A r \in R : r.bytes \in Nat

LEMMA SizedPart == ASSUME NEW R, Sized(R), NEW S \in SUBSET R PROVE Sized(S)
  BY FS_Subset DEF Sized

LEMMA BytesType ==
    ASSUME NEW R, Sized(R)
    PROVE  Bytes(R) \in Nat
<1> DEFINE T == {s \in SUBSET R : Bytes(s) \notin Nat}
<1> SUFFICES ASSUME T # {} PROVE FALSE
  OBVIOUS
<1>1. PICK m \in T : \A u \in T : u \subseteq m => u = m
  <2>1. T \in SUBSET SUBSET R
    OBVIOUS
  <2> HIDE DEF T
  <2>. QED
    BY <2>1, SmallestSet DEF Sized
<1>2. m \in SUBSET R /\ Bytes(m) \notin Nat
  BY <1>1
<1>3. Sized(m) /\ IsFiniteSet(m)
  BY <1>2, SizedPart DEF Sized
<1>4. m # {} => /\ Any(m) \in m
                /\ Any(m).bytes \in Nat
                /\ Bytes(m \ {Any(m)}) \in Nat
  BY <1>1, <1>3, AnyIn DEF Sized
<1>. QED
  BY <1>2, <1>3, <1>4, BytesStep

\* The order in which the sum takes the records does not matter.
LEMMA BytesWithout ==
    ASSUME NEW R, Sized(R), NEW x \in R
    PROVE  Bytes(R) = x.bytes + Bytes(R \ {x})
<1> DEFINE T == {s \in SUBSET R : \E y \in s : Bytes(s) # y.bytes + Bytes(s \ {y})}
<1> SUFFICES ASSUME T # {} PROVE FALSE
  OBVIOUS
<1>1. PICK m \in T : \A u \in T : u \subseteq m => u = m
  <2>1. T \in SUBSET SUBSET R
    OBVIOUS
  <2> HIDE DEF T
  <2>. QED
    BY <2>1, SmallestSet DEF Sized
<1>2. m \in SUBSET R
  BY <1>1
<1>3. PICK y \in m : Bytes(m) # y.bytes + Bytes(m \ {y})
  BY <1>1
<1> DEFINE z == Any(m)
<1>4. Sized(m) /\ IsFiniteSet(m)
  BY <1>2, SizedPart DEF Sized
<1>5. z \in m
  BY <1>3, AnyIn
<1>6. Bytes(m) = z.bytes + Bytes(m \ {z})
  BY <1>3, <1>4, BytesStep
<1> HIDE DEF z
<1>7. y # z
  BY <1>3, <1>6
<1>8. m \ {z} \notin T /\ m \ {y} \notin T
  <2>1. m \ {z} # m /\ m \ {y} # m /\ m \ {z} \subseteq m /\ m \ {y} \subseteq m
    BY <1>3, <1>5
  <2>. QED
    BY <1>1, <2>1
<1>9. Bytes(m \ {z}) = y.bytes + Bytes((m \ {z}) \ {y})
  BY <1>2, <1>3, <1>7, <1>8
<1>10. Bytes(m \ {y}) = z.bytes + Bytes((m \ {y}) \ {z})
  BY <1>2, <1>5, <1>7, <1>8
<1>11. (m \ {z}) \ {y} = (m \ {y}) \ {z}
  OBVIOUS
<1>12. y.bytes \in Nat /\ z.bytes \in Nat /\ Bytes((m \ {y}) \ {z}) \in Nat
  <2>1. Sized((m \ {y}) \ {z})
    BY <1>4, SizedPart
  <2>. QED
    BY <1>3, <1>4, <1>5, <2>1, BytesType DEF Sized
<1>13. Bytes(m) = y.bytes + Bytes(m \ {y})
  <2>1. \A a, b, c \in Nat : a + (b + c) = b + (a + c)
    OBVIOUS
  <2>2. Bytes(m) = z.bytes + (y.bytes + Bytes((m \ {y}) \ {z}))
    BY <1>6, <1>9, <1>11, Zenon
  <2>3. Bytes(m) = y.bytes + (z.bytes + Bytes((m \ {y}) \ {z}))
    BY <1>12, <2>1, <2>2, Zenon
  <2>. QED
    BY <1>10, <2>3, Zenon
<1>. QED
  BY <1>3, <1>13

\* The bytes of two parts add up.
LEMMA BytesSplit ==
    ASSUME NEW R, Sized(R), NEW S \in SUBSET R
    PROVE  Bytes(R) = Bytes(S) + Bytes(R \ S)
<1> DEFINE T == {s \in SUBSET R : \E u \in SUBSET s : Bytes(s) # Bytes(u) + Bytes(s \ u)}
<1> SUFFICES ASSUME T # {} PROVE FALSE
  OBVIOUS
<1>1. PICK m \in T : \A u \in T : u \subseteq m => u = m
  <2>1. T \in SUBSET SUBSET R
    OBVIOUS
  <2> HIDE DEF T
  <2>. QED
    BY <2>1, SmallestSet DEF Sized
<1>2. m \in SUBSET R
  BY <1>1
<1>3. PICK u \in SUBSET m : Bytes(m) # Bytes(u) + Bytes(m \ u)
  BY <1>1
<1>4. Sized(m) /\ Sized(u) /\ Sized(m \ u) /\ IsFiniteSet({})
  BY <1>2, <1>3, SizedPart, FS_EmptySet
<1>5. Bytes({}) = 0 /\ Bytes(m) \in Nat
  BY <1>4, BytesStep, BytesType
<1>6. CASE u = {}
  <2>1. m \ u = m
    BY <1>6
  <2>. QED
    BY <1>3, <1>5, <1>6, <2>1
<1>7. ASSUME NEW x \in u PROVE FALSE
  <2>1. Bytes(m) = x.bytes + Bytes(m \ {x}) /\ Bytes(u) = x.bytes + Bytes(u \ {x})
    BY <1>3, <1>4, BytesWithout
  <2>2. m \ {x} \notin T
    BY <1>1, <1>3, <1>7
  <2>3. Bytes(m \ {x}) = Bytes(u \ {x}) + Bytes((m \ {x}) \ (u \ {x}))
    <3>1. u \ {x} \in SUBSET (m \ {x}) /\ m \ {x} \in SUBSET R
      BY <1>2, <1>3
    <3>. QED
      BY <2>2, <3>1
  <2>4. (m \ {x}) \ (u \ {x}) = m \ u
    BY <1>7
  <2>5. x.bytes \in Nat /\ Bytes(u \ {x}) \in Nat /\ Bytes(m \ u) \in Nat
    <3>1. Sized(u \ {x})
      BY <1>4, SizedPart
    <3>. QED
      BY <1>4, <3>1, BytesType DEF Sized
  <2>6. Bytes(m) = Bytes(u) + Bytes(m \ u)
    <3>1. \A a, b, c \in Nat : a + (b + c) = (a + b) + c
      OBVIOUS
    <3>2. Bytes(m) = x.bytes + (Bytes(u \ {x}) + Bytes(m \ u))
      BY <2>1, <2>3, <2>4, Zenon
    <3>3. Bytes(m) = (x.bytes + Bytes(u \ {x})) + Bytes(m \ u)
      BY <2>5, <3>1, <3>2, Zenon
    <3>. QED
      BY <2>1, <3>3, Zenon
  <2>. QED
    BY <1>3, <2>6
<1>. QED
  BY <1>6, <1>7

-----------------------------------------------------------------------------
(* The invariants *)

Attempted(R) == {r.problem : r \in {s \in R : s.kind = "quiz_attempt"}}

\* The types that the two arguments rely on: the counter is not among them.
Typed ==
    /\ records \subseteq Record
    /\ nextId \in Nat
    /\ clock \in Nat
    /\ call \in [Lanes -> Call]

\* An initialised database has an unlock for each problem ever attempted; one
\* that a new process has not opened yet has an unlock or an attempt for it.
UnlockInv ==
    /\ unlocks \cup Attempted(records) = attempted
    /\ ready => unlocks = attempted

\* A quiz set is named by its date, and its id has been given out.
RowsInv ==
    /\ \A r \in records : r.kind = "ai_quiz_set" => r.set = r.created
    /\ \A r \in records : r.id < nextId

\* No set that was saved before an attempt began is later than the set that it
\* is an attempt at.
CallInv(l) ==
    call[l] # NoCall =>
        /\ call[l].since <= nextId
        /\ l = "ai_quiz_attempt" =>
             \A r \in records :
                (r.kind = "ai_quiz_set" /\ r.problem = call[l].problem
                    /\ r.id < call[l].since) => r.set <= call[l].set
        /\ l = "ai_quiz_set" /\ call[l].at = "saving" => call[l].set = call[l].created

CallsInv == \A l \in Lanes : CallInv(l)

-----------------------------------------------------------------------------

\* Of any record set, pruning keeps a part.
LEMMA PrunedIsPart == \A R, n : Pruned(R, n) \subseteq R
  BY DEF Pruned

\* The types hold initially and are kept by every step.
LEMMA TypedInit == Init => Typed
<1> SUFFICES ASSUME Init PROVE Typed
  OBVIOUS
<1>1. nextId \in Nat
  <2>0. records \in {{}} \cup {{Legacy(p)} : p \in {q \in Problems : progress[q] = "solved"}}
    BY DEF Init
  <2>1. records = {} \/ \E p \in Problems : records = {Legacy(p)}
    BY <2>0
  <2>2. Cardinality(records) \in Nat
    <3>1. CASE records = {}
      BY <3>1, FS_EmptySet
    <3>2. ASSUME NEW p, records = {Legacy(p)} PROVE Cardinality(records) \in Nat
      <4>1. Cardinality({Legacy(p)}) = 1
        BY FS_Singleton
      <4>. QED
        BY <3>2, <4>1
    <3>. QED
      BY <2>1, <3>1, <3>2
  <2>3. nextId = Cardinality(records) + 1
    BY DEF Init
  <2>. QED
    BY <2>2, <2>3
<1>2. \A p \in Problems : Legacy(p) \in Record
  BY DEF Legacy, Record, Kinds, NoSet
<1>3. records \subseteq Record
  BY <1>2 DEF Init
<1>4. call \in [Lanes -> Call]
  BY DEF Init, Call
<1>. QED
  BY <1>1, <1>3, <1>4 DEF Init, Typed

\* A call that is being saved carries what its record needs.
LEMMA SavingCall ==
    ASSUME NEW l \in Lanes, Typed, call[l].at = "saving"
    PROVE  call[l] \in [at: {"saving"}, problem: Problems, set: Nat, since: Nat,
                        created: Nat, bytes: Nat]
<1>1. call[l] \in Call
  BY DEF Typed
<1>2. call[l] # NoCall
  BY DEF NoCall
<1>. QED
  BY <1>1, <1>2 DEF Call

LEMMA WorkingCall ==
    ASSUME NEW l \in Lanes, Typed, call[l].at = "working"
    PROVE  call[l] \in [at: {"working"}, problem: Problems, set: Nat, since: Nat]
<1>1. call[l] \in Call
  BY DEF Typed
<1>2. call[l] # NoCall
  BY DEF NoCall
<1>. QED
  BY <1>1, <1>2 DEF Call

\* The record that Save inserts.
NewRecord(l) == [id |-> nextId, problem |-> call[l].problem, kind |-> l,
                 created |-> call[l].created, bytes |-> call[l].bytes, set |-> call[l].set]

\* What Save does, without the sums.
LEMMA SaveParts ==
    ASSUME NEW l \in Lanes, Typed, Save(l)
    PROVE  /\ NewRecord(l) \in Record
           /\ records' \subseteq records \cup {NewRecord(l)}
           /\ nextId' = nextId + 1
           /\ call' = [call EXCEPT ![l] = NoCall]
           /\ ready /\ ready' = ready
           /\ clock' = clock
           /\ call[l].at = "saving"
           /\ unlocks' = IF l = "quiz_attempt" THEN unlocks \cup {call[l].problem} ELSE unlocks
           /\ attempted' = IF l = "quiz_attempt" THEN attempted \cup {call[l].problem}
                           ELSE attempted
           /\ outdated' = IF l = "ai_quiz_attempt"
                             /\ \E r \in records : Replaces(r, NewRecord(l), call[l].since)
                          THEN outdated \cup {call[l].set} ELSE outdated
<1>1. call[l].at = "saving"
  BY DEF Save
<1>2. call[l] \in [at: {"saving"}, problem: Problems, set: Nat, since: Nat,
                   created: Nat, bytes: Nat]
  BY <1>1, SavingCall
<1>3. l \in Kinds
  BY ReviewAssumption DEF Kinds
<1>4. NewRecord(l) \in Record
  BY <1>2, <1>3 DEF NewRecord, Record, Typed
<1>. QED
  BY <1>1, <1>4 DEF Save, NewRecord

-----------------------------------------------------------------------------

LEMMA TypedNext == Typed /\ [Next]_vars => Typed'
<1> SUFFICES ASSUME Typed, [Next]_vars PROVE Typed'
  OBVIOUS
<1>a. \A l \in Lanes : NoCall \in Call
  BY DEF Call
<1>1. CASE Initialize
  BY <1>1 DEF Initialize, Typed
<1>2. ASSUME NEW p \in Problems, Complete(p) PROVE Typed'
  BY <1>2 DEF Complete, Typed, tables
<1>3. ASSUME NEW p \in Problems, ShowQuiz(p) PROVE Typed'
  BY <1>3 DEF ShowQuiz, Typed, tables
<1>4. ASSUME NEW p \in Problems, NEW l \in Lanes, Begin(l, p) PROVE Typed'
  <2>1. Gate(l, p) /\ UNCHANGED <<tables, clock>>
    BY <1>4 DEF Begin
  <2>2. l = "ai_quiz_attempt" => page[p] \in Nat
    BY <2>1 DEF Gate, LatestSet, SetsOf, Typed, Record
  <2>3. [at |-> "working", problem |-> p,
         set |-> IF l = "ai_quiz_attempt" THEN page[p] ELSE NoSet, since |-> nextId] \in Call
    BY <2>2 DEF Call, Typed, NoSet
  <2>4. call' \in [Lanes -> Call]
    BY <1>4, <2>3 DEF Begin, Typed
  <2>. QED
    BY <2>1, <2>4 DEF tables, Typed
<1>5. ASSUME NEW l \in Lanes, Abandon(l) PROVE Typed'
  BY <1>5, <1>a DEF Abandon, Typed, tables
<1>6. ASSUME NEW l \in Lanes, NEW n \in Sizes, Stamp(l, n) PROVE Typed'
  <2>1. call[l] \in [at: {"working"}, problem: Problems, set: Nat, since: Nat]
    BY <1>6, WorkingCall DEF Stamp
  <2>2. n \in Nat /\ clock \in Nat
    BY ReviewAssumption DEF Typed
  <2>3. [at |-> "saving", problem |-> call[l].problem, since |-> call[l].since,
         set |-> IF l = "ai_quiz_set" THEN clock ELSE call[l].set,
         created |-> clock, bytes |-> n] \in Call
    BY <2>1, <2>2 DEF Call
  <2>4. call' \in [Lanes -> Call]
    BY <1>6, <2>3 DEF Stamp, Typed
  <2>. QED
    BY <1>6, <2>2, <2>4 DEF Stamp, tables, Typed
<1>7. ASSUME NEW l \in Lanes, TooLarge(l) PROVE Typed'
  BY <1>7, <1>a DEF TooLarge, Typed, tables
<1>8. ASSUME NEW l \in Lanes, Save(l) PROVE Typed'
  BY <1>8, <1>a, SaveParts DEF Typed
<1>9. CASE Crash
  BY <1>9, <1>a DEF Crash, Typed, tables
<1>10. CASE UNCHANGED vars
  BY <1>10 DEF vars, Typed
<1>. QED
  BY <1>1, <1>2, <1>3, <1>4, <1>5, <1>6, <1>7, <1>8, <1>9, <1>10 DEF Next

-----------------------------------------------------------------------------

\* The unlocks: only Initialize and Save change what UnlockInv speaks of.
LEMMA UnlockStep == Typed /\ UnlockInv /\ [Next]_vars => UnlockInv'
<1> SUFFICES ASSUME Typed, UnlockInv, [Next]_vars PROVE UnlockInv'
  OBVIOUS
<1>1. CASE Initialize
  BY <1>1 DEF Initialize, UnlockInv, Attempted, history
<1>2. ASSUME NEW l \in Lanes, Save(l) PROVE UnlockInv'
  <2>1. /\ ready /\ ready'
        /\ unlocks = attempted
        /\ unlocks' = IF l = "quiz_attempt" THEN unlocks \cup {call[l].problem} ELSE unlocks
        /\ attempted' = unlocks'
    BY <1>2, SaveParts DEF UnlockInv
  <2>2. Attempted(records) \subseteq attempted
    BY DEF UnlockInv
  <2>3. \A r \in records' : r \in records \/ r = NewRecord(l)
    BY <1>2, SaveParts
  <2>4. ASSUME NEW r \in records', r.kind = "quiz_attempt" PROVE r.problem \in attempted'
    <3>1. CASE r \in records
      BY <2>1, <2>2, <2>4, <3>1 DEF Attempted
    <3>2. CASE r = NewRecord(l)
      BY <2>1, <2>4, <3>2 DEF NewRecord
    <3>. QED
      BY <2>3, <3>1, <3>2
  <2>5. Attempted(records') \subseteq attempted'
    BY <2>4 DEF Attempted
  <2>. QED
    BY <2>1, <2>5 DEF UnlockInv, Attempted
<1>3. CASE Crash
  BY <1>3 DEF Crash, UnlockInv, Attempted, tables, history
<1>4. CASE UNCHANGED <<records, unlocks, attempted, ready>>
  BY <1>4 DEF UnlockInv, Attempted
<1>5. ASSUME NEW p \in Problems, Complete(p) \/ ShowQuiz(p) \/ \E l \in Lanes : Begin(l, p)
      PROVE  UNCHANGED <<records, unlocks, attempted, ready>>
  BY <1>5 DEF Complete, ShowQuiz, Begin, tables, history
<1>6. ASSUME NEW l \in Lanes, Abandon(l) \/ TooLarge(l) \/ \E n \in Sizes : Stamp(l, n)
      PROVE  UNCHANGED <<records, unlocks, attempted, ready>>
  BY <1>6 DEF Abandon, TooLarge, Stamp, tables, history
<1>7. UNCHANGED vars => UNCHANGED <<records, unlocks, attempted, ready>>
  BY DEF vars
<1>. QED
  BY <1>1, <1>2, <1>3, <1>4, <1>5, <1>6, <1>7 DEF Next

\* A quiz that was once submitted stays unlocked, however its attempts are
\* pruned and whenever the process restarts (review_unlocks of _save and
\* _initialize): what docs/architecture.md promises of the unlock table.
THEOREM UnlocksSurvivePruning == Spec => []UnlockFollowsQuiz
<1>1. Init => UnlockInv     \* an old database holds attempts, and is not open yet
  <2> SUFFICES ASSUME Init PROVE UnlockInv
    OBVIOUS
  <2>1. \A r \in records : r.kind = "quiz_attempt"
    <3>1. records \in {{}} \cup {{Legacy(p)} : p \in {q \in Problems : progress[q] = "solved"}}
      BY DEF Init
    <3>. QED
      BY <3>1 DEF Legacy
  <2>2. Attempted(records) = attempted
    BY <2>1 DEF Init, Attempted
  <2>. QED
    BY <2>2 DEF Init, UnlockInv
<1>2. Typed /\ UnlockInv /\ [Next]_vars => (Typed /\ UnlockInv)'
  BY TypedNext, UnlockStep
<1>3. UnlockInv => UnlockFollowsQuiz
  BY DEF UnlockInv, UnlockFollowsQuiz
<1>. QED
  BY <1>1, <1>2, <1>3, TypedInit, PTL DEF Spec

-----------------------------------------------------------------------------

\* Rows are only ever added with a fresh id, and a set under its own date.
LEMMA RowsStep == Typed /\ RowsInv /\ CallsInv /\ [Next]_vars => RowsInv'
<1> SUFFICES ASSUME Typed, RowsInv, CallsInv, [Next]_vars PROVE RowsInv'
  OBVIOUS
<1>1. ASSUME NEW l \in Lanes, Save(l) PROVE RowsInv'
  <2>1. /\ call[l].at = "saving"
        /\ nextId' = nextId + 1
        /\ \A r \in records' : r \in records \/ r = NewRecord(l)
    BY <1>1, SaveParts
  <2>2. call[l] # NoCall
    BY <2>1 DEF NoCall
  <2>3. l = "ai_quiz_set" => call[l].set = call[l].created
    BY <2>1, <2>2 DEF CallsInv, CallInv
  <2>4. NewRecord(l).kind = "ai_quiz_set" => NewRecord(l).set = NewRecord(l).created
    BY <2>3 DEF NewRecord
  <2>5. NewRecord(l).id < nextId'
    BY <2>1 DEF NewRecord, Typed
  <2>6. \A r \in records : r.id < nextId'
    BY <2>1 DEF RowsInv, Typed, Record
  <2>. QED
    BY <2>1, <2>4, <2>5, <2>6 DEF RowsInv
<1>2. UNCHANGED <<records, nextId>> => RowsInv'
  BY DEF RowsInv
<1>3. Initialize \/ Crash \/ UNCHANGED vars => UNCHANGED <<records, nextId>>
  BY DEF Initialize, Crash, tables, vars
<1>4. ASSUME NEW p \in Problems, Complete(p) \/ ShowQuiz(p) \/ \E l \in Lanes : Begin(l, p)
      PROVE  UNCHANGED <<records, nextId>>
  BY <1>4 DEF Complete, ShowQuiz, Begin, tables
<1>5. ASSUME NEW l \in Lanes, Abandon(l) \/ TooLarge(l) \/ \E n \in Sizes : Stamp(l, n)
      PROVE  UNCHANGED <<records, nextId>>
  BY <1>5 DEF Abandon, TooLarge, Stamp, tables
<1>. QED
  BY <1>1, <1>2, <1>3, <1>4, <1>5 DEF Next

\* What a call knows of the sets stays true when rows come and go.
LEMMA CallInvKept ==
    ASSUME NEW l \in Lanes, Typed, CallInv(l), call'[l] = call[l] \/ call'[l] = NoCall,
           nextId' \in Nat, nextId' >= nextId,
           \A r \in records' : r \in records \/ r.id = nextId
    PROVE  CallInv(l)'
<1> SUFFICES ASSUME call'[l] # NoCall PROVE CallInv(l)'
  BY DEF CallInv
<1>1. call'[l] = call[l] /\ call[l] # NoCall
  OBVIOUS
<1>2. call[l].since \in Nat /\ nextId \in Nat
  BY <1>1 DEF Typed, Call
<1>3. call[l].since <= nextId
  BY <1>1 DEF CallInv
<1>4. ASSUME l = "ai_quiz_attempt", NEW r \in records', r.kind = "ai_quiz_set",
             r.problem = call[l].problem, r.id < call[l].since
      PROVE  r.set <= call[l].set
  <2>1. r \in records
    BY <1>2, <1>3, <1>4
  <2>. QED
    BY <1>1, <1>4, <2>1 DEF CallInv
<1>5. call[l].since <= nextId'
  BY <1>2, <1>3
<1>6. l = "ai_quiz_set" /\ call[l].at = "saving" => call[l].set = call[l].created
  BY <1>1 DEF CallInv
<1>. QED
  BY <1>1, <1>4, <1>5, <1>6 DEF CallInv

\* A call that begins on the latest set has no later set behind it.
LEMMA CallInvBegin ==
    ASSUME NEW p \in Problems, NEW l \in Lanes, Typed, RowsInv, CallsInv, Begin(l, p)
    PROVE  CallsInv'
<1>1. Gate(l, p) /\ records' = records /\ nextId' = nextId
  BY DEF Begin, tables
<1>2. /\ call'[l] = [at |-> "working", problem |-> p,
                     set |-> IF l = "ai_quiz_attempt" THEN page[p] ELSE NoSet, since |-> nextId]
      /\ \A m \in Lanes : m # l => call'[m] = call[m]
  BY DEF Begin, Typed
<1>3. ASSUME l = "ai_quiz_attempt", NEW r \in records, r.kind = "ai_quiz_set", r.problem = p
      PROVE  r.set <= page[p]
  <2>1. PICK s \in SetsOf(p) : page[p] = s.set /\ \A o \in SetsOf(p) : ~Older(s, o)
    BY <1>1, <1>3 DEF Gate, LatestSet
  <2>2. r \in SetsOf(p)
    BY <1>3 DEF SetsOf
  <2>3. r.created \in Nat /\ s.created \in Nat
    BY <2>1 DEF Typed, Record, SetsOf
  <2>4. r.created <= s.created
    BY <2>1, <2>2, <2>3 DEF Older
  <2>5. r.set = r.created /\ s.set = s.created
    BY <1>3, <2>1 DEF RowsInv, SetsOf
  <2>. QED
    BY <2>1, <2>4, <2>5
<1>4. CallInv(l)'
  BY <1>1, <1>2, <1>3 DEF CallInv, Typed
<1>5. ASSUME NEW m \in Lanes, m # l PROVE CallInv(m)'
  <2>1. call'[m] = call[m] /\ CallInv(m)
    BY <1>2, <1>5 DEF CallsInv
  <2>. QED
    BY <1>1, <2>1 DEF CallInv
<1>. QED
  BY <1>4, <1>5 DEF CallsInv

LEMMA CallInvStamp ==
    ASSUME NEW l \in Lanes, NEW n \in Sizes, Typed, CallsInv, Stamp(l, n)
    PROVE  CallsInv'
<1>1. /\ records' = records /\ nextId' = nextId
      /\ call[l].at = "working"
      /\ call'[l] = [at |-> "saving", problem |-> call[l].problem, since |-> call[l].since,
                     set |-> IF l = "ai_quiz_set" THEN clock ELSE call[l].set,
                     created |-> clock, bytes |-> n]
      /\ \A m \in Lanes : m # l => call'[m] = call[m]
  BY DEF Stamp, tables, Typed
<1>2. call[l] # NoCall
  BY <1>1 DEF NoCall
<1>3. CallInv(l)
  BY DEF CallsInv
<1>4. CallInv(l)'
  BY <1>1, <1>2, <1>3 DEF CallInv
<1>5. ASSUME NEW m \in Lanes, m # l PROVE CallInv(m)'
  <2>1. call'[m] = call[m] /\ CallInv(m)
    BY <1>1, <1>5 DEF CallsInv
  <2>. QED
    BY <1>1, <2>1 DEF CallInv
<1>. QED
  BY <1>4, <1>5 DEF CallsInv

LEMMA CallsStep == Typed /\ RowsInv /\ CallsInv /\ [Next]_vars => CallsInv'
<1> SUFFICES ASSUME Typed, RowsInv, CallsInv, [Next]_vars PROVE CallsInv'
  OBVIOUS
<1>1. ASSUME UNCHANGED <<records, nextId>>,
             \A l \in Lanes : call'[l] = call[l] \/ call'[l] = NoCall
      PROVE  CallsInv'
  <2> SUFFICES ASSUME NEW l \in Lanes PROVE CallInv(l)'
    BY DEF CallsInv
  <2>1. nextId' \in Nat /\ nextId' >= nextId /\ CallInv(l)
    BY <1>1 DEF Typed, CallsInv
  <2>. QED
    BY <1>1, <2>1, CallInvKept
<1>2. ASSUME NEW p \in Problems, NEW l \in Lanes, Begin(l, p) PROVE CallsInv'
  BY <1>2, CallInvBegin
<1>3. ASSUME NEW l \in Lanes, NEW n \in Sizes, Stamp(l, n) PROVE CallsInv'
  BY <1>3, CallInvStamp
<1>4. ASSUME NEW m \in Lanes, Save(m) PROVE CallsInv'
  <2> SUFFICES ASSUME NEW l \in Lanes PROVE CallInv(l)'
    BY DEF CallsInv
  <2>1. nextId' \in Nat /\ nextId' >= nextId
    BY <1>4, SaveParts DEF Typed
  <2>2. \A r \in records' : r \in records \/ r.id = nextId
    <3>1. \A r \in records' : r \in records \/ r = NewRecord(m)
      BY <1>4, SaveParts
    <3>2. NewRecord(m).id = nextId
      BY DEF NewRecord
    <3>. QED
      BY <3>1, <3>2
  <2>3. call'[l] = call[l] \/ call'[l] = NoCall
    BY <1>4, SaveParts DEF Typed
  <2>4. CallInv(l)
    BY DEF CallsInv
  <2>. QED
    BY <2>1, <2>2, <2>3, <2>4, CallInvKept
<1>5. CASE Initialize \/ Crash \/ UNCHANGED vars
  BY <1>1, <1>5 DEF Initialize, Crash, tables, vars
<1>6. ASSUME NEW p \in Problems, Complete(p) \/ ShowQuiz(p) PROVE CallsInv'
  BY <1>1, <1>6 DEF Complete, ShowQuiz, tables
<1>7. ASSUME NEW l \in Lanes, Abandon(l) \/ TooLarge(l) PROVE CallsInv'
  BY <1>1, <1>7 DEF Abandon, TooLarge, tables, Typed
<1>. QED
  BY <1>2, <1>3, <1>4, <1>5, <1>6, <1>7 DEF Next

\* A step records no attempt at a set that was replaced when the call began.
LEMMA NothingOutdatedStep ==
    Typed /\ CallsInv /\ outdated = {} /\ [Next]_vars => outdated' = {}
<1> SUFFICES ASSUME Typed, CallsInv, outdated = {}, [Next]_vars PROVE outdated' = {}
  OBVIOUS
<1>1. ASSUME NEW l \in Lanes, Save(l) PROVE outdated' = {}
  <2>1. call[l].at = "saving"
    BY <1>1, SaveParts
  <2>2. call[l] # NoCall
    BY <2>1 DEF NoCall
  <2>3. call[l].set \in Nat
    BY <2>1, SavingCall
  <2>4. ASSUME l = "ai_quiz_attempt", NEW r \in records
        PROVE  ~Replaces(r, NewRecord(l), call[l].since)
    <3>1. r.set \in Nat
      BY DEF Typed, Record
    <3>2. r.kind = "ai_quiz_set" /\ r.problem = call[l].problem /\ r.id < call[l].since
            => r.set <= call[l].set
      BY <2>2, <2>4 DEF CallsInv, CallInv
    <3>. QED
      BY <2>3, <3>1, <3>2 DEF Replaces, NewRecord
  <2>. QED
    BY <1>1, <2>4, SaveParts
<1>2. Initialize \/ Crash \/ UNCHANGED vars => UNCHANGED outdated
  BY DEF Initialize, Crash, vars, history
<1>3. ASSUME NEW p \in Problems, Complete(p) \/ ShowQuiz(p) \/ \E l \in Lanes : Begin(l, p)
      PROVE  UNCHANGED outdated
  BY <1>3 DEF Complete, ShowQuiz, Begin, history
<1>4. ASSUME NEW l \in Lanes, Abandon(l) \/ TooLarge(l) \/ \E n \in Sizes : Stamp(l, n)
      PROVE  UNCHANGED outdated
  BY <1>4 DEF Abandon, TooLarge, Stamp, history
<1>. QED
  BY <1>1, <1>2, <1>3, <1>4 DEF Next

\* Answers to a generated quiz are graded and kept only if no later quiz had
\* been saved for the problem when they were sent, whatever tabs and providers
\* did meanwhile (grade_personalized_quiz).
THEOREM ReplacedQuizRefused == Spec => []StaleQuizIsRefused
<1> DEFINE IInv == Typed /\ RowsInv /\ CallsInv /\ outdated = {}
<1>1. Init => IInv
  <2> SUFFICES ASSUME Init PROVE IInv
    OBVIOUS
  <2>1. Typed
    BY TypedInit
  <2>2. \A l \in Lanes : call[l] = NoCall
    BY DEF Init
  <2>3. RowsInv
    <3>1. records \in {{}} \cup {{Legacy(p)} : p \in {q \in Problems : progress[q] = "solved"}}
      BY DEF Init
    <3>2. CASE records = {}
      BY <3>2 DEF RowsInv
    <3>3. ASSUME NEW p \in Problems, records = {Legacy(p)} PROVE RowsInv
      <4>1. nextId = 2
        <5>1. Cardinality({Legacy(p)}) = 1
          BY FS_Singleton
        <5>. QED
          BY <3>3, <5>1 DEF Init
      <4>. QED
        BY <3>3, <4>1 DEF RowsInv, Legacy
    <3>. QED
      BY <3>1, <3>2, <3>3
  <2>. QED
    BY <2>1, <2>2, <2>3 DEF Init, CallsInv, CallInv
<1>2. IInv /\ [Next]_vars => IInv'
  BY TypedNext, RowsStep, CallsStep, NothingOutdatedStep
<1>3. IInv => StaleQuizIsRefused
  BY DEF StaleQuizIsRefused
<1>. QED
  BY <1>1, <1>2, <1>3, PTL DEF Spec

-----------------------------------------------------------------------------
(* The quota *)

\* The records before r, in the order in which they are given up.
Before(R, r) == {s \in R : Older(s, r)}

DistinctIds(R) == \A r, s \in R : r.id = s.id => r = s

\* The rows are finitely many and have ids of their own; the counter is their
\* sum, which the quota bounds.
QuotaInv ==
    /\ IsFiniteSet(records)
    /\ DistinctIds(records)
    /\ \A r \in records : r.id < nextId
    /\ used = Bytes(records)
    /\ used <= Quota

\* Records are strictly ordered by age, and ids of their own make it total.
LEMMA OlderIsOrder ==
    ASSUME NEW R \in SUBSET Record
    PROVE  /\ \A r \in R : ~Older(r, r)
           /\ \A r, s, t \in R : Older(r, s) /\ Older(s, t) => Older(r, t)
           /\ DistinctIds(R) => \A r, s \in R : r = s \/ Older(r, s) \/ Older(s, r)
<1>1. \A r \in R : r.created \in Nat /\ r.id \in Nat
  BY DEF Record
<1>2. \A r \in R : ~Older(r, r)
  BY <1>1 DEF Older
<1>3. \A r, s, t \in R : Older(r, s) /\ Older(s, t) => Older(r, t)
  BY <1>1 DEF Older
<1>4. DistinctIds(R) => \A r, s \in R : r = s \/ Older(r, s) \/ Older(s, r)
  BY <1>1 DEF Older, DistinctIds
<1>. QED
  BY <1>2, <1>3, <1>4

\* Of finitely many records one is the oldest.
LEMMA OldestExists ==
    ASSUME NEW R \in SUBSET Record, IsFiniteSet(R), R # {}
    PROVE  \E s \in R : \A t \in R : ~Older(t, s)
<1> DEFINE T == {Before(R, s) : s \in R}
<1>1. T \in SUBSET SUBSET R /\ T # {}
  BY DEF Before
<1>2. PICK m \in T : \A u \in T : u \subseteq m => u = m
  <2> HIDE DEF T
  <2>. QED
    BY <1>1, SmallestSet
<1>3. PICK s \in R : m = Before(R, s)
  BY <1>2
<1>4. ASSUME NEW t \in R, Older(t, s) PROVE FALSE
  <2>1. Before(R, t) \subseteq m
    BY <1>3, <1>4, OlderIsOrder DEF Before
  <2>2. Before(R, t) = m
    BY <1>2, <2>1
  <2>3. t \in Before(R, t)
    BY <1>3, <1>4, <2>2 DEF Before
  <2>. QED
    BY <2>3, OlderIsOrder DEF Before
<1>. QED
  BY <1>3, <1>4

\* What the counter still shows when the turn of r comes is the size of r and
\* of the records that are not older.
LEMMA PrunedAt ==
    ASSUME NEW R \in SUBSET Record, IsFiniteSet(R), NEW r \in R
    PROVE  /\ r \in Pruned(R, Bytes(R)) <=> Bytes(R \ Before(R, r)) > Quota
           /\ Bytes(R) - Bytes(Before(R, r)) = Bytes(R \ Before(R, r))
<1>1. Sized(R)
  BY DEF Sized, Record
<1>2. Before(R, r) \in SUBSET R
  BY DEF Before
<1>3. Bytes(R) = Bytes(Before(R, r)) + Bytes(R \ Before(R, r))
  BY <1>1, <1>2, BytesSplit
<1>4. Bytes(Before(R, r)) \in Nat /\ Bytes(R \ Before(R, r)) \in Nat
  <2>1. Sized(Before(R, r)) /\ Sized(R \ Before(R, r))
    BY <1>1, <1>2, SizedPart
  <2>. QED
    BY <2>1, BytesType
<1>5. Bytes(R) - Bytes(Before(R, r)) = Bytes(R \ Before(R, r))
  BY <1>3, <1>4
<1>6. r \in Pruned(R, Bytes(R)) <=> Bytes(R) - Bytes(Before(R, r)) > Quota
  BY DEF Pruned, Before
<1>. QED
  BY <1>5, <1>6

LEMMA BytesMonotone ==
    ASSUME NEW R, Sized(R), NEW S \in SUBSET R
    PROVE  Bytes(S) <= Bytes(R)
<1>1. Bytes(R) = Bytes(S) + Bytes(R \ S)
  BY BytesSplit
<1>2. Bytes(S) \in Nat /\ Bytes(R \ S) \in Nat
  <2>1. Sized(S) /\ Sized(R \ S)
    BY SizedPart
  <2>. QED
    BY <2>1, BytesType
<1>. QED
  BY <1>1, <1>2

\* What pruning leaves is within the quota ...
LEMMA PruningIsEnough ==
    ASSUME NEW R \in SUBSET Record, IsFiniteSet(R)
    PROVE  Bytes(R \ Pruned(R, Bytes(R))) <= Quota
<1> DEFINE left == R \ Pruned(R, Bytes(R))
<1>1. Sized(R) /\ Sized(left) /\ IsFiniteSet(left)
  <2>1. Sized(R)
    BY DEF Sized, Record
  <2>. QED
    BY <2>1, SizedPart DEF Sized
<1>2. CASE left = {}
  BY <1>1, <1>2, BytesStep, ReviewAssumption
<1>3. CASE left # {}
  <2>1. PICK s \in left : \A t \in left : ~Older(t, s)
    <3> HIDE DEF left
    <3>1. left \in SUBSET Record
      BY DEF left
    <3>. QED
      BY <1>1, <1>3, <3>1, OldestExists
  <2>2. ~(Bytes(R \ Before(R, s)) > Quota)
    BY <2>1, PrunedAt
  <2>3. left \subseteq R \ Before(R, s)
    BY <2>1 DEF Before
  <2>4. Sized(R \ Before(R, s))
    BY <1>1, SizedPart
  <2>5. Bytes(left) <= Bytes(R \ Before(R, s))
    BY <2>3, <2>4, BytesMonotone
  <2>6. Bytes(left) \in Nat /\ Bytes(R \ Before(R, s)) \in Nat
    BY <1>1, <2>4, BytesType
  <2>. QED
    BY <2>2, <2>5, <2>6, ReviewAssumption
<1>. QED
  BY <1>2, <1>3

\* ... and what it gives up is older than all that stays.
LEMMA PruningIsByAge ==
    ASSUME NEW R \in SUBSET Record, IsFiniteSet(R), DistinctIds(R),
           NEW r \in Pruned(R, Bytes(R)), NEW s \in R \ Pruned(R, Bytes(R))
    PROVE  Older(r, s)
<1>1. r \in R /\ s \in R /\ r # s
  BY PrunedIsPart
<1>2. SUFFICES ASSUME Older(s, r) PROVE FALSE
  BY <1>1, OlderIsOrder
<1>3. R \ Before(R, r) \subseteq R \ Before(R, s)
  BY <1>1, <1>2, OlderIsOrder DEF Before
<1>4. Sized(R \ Before(R, s)) /\ Sized(R \ Before(R, r))
  <2>1. Sized(R)
    BY DEF Sized, Record
  <2>. QED
    BY <2>1, SizedPart
<1>5. Bytes(R \ Before(R, r)) <= Bytes(R \ Before(R, s))
  BY <1>3, <1>4, BytesMonotone
<1>6. Bytes(R \ Before(R, r)) > Quota /\ ~(Bytes(R \ Before(R, s)) > Quota)
  BY <1>1, PrunedAt
<1>7. Bytes(R \ Before(R, r)) \in Nat /\ Bytes(R \ Before(R, s)) \in Nat
  BY <1>4, BytesType
<1>. QED
  BY <1>5, <1>6, <1>7, ReviewAssumption

\* What a save leaves of the records and of the counter.
LEMMA SavePrunes ==
    ASSUME NEW l \in Lanes, Typed, QuotaInv, Save(l)
    PROVE  LET all == records \cup {NewRecord(l)} IN
           /\ all \in SUBSET Record /\ IsFiniteSet(all) /\ DistinctIds(all)
           /\ NewRecord(l) \notin records
           /\ records' = all \ Pruned(all, Bytes(all))
           /\ used' = Bytes(all \ Pruned(all, Bytes(all)))
<1> DEFINE all == records \cup {NewRecord(l)}
<1>1. NewRecord(l) \in Record /\ NewRecord(l).id = nextId
  <2>1. NewRecord(l) \in Record
    BY SaveParts
  <2>. QED
    BY <2>1 DEF NewRecord
<1>2. all \in SUBSET Record /\ IsFiniteSet(all)
  BY <1>1, FS_AddElement DEF Typed, QuotaInv
<1>3. \A r \in records : r.id # nextId
  BY DEF QuotaInv, Typed, Record
<1>4. NewRecord(l) \notin records /\ DistinctIds(all)
  BY <1>1, <1>3 DEF QuotaInv, DistinctIds
<1>5. Sized(all)
  BY <1>2 DEF Sized, Record
<1>6. Bytes(all) = used + NewRecord(l).bytes
  <2>1. all \ {NewRecord(l)} = records
    BY <1>4
  <2>2. Bytes(all) = NewRecord(l).bytes + Bytes(records)
    BY <1>5, <2>1, BytesWithout
  <2>3. Sized(records)
    BY <1>5, SizedPart
  <2>4. Bytes(records) \in Nat /\ NewRecord(l).bytes \in Nat
    BY <1>1, <2>3, BytesType DEF Record
  <2>. QED
    BY <2>2, <2>4 DEF QuotaInv
<1>7. /\ records' = all \ Pruned(all, used + NewRecord(l).bytes)
      /\ used' = used + NewRecord(l).bytes - Bytes(Pruned(all, used + NewRecord(l).bytes))
  BY DEF Save, NewRecord
<1> DEFINE gone == Pruned(all, Bytes(all))
<1>8. gone = Pruned(all, used + NewRecord(l).bytes)
  <2> HIDE DEF all
  <2>. QED
    BY <1>6, Zenon
<1>9. gone \in SUBSET all
  BY PrunedIsPart
<1> HIDE DEF gone
<1>10. records' = all \ gone /\ used' = used + NewRecord(l).bytes - Bytes(gone)
  BY <1>7, <1>8, Zenon
<1>11. used \in Nat /\ NewRecord(l).bytes \in Nat /\ Bytes(gone) \in Nat
       /\ Bytes(all \ gone) \in Nat
  <2>1. Sized(gone) /\ Sized(all \ gone) /\ Sized(records)
    BY <1>5, <1>9, SizedPart
  <2>. QED
    BY <1>1, <2>1, BytesType DEF QuotaInv, Record
<1>12. used' = Bytes(all \ gone)
  <2>1. Bytes(all) = Bytes(gone) + Bytes(all \ gone)
    <3> HIDE DEF all
    <3>. QED
      BY <1>5, <1>9, BytesSplit
  <2> HIDE DEF all
  <2>. QED
    BY <1>6, <1>10, <1>11, <2>1
<1>. QED
  BY <1>2, <1>4, <1>10, <1>12 DEF gone

LEMMA QuotaInit == Init => QuotaInv
<1> SUFFICES ASSUME Init PROVE QuotaInv
  OBVIOUS
<1>0. records \in {{}} \cup {{Legacy(p)} : p \in {q \in Problems : progress[q] = "solved"}}
  BY DEF Init
<1>1. used = Bytes(records) /\ nextId = Cardinality(records) + 1
  BY DEF Init
<1>2. CASE records = {}
  <2>1. Bytes({}) = 0 /\ IsFiniteSet({})
    BY BytesStep, FS_EmptySet
  <2>. QED
    BY <1>1, <1>2, <2>1, ReviewAssumption DEF QuotaInv, DistinctIds
<1>3. ASSUME NEW p \in Problems, records = {Legacy(p)} PROVE QuotaInv
  <2>1. IsFiniteSet(records) /\ nextId = 2
    <3>1. IsFiniteSet({Legacy(p)}) /\ Cardinality({Legacy(p)}) = 1
      BY FS_Singleton
    <3>. QED
      BY <1>1, <1>3, <3>1
  <2>2. Sized(records)
    BY <1>3, <2>1 DEF Sized, Legacy
  <2>3. Bytes(records) = Legacy(p).bytes + Bytes(records \ {Legacy(p)})
    BY <1>3, <2>2, BytesWithout
  <2>4. records \ {Legacy(p)} = {} /\ Bytes({}) = 0
    BY <1>3, BytesStep, FS_EmptySet
  <2>5. Legacy(p).bytes = 1 /\ Legacy(p).id = 1
    BY DEF Legacy
  <2>6. Bytes(records) = 1
    BY <2>3, <2>4, <2>5
  <2>. QED
    BY <1>1, <1>3, <2>1, <2>5, <2>6, ReviewAssumption DEF QuotaInv, DistinctIds
<1>. QED
  BY <1>0, <1>2, <1>3

LEMMA QuotaStep == Typed /\ QuotaInv /\ [Next]_vars => QuotaInv'
<1> SUFFICES ASSUME Typed, QuotaInv, [Next]_vars PROVE QuotaInv'
  OBVIOUS
<1>1. ASSUME NEW l \in Lanes, Save(l) PROVE QuotaInv'
  <2> DEFINE all == records \cup {NewRecord(l)}
             left == all \ Pruned(all, Bytes(all))
  <2>1. /\ all \in SUBSET Record /\ IsFiniteSet(all) /\ DistinctIds(all)
        /\ records' = left /\ used' = Bytes(left)
    BY <1>1, SavePrunes
  <2>2. Bytes(left) <= Quota
    BY <2>1, PruningIsEnough
  <2>3. IsFiniteSet(left)
    BY <2>1, FS_Subset
  <2>4. DistinctIds(left)
    BY <2>1 DEF DistinctIds
  <2>5. \A r \in all : r.id < nextId'
    <3>1. nextId' = nextId + 1 /\ NewRecord(l).id = nextId
      BY <1>1, SaveParts DEF NewRecord
    <3>. QED
      BY <2>1, <3>1 DEF QuotaInv, Typed, Record
  <2>6. \A r \in left : r.id < nextId'
    BY <2>5
  <2> HIDE DEF all, left
  <2>. QED
    BY <2>1, <2>2, <2>3, <2>4, <2>6 DEF QuotaInv
<1>2. UNCHANGED <<records, used, nextId>> => QuotaInv'
  BY DEF QuotaInv
<1>3. Initialize \/ Crash \/ UNCHANGED vars => UNCHANGED <<records, used, nextId>>
  BY DEF Initialize, Crash, tables, vars
<1>4. ASSUME NEW p \in Problems, Complete(p) \/ ShowQuiz(p) \/ \E l \in Lanes : Begin(l, p)
      PROVE  UNCHANGED <<records, used, nextId>>
  BY <1>4 DEF Complete, ShowQuiz, Begin, tables
<1>5. ASSUME NEW l \in Lanes, Abandon(l) \/ TooLarge(l) \/ \E n \in Sizes : Stamp(l, n)
      PROVE  UNCHANGED <<records, used, nextId>>
  BY <1>5 DEF Abandon, TooLarge, Stamp, tables
<1>. QED
  BY <1>1, <1>2, <1>3, <1>4, <1>5 DEF Next

\* Which rows a step takes away.
GivenUp ==
    \A r \in records \ records' :
        /\ \A s \in records' : Older(r, s)
        /\ records' \ records # {} =>
             Bytes({s \in records \cup records' : ~Older(s, r)}) > Quota

LEMMA GivenUpStep == Typed /\ QuotaInv /\ [Next]_vars => GivenUp \/ UNCHANGED records
<1> SUFFICES ASSUME Typed, QuotaInv, [Next]_vars PROVE GivenUp \/ UNCHANGED records
  OBVIOUS
<1>1. ASSUME NEW l \in Lanes, Save(l) PROVE GivenUp
  <2> DEFINE all == records \cup {NewRecord(l)}
             gone == Pruned(all, Bytes(all))
  <2>1. /\ all \in SUBSET Record /\ IsFiniteSet(all) /\ DistinctIds(all)
        /\ NewRecord(l) \notin records
        /\ records' = all \ gone
    BY <1>1, SavePrunes
  <2> SUFFICES ASSUME NEW r \in records \ records'
               PROVE  /\ \A s \in records' : Older(r, s)
                      /\ records' \ records # {} =>
                           Bytes({s \in records \cup records' : ~Older(s, r)}) > Quota
    BY DEF GivenUp
  <2>2. r \in gone /\ r \in all
    BY <2>1
  <2>3. ASSUME NEW s \in records' PROVE Older(r, s)
    BY <2>1, <2>2, <2>3, PruningIsByAge
  <2>4. ASSUME records' \ records # {}
        PROVE  Bytes({s \in records \cup records' : ~Older(s, r)}) > Quota
    <3>1. records \cup records' = all
      BY <2>1, <2>4
    <3>2. {s \in records \cup records' : ~Older(s, r)} = all \ Before(all, r)
      BY <3>1 DEF Before
    <3>3. Bytes(all \ Before(all, r)) > Quota
      BY <2>1, <2>2, PrunedAt
    <3>. QED
      BY <3>2, <3>3
  <2>. QED
    BY <2>3, <2>4
<1>2. Initialize \/ Crash \/ UNCHANGED vars => UNCHANGED records
  BY DEF Initialize, Crash, tables, vars
<1>3. ASSUME NEW p \in Problems, Complete(p) \/ ShowQuiz(p) \/ \E l \in Lanes : Begin(l, p)
      PROVE  UNCHANGED records
  BY <1>3 DEF Complete, ShowQuiz, Begin, tables
<1>4. ASSUME NEW l \in Lanes, Abandon(l) \/ TooLarge(l) \/ \E n \in Sizes : Stamp(l, n)
      PROVE  UNCHANGED records
  BY <1>4 DEF Abandon, TooLarge, Stamp, tables
<1>. QED
  BY <1>1, <1>2, <1>3, <1>4 DEF Next

\* The cached counter is the sum of the rows and within the quota after every
\* save; a save gives up the oldest rows of all problems, and no more than the
\* quota requires (_usage, _set_usage and _prune of one transaction).
THEOREM QuotaIsPaidByTheOldest == Spec => PruningIsExact
<1> DEFINE IInv == Typed /\ QuotaInv
<1>1. Init => IInv
  BY TypedInit, QuotaInit
<1>2. IInv /\ [Next]_vars => IInv'
  BY TypedNext, QuotaStep
<1>3. IInv => UsageIsExact
  BY DEF QuotaInv, UsageIsExact
<1>4. IInv /\ [Next]_vars =>
        [\A r \in records \ records' :
           /\ \A s \in records' : Older(r, s)
           /\ records' \ records # {} =>
                Bytes({s \in records \cup records' : ~Older(s, r)}) > Quota]_records
  BY GivenUpStep DEF GivenUp
<1>. QED
  BY <1>1, <1>2, <1>3, <1>4, PTL DEF Spec, PruningIsExact, OldestGoFirst

-----------------------------------------------------------------------------
(* The types *)

\* The types that neither Typed nor the quota speaks of.
RestTyped ==
    /\ progress \in [Problems -> {"open", "solved", "gave_up"}]
    /\ unlocks \subseteq Problems
    /\ ready \in BOOLEAN
    /\ page \in [Problems -> Nat]
    /\ attempted \subseteq Problems
    /\ outdated \subseteq Nat
    /\ crashes \in Nat

LEMMA RestInit == Init => RestTyped
<1> SUFFICES ASSUME Init PROVE RestTyped
  OBVIOUS
<1>1. records \subseteq Record
  BY TypedInit DEF Typed
<1>2. attempted \subseteq Problems
  BY <1>1 DEF Init, Record
<1>. QED
  BY <1>2 DEF Init, RestTyped, NoSet

LEMMA RestStep == Typed /\ RestTyped /\ [Next]_vars => RestTyped'
<1> SUFFICES ASSUME Typed, RestTyped, [Next]_vars PROVE RestTyped'
  OBVIOUS
<1>1. CASE Initialize
  <2>1. \A r \in records : r.problem \in Problems
    BY DEF Typed, Record
  <2>2. unlocks' \subseteq Problems
    BY <1>1, <2>1 DEF Initialize, RestTyped
  <2>. QED
    BY <1>1, <2>2 DEF Initialize, RestTyped, history
<1>2. ASSUME NEW p \in Problems, Complete(p) PROVE RestTyped'
  BY <1>2 DEF Complete, RestTyped, tables, history
<1>3. ASSUME NEW p \in Problems, ShowQuiz(p) PROVE RestTyped'
  <2>1. \A n \in LatestSet(p) : n \in Nat
    BY DEF LatestSet, SetsOf, Typed, Record
  <2>. QED
    BY <1>3, <2>1 DEF ShowQuiz, RestTyped, tables, history, NoSet
<1>4. ASSUME NEW p \in Problems, NEW l \in Lanes, Begin(l, p) PROVE RestTyped'
  BY <1>4 DEF Begin, RestTyped, tables, history
<1>5. ASSUME NEW l \in Lanes, Abandon(l) \/ TooLarge(l) \/ \E n \in Sizes : Stamp(l, n)
      PROVE  RestTyped'
  BY <1>5 DEF Abandon, TooLarge, Stamp, RestTyped, tables, history
<1>6. ASSUME NEW l \in Lanes, Save(l) PROVE RestTyped'
  <2>1. call[l].problem \in Problems /\ call[l].set \in Nat
    BY <1>6, SaveParts, SavingCall
  <2>2. unlocks' \subseteq Problems /\ attempted' \subseteq Problems /\ outdated' \subseteq Nat
    BY <1>6, <2>1, SaveParts, ZenonT(60) DEF RestTyped
  <2>. QED
    BY <1>6, <2>2 DEF Save, RestTyped
<1>7. CASE Crash
  <2>1. page' \in [Problems -> Nat] /\ ready' \in BOOLEAN /\ crashes' \in Nat
    <3>1. page' = [p \in Problems |-> NoSet] /\ ready' = FALSE /\ crashes' = crashes + 1
      BY <1>7 DEF Crash
    <3>2. crashes \in Nat
      BY DEF RestTyped
    <3>3. page' \in [Problems -> Nat]
      BY <3>1 DEF NoSet
    <3>4. ready' \in BOOLEAN
      BY <3>1, Zenon
    <3>5. crashes' \in Nat
      BY <3>1, <3>2
    <3>. QED
      BY <3>3, <3>4, <3>5
  <2>2. UNCHANGED <<progress, unlocks, attempted, outdated>>
    BY <1>7 DEF Crash, tables, history
  <2>. QED
    BY <2>1, <2>2 DEF RestTyped
<1>8. CASE UNCHANGED vars
  BY <1>8 DEF vars, RestTyped, history
<1>. QED
  BY <1>1, <1>2, <1>3, <1>4, <1>5, <1>6, <1>7, <1>8 DEF Next

\* Every variable keeps its type: the counter, which a save both raises and
\* lowers, never falls below zero because it is a sum of rows.
THEOREM TypeCorrect == Spec => []TypeOK
<1> DEFINE IInv == Typed /\ QuotaInv /\ RestTyped
<1>1. Init => IInv
  BY TypedInit, QuotaInit, RestInit
<1>2. IInv /\ [Next]_vars => IInv'
  BY TypedNext, QuotaStep, RestStep
<1>3. IInv => TypeOK
  <2> SUFFICES ASSUME IInv PROVE TypeOK
    OBVIOUS
  <2>1. Sized(records)
    BY DEF Sized, Typed, QuotaInv, Record
  <2>2. used \in Nat
    BY <2>1, BytesType DEF QuotaInv
  <2>. QED
    BY <2>2 DEF TypeOK, Typed, RestTyped
<1>. QED
  BY <1>1, <1>2, <1>3, PTL DEF Spec

=============================================================================
