--------------------------- MODULE Research_proofs ---------------------------
(***************************************************************************)
(* Proofs about Research, for every set of problems, every list of cases   *)
(* and every quota, batch and bound.                                       *)
(***************************************************************************)
EXTENDS Research, SequenceTheorems, WellFoundedInduction, TLAPS

-----------------------------------------------------------------------------
(* Numbers, and functions defined by recursion on them *)

LEMMA SmallestNumber ==
    ASSUME NEW T \in SUBSET Nat, T # {}
    PROVE  \E m \in T : \A k \in T : m <= k
<1>1. PICK m \in T : \A k \in T : <<k, m>> \notin OpToRel(<, Nat)
  BY NatLessThanWellFounded, WFMin
<1>2. ASSUME NEW k \in T PROVE m <= k
  <2>1. ~(k < m)
    BY <1>1 DEF OpToRel
  <2>. QED
    BY <2>1
<1>. QED
  BY <1>2

\* f is what step makes of base, up to n.
Follows(f, n, base, step) ==
    f[0] = base /\ \A i \in 1..n : f[i] = step[<<i, f[i - 1]>>]

\* A definition by recursion on 0..n has a value.
LEMMA Recursion ==
    ASSUME NEW n \in Nat, NEW V, NEW base \in V, NEW step \in [(1..n) \X V -> V]
    PROVE  \E f \in [0..n -> V] : Follows(f, n, base, step)
<1> DEFINE T == {k \in 0..n : ~\E f \in [0..k -> V] : Follows(f, k, base, step)}
<1> SUFFICES ASSUME T # {} PROVE FALSE
  OBVIOUS
<1>1. PICK m \in T : \A k \in T : m <= k
  <2>1. T \in SUBSET Nat
    OBVIOUS
  <2> HIDE DEF T
  <2>. QED
    BY <2>1, SmallestNumber
<1>2. m \in 0..n /\ ~\E f \in [0..m -> V] : Follows(f, m, base, step)
  BY <1>1
<1>3. CASE m = 0
  <2>1. [k \in 0..0 |-> base] \in [0..0 -> V]
    OBVIOUS
  <2>2. Follows([k \in 0..0 |-> base], 0, base, step)
    BY DEF Follows
  <2>. QED
    BY <1>2, <1>3, <2>1, <2>2
<1>4. CASE m # 0
  <2>1. m - 1 \in 0..n /\ m - 1 \notin T
    BY <1>1, <1>2, <1>4
  <2>2. PICK f \in [0..(m - 1) -> V] : Follows(f, m - 1, base, step)
    BY <2>1
  <2> DEFINE g == [k \in 0..m |-> IF k = m THEN step[<<m, f[m - 1]>>] ELSE f[k]]
  <2>3. g \in [0..m -> V]
    <3>1. step[<<m, f[m - 1]>>] \in V
      BY <1>2, <1>4
    <3>2. \A k \in 0..m : k # m => k \in 0..(m - 1)
      BY <1>2
    <3>. QED
      BY <3>1, <3>2
  <2>4. g[0] = base
    BY <1>2, <1>4, <2>2 DEF Follows
  <2>5. ASSUME NEW i \in 1..m PROVE g[i] = step[<<i, g[i - 1]>>]
    <3>1. g[i - 1] = f[i - 1]
      BY <1>2, <2>5
    <3>2. i = m => g[i] = step[<<i, f[i - 1]>>]
      BY <1>2, <2>5
    <3>3. i # m => i \in 1..(m - 1) /\ g[i] = f[i]
      BY <1>2, <2>5
    <3> HIDE DEF g
    <3>4. i # m => f[i] = step[<<i, f[i - 1]>>]
      BY <2>2, <3>3 DEF Follows
    <3>. QED
      BY <3>1, <3>2, <3>3, <3>4
  <2> HIDE DEF g
  <2>6. Follows(g, m, base, step)
    BY <2>4, <2>5 DEF Follows
  <2>. QED
    BY <1>2, <2>3, <2>6
<1>. QED
  BY <1>3, <1>4

\* Total: none of the partial sums of n numbers up to max exceeds n * max.
LEMMA TotalBound ==
    ASSUME NEW max \in Nat, NEW numbers \in Seq(0..max)
    PROVE  Total(numbers) \in Nat /\ Total(numbers) <= Len(numbers) * max
<1> DEFINE n == Len(numbers)
           Sums(f) == f = [i \in 0..n |-> IF i = 0 THEN 0 ELSE f[i - 1] + numbers[i]]
           step == [x \in (1..n) \X Nat |-> x[2] + numbers[x[1]]]
<1>1. n \in Nat /\ \A i \in 1..n : numbers[i] \in 0..max
  OBVIOUS
<1>2. \E f : Sums(f)
  <2>1. step \in [(1..n) \X Nat -> Nat]
    BY <1>1
  <2> HIDE DEF step
  <2>2. PICK f \in [0..n -> Nat] : Follows(f, n, 0, step)
    BY <1>1, <2>1, Recursion
  <2>3. ASSUME NEW i \in 0..n PROVE f[i] = IF i = 0 THEN 0 ELSE f[i - 1] + numbers[i]
    <3>1. CASE i = 0
      BY <2>2, <3>1 DEF Follows
    <3>2. CASE i # 0
      <4>1. i \in 1..n /\ f[i - 1] \in Nat
        <5>1. i \in 1..n /\ i - 1 \in 0..n
          BY <1>1, <3>2
        <5> HIDE DEF n
        <5>. QED
          BY <5>1
      <4>2. f[i] = step[<<i, f[i - 1]>>]
        BY <2>2, <4>1 DEF Follows
      <4>. QED
        BY <3>2, <4>1, <4>2 DEF step
    <3>. QED
      BY <3>1, <3>2
  <2>4. f = [i \in 0..n |-> f[i]]
    OBVIOUS
  <2>5. Sums(f)
    BY <2>3, <2>4
  <2>. QED
    BY <2>5
<1> DEFINE sum == CHOOSE f : Sums(f)
<1>3. Total(numbers) = sum[n]
  BY DEF Total
<1>4. Sums(sum)
  BY <1>2
<1> HIDE DEF sum
<1>5. \A i \in 0..n : sum[i] = IF i = 0 THEN 0 ELSE sum[i - 1] + numbers[i]
  BY <1>4
<1> HIDE DEF Sums
<1> DEFINE T == {i \in 0..n : ~(sum[i] \in Nat /\ sum[i] <= i * max)}
<1>6. T = {}
  <2> SUFFICES ASSUME T # {} PROVE FALSE
    OBVIOUS
  <2>1. PICK m \in T : \A k \in T : m <= k
    <3>1. T \in SUBSET Nat
      BY <1>1
    <3> HIDE DEF T
    <3>. QED
      BY <3>1, SmallestNumber
  <2>2. m \in 0..n /\ ~(sum[m] \in Nat /\ sum[m] <= m * max)
    BY <2>1
  <2>3. m # 0
    <3>1. m = 0 => sum[m] = 0 /\ m * max = 0
      BY <1>5, <2>2
    <3>. QED
      BY <2>2, <3>1
  <2>4. m \in 1..n /\ m - 1 \in 0..n /\ m - 1 \notin T
    BY <1>1, <2>1, <2>2, <2>3
  <2>5. sum[m - 1] \in Nat /\ sum[m - 1] <= (m - 1) * max
    BY <2>4
  <2>6. sum[m] = sum[m - 1] + numbers[m] /\ numbers[m] \in 0..max
    BY <1>1, <1>5, <2>2, <2>3, <2>4
  <2>7. (m - 1) * max + max = m * max
    <3>1. \A a, b \in Nat : a > 0 => (a - 1) * b + b = a * b
      OBVIOUS
    <3>. QED
      BY <2>4, <3>1
  <2>8. (m - 1) * max \in Nat /\ m * max \in Nat
    BY <2>4
  <2> HIDE DEF T
  <2>. QED
    BY <2>2, <2>5, <2>6, <2>7, <2>8
<1>7. n \in 0..n /\ n \notin T
  BY <1>1, <1>6
<1>. QED
  BY <1>3, <1>7

\* FirstOf: members of ids, each once.
LEMMA FirstOfIs ==
    ASSUME NEW n \in Nat, NEW ids \in SUBSET Cases
    PROVE  /\ FirstOf(n, ids) \in Seq(Cases)
           /\ \A i \in DOMAIN FirstOf(n, ids) : FirstOf(n, ids)[i] \in ids
           /\ \A i, j \in DOMAIN FirstOf(n, ids) :
                  FirstOf(n, ids)[i] = FirstOf(n, ids)[j] => i = j
<1> DEFINE More(c, t) == IF c \in ids /\ Len(t) < n THEN Append(t, c) ELSE t
           Firsts(f) == f = [c \in 0..NumCases |->
                                IF c = 0 THEN <<>>
                                ELSE IF c \in ids /\ Len(f[c - 1]) < n THEN Append(f[c - 1], c)
                                ELSE f[c - 1]]
           step == [x \in (1..NumCases) \X Seq(Cases) |-> More(x[1], x[2])]
<1>1. NumCases \in Nat /\ Cases = 1..NumCases
  BY ResearchAssumption DEF Cases
<1>2. \E f : Firsts(f) /\ f \in [0..NumCases -> Seq(Cases)]
  <2>1. step \in [(1..NumCases) \X Seq(Cases) -> Seq(Cases)]
    <3>1. ASSUME NEW c \in Cases, NEW t \in Seq(Cases) PROVE More(c, t) \in Seq(Cases)
      BY AppendProperties
    <3> HIDE DEF More
    <3>. QED
      BY <1>1, <3>1
  <2>2. <<>> \in Seq(Cases)
    OBVIOUS
  <2> HIDE DEF step
  <2>3. PICK f \in [0..NumCases -> Seq(Cases)] : Follows(f, NumCases, <<>>, step)
    BY <1>1, <2>1, <2>2, Recursion
  <2>4. ASSUME NEW c \in 0..NumCases PROVE f[c] = IF c = 0 THEN <<>> ELSE More(c, f[c - 1])
    <3>1. CASE c = 0
      BY <2>3, <3>1 DEF Follows
    <3>2. CASE c # 0
      <4>1. c \in 1..NumCases /\ c - 1 \in 0..NumCases
        BY <1>1, <3>2
      <4>2. f[c] = step[<<c, f[c - 1]>>] /\ f[c - 1] \in Seq(Cases)
        BY <2>3, <4>1 DEF Follows
      <4>. QED
        BY <3>2, <4>1, <4>2 DEF step
    <3>. QED
      BY <3>1, <3>2
  <2>5. f = [c \in 0..NumCases |-> f[c]]
    OBVIOUS
  <2>6. Firsts(f)
    BY <2>4, <2>5
  <2>. QED
    BY <2>6
<1> DEFINE first == CHOOSE f : Firsts(f)
           Good(t, c) == /\ t \in Seq(Cases)
                         /\ \A i \in DOMAIN t : t[i] \in ids /\ t[i] <= c
                         /\ \A i, j \in DOMAIN t : t[i] = t[j] => i = j
<1>3. FirstOf(n, ids) = first[NumCases]
  BY DEF FirstOf
<1>4. Firsts(first)
  BY <1>2
<1> HIDE DEF first
<1>5. \A c \in 0..NumCases : first[c] = IF c = 0 THEN <<>> ELSE More(c, first[c - 1])
  BY <1>4
<1> HIDE DEF Firsts
<1>6. ASSUME NEW t, NEW c \in 1..NumCases, Good(t, c - 1)
      PROVE  Good(More(c, t), c)
  <2>1. CASE c \in ids /\ Len(t) < n
    <3>1. /\ Append(t, c) \in Seq(Cases) /\ DOMAIN Append(t, c) = 1..(Len(t) + 1)
          /\ \A i \in 1..Len(t) : Append(t, c)[i] = t[i]
          /\ Append(t, c)[Len(t) + 1] = c
          /\ Len(t) \in Nat /\ DOMAIN t = 1..Len(t)
      BY <1>1, <1>6, AppendProperties
    <3>2. \A i \in 1..(Len(t) + 1) : i = Len(t) + 1 \/ i \in 1..Len(t)
      BY <3>1
    <3>3. \A i \in 1..Len(t) : t[i] \in Nat /\ t[i] < c
      BY <1>1, <1>6, <3>1, SMTT(30)
    <3> DEFINE u == Append(t, c)
    <3>4. \A i \in DOMAIN u : u[i] \in ids /\ u[i] <= c
      BY <1>6, <2>1, <3>1, <3>2, <3>3
    <3>5. \A i, j \in DOMAIN u : u[i] = u[j] => i = j
      BY <1>6, <3>1, <3>2, <3>3
    <3>. QED
      BY <2>1, <3>1, <3>4, <3>5
  <2>2. CASE ~(c \in ids /\ Len(t) < n)
    BY <1>1, <1>6, <2>2
  <2>. QED
    BY <2>1, <2>2
<1> HIDE DEF More
<1> DEFINE T == {c \in 0..NumCases : ~Good(first[c], c)}
<1>7. T = {}
  <2> SUFFICES ASSUME T # {} PROVE FALSE
    OBVIOUS
  <2>1. PICK m \in T : \A k \in T : m <= k
    <3>1. T \in SUBSET Nat
      BY <1>1
    <3> HIDE DEF T
    <3>. QED
      BY <3>1, SmallestNumber
  <2>2. m \in 0..NumCases /\ ~Good(first[m], m)
    BY <2>1
  <2>3. m # 0
    <3>1. Good(<<>>, 0)
      OBVIOUS
    <3> HIDE DEF Good
    <3>. QED
      BY <1>5, <2>2, <3>1
  <2>4. m \in 1..NumCases /\ m - 1 \in 0..NumCases /\ m - 1 \notin T
    BY <1>1, <2>1, <2>2, <2>3
  <2>. QED
    BY <1>5, <1>6, <2>2, <2>3, <2>4
<1>8. Good(first[NumCases], NumCases)
  BY <1>1, <1>7
<1>. QED
  BY <1>3, <1>8

\* Latest leaves out no case.
LEMMA LatestCovers ==
    ASSUME NEW rows, NEW bound \in Nat,
           \A r \in Range(rows) : r.search \in Nat /\ r.search <= bound,
           NEW x \in Range(rows)
    PROVE  \E r \in Latest(rows) : r.of = x.of
<1> DEFINE Same == {r \in Range(rows) : r.of = x.of}
           T == {bound - r.search : r \in Same}
<1>1. T \in SUBSET Nat /\ T # {}
  OBVIOUS
<1>2. PICK m \in T : \A k \in T : m <= k
  <2> HIDE DEF T
  <2>. QED
    BY <1>1, SmallestNumber
<1>3. PICK r \in Same : m = bound - r.search
  BY <1>2
<1>4. ASSUME NEW q \in Same PROVE q.search <= r.search
  <2>1. m <= bound - q.search
    BY <1>2
  <2>2. q.search \in Nat /\ r.search \in Nat
    BY <1>3
  <2>. QED
    BY <1>3, <2>1, <2>2
<1>. QED
  BY <1>3, <1>4 DEF Latest

-----------------------------------------------------------------------------
(* The calls *)

AppSteps == {"clicked", "answered", "looked", "altered", "opened", "inserted"}
CliSteps == {"selected", "answered", "inserted", "reporting", "looked", "altered", "opened"}
Consents == [tick: Nat, problem: Problems \cup {"none"}]
AppBusy == [at: AppSteps, problem: Problems, consent: Consents, early: BOOLEAN,
            left: BOOLEAN, search: Nat, size: 0..MaxSize]
CliBusy == [at: CliSteps, todo: Seq(Cases), search: Nat, size: 0..MaxSize]

LEMMA IdleIsNoStep == Idle.at = "idle" /\ Idle.at \notin AppSteps \cup CliSteps
  BY DEF Idle, AppSteps, CliSteps

LEMMA AppIs == ASSUME NEW r \in AppCall
               PROVE  r.at # "idle" => r \in AppBusy
  BY IdleIsNoStep DEF AppCall, AppBusy, AppSteps, Consents

LEMMA CliIs == ASSUME NEW r \in CliCall
               PROVE  r.at # "idle" => r \in CliBusy
  BY IdleIsNoStep DEF CliCall, CliBusy, CliSteps

LEMMA BusyIs ==
    /\ AppCall = {Idle} \cup AppBusy /\ CliCall = {Idle} \cup CliBusy
    /\ \A r \in AppBusy : r # Idle /\ r.at # "idle"
    /\ \A r \in CliBusy : r # Idle /\ r.at # "idle"
<1>1. AppCall = {Idle} \cup AppBusy /\ CliCall = {Idle} \cup CliBusy
  BY DEF AppCall, AppBusy, AppSteps, Consents, CliCall, CliBusy, CliSteps
<1>2. ASSUME NEW r \in AppBusy PROVE r # Idle /\ r.at # "idle"
  <2>1. r.at \in AppSteps
    BY DEF AppBusy
  <2>. QED
    BY <2>1, IdleIsNoStep DEF AppSteps
<1>3. ASSUME NEW r \in CliBusy PROVE r # Idle /\ r.at # "idle"
  <2>1. r.at \in CliSteps
    BY DEF CliBusy
  <2>. QED
    BY <2>1, IdleIsNoStep DEF CliSteps
<1>. QED
  BY <1>1, <1>2, <1>3

\* A call goes on to another step.
LEMMA AppGoesOn ==
    ASSUME NEW r \in AppBusy, NEW at \in AppSteps,
           NEW c, c = [r EXCEPT !.at = at]
    PROVE  /\ c \in AppBusy /\ c.at = at /\ c.problem = r.problem
           /\ c.consent = r.consent /\ c.early = r.early /\ c.left = r.left
           /\ c.search = r.search /\ c.size = r.size
  BY DEF AppBusy

LEMMA AppIsAnswered ==
    ASSUME NEW r \in AppBusy, NEW n \in Nat, NEW size \in 1..MaxSize,
           NEW c, c = [r EXCEPT !.at = "answered", !.search = n, !.size = size]
    PROVE  /\ c \in AppBusy /\ c.at = "answered" /\ c.problem = r.problem
           /\ c.consent = r.consent /\ c.early = r.early /\ c.left = r.left
           /\ c.search = n /\ c.size = size
<1>1. "answered" \in AppSteps /\ size \in 0..MaxSize
  BY ResearchAssumption DEF AppSteps
<1>. QED
  BY <1>1 DEF AppBusy

LEMMA AppIsLeft ==
    ASSUME NEW r \in AppBusy,
           NEW c, c = [r EXCEPT !.left = TRUE]
    PROVE  /\ c \in AppBusy /\ c.at = r.at /\ c.problem = r.problem
           /\ c.consent = r.consent /\ c.early = r.early /\ c.left
           /\ c.search = r.search /\ c.size = r.size
  BY DEF AppBusy

LEMMA CliGoesOn ==
    ASSUME NEW r \in CliBusy, NEW at \in CliSteps,
           NEW c, c = [r EXCEPT !.at = at]
    PROVE  /\ c \in CliBusy /\ c.at = at /\ c.todo = r.todo
           /\ c.search = r.search /\ c.size = r.size
  BY DEF CliBusy

LEMMA GotoIs ==
    ASSUME TypeOK, NEW r
    PROVE  /\ Goto("app", r) => /\ proc'.app = r /\ proc'.cli = proc.cli
                                /\ r \in AppCall => proc' \in [app: AppCall, cli: CliCall]
           /\ Goto("cli", r) => /\ proc'.cli = r /\ proc'.app = proc.app
                                /\ r \in CliCall => proc' \in [app: AppCall, cli: CliCall]
  BY DEF TypeOK, Goto

-----------------------------------------------------------------------------
(* Types *)

\* An answer in hand has a size, cases that are asked for are there, and a
\* consent was given for a problem.
InHand ==
    /\ proc.app.at \in {"answered", "looked", "altered", "opened"} => proc.app.size \in 1..MaxSize
    /\ proc.cli.at = "answered" => proc.cli.size \in 1..MaxSize
    /\ proc.cli.at \in {"selected", "answered", "inserted"} => proc.cli.todo # <<>>
    /\ page.consent = NoConsent \/ page.consent.problem \in Problems
    /\ proc.app.at = "clicked" =>
            proc.app.consent = NoConsent \/ proc.app.consent.problem \in Problems

Typed == TypeOK /\ InHand

\* The parts of TypeOK that most steps leave alone.
HistoriesTyped ==
    /\ asked \subseteq [tick: Nat, mark: Problems, problem: Problems, early: BOOLEAN,
                        search: Nat]
    /\ report \cup kept \cup wasted \cup pruned \subseteq Nat
    /\ paid \subseteq Nat \X Cases
    /\ reran \subseteq Cases
    /\ overdue \subseteq {"history", "runs"}
    /\ botched \in BOOLEAN
    /\ {searches, moves, faults} \subseteq Nat
StoresTyped == table \in [history: Seq(Row), runs: Seq(Row)] /\ schema \in {"legacy", "current"}
PageTyped == page \in [problem: Problems, consent: Consents, result: Problems \cup {"none"},
                       resets: Nat, stale: BOOLEAN]
ProcTyped == proc \in [app: AppCall, cli: CliCall]

LEMMA TypeParts ==
    /\ TypeOK <=> HistoriesTyped /\ StoresTyped /\ PageTyped /\ ProcTyped
    /\ TypeOK' <=> HistoriesTyped' /\ StoresTyped' /\ PageTyped' /\ ProcTyped'
  BY DEF TypeOK, HistoriesTyped, StoresTyped, PageTyped, ProcTyped, Consents

LEMMA Calls ==
    ASSUME TypeOK
    PROVE  /\ proc.app.at # "idle" => proc.app \in AppBusy
           /\ proc.cli.at # "idle" => proc.cli \in CliBusy
           /\ proc.app \in AppCall /\ proc.cli \in CliCall
           /\ proc.app = Idle \/ proc.app.at # "idle"
           /\ proc.cli = Idle \/ proc.cli.at # "idle"
<1>1. proc.app \in AppCall /\ proc.cli \in CliCall
  BY DEF TypeOK
<1>. QED
  BY <1>1, AppIs, CliIs, BusyIs

LEMMA TotalSame ==
    ASSUME NEW p \in Problems, NEW sizes \in Seq(1..MaxSize), NEW counted \in BOOLEAN
    PROVE  /\ OldRows(p, sizes, counted) \in Seq(Row)
           /\ SizeOf(OldRows(p, sizes, counted)) = Total(sizes)
<1> DEFINE rows == OldRows(p, sizes, counted)
<1>1. Len(sizes) \in Nat /\ DOMAIN sizes = 1..Len(sizes) /\ \A i \in DOMAIN sizes : sizes[i] \in 1..MaxSize
  BY LenProperties, ElementOfSeq
<1>2. DOMAIN rows = DOMAIN sizes
  BY DEF OldRows
<1>3. ASSUME NEW i \in DOMAIN sizes
      PROVE  rows[i] \in Row /\ rows[i].size = sizes[i]
  <2>1. rows[i] = [search |-> 0, of |-> p, size |-> sizes[i], counted |-> counted]
    BY DEF OldRows
  <2>. QED
    BY <1>1, <2>1 DEF Row
<1>4. rows \in [1..Len(sizes) -> Row]
  <2>1. rows = [i \in 1..Len(sizes) |-> rows[i]]
    BY <1>1 DEF OldRows
  <2> HIDE DEF rows
  <2>. QED
    BY <1>1, <1>3, <2>1
<1>5. [i \in DOMAIN rows |-> rows[i].size] = sizes
  <2>1. sizes = [i \in DOMAIN sizes |-> sizes[i]]
    OBVIOUS
  <2> HIDE DEF rows
  <2>. QED
    BY <1>2, <1>3, <2>1
<1> HIDE DEF rows
<1>6. rows \in Seq(Row)
  BY <1>1, <1>4
<1>. QED
  BY <1>5, <1>6 DEF SizeOf, rows

LEMMA TypedInit == Init => Typed
<1> SUFFICES ASSUME Init PROVE Typed
  OBVIOUS
<1>1. PICK p \in Problems, sizes \in OldSizes, v \in {"legacy", "current"} :
          /\ table = [history |-> OldRows(p, sizes, v = "current"), runs |-> <<>>]
          /\ schema = v
          /\ page = [problem |-> p, consent |-> NoConsent, result |-> "none", resets |-> 0,
                     stale |-> FALSE]
  BY DEF Init
<1>2. OldRows(p, sizes, v = "current") \in Seq(Row)
  <2>1. sizes \in Seq(1..MaxSize)
    BY ResearchAssumption
  <2>. QED
    BY <2>1, TotalSame
<1>3. StoresTyped
  BY <1>1, <1>2 DEF StoresTyped
<1>4. NoConsent \in Consents
  BY DEF NoConsent, Consents
<1>5. PageTyped
  BY <1>1, <1>4 DEF PageTyped
<1>6. ProcTyped
  BY BusyIs DEF Init, ProcTyped
<1>7. HistoriesTyped
  <2>1. botched \in BOOLEAN
    BY DEF Init
  <2>2. searches = 0 /\ moves = 0 /\ faults = 0
    BY DEF Init
  <2>3. asked = {} /\ kept = {} /\ report = {} /\ paid = {} /\ wasted = {} /\ pruned = {}
    BY DEF Init
  <2>4. reran = {} /\ overdue = {}
    BY DEF Init
  <2>. QED
    BY <2>1, <2>2, <2>3, <2>4 DEF HistoriesTyped
<1>8. proc.app = Idle /\ proc.cli = Idle /\ page.consent = NoConsent
  BY <1>1 DEF Init
<1>9. InHand
  BY <1>8 DEF InHand, Idle
<1>. QED
  BY <1>3, <1>5, <1>6, <1>7, <1>9, TypeParts DEF Typed

\* An abort leaves the page and the tables alone.
LEMMA TypedAbort ==
    ASSUME Typed, NEW a \in {"app", "cli"}, Abort(a), proc[a].at # "idle"
    PROVE  /\ ProcTyped' /\ StoresTyped'
           /\ searches' \in Nat /\ moves' \in Nat /\ faults' \in Nat => HistoriesTyped'
           /\ a = "app" => proc'.app = Idle /\ proc'.cli = proc.cli
           /\ a = "cli" => proc'.cli = Idle /\ proc'.app = proc.app
<1>1. TypeOK /\ ProcTyped /\ StoresTyped /\ HistoriesTyped
  BY TypeParts DEF Typed
<1>2. Idle \in AppCall /\ Idle \in CliCall
  BY BusyIs
<1>3. /\ a = "app" => proc'.app = Idle /\ proc'.cli = proc.cli /\ ProcTyped'
      /\ a = "cli" => proc'.cli = Idle /\ proc'.app = proc.app /\ ProcTyped'
  BY <1>1, <1>2, GotoIs DEF Abort, ProcTyped
<1>4. StoresTyped'
  BY <1>1 DEF Abort, StoresTyped
<1>5. ASSUME searches' \in Nat, moves' \in Nat, faults' \in Nat PROVE HistoriesTyped'
  <2>1. botched' \in BOOLEAN
    <3>1. botched \in BOOLEAN /\ botched' = (botched \/ proc[a].at = "altered")
      BY <1>1 DEF Abort, HistoriesTyped
    <3>. QED
      BY <3>1, Zenon
  <2>2. overdue' \subseteq {"history", "runs"}
    BY <1>1 DEF Abort, HistoriesTyped, StoreOf
  <2>3. wasted' \subseteq Nat
    <3>1. a = "cli" /\ proc[a].at = "answered" => proc[a].search \in Nat
      BY <1>1, Calls DEF CliBusy
    <3>. QED
      BY <1>1, <3>1 DEF Abort, HistoriesTyped
  <2>4. kept' \subseteq Nat
    <3>1. a = "app" => proc[a].consent.tick \in Nat
      <4>1. a = "app" => proc[a].consent \in Consents
        BY <1>1, Calls DEF AppBusy
      <4>. QED
        BY <4>1 DEF Consents
    <3>. QED
      BY <1>1, <3>1 DEF Abort, HistoriesTyped
  <2>. QED
    BY <1>1, <1>5, <2>1, <2>2, <2>3, <2>4 DEF Abort, HistoriesTyped
<1>. QED
  BY <1>3, <1>4, <1>5

LEMMA ShownIs ==
    ASSUME Typed, proc.app.at # "idle", NEW result \in Problems \cup {"none"}, Shown(result)
    PROVE  /\ PageTyped' /\ page'.consent = NoConsent /\ page'.result = result
           /\ page'.stale = proc.app.left /\ page'.problem = page.problem
           /\ page'.resets = page.resets
<1>1. PageTyped /\ NoConsent \in Consents
  BY TypeParts DEF Typed, NoConsent, Consents
<1>2. proc.app.left \in BOOLEAN
  BY Calls DEF Typed, AppBusy
<1>. QED
  BY <1>1, <1>2 DEF PageTyped, Shown

LEMMA TypedLearner ==
    ASSUME Typed,
           (\E p \in Problems : Select(p)) \/ Reset \/ ToggleConsent \/ Click \/ Withhold \/ Ask
    PROVE  Typed'
<1>1. TypeOK /\ ProcTyped /\ StoresTyped /\ HistoriesTyped /\ PageTyped /\ InHand
  BY TypeParts DEF Typed
<1>2. NoConsent \in Consents /\ Idle \in AppCall
  BY BusyIs DEF NoConsent, Consents
<1>3. page.consent \in Consents /\ page.problem \in Problems /\ page.resets \in Nat
  BY <1>1 DEF PageTyped
<1>4. StoresTyped'
  BY <1>1 DEF StoresTyped, stores, Select, Reset, ToggleConsent, Click, Withhold, Ask
<1>5. HistoriesTyped' /\ PageTyped' /\ ProcTyped' /\ InHand'
  <2>1. ASSUME NEW p \in Problems, Select(p)
        PROVE  HistoriesTyped' /\ PageTyped' /\ ProcTyped' /\ InHand'
    <3>0. /\ Bounded(moves, MaxMoves)
          /\ page' = [page EXCEPT !.problem = p, !.resets = @ + 1]
          /\ UNCHANGED <<stores, operator, asked, kept, searches, faults>>
      BY <2>1, Zenon DEF Select
    <3>1. HistoriesTyped'
      BY <1>1, <3>0 DEF HistoriesTyped, Bounded, stores, operator
    <3>2. PageTyped' /\ page'.consent = page.consent
      <4>1. page.resets + 1 \in Nat
        BY <1>3
      <4>. QED
        BY <1>1, <2>1, <3>0, <4>1 DEF PageTyped
    <3>3. CASE proc.app = Idle
      <4>1. UNCHANGED proc
        BY <2>1, <3>3 DEF Select
      <4>. QED
        BY <1>1, <3>1, <3>2, <4>1 DEF ProcTyped, InHand
    <3>4. CASE proc.app # Idle
      <4>1. proc.app \in AppBusy
        BY <1>1, <3>4, Calls
      <4> DEFINE c == [proc.app EXCEPT !.left = TRUE]
      <4>2. /\ c \in AppBusy /\ c.at = proc.app.at /\ c.problem = proc.app.problem
            /\ c.consent = proc.app.consent /\ c.size = proc.app.size
        BY <4>1, AppIsLeft
      <4>3. Goto("app", c)
        BY <2>1, <3>4 DEF Select
      <4> HIDE DEF c
      <4>4. proc'.app = c /\ proc'.cli = proc.cli /\ ProcTyped'
        BY <1>1, <4>2, <4>3, GotoIs, BusyIs DEF ProcTyped
      <4>. QED
        BY <1>1, <3>1, <3>2, <4>2, <4>4 DEF InHand
    <3>. QED
      BY <3>3, <3>4
  <2>2. CASE Reset
    <3>1. HistoriesTyped' /\ ProcTyped' /\ UNCHANGED proc
      BY <1>1, <2>2 DEF HistoriesTyped, ProcTyped, Reset, stores, operator, bounds
    <3>2. PageTyped' /\ page'.consent = NoConsent
      <4>1. page.resets - 1 \in Nat
        BY <1>3, <2>2 DEF Reset
      <4>. QED
        BY <1>1, <1>2, <2>2, <4>1 DEF PageTyped, Reset
    <3>. QED
      BY <1>1, <3>1, <3>2 DEF InHand
  <2>3. CASE ToggleConsent
    <3>1. HistoriesTyped' /\ ProcTyped' /\ UNCHANGED proc
      BY <1>1, <2>3 DEF HistoriesTyped, ProcTyped, ToggleConsent, stores, operator, Bounded
    <3> DEFINE c == IF page.consent = NoConsent
                    THEN [tick |-> moves + 1, problem |-> page.problem]
                    ELSE NoConsent
    <3>2. c \in Consents /\ (c = NoConsent \/ c.problem \in Problems)
      <4>1. moves + 1 \in Nat
        BY <1>1 DEF HistoriesTyped
      <4>. QED
        BY <1>2, <1>3, <4>1 DEF Consents
    <3>3. page' = [page EXCEPT !.consent = c]
      BY <2>3 DEF ToggleConsent
    <3> HIDE DEF c
    <3>4. PageTyped' /\ page'.consent = c
      BY <1>1, <3>2, <3>3 DEF PageTyped
    <3>. QED
      BY <1>1, <3>1, <3>2, <3>4 DEF InHand
  <2>4. CASE Click
    <3>1. HistoriesTyped' /\ PageTyped' /\ UNCHANGED page
      BY <1>1, <2>4 DEF HistoriesTyped, PageTyped, Click, stores, operator, learner, Bounded
    <3> DEFINE c == [at |-> "clicked", problem |-> page.problem, consent |-> page.consent,
                     early |-> page.resets > 0, left |-> FALSE, search |-> 0, size |-> 0]
    <3>2. c \in AppBusy /\ c.at = "clicked" /\ c.consent = page.consent
      <4>1. "clicked" \in AppSteps /\ 0 \in Nat /\ 0 \in 0..MaxSize
        BY ResearchAssumption DEF AppSteps
      <4>. QED
        BY <1>3, <4>1 DEF AppBusy
    <3>3. Goto("app", c)
      BY <2>4 DEF Click
    <3> HIDE DEF c
    <3>4. proc'.app = c /\ proc'.cli = proc.cli /\ ProcTyped'
      BY <1>1, <3>2, <3>3, GotoIs, BusyIs DEF ProcTyped
    <3>. QED
      BY <1>1, <3>1, <3>2, <3>4 DEF InHand
  <2>5. ASSUME Shown("none"), Goto("app", Idle), HistoriesTyped', proc.app.at # "idle"
        PROVE  HistoriesTyped' /\ PageTyped' /\ ProcTyped' /\ InHand'
    <3>1. proc'.app = Idle /\ proc'.cli = proc.cli /\ ProcTyped'
      BY <1>1, <1>2, <2>5, GotoIs DEF ProcTyped
    <3>2. PageTyped' /\ page'.consent = NoConsent
      BY <1>1, <2>5, ShownIs DEF Typed
    <3>. QED
      BY <1>1, <2>5, <3>1, <3>2 DEF InHand, Idle
  <2>6. CASE Withhold
    <3>1. HistoriesTyped'
      BY <1>1, <2>6 DEF HistoriesTyped, Withhold, stores, operator, bounds
    <3>2. proc.app.at # "idle"
      BY <2>6 DEF Withhold
    <3>. QED
      BY <2>5, <2>6, <3>1, <3>2 DEF Withhold
  <2>7. CASE Ask
    <3>1. proc.app \in AppBusy /\ proc.app.at = "clicked" /\ proc.app.consent # NoConsent
      BY <1>1, <2>7, Calls DEF Ask
    <3>2. HistoriesTyped'
      <4>1. /\ proc.app.consent.tick \in Nat /\ proc.app.consent.problem \in Problems
            /\ proc.app.problem \in Problems /\ proc.app.early \in BOOLEAN
            /\ searches \in Nat
        BY <1>1, <3>1 DEF AppBusy, Consents, InHand, HistoriesTyped
      <4> DEFINE s == [tick |-> proc.app.consent.tick, mark |-> proc.app.consent.problem,
                       problem |-> proc.app.problem, early |-> proc.app.early,
                       search |-> searches + 1]
      <4>2. s \in [tick: Nat, mark: Problems, problem: Problems, early: BOOLEAN, search: Nat]
        BY <4>1
      <4>3. asked' = asked \cup {s} /\ searches' = searches + 1
        BY <2>7 DEF Ask, Bounded
      <4>4. UNCHANGED <<stores, operator, kept, moves, faults>>
        BY <2>7, Zenon DEF Ask
      <4> HIDE DEF s
      <4>. QED
        BY <1>1, <4>1, <4>2, <4>3, <4>4 DEF HistoriesTyped, stores, operator
    <3>3. ASSUME NEW size \in 1..MaxSize, UNCHANGED page,
                 Goto("app", [proc.app EXCEPT !.at = "answered", !.search = searches + 1,
                                              !.size = size])
          PROVE  PageTyped' /\ ProcTyped' /\ InHand'
      <4> DEFINE c == [proc.app EXCEPT !.at = "answered", !.search = searches + 1,
                                       !.size = size]
      <4>1. c \in AppBusy /\ c.at = "answered" /\ c.size = size
        <5>1. PICK n \in Nat : n = searches + 1
          BY <1>1 DEF HistoriesTyped
        <5>2. PICK r \in AppBusy : r = proc.app
          BY <3>1
        <5>3. c = [r EXCEPT !.at = "answered", !.search = n, !.size = size]
          BY <5>1, <5>2
        <5>4. size \in 1..MaxSize
          BY <3>3
        <5> HIDE DEF c
        <5>5. c \in AppBusy
          BY <5>3, <5>4, AppIsAnswered, Zenon
        <5>6. c.at = "answered" /\ c.size = size
          BY <5>3, <5>4 DEF AppBusy
        <5>. QED
          BY <5>5, <5>6
      <4>2. Goto("app", c)
        BY <3>3
      <4> HIDE DEF c
      <4>3. proc'.app = c /\ proc'.cli = proc.cli /\ ProcTyped'
        BY <1>1, <4>1, <4>2, GotoIs, BusyIs DEF ProcTyped
      <4>. QED
        BY <1>1, <3>3, <4>1, <4>3 DEF InHand, PageTyped
    <3>4. proc.app.at # "idle"
      BY <3>1
    <3>. QED
      BY <2>5, <2>7, <3>2, <3>3, <3>4 DEF Ask
  <2>. QED
    BY <2>1, <2>2, <2>3, <2>4, <2>6, <2>7
<1>. QED
  BY <1>4, <1>5, TypeParts DEF Typed

LEMMA TypedOperator ==
    ASSUME Typed,
           \/ \E n \in 1..NumCases, ids \in SUBSET Cases, rerun \in BOOLEAN : Evaluate(n, ids, rerun)
           \/ AskCase \/ Report
    PROVE  Typed'
<1>1. TypeOK /\ ProcTyped /\ StoresTyped /\ HistoriesTyped /\ PageTyped /\ InHand
  BY TypeParts DEF Typed
<1>2. PageTyped' /\ UNCHANGED page
  BY <1>1 DEF PageTyped, Evaluate, AskCase, Report, learner
<1>3. StoresTyped'
  BY <1>1 DEF StoresTyped, stores, Evaluate, AskCase, Report
<1>4. HistoriesTyped' /\ ProcTyped' /\ InHand'
  <2>1. ASSUME NEW n \in 1..NumCases, NEW ids \in SUBSET Cases, NEW rerun \in BOOLEAN,
               Evaluate(n, ids, rerun)
        PROVE  HistoriesTyped' /\ ProcTyped' /\ InHand'
    <3>1. PICK todo : todo = Selected(n, ids, rerun)
      OBVIOUS
    <3>2. todo \in Seq(Cases) /\ Range(todo) \subseteq Cases
      <4>1. n \in Nat
        BY ResearchAssumption
      <4>2. todo \in Seq(Cases)
        <5>1. {c \in ids : rerun \/ c \notin {r.of : r \in Latest(table.runs)}} \in SUBSET Cases
          OBVIOUS
        <5>. QED
          BY <3>1, <4>1, <5>1, FirstOfIs DEF Selected
      <4>. QED
        BY <4>2, RangeOfSeq
    <3> DEFINE c == [at |-> IF todo = <<>> THEN "reporting" ELSE "selected",
                     todo |-> todo, search |-> 0, size |-> 0]
    <3>3. c \in CliBusy /\ c.todo = todo
      <4>1. 0 \in Nat /\ 0 \in 0..MaxSize /\ {"reporting", "selected"} \subseteq CliSteps
        BY ResearchAssumption DEF CliSteps
      <4>. QED
        BY <3>2, <4>1 DEF CliBusy
    <3>4. /\ c.at = "selected" => todo # <<>>
          /\ c.at \notin {"answered", "inserted"}
      OBVIOUS
    <3>5. /\ Bounded(moves, MaxMoves)
          /\ Goto("cli", c)
          /\ reran' = IF rerun THEN reran \cup Range(todo) ELSE reran
          /\ UNCHANGED <<stores, learner, report, paid, wasted, searches, faults>>
      BY <2>1, <3>1 DEF Evaluate
    <3> HIDE DEF c
    <3>6. proc'.cli = c /\ proc'.app = proc.app /\ ProcTyped'
      BY <1>1, <3>3, <3>5, GotoIs, BusyIs DEF ProcTyped
    <3>7. HistoriesTyped'
      BY <1>1, <3>2, <3>5 DEF HistoriesTyped, Bounded, stores, learner
    <3>8. InHand'
      BY <1>1, <1>2, <3>3, <3>4, <3>6 DEF InHand
    <3>. QED
      BY <3>6, <3>7, <3>8
  <2>2. CASE AskCase
    <3>1. /\ proc.cli \in CliBusy /\ proc.cli.at = "selected" /\ proc.cli.todo # <<>>
          /\ proc.cli.todo \in Seq(Cases) /\ Head(proc.cli.todo) \in Cases
      <4>1. proc.cli \in CliBusy /\ proc.cli.at = "selected" /\ proc.cli.todo # <<>>
        BY <1>1, <2>2, Calls DEF AskCase, InHand
      <4>2. proc.cli.todo \in Seq(Cases)
        BY <4>1 DEF CliBusy
      <4>. QED
        BY <4>1, <4>2, HeadTailProperties
    <3>2. PICK n \in Nat : n = searches + 1
      BY <1>1 DEF HistoriesTyped
    <3>3. HistoriesTyped'
      <4>1. searches' = n /\ moves' = moves /\ faults' = faults
        BY <2>2, <3>2 DEF AskCase, Bounded
      <4>2. paid' \in {paid, paid \cup {<<n, Head(proc.cli.todo)>>}} /\ wasted' \in {wasted, wasted \cup {n}}
        BY <2>2, <3>2 DEF AskCase
      <4>3. UNCHANGED <<stores, learner, report, reran, moves, faults>>
        BY <2>2 DEF AskCase
      <4>. QED
        BY <1>1, <3>1, <4>1, <4>2, <4>3 DEF HistoriesTyped, stores, learner
    <3>4. ASSUME NEW size \in 1..MaxSize,
                 Goto("cli", [proc.cli EXCEPT !.at = "answered", !.search = n, !.size = size])
          PROVE  ProcTyped' /\ InHand'
      <4> DEFINE c == [proc.cli EXCEPT !.at = "answered", !.search = n, !.size = size]
      <4>1. c \in CliBusy
        <5>1. size \in 0..MaxSize /\ "answered" \in CliSteps
          BY ResearchAssumption DEF CliSteps
        <5>. QED
          BY <3>1, <5>1 DEF CliBusy
      <4>2. c.at = "answered" /\ c.size = size /\ c.todo = proc.cli.todo
        BY <3>1 DEF CliBusy
      <4>3. Goto("cli", c)
        BY <3>4
      <4> HIDE DEF c
      <4>4. proc'.cli = c /\ proc'.app = proc.app /\ ProcTyped'
        BY <1>1, <4>1, <4>3, GotoIs, BusyIs DEF ProcTyped
      <4>. QED
        BY <1>1, <1>2, <3>1, <3>4, <4>2, <4>4 DEF InHand
    <3>5. ASSUME Goto("cli", Idle) PROVE ProcTyped' /\ InHand'
      <4>1. proc'.cli = Idle /\ proc'.app = proc.app /\ ProcTyped'
        BY <1>1, <3>5, GotoIs, BusyIs DEF ProcTyped
      <4>. QED
        BY <1>1, <1>2, <4>1 DEF InHand, Idle
    <3>. QED
      BY <2>2, <3>2, <3>3, <3>4, <3>5 DEF AskCase
  <2>3. CASE Report
    <3>1. proc'.cli = Idle /\ proc'.app = proc.app /\ ProcTyped'
      BY <1>1, <2>3, GotoIs, BusyIs DEF ProcTyped, Report
    <3>2. InHand'
      BY <1>1, <1>2, <3>1 DEF InHand, Idle
    <3>3. report' \subseteq Nat
      <4>1. table.runs \in Seq(Row)
        BY <1>1 DEF StoresTyped
      <4>2. \A r \in Range(table.runs) : r.search \in Nat
        <5>1. Range(table.runs) \subseteq Row
          BY <4>1, RangeOfSeq
        <5>. QED
          BY <5>1 DEF Row
      <4>. QED
        BY <2>3, <4>2 DEF Report, Latest
    <3>4. HistoriesTyped'
      BY <1>1, <2>3, <3>3 DEF HistoriesTyped, Report, stores, learner, bounds
    <3>. QED
      BY <3>1, <3>2, <3>4
  <2>. QED
    BY <2>1, <2>2, <2>3
<1>. QED
  BY <1>2, <1>3, <1>4, TypeParts DEF Typed

\* A step of a repository that only moves the call on.
LEMMA GoesOn ==
    ASSUME Typed, NEW a \in {"app", "cli"}, NEW at, proc[a].at # "idle",
           Goto(a, [proc[a] EXCEPT !.at = at]),
           a = "app" => at \in AppSteps, a = "cli" => at \in CliSteps
    PROVE  /\ ProcTyped'
           /\ a = "app" =>
                /\ proc'.cli = proc.cli /\ proc.app \in AppBusy /\ proc'.app \in AppBusy
                /\ proc'.app.at = at
                /\ proc'.app.problem = proc.app.problem /\ proc'.app.consent = proc.app.consent
                /\ proc'.app.early = proc.app.early /\ proc'.app.left = proc.app.left
                /\ proc'.app.search = proc.app.search /\ proc'.app.size = proc.app.size
           /\ a = "cli" =>
                /\ proc'.app = proc.app /\ proc.cli \in CliBusy /\ proc'.cli \in CliBusy
                /\ proc'.cli.at = at /\ proc'.cli.todo = proc.cli.todo
                /\ proc'.cli.search = proc.cli.search /\ proc'.cli.size = proc.cli.size
<1>1. TypeOK
  BY DEF Typed
<1>2. CASE a = "app"
  <2> DEFINE c == [proc.app EXCEPT !.at = at]
  <2>1. proc.app \in AppBusy
    BY <1>1, <1>2, Calls
  <2>2. /\ c \in AppBusy /\ c.at = at /\ c.problem = proc.app.problem
        /\ c.consent = proc.app.consent /\ c.early = proc.app.early /\ c.left = proc.app.left
        /\ c.search = proc.app.search /\ c.size = proc.app.size
    BY <1>2, <2>1, AppGoesOn
  <2>3. Goto("app", c)
    BY <1>2
  <2> HIDE DEF c
  <2>4. proc'.app = c /\ proc'.cli = proc.cli /\ ProcTyped'
    BY <1>1, <2>2, <2>3, GotoIs, BusyIs DEF ProcTyped
  <2>. QED
    BY <1>2, <2>1, <2>2, <2>4
<1>3. CASE a = "cli"
  <2> DEFINE c == [proc.cli EXCEPT !.at = at]
  <2>1. proc.cli \in CliBusy
    BY <1>1, <1>3, Calls
  <2>2. /\ c \in CliBusy /\ c.at = at /\ c.todo = proc.cli.todo
        /\ c.search = proc.cli.search /\ c.size = proc.cli.size
    BY <1>3, <2>1, CliGoesOn
  <2>3. Goto("cli", c)
    BY <1>3
  <2> HIDE DEF c
  <2>4. proc'.cli = c /\ proc'.app = proc.app /\ ProcTyped'
    BY <1>1, <2>2, <2>3, GotoIs, BusyIs DEF ProcTyped
  <2>. QED
    BY <1>3, <2>1, <2>2, <2>4
<1>. QED
  BY <1>2, <1>3

\* The row that Insert appends.
NewRow(a) ==
    [search |-> proc[a].search, size |-> proc[a].size, counted |-> TRUE,
     of |-> IF a = "app" THEN proc[a].problem ELSE Head(proc[a].todo)]

LEMMA NewRowTyped ==
    ASSUME Typed, NEW a \in {"app", "cli"},
           proc[a].at = IF a = "app" THEN "opened" ELSE "answered"
    PROVE  NewRow(a) \in Row
<1>1. TypeOK /\ InHand
  BY DEF Typed
<1>2. proc[a].size \in 1..MaxSize
  BY <1>1 DEF InHand
<1>3. proc[a].search \in Nat
  BY <1>1, Calls DEF AppBusy, CliBusy
<1>4. a = "app" => proc[a].problem \in Problems
  BY <1>1, Calls DEF AppBusy
<1>5. a = "cli" => Head(proc[a].todo) \in Cases
  <2>1. a = "cli" => proc.cli.todo \in Seq(Cases) /\ proc.cli.todo # <<>>
    BY <1>1, Calls DEF CliBusy, InHand
  <2>. QED
    BY <2>1, HeadTailProperties
<1>. QED
  BY <1>2, <1>3, <1>4, <1>5 DEF NewRow, Row

LEMMA TableTyped ==
    ASSUME StoresTyped, NEW a \in {"app", "cli"}, NEW rows \in Seq(Row),
           table' = [table EXCEPT ![StoreOf(a)] = rows]
    PROVE  /\ table' \in [history: Seq(Row), runs: Seq(Row)]
           /\ a = "app" => table'.history = rows /\ table'.runs = table.runs
           /\ a = "cli" => table'.runs = rows /\ table'.history = table.history
           /\ table'[StoreOf(a)] = rows
  BY DEF StoresTyped, StoreOf

LEMMA UsedIsNat ==
    ASSUME NEW rows \in Seq(Row)
    PROVE  Used(rows) \in Nat /\ Used(rows) <= Len(rows) * MaxSize
<1> DEFINE sizes == [i \in DOMAIN rows |-> IF rows[i].counted THEN rows[i].size ELSE 0]
<1>1. MaxSize \in Nat /\ Len(rows) \in Nat
  BY ResearchAssumption, LenProperties
<1>2. sizes \in Seq(0..MaxSize) /\ Len(sizes) = Len(rows)
  <2>1. DOMAIN rows = 1..Len(rows) /\ \A i \in DOMAIN rows : rows[i] \in Row
    BY LenProperties, ElementOfSeq
  <2>2. \A i \in DOMAIN rows : rows[i].size \in 1..MaxSize
    BY <2>1 DEF Row
  <2>3. \A i \in DOMAIN rows : sizes[i] \in 0..MaxSize
    BY <1>1, <2>2
  <2>4. sizes \in [1..Len(rows) -> 0..MaxSize]
    BY <2>1, <2>3
  <2> HIDE DEF sizes
  <2>. QED
    BY <1>1, <2>4
<1>3. Used(rows) = Total(sizes)
  BY DEF Used
<1> HIDE DEF sizes
<1>. QED
  BY <1>1, <1>2, <1>3, TotalBound

\* Rows that exceed the quota are more than a batch.
LEMMA MoreThanABatch ==
    ASSUME NEW rows \in Seq(Row), Used(rows) > Quota
    PROVE  Len(rows) \in Nat /\ Len(rows) > Batch
<1>1. {Batch, MaxSize, Quota, Len(rows)} \subseteq Nat /\ Batch * MaxSize < Quota
  BY ResearchAssumption, LenProperties
<1>2. Used(rows) \in Nat /\ Used(rows) <= Len(rows) * MaxSize
  BY UsedIsNat
<1>3. \A n, b, m \in Nat : n <= b => n * m <= b * m
  OBVIOUS
<1>4. Len(rows) <= Batch => Len(rows) * MaxSize <= Batch * MaxSize
  BY <1>1, <1>3
<1>5. Len(rows) * MaxSize \in Nat /\ Batch * MaxSize \in Nat
  BY <1>1
<1>. QED
  BY <1>1, <1>2, <1>4, <1>5

\* What a round of _prune leaves and takes.
Rest(rows) == SubSeq(rows, Batch + 1, Len(rows))
Gone(rows) == SubSeq(rows, 1, Batch)

LEMMA PruneIs ==
    ASSUME NEW rows \in Seq(Row), Used(rows) > Quota
    PROVE  /\ Rest(rows) \in Seq(Row) /\ Rest(rows) # <<>>
           /\ Rest(rows)[Len(Rest(rows))] = rows[Len(rows)]
           /\ \A i \in DOMAIN Rest(rows) : \E j \in DOMAIN rows : Rest(rows)[i] = rows[j]
           /\ SearchesIn(Gone(rows)) \subseteq Nat
           /\ \A r \in Range(rows) :
                  r \in Range(Rest(rows)) \/ r.search \in SearchesIn(Gone(rows))
<1>0. PICK rest, gone : rest = Rest(rows) /\ gone = Gone(rows)
  OBVIOUS
<1>1. /\ {Batch, Len(rows)} \subseteq Nat /\ Batch > 0 /\ Len(rows) > Batch
      /\ DOMAIN rows = 1..Len(rows) /\ \A i \in DOMAIN rows : rows[i] \in Row
  BY ResearchAssumption, MoreThanABatch, LenProperties, ElementOfSeq
<1>2. /\ rest \in Seq(Row) /\ Len(rest) = Len(rows) - Batch
      /\ \A i \in 1..(Len(rows) - Batch) : rest[i] = rows[Batch + i]
  <2>1. \A i \in (Batch + 1)..Len(rows) : rows[i] \in Row
    BY <1>1
  <2>2. /\ rest \in Seq(Row)
        /\ Len(rest) = IF Batch + 1 <= Len(rows) THEN Len(rows) - (Batch + 1) + 1 ELSE 0
        /\ \A i \in 1..(Len(rows) - (Batch + 1) + 1) : rest[i] = rows[Batch + 1 + i - 1]
    BY <1>0, <1>1, <2>1, SubSeqProperties DEF Rest, Gone
  <2>3. Len(rest) = Len(rows) - Batch
    BY <1>1, <2>2
  <2>4. ASSUME NEW i \in 1..(Len(rows) - Batch) PROVE rest[i] = rows[Batch + i]
    <3>1. i \in 1..(Len(rows) - (Batch + 1) + 1) /\ Batch + 1 + i - 1 = Batch + i
      BY <1>1
    <3>. QED
      BY <2>2, <3>1
  <2>. QED
    BY <2>2, <2>3, <2>4
<1>3. /\ gone \in Seq(Row) /\ Len(gone) = Batch
      /\ \A i \in 1..Batch : gone[i] = rows[i]
  <2>1. \A i \in 1..Batch : rows[i] \in Row
    BY <1>1
  <2>2. /\ gone \in Seq(Row)
        /\ Len(gone) = IF 1 <= Batch THEN Batch - 1 + 1 ELSE 0
        /\ \A i \in 1..(Batch - 1 + 1) : gone[i] = rows[1 + i - 1]
    BY <1>0, <1>1, <2>1, SubSeqProperties DEF Rest, Gone
  <2>. QED
    BY <1>1, <2>2
<1>4. DOMAIN rest = 1..(Len(rows) - Batch) /\ DOMAIN gone = 1..Batch
  BY <1>2, <1>3
<1>5. rest # <<>> /\ rest[Len(rest)] = rows[Len(rows)]
  <2>1. Len(rest) \in 1..(Len(rows) - Batch) /\ Batch + Len(rest) = Len(rows)
    BY <1>1, <1>2
  <2>2. rest[Len(rest)] = rows[Batch + Len(rest)]
    BY <1>2, <2>1
  <2>3. rest # <<>>
    <3>1. Len(rest) # 0
      BY <1>1, <1>2
    <3>. QED
      BY <3>1, EmptySeq
  <2>. QED
    BY <2>1, <2>2, <2>3
<1>6. ASSUME NEW i \in DOMAIN rest PROVE \E j \in DOMAIN rows : rest[i] = rows[j]
  <2>1. i \in 1..(Len(rows) - Batch)
    BY <1>4
  <2>2. Batch + i \in 1..Len(rows)
    BY <1>1, <2>1
  <2>. QED
    BY <1>1, <1>2, <2>1, <2>2
<1>7. SearchesIn(gone) \subseteq Nat
  <2>1. Range(gone) \subseteq Row
    BY <1>3, RangeOfSeq
  <2>. QED
    BY <2>1 DEF SearchesIn, Row
<1>8. ASSUME NEW r \in Range(rows)
      PROVE  r \in Range(rest) \/ r.search \in SearchesIn(gone)
  <2>1. PICK i \in 1..Len(rows) : r = rows[i]
    BY <1>1 DEF Range
  <2>2. CASE i <= Batch
    <3>1. gone[i] = r /\ i \in DOMAIN gone
      BY <1>3, <1>4, <2>1, <2>2
    <3>2. r \in Range(gone)
      BY <3>1 DEF Range
    <3>. QED
      BY <3>2 DEF SearchesIn
  <2>3. CASE i > Batch
    <3>1. i - Batch \in 1..(Len(rows) - Batch) /\ Batch + (i - Batch) = i
      BY <1>1, <2>3
    <3>2. rest[i - Batch] = r /\ i - Batch \in DOMAIN rest
      BY <1>2, <1>4, <2>1, <3>1
    <3>. QED
      BY <3>2 DEF Range
  <2>. QED
    BY <1>1, <2>1, <2>2, <2>3
<1>. QED
  BY <1>0, <1>2, <1>5, <1>6, <1>7, <1>8

\* The UPDATE of the migration.
Filled(rows) == [i \in DOMAIN rows |-> [rows[i] EXCEPT !.counted = TRUE]]

LEMMA FilledIs ==
    ASSUME NEW rows \in Seq(Row)
    PROVE  /\ Filled(rows) \in Seq(Row) /\ Len(Filled(rows)) = Len(rows)
           /\ DOMAIN Filled(rows) = DOMAIN rows
           /\ \A i \in DOMAIN rows : /\ Filled(rows)[i].counted
                                     /\ Filled(rows)[i].search = rows[i].search
<1>0. PICK filled : filled = Filled(rows)
  OBVIOUS
<1>1. Len(rows) \in Nat /\ DOMAIN rows = 1..Len(rows) /\ \A i \in DOMAIN rows : rows[i] \in Row
  BY LenProperties, ElementOfSeq
<1>2. ASSUME NEW i \in DOMAIN rows
      PROVE  filled[i] \in Row /\ filled[i].counted /\ filled[i].search = rows[i].search
  <2>1. rows[i] \in Row /\ filled[i] = [rows[i] EXCEPT !.counted = TRUE]
    BY <1>0, <1>1 DEF Filled
  <2>. QED
    BY <2>1 DEF Row
<1>3. filled \in [1..Len(rows) -> Row]
  <2>1. filled = [i \in 1..Len(rows) |-> filled[i]]
    BY <1>0, <1>1 DEF Filled
  <2>. QED
    BY <1>1, <1>2, <2>1
<1>4. filled \in Seq(Row) /\ Len(filled) = Len(rows) /\ DOMAIN filled = DOMAIN rows
  BY <1>1, <1>3
<1>. QED
  BY <1>0, <1>1, <1>2, <1>4

LEMMA TypedStore ==
    ASSUME Typed, NEW a \in {"app", "cli"}, Store(a)
    PROVE  Typed'
<1>1. TypeOK /\ ProcTyped /\ StoresTyped /\ HistoriesTyped /\ PageTyped /\ InHand
  BY TypeParts DEF Typed
<1>2. /\ "looked" \in AppSteps \cap CliSteps /\ "altered" \in AppSteps \cap CliSteps
      /\ "opened" \in AppSteps \cap CliSteps /\ "inserted" \in AppSteps \cap CliSteps
      /\ "reporting" \in CliSteps /\ "selected" \in CliSteps
  BY DEF AppSteps, CliSteps
<1>3. CASE Look(a)
  <2>1. PICK at \in {"looked", "opened"} : Goto(a, [proc[a] EXCEPT !.at = at])
    BY <1>3 DEF Look
  <2>2. proc[a].at = IF a = "app" THEN "answered" ELSE "reporting"
    BY <1>3 DEF Look
  <2>3. ProcTyped' /\ InHand'
    <3>1. UNCHANGED page
      BY <1>3 DEF Look, learner
    <3>2. proc[a].at # "idle"
      BY <2>2
    <3>3. ProcTyped' /\ (a = "app" => /\ proc'.cli = proc.cli /\ proc'.app.at = at
                                      /\ proc'.app.size = proc.app.size)
                     /\ (a = "cli" => proc'.app = proc.app /\ proc'.cli.at = at)
      BY <1>2, <2>1, <3>2, GoesOn
    <3>. QED
      BY <1>1, <2>1, <2>2, <3>1, <3>3 DEF InHand
  <2>4. HistoriesTyped' /\ StoresTyped' /\ PageTyped'
    BY <1>1, <1>3 DEF HistoriesTyped, StoresTyped, PageTyped, Look, stores, learner, operator, bounds
  <2>. QED
    BY <2>3, <2>4, TypeParts DEF Typed
<1>4. ASSUME Abort(a), proc[a].at # "idle", UNCHANGED page,
             searches' \in Nat, moves' \in Nat, faults' \in Nat
      PROVE  Typed'
  <2>1. /\ ProcTyped' /\ StoresTyped' /\ HistoriesTyped'
        /\ a = "app" => proc'.app = Idle /\ proc'.cli = proc.cli
        /\ a = "cli" => proc'.cli = Idle /\ proc'.app = proc.app
    BY <1>4, TypedAbort
  <2>2. InHand'
    BY <1>1, <1>4, <2>1 DEF InHand, Idle
  <2>3. PageTyped'
    BY <1>1, <1>4 DEF PageTyped
  <2>. QED
    BY <2>1, <2>2, <2>3, TypeParts DEF Typed
<1>5. CASE Alter(a)
  <2>1. proc[a].at = "looked" /\ UNCHANGED page /\ UNCHANGED bounds
    BY <1>5 DEF Alter
  <2>2. CASE schema = "legacy"
    <3>1. /\ schema' = "current" /\ Goto(a, [proc[a] EXCEPT !.at = "altered"])
          /\ UNCHANGED <<table, pruned, overdue, botched, operator, kept, asked>>
      BY <1>5, <2>2 DEF Alter
    <3>2. ProcTyped' /\ (a = "app" => /\ proc'.cli = proc.cli /\ proc'.app.at = "altered"
                                      /\ proc'.app.size = proc.app.size)
                     /\ (a = "cli" => proc'.app = proc.app /\ proc'.cli.at = "altered")
      BY <1>2, <2>1, <3>1, GoesOn
    <3>3. InHand'
      BY <1>1, <2>1, <3>2 DEF InHand
    <3>4. HistoriesTyped' /\ StoresTyped' /\ PageTyped'
      BY <1>1, <2>1, <3>1 DEF HistoriesTyped, StoresTyped, PageTyped, operator, bounds
    <3>. QED
      BY <3>2, <3>3, <3>4, TypeParts DEF Typed
  <2>3. CASE schema # "legacy"
    <3>1. Abort(a)
      BY <1>5, <2>3 DEF Alter
    <3>2. searches' \in Nat /\ moves' \in Nat /\ faults' \in Nat
      BY <1>1, <2>1 DEF bounds, HistoriesTyped
    <3>. QED
      BY <1>4, <2>1, <3>1, <3>2
  <2>. QED
    BY <2>2, <2>3
<1>6. CASE Fill(a)
  <2>1. proc[a].at = "altered" /\ Goto(a, [proc[a] EXCEPT !.at = "opened"])
    BY <1>6 DEF Fill
  <2>2. UNCHANGED <<schema, pruned, botched, learner, operator, bounds>>
    BY <1>6 DEF Fill
  <2>3. ProcTyped' /\ (a = "app" => /\ proc'.cli = proc.cli /\ proc'.app.at = "opened"
                                    /\ proc'.app.size = proc.app.size)
                   /\ (a = "cli" => proc'.app = proc.app /\ proc'.cli.at = "opened")
    BY <1>2, <2>1, GoesOn
  <2>4. InHand'
    BY <1>1, <2>1, <2>2, <2>3 DEF InHand, learner
  <2>5. StoresTyped'
    <3>1. table.history \in Seq(Row)
      BY <1>1 DEF StoresTyped
    <3>2. Filled(table.history) \in Seq(Row)
      BY <3>1, FilledIs
    <3>3. table' = [table EXCEPT !.history = Filled(table.history)]
      BY <1>6 DEF Fill, Filled
    <3>. QED
      BY <1>1, <2>2, <3>2, <3>3 DEF StoresTyped
  <2>6. overdue' \subseteq {"history", "runs"}
    BY <1>1, <1>6 DEF Fill, HistoriesTyped
  <2>7. HistoriesTyped' /\ PageTyped'
    BY <1>1, <2>2, <2>6 DEF HistoriesTyped, PageTyped, learner, operator, bounds
  <2>. QED
    BY <2>3, <2>4, <2>5, <2>7, TypeParts DEF Typed
<1>7. CASE Insert(a)
  <2>1. /\ proc[a].at = IF a = "app" THEN "opened" ELSE "answered"
        /\ Goto(a, [proc[a] EXCEPT !.at = "inserted"])
        /\ UNCHANGED <<schema, pruned, overdue, botched, learner, operator, bounds>>
        /\ table' = [table EXCEPT ![StoreOf(a)] = Append(@, NewRow(a))]
    BY <1>7 DEF Insert, NewRow
  <2>2. /\ ProcTyped'
        /\ a = "app" => proc'.cli = proc.cli /\ proc'.app.at = "inserted"
        /\ a = "cli" => /\ proc'.app = proc.app /\ proc'.cli.at = "inserted"
                        /\ proc'.cli.todo = proc.cli.todo
    <3>1. proc[a].at # "idle"
      BY <2>1
    <3>. QED
      BY <1>2, <2>1, <3>1, GoesOn
  <2>3. InHand'
    BY <1>1, <2>1, <2>2 DEF InHand, learner
  <2>4. StoresTyped'
    <3>1. table[StoreOf(a)] \in Seq(Row)
      BY <1>1 DEF StoresTyped, StoreOf
    <3>2. Append(table[StoreOf(a)], NewRow(a)) \in Seq(Row)
      BY <2>1, <3>1, NewRowTyped, AppendProperties
    <3>3. table' = [table EXCEPT ![StoreOf(a)] = Append(table[StoreOf(a)], NewRow(a))]
      BY <1>1, <2>1 DEF StoresTyped
    <3>. QED
      BY <1>1, <2>1, <3>2, <3>3, TableTyped DEF StoresTyped
  <2>5. HistoriesTyped' /\ PageTyped'
    BY <1>1, <2>1 DEF HistoriesTyped, PageTyped, learner, operator, bounds
  <2>. QED
    BY <2>2, <2>3, <2>4, <2>5, TypeParts DEF Typed
<1>8. CASE Prune(a)
  <2>1. PICK rows : rows = table[StoreOf(a)]
    OBVIOUS
  <2>2. rows \in Seq(Row)
    BY <1>1, <2>1 DEF StoresTyped, StoreOf
  <2>4. /\ Used(rows) > Quota
        /\ table' = [table EXCEPT ![StoreOf(a)] = Rest(rows)]
        /\ pruned' = pruned \cup SearchesIn(Gone(rows))
        /\ UNCHANGED <<schema, overdue, botched, learner, operator, proc, bounds>>
    BY <1>8, <2>1 DEF Prune, Rest, Gone
  <2>5. Rest(rows) \in Seq(Row) /\ SearchesIn(Gone(rows)) \subseteq Nat
    BY <2>2, <2>4, PruneIs
  <2>6. StoresTyped'
    BY <1>1, <2>4, <2>5, TableTyped DEF StoresTyped
  <2>7. HistoriesTyped' /\ PageTyped' /\ ProcTyped' /\ InHand'
    BY <1>1, <2>4, <2>5 DEF HistoriesTyped, PageTyped, ProcTyped, InHand, learner, operator, bounds
  <2>. QED
    BY <2>6, <2>7, TypeParts DEF Typed
<1>9. CASE Finish(a)
  <2>1. /\ proc[a].at = "inserted" /\ overdue' = overdue \ {StoreOf(a)}
        /\ UNCHANGED <<table, schema, pruned, botched, asked, kept, operator, bounds>>
    BY <1>9 DEF Finish, Saved
  <2>2. HistoriesTyped' /\ StoresTyped'
    BY <1>1, <2>1 DEF HistoriesTyped, StoresTyped, operator, bounds
  <2>3. CASE a = "app"
    <3>1. Shown(proc.app.problem) /\ Goto("app", Idle) /\ proc.app \in AppBusy
      BY <1>1, <1>9, <2>1, <2>3, Calls DEF Finish, Saved
    <3>2. PageTyped' /\ page'.consent = NoConsent
      <4>1. proc.app.problem \in Problems /\ proc.app.at # "idle"
        BY <2>1, <2>3, <3>1 DEF AppBusy
      <4>. QED
        BY <3>1, <4>1, ShownIs
    <3>3. proc'.app = Idle /\ proc'.cli = proc.cli /\ ProcTyped'
      BY <1>1, <3>1, GotoIs, BusyIs DEF ProcTyped
    <3>4. InHand'
      BY <1>1, <3>2, <3>3 DEF InHand, Idle
    <3>. QED
      BY <2>2, <3>2, <3>3, <3>4, TypeParts DEF Typed
  <2>4. CASE a = "cli"
    <3>1. PICK r \in CliBusy : r = proc.cli
      BY <1>1, <2>1, <2>4, Calls
    <3> DEFINE at == IF Len(r.todo) = 1 THEN "reporting" ELSE "selected"
               c == [r EXCEPT !.at = at, !.todo = Tail(@)]
    <3>2. Goto("cli", c) /\ UNCHANGED page
      BY <1>9, <2>4, <3>1 DEF Finish, Saved
    <3>3. r.todo \in Seq(Cases) /\ r.todo # <<>>
      BY <1>1, <2>1, <2>4, <3>1 DEF CliBusy, InHand
    <3>4. at \in {"reporting", "selected"}
      OBVIOUS
    <3>5. c \in CliBusy /\ c.at = at /\ c.todo = Tail(r.todo)
      <4>1. at \in CliSteps
        BY <1>2
      <4>2. Tail(r.todo) \in Seq(Cases)
        BY <3>3, HeadTailProperties
      <4> HIDE DEF at
      <4>. QED
        BY <4>1, <4>2 DEF CliBusy
    <3>6. at = "selected" => Tail(r.todo) # <<>>
      <4>1. Len(r.todo) \in Nat \ {0} /\ Len(Tail(r.todo)) = Len(r.todo) - 1
        BY <3>3, EmptySeq, HeadTailProperties
      <4>2. Len(r.todo) # 1 => Len(Tail(r.todo)) # 0
        BY <4>1
      <4>3. Len(r.todo) # 1 => Tail(r.todo) # <<>>
        BY <4>2, EmptySeq
      <4>. QED
        BY <4>3
    <3> HIDE DEF c, at
    <3>7. proc'.cli = c /\ proc'.app = proc.app /\ ProcTyped'
      BY <1>1, <3>2, <3>5, GotoIs, BusyIs DEF ProcTyped
    <3>8. InHand'
      BY <1>1, <3>2, <3>4, <3>5, <3>6, <3>7 DEF InHand
    <3>9. PageTyped'
      BY <1>1, <3>2 DEF PageTyped
    <3>. QED
      BY <2>2, <3>7, <3>8, <3>9, TypeParts DEF Typed
  <2>. QED
    BY <2>3, <2>4
<1>10. CASE Fail(a)
  <2>1. Abort(a) /\ proc[a].at # "idle" /\ UNCHANGED page
    BY <1>10 DEF Fail
  <2>2. searches' \in Nat /\ moves' \in Nat /\ faults' \in Nat
    BY <1>1, <1>10 DEF Fail, Abort, Bounded, HistoriesTyped
  <2>. QED
    BY <1>4, <2>1, <2>2
<1>. QED
  BY <1>3, <1>5, <1>6, <1>7, <1>8, <1>9, <1>10 DEF Store

LEMMA TypedRestart == ASSUME Typed, Restart PROVE Typed'
<1>1. TypeOK /\ ProcTyped /\ StoresTyped /\ HistoriesTyped /\ PageTyped /\ InHand
  BY TypeParts DEF Typed
<1>2. Abort("app") /\ proc.app.at # "idle"
  BY <1>1, Calls DEF Restart
<1>3. searches' \in Nat /\ moves' \in Nat /\ faults' \in Nat
  BY <1>1 DEF Restart, Abort, Bounded, HistoriesTyped
<1>4. /\ ProcTyped' /\ StoresTyped' /\ HistoriesTyped'
      /\ proc'.app = Idle /\ proc'.cli = proc.cli
  BY <1>2, <1>3, TypedAbort
<1>5. PageTyped' /\ page'.consent = NoConsent
  <2>1. NoConsent \in Consents
    BY DEF NoConsent, Consents
  <2>. QED
    BY <1>1, <2>1 DEF Restart, PageTyped
<1>6. InHand'
  BY <1>1, <1>4, <1>5 DEF InHand, Idle
<1>. QED
  BY <1>4, <1>5, <1>6, TypeParts DEF Typed

LEMMA TypedNext == Typed /\ [Next]_vars => Typed'
<1> SUFFICES ASSUME Typed, [Next]_vars PROVE Typed'
  OBVIOUS
<1>1. CASE Next
  BY <1>1, TypedLearner, TypedOperator, TypedStore, TypedRestart DEF Next
<1>2. CASE UNCHANGED vars
  <2>1. TypeOK' /\ InHand'
    BY <1>2 DEF vars, Typed, TypeOK, InHand
  <2>. QED
    BY <2>1 DEF Typed
<1>. QED
  BY <1>1, <1>2

\* The variables have their types in every run: in particular a row has a size
\* and belongs to a case or a problem, whoever wrote it.
THEOREM TypeCorrect == Spec => []TypeOK
<1>1. Typed => TypeOK
  BY DEF Typed
<1>. QED
  BY <1>1, TypedInit, TypedNext, PTL DEF Spec

-----------------------------------------------------------------------------
(* A consent is spent once *)

Spent(t) == \E s \in asked : s.tick = t

\* A consent has a number of its own.  The one on the page is not spent, unless
\* an error left it on or its request is under way; nor is the one of a request
\* that has not been sent.
TicketInv ==
    /\ page.consent.tick <= moves
    /\ proc.app # Idle => proc.app.consent.tick <= moves
    /\ \A s \in asked : s.tick <= moves
    /\ page.consent # NoConsent /\ Spent(page.consent.tick) =>
            \/ page.consent.tick \in kept
            \/ proc.app # Idle /\ proc.app.consent.tick = page.consent.tick
    /\ proc.app.at = "clicked" /\ proc.app.consent # NoConsent =>
            (Spent(proc.app.consent.tick) => proc.app.consent.tick \in kept)
    /\ \A s, r \in asked : s.tick = r.tick => s = r \/ s.tick \in kept

\* What is on the page, and what a request took from it, is of one problem until
\* the selector moves.
ProblemInv ==
    /\ page.consent # NoConsent => page.consent.problem = page.problem \/ page.resets > 0
    /\ proc.app.at = "clicked" /\ proc.app.consent # NoConsent =>
            proc.app.consent.problem = proc.app.problem \/ proc.app.early
    /\ proc.app # Idle => proc.app.problem = page.problem \/ proc.app.left
    /\ \A s \in asked : s.mark = s.problem \/ s.early
    /\ \/ page.result \in {"none", page.problem}
       \/ page.resets > 0 \/ page.stale

ConsentInv == TicketInv /\ ProblemInv

LEMMA ConsentInit == Init => ConsentInv
<1> SUFFICES ASSUME Init PROVE ConsentInv
  OBVIOUS
<1>1. page.consent = NoConsent /\ page.result = "none" /\ proc.app = Idle /\ asked = {} /\ moves = 0
  BY DEF Init
<1>2. NoConsent.tick = 0 /\ Idle.at # "clicked"
  BY DEF NoConsent, Idle
<1>. QED
  BY <1>1, <1>2 DEF ConsentInv, TicketInv, ProblemInv, Spent

LEMMA TicketTypes ==
    ASSUME Typed
    PROVE  /\ page.consent.tick \in Nat /\ moves \in Nat /\ page.resets \in Nat
           /\ proc.app.at # "idle" => proc.app.consent.tick \in Nat
           /\ \A s \in asked : s.tick \in Nat
           /\ kept \subseteq Nat
<1>1. TypeOK
  BY DEF Typed
<1>2. page.consent.tick \in Nat /\ moves \in Nat /\ page.resets \in Nat
  BY <1>1 DEF TypeOK
<1>3. proc.app.at # "idle" => proc.app.consent.tick \in Nat
  BY <1>1, Calls DEF AppBusy, Consents
<1>4. (\A s \in asked : s.tick \in Nat) /\ kept \subseteq Nat
  BY <1>1 DEF TypeOK
<1>. QED
  BY <1>2, <1>3, <1>4

\* Nothing happens to a consent.
LEMMA ConsentKept ==
    ASSUME Typed, ConsentInv, UNCHANGED <<page, asked, kept>>,
           moves' \in Nat, moves' >= moves,
           \/ proc'.app = proc.app
           \/ /\ proc.app # Idle /\ proc'.app # Idle /\ proc'.app.at # "clicked"
              /\ proc'.app.consent = proc.app.consent /\ proc'.app.problem = proc.app.problem
              /\ proc'.app.left = proc.app.left
    PROVE  ConsentInv'
<1>1. \A n \in Nat : n <= moves => n <= moves'
  BY TicketTypes
<1>2. proc.app # Idle => proc.app.consent.tick \in Nat
  BY TicketTypes, Calls DEF Typed
<1>3. TicketInv'
  BY <1>1, <1>2, TicketTypes DEF ConsentInv, TicketInv, Spent
<1>4. ProblemInv'
  BY DEF ConsentInv, ProblemInv
<1>. QED
  BY <1>3, <1>4 DEF ConsentInv

\* A call of the application ends in an error that nobody catches.
LEMMA ConsentAborted ==
    ASSUME Typed, ConsentInv, Abort("app"), proc.app # Idle, UNCHANGED asked,
           page' = page \/ (page'.consent = NoConsent /\ page'.result = "none")
    PROVE  ConsentInv'
<1>1. proc'.app = Idle /\ moves' = moves /\ kept' = kept \cup {proc.app.consent.tick}
  BY Calls, GotoIs DEF Typed, Abort
<1>2. NoConsent.tick = 0 /\ Idle.at # "clicked" /\ moves \in Nat
  BY TicketTypes DEF NoConsent, Idle
<1>3. TicketInv'
  BY <1>1, <1>2 DEF ConsentInv, TicketInv, Spent
<1>4. ProblemInv'
  BY <1>1, <1>2 DEF ConsentInv, ProblemInv
<1>. QED
  BY <1>3, <1>4 DEF ConsentInv

\* A call of the application ends with its outputs.
LEMMA ConsentShown ==
    ASSUME Typed, ConsentInv, proc.app # Idle, NEW result \in {"none", proc.app.problem},
           page'.consent = NoConsent, page'.result = result, page'.stale = proc.app.left,
           page'.problem = page.problem, page'.resets = page.resets,
           proc'.app = Idle, UNCHANGED <<kept, moves>>,
           asked' = asked \/ \E s : /\ asked' = asked \cup {s} /\ s.tick <= moves
                                    /\ s.mark = s.problem \/ s.early
                                    /\ Spent(s.tick) => s.tick \in kept
    PROVE  ConsentInv'
<1>1. NoConsent.tick = 0 /\ Idle.at # "clicked" /\ moves \in Nat
  BY TicketTypes DEF NoConsent, Idle
<1>2. TicketInv'
  BY <1>1 DEF ConsentInv, TicketInv, Spent
<1>3. ProblemInv'
  BY <1>1 DEF ConsentInv, ProblemInv
<1>. QED
  BY <1>2, <1>3 DEF ConsentInv

LEMMA ConsentNext == Typed /\ ConsentInv /\ [Next]_vars => ConsentInv'
<1> SUFFICES ASSUME Typed, ConsentInv, [Next]_vars PROVE ConsentInv'
  OBVIOUS
<1>1. TypeOK /\ TicketInv /\ ProblemInv /\ moves \in Nat /\ page.resets \in Nat
  BY TicketTypes DEF Typed, ConsentInv
<1>2. ASSUME NEW p \in Problems, Select(p) PROVE ConsentInv'
  <2>1. /\ moves' = moves + 1 /\ UNCHANGED <<asked, kept>>
        /\ page' = [page EXCEPT !.problem = p, !.resets = @ + 1]
    BY <1>2 DEF Select, Bounded
  <2>2. /\ page'.consent = page.consent /\ page'.problem = p /\ page'.result = page.result
        /\ page'.resets > 0
    BY <1>1, <2>1 DEF TypeOK
  <2>3. \/ proc.app = Idle /\ proc'.app = Idle
        \/ /\ proc.app # Idle /\ proc'.app # Idle /\ proc'.app.at = proc.app.at
           /\ proc'.app.problem = proc.app.problem /\ proc'.app.consent = proc.app.consent
           /\ proc'.app.early = proc.app.early /\ proc'.app.left
    <3>1. CASE proc.app = Idle
      BY <1>2, <3>1 DEF Select
    <3>2. CASE proc.app # Idle
      <4> DEFINE c == [proc.app EXCEPT !.left = TRUE]
      <4>1. proc.app \in AppBusy
        BY <1>1, <3>2, Calls
      <4>2. /\ c \in AppBusy /\ c.at = proc.app.at /\ c.problem = proc.app.problem
            /\ c.consent = proc.app.consent /\ c.early = proc.app.early /\ c.left
        BY <4>1, AppIsLeft
      <4>3. Goto("app", c)
        BY <1>2, <3>2 DEF Select
      <4> HIDE DEF c
      <4>4. proc'.app = c
        BY <1>1, <4>3, GotoIs
      <4>. QED
        BY <3>2, <4>2, <4>4, BusyIs
    <3>. QED
      BY <3>1, <3>2
  <2>4. \A n \in Nat : n <= moves => n <= moves'
    BY <1>1, <2>1
  <2>5. TicketInv'
    BY <1>1, <2>1, <2>2, <2>3, <2>4, TicketTypes, Calls DEF TicketInv, Spent
  <2>6. ProblemInv'
    BY <1>1, <2>1, <2>2, <2>3 DEF ProblemInv
  <2>. QED
    BY <2>5, <2>6 DEF ConsentInv
<1>3. CASE Reset
  <2>1. /\ UNCHANGED <<proc, asked, kept, moves>>
        /\ page'.consent = NoConsent /\ page'.result = "none" /\ page'.problem = page.problem
    BY <1>1, <1>3 DEF Reset, TypeOK, bounds
  <2>2. NoConsent.tick = 0
    BY DEF NoConsent
  <2>3. TicketInv'
    BY <1>1, <2>1, <2>2 DEF TicketInv, Spent
  <2>4. ProblemInv'
    BY <1>1, <2>1 DEF ProblemInv
  <2>. QED
    BY <2>3, <2>4 DEF ConsentInv
<1>4. CASE ToggleConsent
  <2> DEFINE c == IF page.consent = NoConsent
                  THEN [tick |-> moves + 1, problem |-> page.problem]
                  ELSE NoConsent
  <2>1. moves' = moves + 1 /\ UNCHANGED <<proc, asked, kept>> /\ page' = [page EXCEPT !.consent = c]
    BY <1>4 DEF ToggleConsent, Bounded
  <2>2. c = NoConsent \/ (c.tick = moves + 1 /\ c.problem = page.problem)
    OBVIOUS
  <2> HIDE DEF c
  <2>3. /\ page'.consent = c /\ page'.problem = page.problem /\ page'.result = page.result
        /\ page'.resets = page.resets /\ page'.stale = page.stale
    BY <1>1, <2>1 DEF TypeOK
  <2>4. NoConsent.tick = 0 /\ \A n \in Nat : n <= moves => n <= moves' /\ n # moves + 1
    BY <1>1, <2>1 DEF NoConsent
  <2>5. TicketInv'
    BY <1>1, <2>1, <2>2, <2>3, <2>4, TicketTypes, Calls DEF TicketInv, Spent
  <2>6. ProblemInv'
    BY <1>1, <2>1, <2>2, <2>3 DEF ProblemInv
  <2>. QED
    BY <2>5, <2>6 DEF ConsentInv
<1>5. CASE Click
  <2> DEFINE c == [at |-> "clicked", problem |-> page.problem, consent |-> page.consent,
                   early |-> page.resets > 0, left |-> FALSE, search |-> 0, size |-> 0]
  <2>1. /\ moves' = moves + 1 /\ UNCHANGED <<page, asked, kept>>
        /\ proc.app = Idle /\ Goto("app", c)
    BY <1>5 DEF Click, Bounded, learner
  <2>2. /\ c.at = "clicked" /\ c.problem = page.problem /\ c.consent = page.consent
        /\ c.early = (page.resets > 0)
    OBVIOUS
  <2> HIDE DEF c
  <2>3. proc'.app = c
    BY <1>1, <2>1, GotoIs
  <2>4. \A n \in Nat : n <= moves => n <= moves'
    BY <1>1, <2>1
  <2>5. TicketInv'
    BY <1>1, <2>1, <2>2, <2>3, <2>4, TicketTypes DEF TicketInv, Spent
  <2>6. ProblemInv'
    BY <1>1, <2>1, <2>2, <2>3 DEF ProblemInv
  <2>. QED
    BY <2>5, <2>6 DEF ConsentInv
<1>6. CASE Withhold
  <2>1. /\ proc.app.at = "clicked" /\ Shown("none") /\ Goto("app", Idle)
        /\ UNCHANGED <<asked, kept, moves>>
    BY <1>6 DEF Withhold, bounds
  <2>2. proc.app # Idle
    BY <2>1 DEF Idle
  <2>. QED
    BY <1>1, <2>1, <2>2, ShownIs, GotoIs, ConsentShown
<1>7. CASE Ask
  <2> DEFINE s == [tick |-> proc.app.consent.tick, mark |-> proc.app.consent.problem,
                   problem |-> proc.app.problem, early |-> proc.app.early,
                   search |-> searches + 1]
  <2>1. /\ proc.app.at = "clicked" /\ proc.app.consent # NoConsent
        /\ asked' = asked \cup {s} /\ UNCHANGED <<kept, moves>>
    BY <1>7 DEF Ask
  <2>2. /\ s.tick = proc.app.consent.tick /\ s.mark = proc.app.consent.problem
        /\ s.problem = proc.app.problem /\ s.early = proc.app.early
    OBVIOUS
  <2> HIDE DEF s
  <2>3. proc.app # Idle /\ proc.app \in AppBusy
    BY <1>1, <2>1, Calls DEF Idle
  <2>4. s.tick <= moves /\ (s.mark = s.problem \/ s.early) /\ (Spent(s.tick) => s.tick \in kept)
    BY <1>1, <2>1, <2>2, <2>3 DEF TicketInv, ProblemInv
  <2>5. CASE Shown("none") /\ Goto("app", Idle)
    BY <1>1, <2>1, <2>3, <2>4, <2>5, ShownIs, GotoIs, ConsentShown
  <2>6. ASSUME NEW size \in 1..MaxSize, UNCHANGED page,
               Goto("app", [proc.app EXCEPT !.at = "answered", !.search = searches + 1,
                                            !.size = size])
        PROVE  ConsentInv'
    <3> DEFINE c == [proc.app EXCEPT !.at = "answered", !.search = searches + 1, !.size = size]
    <3>1. c.problem = proc.app.problem /\ c.consent = proc.app.consent
      BY <2>3 DEF AppBusy
    <3>2. c.left = proc.app.left /\ c.at = "answered"
      BY <2>3 DEF AppBusy
    <3>3. Goto("app", c)
      BY <2>6
    <3> HIDE DEF c
    <3>4. proc'.app = c /\ proc'.app # Idle
      BY <1>1, <3>2, <3>3, GotoIs DEF Idle
    <3>5. TicketInv'
      BY <1>1, <2>1, <2>2, <2>3, <2>4, <2>6, <3>1, <3>2, <3>4 DEF TicketInv, Spent
    <3>6. ProblemInv'
      BY <1>1, <2>1, <2>3, <2>4, <2>6, <3>1, <3>2, <3>4 DEF ProblemInv
    <3>. QED
      BY <3>5, <3>6 DEF ConsentInv
  <2>. QED
    BY <1>7, <2>5, <2>6 DEF Ask
<1>8. ASSUME NEW n \in 1..NumCases, NEW ids \in SUBSET Cases, NEW rerun \in BOOLEAN,
             Evaluate(n, ids, rerun)
      PROVE  ConsentInv'
  <2>1. UNCHANGED <<page, asked, kept>> /\ moves' = moves + 1 /\ proc'.app = proc.app
    BY <1>1, <1>8, GotoIs DEF Evaluate, learner, Bounded
  <2>. QED
    BY <1>1, <2>1, ConsentKept
<1>9. CASE AskCase \/ Report
  <2>1. UNCHANGED <<page, asked, kept, moves>> /\ proc'.app = proc.app
    BY <1>1, <1>9, GotoIs DEF AskCase, Report, learner, bounds
  <2>. QED
    BY <1>1, <2>1, ConsentKept
<1>10. ASSUME NEW a \in {"app", "cli"}, Store(a) PROVE ConsentInv'
  <2>1. CASE a = "app" /\ Abort("app") /\ proc.app # Idle /\ UNCHANGED <<page, asked>>
    BY <2>1, ConsentAborted
  <2>2. CASE a = "cli" /\ Abort("cli") /\ UNCHANGED <<page, asked>>
    <3>1. UNCHANGED <<kept, moves>> /\ proc'.app = proc.app
      BY <1>1, <2>2, GotoIs DEF Abort
    <3>. QED
      BY <1>1, <2>2, <3>1, ConsentKept
  <2>3. ASSUME NEW at \in {"looked", "altered", "opened", "inserted"}, proc[a].at # "idle",
               Goto(a, [proc[a] EXCEPT !.at = at]), UNCHANGED <<page, asked, kept, moves>>
        PROVE  ConsentInv'
    <3>1. at \in AppSteps \cap CliSteps
      BY DEF AppSteps, CliSteps
    <3>2. CASE a = "app"
      <4>1. /\ proc.app \in AppBusy /\ proc'.app \in AppBusy /\ proc'.app.at = at
            /\ proc'.app.problem = proc.app.problem /\ proc'.app.consent = proc.app.consent
            /\ proc'.app.left = proc.app.left
        BY <2>3, <3>1, <3>2, GoesOn
      <4>. QED
        BY <1>1, <2>3, <4>1, BusyIs, ConsentKept
    <3>3. CASE a = "cli"
      <4>1. proc'.app = proc.app
        BY <2>3, <3>1, <3>3, GoesOn
      <4>. QED
        BY <1>1, <2>3, <4>1, ConsentKept
    <3>. QED
      BY <3>2, <3>3
  <2>4. CASE Look(a)
    <3>1. proc[a].at # "idle" /\ UNCHANGED <<page, asked, kept, moves>>
      BY <2>4 DEF Look, learner, bounds
    <3>2. \E at \in {"looked", "opened"} : Goto(a, [proc[a] EXCEPT !.at = at])
      BY <2>4 DEF Look
    <3>. QED
      BY <2>3, <3>1, <3>2
  <2>5. CASE Alter(a)
    <3>1. proc[a].at = "looked" /\ UNCHANGED <<page, asked, moves>>
      BY <2>5 DEF Alter, bounds
    <3>2. CASE schema = "legacy"
      <4>1. Goto(a, [proc[a] EXCEPT !.at = "altered"]) /\ UNCHANGED kept
        BY <2>5, <3>2 DEF Alter
      <4>. QED
        BY <2>3, <3>1, <4>1
    <3>3. CASE schema # "legacy"
      <4>1. Abort(a)
        BY <2>5, <3>3 DEF Alter
      <4>. QED
        BY <2>1, <2>2, <3>1, <4>1 DEF Idle
    <3>. QED
      BY <3>2, <3>3
  <2>6. CASE Fill(a)
    <3>1. /\ proc[a].at = "altered" /\ Goto(a, [proc[a] EXCEPT !.at = "opened"])
          /\ UNCHANGED <<page, asked, kept, moves>>
      BY <2>6 DEF Fill, learner, bounds
    <3>. QED
      BY <2>3, <3>1
  <2>7. CASE Insert(a)
    <3>1. /\ proc[a].at # "idle" /\ Goto(a, [proc[a] EXCEPT !.at = "inserted"])
          /\ UNCHANGED <<page, asked, kept, moves>>
      BY <2>7 DEF Insert, learner, bounds
    <3>. QED
      BY <2>3, <3>1
  <2>8. CASE Prune(a)
    <3>1. UNCHANGED <<page, asked, kept, moves, proc>>
      BY <2>8 DEF Prune, learner, bounds
    <3>. QED
      BY <1>1, <3>1, ConsentKept
  <2>9. CASE Finish(a) /\ a = "app"
    <3>1. /\ proc.app.at = "inserted" /\ UNCHANGED <<asked, kept, moves>>
          /\ Shown(proc.app.problem) /\ Goto("app", Idle)
      BY <2>9 DEF Finish, Saved, bounds
    <3>2. proc.app \in AppBusy /\ proc.app # Idle
      BY <1>1, <3>1, Calls, BusyIs
    <3>3. proc.app.problem \in Problems
      BY <3>2 DEF AppBusy
    <3>. QED
      BY <1>1, <3>1, <3>2, <3>3, ShownIs, GotoIs, ConsentShown
  <2>10. CASE Finish(a) /\ a = "cli"
    <3>1. UNCHANGED <<page, asked, kept, moves>> /\ proc'.app = proc.app
      BY <1>1, <2>10, GotoIs DEF Finish, Saved, bounds
    <3>. QED
      BY <1>1, <3>1, ConsentKept
  <2>11. CASE Fail(a)
    <3>1. Abort(a) /\ proc[a].at # "idle" /\ UNCHANGED <<page, asked>>
      BY <2>11 DEF Fail, Abort
    <3>. QED
      BY <2>1, <2>2, <3>1 DEF Idle
  <2>. QED
    BY <1>10, <2>4, <2>5, <2>6, <2>7, <2>8, <2>9, <2>10, <2>11 DEF Store
<1>11. CASE Restart
  <2>1. Abort("app") /\ proc.app # Idle /\ UNCHANGED asked
    BY <1>11 DEF Restart, Abort
  <2>2. page'.consent = NoConsent /\ page'.result = "none"
    BY <1>1, <1>11 DEF Restart, TypeOK
  <2>. QED
    BY <2>1, <2>2, ConsentAborted
<1>12. CASE UNCHANGED vars
  <2>1. UNCHANGED <<page, asked, kept, moves, proc>>
    BY <1>12 DEF vars
  <2>. QED
    BY <1>1, <2>1, ConsentKept
<1>. QED
  BY <1>2, <1>3, <1>4, <1>5, <1>6, <1>7, <1>8, <1>9, <1>10, <1>11, <1>12 DEF Next

\* A consent lets one search through, for the problem it was given for, and the
\* result on the page is of the selected problem, with the exceptions that
\* ConsentIsSpentOnce names.
THEOREM ConsentBuysOneSearch == Spec => []ConsentIsSpentOnce
<1>1. ConsentInv => ConsentIsSpentOnce
  BY DEF ConsentInv, TicketInv, ProblemInv, ConsentIsSpentOnce
<1>. QED
  BY <1>1, TypedInit, TypedNext, ConsentInit, ConsentNext, PTL DEF Spec

-----------------------------------------------------------------------------
(* Answers that were paid for *)

Measured(c) == \E x \in Range(table.runs) : x.of = c

\* The place in todo of the first case that is still to be asked for, or is in
\* hand.
Ahead == IF proc.cli.at = "inserted" THEN 2 ELSE 1

\* A search is paid for once and stored as the case it was made for; the cases
\* that are still to be asked for have no run, unless they are measured again.
RunsInv ==
    /\ \A s, r \in paid : s[1] = r[1] => s = r
    /\ \A s \in paid : s[1] <= searches
    /\ \A k \in report : k <= searches
    /\ \A x \in Range(table.runs) : <<x.search, x.of>> \in paid
    /\ proc.cli.at = "answered" => <<proc.cli.search, Head(proc.cli.todo)>> \in paid

TodoInv ==
    proc.cli.at \in {"selected", "answered", "inserted"} =>
        /\ \A i, j \in DOMAIN proc.cli.todo : proc.cli.todo[i] = proc.cli.todo[j] => i = j
        /\ \A i \in DOMAIN proc.cli.todo :
              i >= Ahead /\ Measured(proc.cli.todo[i]) => proc.cli.todo[i] \in reran

EvalInv == RunsInv /\ TodoInv /\ PaidAnswersAreKept

LEMMA EvalInit == Init => EvalInv
<1> SUFFICES ASSUME Init PROVE EvalInv
  OBVIOUS
<1>1. paid = {} /\ report = {} /\ proc.cli = Idle /\ table.runs = <<>> /\ Range(<<>>) = {}
  BY DEF Init, Range
<1>2. Idle.at = "idle"
  BY DEF Idle
<1>. QED
  BY <1>1, <1>2 DEF EvalInv, RunsInv, TodoInv, PaidAnswersAreKept

LEMMA EvalTypes ==
    ASSUME Typed
    PROVE  /\ searches \in Nat /\ table.runs \in Seq(Row) /\ table.history \in Seq(Row)
           /\ \A s \in paid : s \in Nat \X Cases
           /\ \A k \in report : k \in Nat
           /\ \A x \in Range(table.runs) : x.search \in Nat
           /\ DOMAIN table = {"history", "runs"}
<1>1. searches \in Nat /\ table.runs \in Seq(Row) /\ table.history \in Seq(Row) /\ DOMAIN table = {"history", "runs"}
  BY DEF Typed, TypeOK
<1>2. (\A s \in paid : s \in Nat \X Cases) /\ \A k \in report : k \in Nat
  BY DEF Typed, TypeOK
<1>3. Range(table.runs) \subseteq Row
  BY <1>1, RangeOfSeq
<1>4. \A x \in Range(table.runs) : x.search \in Nat
  BY <1>3 DEF Row
<1>. QED
  BY <1>1, <1>2, <1>4

\* The step is not about the evaluation.
LEMMA EvalKept ==
    ASSUME Typed, EvalInv, table'.runs = table.runs, proc'.cli = proc.cli,
           UNCHANGED <<paid, report, reran, wasted>>,
           searches' \in Nat, searches' >= searches, pruned \subseteq pruned'
    PROVE  EvalInv'
<1>1. \A n \in Nat : n <= searches => n <= searches'
  BY EvalTypes
<1>2. RunsInv'
  BY <1>1, EvalTypes DEF EvalInv, RunsInv
<1>3. TodoInv'
  BY DEF EvalInv, TodoInv, Measured, Ahead
<1>4. PaidAnswersAreKept'
  BY DEF EvalInv, PaidAnswersAreKept
<1>. QED
  BY <1>2, <1>3, <1>4 DEF EvalInv

\* The evaluation ends; an answer in hand is lost.
LEMMA EvalEnds ==
    ASSUME Typed, EvalInv, UNCHANGED <<table, paid, report, reran, pruned, searches>>,
           proc'.cli.at \notin {"selected", "answered", "inserted"},
           wasted \subseteq wasted',
           proc.cli.at = "answered" => proc.cli.search \in wasted'
    PROVE  EvalInv'
<1>1. RunsInv' /\ TodoInv'
  BY DEF EvalInv, RunsInv, TodoInv
<1>2. PaidAnswersAreKept'
  BY DEF EvalInv, PaidAnswersAreKept
<1>. QED
  BY <1>1, <1>2 DEF EvalInv

LEMMA EvalOperator ==
    ASSUME Typed, EvalInv,
           \/ \E n \in 1..NumCases, ids \in SUBSET Cases, rerun \in BOOLEAN : Evaluate(n, ids, rerun)
           \/ AskCase \/ Report
    PROVE  EvalInv'
<1>1. TypeOK /\ RunsInv /\ TodoInv /\ PaidAnswersAreKept
  BY DEF Typed, EvalInv
<1>2. ASSUME NEW n \in 1..NumCases, NEW ids \in SUBSET Cases, NEW rerun \in BOOLEAN,
             Evaluate(n, ids, rerun)
      PROVE  EvalInv'
  <2> DEFINE open == {c \in ids : rerun \/ c \notin {r.of : r \in Latest(table.runs)}}
  <2>1. PICK todo : todo = FirstOf(n, open)
    OBVIOUS
  <2>2. /\ todo \in Seq(Cases)
        /\ \A i \in DOMAIN todo : todo[i] \in open
        /\ \A i, j \in DOMAIN todo : todo[i] = todo[j] => i = j
    <3>1. n \in Nat /\ open \in SUBSET Cases
      BY ResearchAssumption
    <3> HIDE DEF open
    <3>. QED
      BY <2>1, <3>1, FirstOfIs
  <2> DEFINE c == [at |-> IF todo = <<>> THEN "reporting" ELSE "selected",
                   todo |-> todo, search |-> 0, size |-> 0]
  <2>3. /\ Goto("cli", c) /\ reran' = IF rerun THEN reran \cup Range(todo) ELSE reran
        /\ UNCHANGED <<table, pruned, report, paid, wasted, searches>>
    BY <1>2, <2>1 DEF Evaluate, Selected, stores
  <2>4. c.at \in {"reporting", "selected"} /\ c.todo = todo
    OBVIOUS
  <2> HIDE DEF c
  <2>5. proc'.cli = c
    BY <1>1, <2>3, GotoIs
  <2>6. RunsInv'
    BY <1>1, <2>3, <2>4, <2>5 DEF RunsInv
  <2>7. ASSUME NEW i \in DOMAIN todo, Measured(todo[i]) PROVE todo[i] \in reran'
    <3>1. CASE rerun
      BY <2>3, <3>1 DEF Range
    <3>2. CASE ~rerun
      <4>1. PICK x \in Range(table.runs) : x.of = todo[i]
        BY <2>7 DEF Measured
      <4>2. \A r \in Range(table.runs) : r.search \in Nat /\ r.search <= searches
        <5>1. \A r \in Range(table.runs) : <<r.search, r.of>>[1] <= searches
          BY <1>1 DEF RunsInv
        <5>. QED
          BY <5>1, EvalTypes
      <4>3. PICK bound \in Nat : bound = searches
        BY EvalTypes
      <4>4. PICK rows : rows = table.runs
        OBVIOUS
      <4>5. \E r \in Latest(rows) : r.of = x.of
        BY <4>1, <4>2, <4>3, <4>4, LatestCovers
      <4>6. todo[i] \in {r.of : r \in Latest(table.runs)}
        BY <4>1, <4>4, <4>5
      <4>. QED
        BY <2>2, <3>2, <4>6
    <3>. QED
      BY <3>1, <3>2
  <2>8. TodoInv'
    <3>1. UNCHANGED table
      BY <2>3
    <3> HIDE DEF open
    <3>. QED
      BY <2>2, <2>4, <2>5, <2>7, <3>1 DEF TodoInv, Measured
  <2>9. proc.cli.at # "answered"
    BY <1>2 DEF Evaluate, Idle
  <2>10. PaidAnswersAreKept'
    <3>1. reran \subseteq reran'
      BY <2>3
    <3>. QED
      BY <1>1, <2>3, <2>9, <3>1 DEF PaidAnswersAreKept
  <2>. QED
    BY <2>6, <2>8, <2>10 DEF EvalInv
<1>3. CASE AskCase
  <2>1. PICK n \in Nat : n = searches + 1
    BY EvalTypes
  <2>2. /\ proc.cli.at = "selected" /\ searches' = n
        /\ UNCHANGED <<table, pruned, report, reran>>
    BY <1>3, <2>1 DEF AskCase, Bounded, stores
  <2>3. \A s \in paid : s[1] \in Nat /\ s[1] <= searches /\ s[1] # n
    <3>1. \A s \in paid : s[1] \in Nat /\ s[1] <= searches
      BY <1>1, EvalTypes DEF RunsInv
    <3>. QED
      BY <2>1, <3>1, EvalTypes
  <2>4. \A k \in report : k \in Nat /\ k <= searches /\ k # n
    BY <1>1, <2>1, EvalTypes DEF RunsInv
  <2>5. proc.cli \in CliBusy
    BY <1>1, <2>2, Calls
  <2>6. PICK h : h = Head(proc.cli.todo)
    OBVIOUS
  <2>7. \A k \in Nat : k <= searches => k <= n
    BY <2>1, EvalTypes
  <2>8. ASSUME NEW size \in 1..MaxSize,
               Goto("cli", [proc.cli EXCEPT !.at = "answered", !.search = n, !.size = size]),
               paid' = paid \cup {<<n, h>>}, UNCHANGED wasted
        PROVE  EvalInv'
    <3> DEFINE c == [proc.cli EXCEPT !.at = "answered", !.search = n, !.size = size]
    <3>1. c.at = "answered" /\ c.search = n /\ c.todo = proc.cli.todo
      BY <2>5 DEF CliBusy
    <3>2. Goto("cli", c)
      BY <2>8
    <3> HIDE DEF c
    <3>3. proc'.cli = c
      BY <1>1, <3>2, GotoIs
    <3>4. RunsInv'
      BY <1>1, <2>2, <2>3, <2>4, <2>6, <2>7, <2>8, <3>1, <3>3 DEF RunsInv
    <3>5. TodoInv'
      BY <1>1, <2>2, <3>1, <3>3 DEF TodoInv, Measured, Ahead
    <3>6. PaidAnswersAreKept'
      BY <1>1, <2>2, <2>3, <2>4, <2>8, <3>1, <3>3 DEF PaidAnswersAreKept
    <3>. QED
      BY <3>4, <3>5, <3>6 DEF EvalInv
  <2>9. ASSUME Goto("cli", Idle),
               \/ UNCHANGED <<paid, wasted>>
               \/ paid' = paid \cup {<<n, h>>} /\ wasted' = wasted \cup {n}
        PROVE  EvalInv'
    <3>1. proc'.cli = Idle /\ Idle.at = "idle"
      BY <1>1, <2>9, GotoIs DEF Idle
    <3>2. RunsInv'
      BY <1>1, <2>2, <2>3, <2>4, <2>7, <2>9, <3>1 DEF RunsInv
    <3>3. TodoInv'
      BY <3>1 DEF TodoInv
    <3>4. PaidAnswersAreKept'
      BY <1>1, <2>2, <2>3, <2>4, <2>9, <3>1 DEF PaidAnswersAreKept
    <3>. QED
      BY <3>2, <3>3, <3>4 DEF EvalInv
  <2>. QED
    BY <1>3, <2>1, <2>6, <2>8, <2>9 DEF AskCase
<1>4. CASE Report
  <2>1. /\ proc.cli.at = "opened" /\ Goto("cli", Idle)
        /\ report' = {r.search : r \in Latest(table.runs)}
        /\ UNCHANGED <<table, paid, wasted, reran, pruned, searches>>
    BY <1>4 DEF Report, stores, bounds
  <2>2. proc'.cli = Idle /\ Idle.at = "idle"
    BY <1>1, <2>1, GotoIs DEF Idle
  <2>3. \A x \in Latest(table.runs) : x \in Range(table.runs) /\ <<x.search, x.of>> \in paid
    BY <1>1 DEF RunsInv, Latest
  <2>4. RunsInv'
    <3>1. \A x \in Latest(table.runs) : x.search <= searches
      <4>1. \A x \in Latest(table.runs) : <<x.search, x.of>>[1] <= searches
        BY <1>1, <2>3 DEF RunsInv
      <4>. QED
        BY <4>1
    <3>. QED
      BY <1>1, <2>1, <2>2, <3>1 DEF RunsInv
  <2>5. TodoInv'
    BY <2>2 DEF TodoInv
  <2>6. ASSUME NEW s \in paid, NEW r \in paid, s[1] \in report', r[1] \in report', s[2] = r[2]
        PROVE  s = r
    <3>1. PICK x \in Latest(table.runs), y \in Latest(table.runs) :
              s[1] = x.search /\ r[1] = y.search
      BY <2>1, <2>6
    <3>2. s = <<x.search, x.of>> /\ r = <<y.search, y.of>>
      <4>1. <<x.search, x.of>>[1] = s[1] /\ <<y.search, y.of>>[1] = r[1]
        BY <3>1
      <4>. QED
        BY <1>1, <2>3, <4>1 DEF RunsInv
    <3>3. x.of = y.of
      BY <2>6, <3>2
    <3>4. x.search <= y.search /\ y.search <= x.search
      BY <3>3 DEF Latest
    <3>5. x.search \in Nat /\ y.search \in Nat
      BY <2>3, EvalTypes
    <3>6. x.search = y.search
      BY <3>4, <3>5
    <3>. QED
      BY <3>2, <3>3, <3>6
  <2>7. PaidAnswersAreKept'
    BY <1>1, <2>1, <2>2, <2>6 DEF PaidAnswersAreKept
  <2>. QED
    BY <2>4, <2>5, <2>7 DEF EvalInv
<1>. QED
  BY <1>2, <1>3, <1>4

\* Insert of a run.
LEMMA EvalInsert ==
    ASSUME Typed, EvalInv, Insert("cli")
    PROVE  EvalInv'
<1>1. TypeOK /\ RunsInv /\ TodoInv /\ PaidAnswersAreKept
  BY DEF Typed, EvalInv
<1>2. /\ proc.cli.at = "answered" /\ Goto("cli", [proc.cli EXCEPT !.at = "inserted"])
      /\ table' = [table EXCEPT !["runs"] = Append(table.runs, NewRow("cli"))]
      /\ UNCHANGED <<pruned, report, paid, wasted, reran, searches>>
  BY EvalTypes DEF Insert, NewRow, StoreOf, operator, bounds
<1>3. proc'.cli.at = "inserted" /\ proc'.cli.todo = proc.cli.todo
  <2>1. "inserted" \in CliSteps /\ proc.cli.at # "idle"
    BY <1>2 DEF CliSteps
  <2>. QED
    BY <1>2, <2>1, GoesOn
<1>4. PICK new \in Row : new = NewRow("cli")
  BY <1>2, NewRowTyped
<1>5. new.search = proc.cli.search /\ new.of = Head(proc.cli.todo)
  BY <1>4 DEF NewRow
<1>6. PICK rows : rows = table.runs
  OBVIOUS
<1>7. rows \in Seq(Row) /\ table'.runs = Append(rows, new)
  BY <1>2, <1>4, <1>6, EvalTypes
<1>8. Range(table'.runs) = Range(rows) \cup {new}
  <2>1. /\ Len(Append(rows, new)) = Len(rows) + 1 /\ Len(rows) \in Nat
        /\ DOMAIN rows = 1..Len(rows) /\ DOMAIN Append(rows, new) = 1..(Len(rows) + 1)
        /\ \A i \in 1..Len(rows) : Append(rows, new)[i] = rows[i]
        /\ Append(rows, new)[Len(rows) + 1] = new
    BY <1>7, AppendProperties, LenProperties
  <2>2. 1..(Len(rows) + 1) = 1..Len(rows) \cup {Len(rows) + 1}
    BY <2>1
  <2>. QED
    BY <1>7, <2>1, <2>2 DEF Range
<1>9. RunsInv'
  BY <1>1, <1>2, <1>3, <1>5, <1>6, <1>8 DEF RunsInv
<1>10. /\ proc.cli.todo \in Seq(Cases) /\ proc.cli.todo # <<>>
       /\ Head(proc.cli.todo) = proc.cli.todo[1]
       /\ DOMAIN proc.cli.todo = 1..Len(proc.cli.todo) /\ Len(proc.cli.todo) \in Nat \ {0}
  <2>1. proc.cli.todo \in Seq(Cases) /\ proc.cli.todo # <<>>
    BY <1>1, <1>2, Calls DEF Typed, InHand, CliBusy
  <2>. QED
    BY <2>1, EmptySeq, HeadTailProperties, LenProperties
<1>11. TodoInv'
  <2>1. PICK todo : todo = proc.cli.todo
    OBVIOUS
  <2>2. ASSUME NEW i \in DOMAIN todo, i >= 2, \E x \in Range(table'.runs) : x.of = todo[i]
        PROVE  todo[i] \in reran
    <3>1. todo[i] # Head(todo)
      BY <1>1, <1>2, <1>10, <2>1, <2>2 DEF TodoInv
    <3>2. Measured(todo[i])
      BY <1>5, <1>6, <1>8, <2>1, <2>2, <3>1 DEF Measured
    <3>. QED
      BY <1>1, <1>2, <1>10, <2>1, <2>2, <3>2 DEF TodoInv, Ahead
  <2>3. \A i, j \in DOMAIN todo : todo[i] = todo[j] => i = j
    BY <1>1, <1>2, <2>1 DEF TodoInv
  <2>4. reran' = reran /\ proc'.cli.todo = todo /\ Ahead' = 2
    BY <1>2, <1>3, <2>1 DEF Ahead
  <2>. QED
    BY <2>2, <2>3, <2>4 DEF TodoInv, Measured
<1>12. PaidAnswersAreKept'
  <2>1. ASSUME NEW s \in paid
        PROVE  \/ \E r \in Range(table'.runs) : r.search = s[1] /\ r.of = s[2]
               \/ s[1] \in wasted' \cup pruned'
    <3>1. CASE s[1] = proc.cli.search
      <4>1. s = <<proc.cli.search, Head(proc.cli.todo)>>
        <5>1. <<proc.cli.search, Head(proc.cli.todo)>>[1] = s[1]
          BY <3>1
        <5>. QED
          BY <1>1, <1>2, <5>1 DEF RunsInv
      <4>. QED
        BY <1>5, <1>8, <4>1
    <3>2. CASE s[1] # proc.cli.search
      BY <1>1, <1>2, <1>6, <1>8, <3>2 DEF PaidAnswersAreKept
    <3>. QED
      BY <3>1, <3>2
  <2>2. ASSUME NEW r \in Range(rows), r.of = new.of PROVE r.of \in reran
    <3>1. Measured(proc.cli.todo[1]) /\ 1 \in DOMAIN proc.cli.todo /\ r.of = proc.cli.todo[1]
      BY <1>5, <1>6, <1>10, <2>2 DEF Measured
    <3>. QED
      BY <1>1, <1>2, <3>1 DEF TodoInv, Ahead
  <2>3. ASSUME NEW r \in Range(table'.runs), NEW q \in Range(table'.runs), r.of = q.of
        PROVE  r = q \/ r.of \in reran'
    BY <1>1, <1>2, <1>6, <1>8, <2>2, <2>3 DEF PaidAnswersAreKept
  <2>. QED
    BY <1>1, <1>2, <2>1, <2>3 DEF PaidAnswersAreKept
<1>. QED
  BY <1>9, <1>11, <1>12 DEF EvalInv

\* A round of _prune on the runs.
LEMMA EvalPrune ==
    ASSUME Typed, EvalInv, Prune("cli")
    PROVE  EvalInv'
<1>1. RunsInv /\ TodoInv /\ PaidAnswersAreKept
  BY DEF EvalInv
<1>2. PICK rows \in Seq(Row) : rows = table.runs
  BY EvalTypes
<1>4. /\ Used(rows) > Quota /\ table'.runs = Rest(rows)
      /\ pruned' = pruned \cup SearchesIn(Gone(rows))
      /\ UNCHANGED <<report, paid, wasted, reran, proc, searches>>
  BY <1>2, EvalTypes DEF Prune, StoreOf, operator, bounds, Rest, Gone
<1>5. /\ \A i \in DOMAIN Rest(rows) : \E j \in DOMAIN rows : Rest(rows)[i] = rows[j]
      /\ \A r \in Range(rows) :
             r \in Range(Rest(rows)) \/ r.search \in SearchesIn(Gone(rows))
  BY <1>4, PruneIs
<1>6. Range(Rest(rows)) \subseteq Range(rows)
  BY <1>5 DEF Range
<1>7. RunsInv'
  BY <1>1, <1>2, <1>4, <1>6 DEF RunsInv
<1>8. TodoInv'
  BY <1>1, <1>2, <1>4, <1>6 DEF TodoInv, Measured, Ahead
<1>9. PaidAnswersAreKept'
  BY <1>1, <1>2, <1>4, <1>5, <1>6 DEF PaidAnswersAreKept
<1>. QED
  BY <1>7, <1>8, <1>9 DEF EvalInv

\* The next case, or the report.
LEMMA EvalFinish ==
    ASSUME Typed, EvalInv, Finish("cli")
    PROVE  EvalInv'
<1>1. TypeOK /\ RunsInv /\ TodoInv /\ PaidAnswersAreKept
  BY DEF Typed, EvalInv
<1>2. PICK r \in CliBusy : r = proc.cli
  BY <1>1, Calls DEF Finish, Saved
<1> DEFINE at == IF Len(r.todo) = 1 THEN "reporting" ELSE "selected"
           c == [r EXCEPT !.at = at, !.todo = Tail(@)]
<1>3. /\ proc.cli.at = "inserted" /\ Goto("cli", c)
      /\ UNCHANGED <<table, pruned, report, paid, wasted, reran, searches>>
  BY <1>2 DEF Finish, Saved, operator, bounds
<1>4. c.at = at /\ c.todo = Tail(r.todo)
  BY DEF CliBusy
<1>5. at \in {"reporting", "selected"}
  OBVIOUS
<1> HIDE DEF c, at
<1>6. proc'.cli = c
  BY <1>1, <1>3, GotoIs
<1>7. /\ r.todo \in Seq(Cases) /\ r.todo # <<>> /\ Tail(r.todo) \in Seq(Cases)
      /\ \A i \in DOMAIN Tail(r.todo) : i \in Nat /\ i >= 1 /\ i + 1 \in DOMAIN r.todo /\ Tail(r.todo)[i] = r.todo[i + 1]
  <2>1. r.todo \in Seq(Cases) /\ r.todo # <<>>
    BY <1>2, <1>3 DEF Typed, InHand, CliBusy
  <2>2. /\ Tail(r.todo) \in Seq(Cases) /\ Len(Tail(r.todo)) = Len(r.todo) - 1
        /\ \A i \in 1..Len(Tail(r.todo)) : Tail(r.todo)[i] = r.todo[i + 1]
    BY <2>1, HeadTailProperties
  <2>3. /\ Len(r.todo) \in Nat \ {0} /\ DOMAIN r.todo = 1..Len(r.todo)
        /\ DOMAIN Tail(r.todo) = 1..Len(Tail(r.todo))
    BY <2>1, <2>2, EmptySeq, LenProperties
  <2>. QED
    BY <2>1, <2>2, <2>3
<1>8. RunsInv'
  BY <1>1, <1>3, <1>4, <1>5, <1>6 DEF RunsInv
<1>9. TodoInv'
  <2>1. ASSUME NEW i \in DOMAIN c.todo, NEW j \in DOMAIN c.todo, c.todo[i] = c.todo[j]
        PROVE  i = j
    <3>1. i + 1 = j + 1
      BY <1>1, <1>2, <1>3, <1>4, <1>7, <2>1 DEF TodoInv
    <3>. QED
      BY <1>4, <1>7, <3>1
  <2>2. ASSUME NEW i \in DOMAIN c.todo, Measured(c.todo[i])
        PROVE  c.todo[i] \in reran
    <3>1. i + 1 \in DOMAIN r.todo /\ i + 1 >= 2 /\ c.todo[i] = r.todo[i + 1]
      BY <1>4, <1>7
    <3>. QED
      BY <1>1, <1>2, <1>3, <2>2, <3>1 DEF TodoInv, Ahead
  <2>. QED
    BY <1>3, <1>6, <2>1, <2>2 DEF TodoInv, Measured
<1>10. PaidAnswersAreKept'
  BY <1>1, <1>3, <1>4, <1>5, <1>6 DEF PaidAnswersAreKept
<1>. QED
  BY <1>8, <1>9, <1>10 DEF EvalInv

LEMMA EvalStore ==
    ASSUME Typed, EvalInv, NEW a \in {"app", "cli"}, Store(a)
    PROVE  EvalInv'
<1>1. TypeOK /\ RunsInv /\ TodoInv /\ PaidAnswersAreKept /\ searches \in Nat
  BY EvalTypes DEF Typed, EvalInv
<1>2. CASE a = "app"
  <2>1. proc'.cli = proc.cli /\ UNCHANGED <<paid, report, reran, wasted, searches>>
        /\ pruned \subseteq pruned'
    <3>1. UNCHANGED <<paid, report, reran, wasted, searches>> /\ pruned \subseteq pruned'
      BY <1>2 DEF Store, Look, Alter, Fill, Insert, Prune, Finish, Saved, Fail, Abort,
                  operator, bounds, stores
    <3>2. (\E r : Goto("app", r)) \/ UNCHANGED proc
      BY <1>2 DEF Store, Look, Alter, Fill, Insert, Prune, Finish, Saved, Fail, Abort
    <3>. QED
      BY <1>1, <3>1, <3>2, GotoIs
  <2>2. table'.runs = table.runs
    BY <1>2, EvalTypes DEF Store, Look, Alter, Fill, Insert, Prune, Finish, Saved, Fail, Abort,
                           StoreOf, stores
  <2>. QED
    BY <1>1, <2>1, <2>2, EvalKept
<1>3. CASE a = "cli"
  <2>1. CASE Abort("cli") /\ proc.cli # Idle
    <3>1. /\ UNCHANGED <<table, paid, report, reran, pruned, searches>> /\ Goto("cli", Idle)
          /\ wasted \subseteq wasted' /\ (proc.cli.at = "answered" => proc.cli.search \in wasted')
      BY <2>1 DEF Abort
    <3>2. proc'.cli = Idle /\ Idle.at = "idle"
      BY <1>1, <3>1, GotoIs DEF Idle
    <3>. QED
      BY <3>1, <3>2, EvalEnds
  <2>2. ASSUME NEW at \in {"looked", "altered", "opened"},
               proc.cli.at \in {"reporting", "looked", "altered"},
               Goto("cli", [proc.cli EXCEPT !.at = at]), table'.runs = table.runs,
               UNCHANGED <<paid, report, reran, wasted, pruned, searches>>
        PROVE  EvalInv'
    <3>1. at \in CliSteps /\ proc.cli.at # "idle"
      BY <2>2 DEF CliSteps
    <3>2. proc'.cli.at = at
      BY <2>2, <3>1, GoesOn
    <3>3. RunsInv' /\ TodoInv'
      BY <1>1, <2>2, <3>2 DEF RunsInv, TodoInv
    <3>4. PaidAnswersAreKept'
      BY <1>1, <2>2, <3>2 DEF PaidAnswersAreKept
    <3>. QED
      BY <3>3, <3>4 DEF EvalInv
  <2>3. CASE Look("cli")
    <3>1. proc.cli.at = "reporting" /\ UNCHANGED <<table, paid, report, reran, wasted, pruned, searches>>
      BY <2>3 DEF Look, stores, operator, bounds
    <3>2. \E at \in {"looked", "opened"} : Goto("cli", [proc.cli EXCEPT !.at = at])
      BY <2>3 DEF Look
    <3>. QED
      BY <2>2, <3>1, <3>2
  <2>4. CASE Alter("cli")
    <3>1. CASE schema = "legacy"
      <4>1. /\ proc.cli.at = "looked" /\ Goto("cli", [proc.cli EXCEPT !.at = "altered"])
            /\ UNCHANGED <<table, paid, report, reran, wasted, pruned, searches>>
        BY <2>4, <3>1 DEF Alter, operator, bounds
      <4>. QED
        BY <2>2, <4>1
    <3>2. CASE schema # "legacy"
      BY <2>1, <2>4, <3>2 DEF Alter, Idle
    <3>. QED
      BY <3>1, <3>2
  <2>5. CASE Fill("cli")
    <3>1. /\ proc.cli.at = "altered" /\ Goto("cli", [proc.cli EXCEPT !.at = "opened"])
          /\ UNCHANGED <<paid, report, reran, wasted, pruned, searches>>
      BY <2>5 DEF Fill, operator, bounds
    <3>2. table'.runs = table.runs
      BY <2>5, EvalTypes DEF Fill
    <3>. QED
      BY <2>2, <3>1, <3>2
  <2>6. CASE Fail("cli")
    BY <2>1, <2>6 DEF Fail, Idle
  <2>. QED
    BY <1>3, <2>3, <2>4, <2>5, <2>6, EvalInsert, EvalPrune, EvalFinish DEF Store
<1>. QED
  BY <1>2, <1>3

LEMMA EvalNext == Typed /\ EvalInv /\ [Next]_vars => EvalInv'
<1> SUFFICES ASSUME Typed, EvalInv, [Next]_vars PROVE EvalInv'
  OBVIOUS
<1>1. TypeOK /\ searches \in Nat
  BY EvalTypes DEF Typed
<1>2. CASE (\E p \in Problems : Select(p)) \/ Reset \/ ToggleConsent \/ Click \/ Withhold \/ Ask
  <2>1. UNCHANGED <<table, paid, report, reran, wasted, pruned>>
    BY <1>2 DEF Select, Reset, ToggleConsent, Click, Withhold, Ask, stores, operator
  <2>2. searches' \in Nat /\ searches' >= searches
    <3>1. CASE Ask
      <4>1. searches' = searches + 1
        BY <3>1 DEF Ask, Bounded
      <4>. QED
        BY <1>1, <4>1
    <3>2. CASE ~Ask
      <4>1. searches' = searches
        BY <1>2, <3>2 DEF Select, Reset, ToggleConsent, Click, Withhold, bounds
      <4>. QED
        BY <1>1, <4>1
    <3>. QED
      BY <3>1, <3>2
  <2>3. (\E r : Goto("app", r)) \/ UNCHANGED proc
    BY <1>2 DEF Select, Reset, ToggleConsent, Click, Withhold, Ask
  <2>4. proc'.cli = proc.cli
    BY <1>1, <2>3, GotoIs
  <2>. QED
    BY <2>1, <2>2, <2>4, EvalKept
<1>3. CASE Restart
  <2>1. /\ UNCHANGED <<table, paid, report, reran, wasted, pruned, searches>>
        /\ Goto("app", Idle)
    BY <1>3 DEF Restart, Abort
  <2>. QED
    BY <1>1, <2>1, GotoIs, EvalKept
<1>4. CASE UNCHANGED vars
  <2>1. UNCHANGED <<table, paid, report, reran, wasted, pruned, searches, proc>>
    BY <1>4 DEF vars
  <2>. QED
    BY <1>1, <2>1, EvalKept
<1>. QED
  BY <1>2, <1>3, <1>4, EvalOperator, EvalStore DEF Next

\* Every answer that the evaluation paid for can be found again or is accounted
\* for, no case is paid for twice unless the operator asked, and no report counts
\* a case twice.
THEOREM PaidAnswersStay == Spec => []PaidAnswersAreKept
<1>1. EvalInv => PaidAnswersAreKept
  BY DEF EvalInv
<1>. QED
  BY <1>1, TypedInit, TypedNext, EvalInit, EvalNext, PTL DEF Spec

-----------------------------------------------------------------------------
(* The quota *)

Counted(rows) == \A i \in DOMAIN rows : rows[i].counted

\* Old rows are counted, unless a migration is under way or was cut short.
CountInv ==
    /\ schema = "legacy" => /\ SizeOf(table.history) <= Quota
                            /\ proc.app.at \notin {"altered", "opened", "inserted"}
                            /\ proc.cli.at # "altered"
    /\ schema = "current" => \/ Counted(table.history)
                             \/ botched
                             \/ proc.app.at = "altered"
                             \/ proc.cli.at = "altered"
    /\ Counted(table.runs)

\* What is being saved is the last row.
LastInv ==
    \A a \in {"app", "cli"} :
        proc[a].at = "inserted" =>
            /\ table[StoreOf(a)] # <<>>
            /\ table[StoreOf(a)][Len(table[StoreOf(a)])].search = proc[a].search

QuotaInv == CountInv /\ LastInv /\ QuotaIsKept

LEMMA CountedIsUsed ==
    ASSUME NEW rows, Counted(rows)
    PROVE  Used(rows) = SizeOf(rows)
<1>1. [i \in DOMAIN rows |-> rows[i].size]
        = [i \in DOMAIN rows |-> IF rows[i].counted THEN rows[i].size ELSE 0]
  BY DEF Counted
<1>. QED
  BY <1>1 DEF Used, SizeOf

LEMMA QuotaTypes ==
    ASSUME Typed
    PROVE  /\ table.history \in Seq(Row) /\ table.runs \in Seq(Row)
           /\ table["history"] = table.history /\ table["runs"] = table.runs
           /\ StoreOf("app") = "history" /\ StoreOf("cli") = "runs"
           /\ schema \in {"legacy", "current"}
           /\ DOMAIN table = {"history", "runs"}
           /\ overdue \subseteq {"history", "runs"}
  BY DEF Typed, TypeOK, StoreOf

\* The last row of a table is in it.
LEMMA LastIsThere ==
    ASSUME NEW rows \in Seq(Row), rows # <<>>
    PROVE  rows[Len(rows)].search \in SearchesIn(rows)
<1>1. Len(rows) \in DOMAIN rows
  BY EmptySeq, LenProperties
<1>. QED
  BY <1>1 DEF SearchesIn, Range

LEMMA QuotaInit == Init => QuotaInv
<1> SUFFICES ASSUME Init PROVE QuotaInv
  OBVIOUS
<1>1. PICK p \in Problems, sizes \in OldSizes, v \in {"legacy", "current"} :
          /\ table = [history |-> OldRows(p, sizes, v = "current"), runs |-> <<>>]
          /\ schema = v
  BY DEF Init
<1>2. proc.app = Idle /\ proc.cli = Idle /\ proc = [app |-> Idle, cli |-> Idle] /\ Idle.at = "idle"
  BY DEF Init, Idle
<1>3. SizeOf(table.history) <= Quota
  <2>1. sizes \in Seq(1..MaxSize) /\ Total(sizes) <= Quota
    BY ResearchAssumption
  <2>. QED
    BY <1>1, <2>1, TotalSame
<1>4. v = "current" => Counted(table.history)
  <2>1. table.history = OldRows(p, sizes, v = "current")
    BY <1>1
  <2>2. v = "current" => \A i \in DOMAIN sizes : OldRows(p, sizes, v = "current")[i].counted
    BY DEF OldRows
  <2>3. DOMAIN OldRows(p, sizes, v = "current") = DOMAIN sizes
    BY DEF OldRows
  <2>. QED
    BY <2>1, <2>2, <2>3 DEF Counted
<1>5. table.runs = <<>> /\ Counted(<<>>) /\ SizeOf(<<>>) <= Quota
  <2>1. table.runs = <<>> /\ Counted(<<>>)
    BY <1>1 DEF Counted
  <2>2. SizeOf(<<>>) <= Quota
    <3>1. [i \in DOMAIN <<>> |-> <<>>[i].size] = <<>>
      OBVIOUS
    <3>2. <<>> \in Seq(0..0) /\ Len(<<>>) = 0 /\ Quota \in Nat
      BY ResearchAssumption
    <3>3. Total(<<>>) \in Nat /\ Total(<<>>) <= Len(<<>>) * 0
      BY <3>2, TotalBound
    <3>4. Total(<<>>) <= 0
      BY <3>2, <3>3
    <3>. QED
      BY <3>1, <3>2, <3>3, <3>4 DEF SizeOf
  <2>. QED
    BY <2>1, <2>2
<1>6. CountInv
  BY <1>1, <1>2, <1>3, <1>4, <1>5 DEF CountInv
<1>7. LastInv
  BY <1>2 DEF LastInv
<1>8. QuotaIsKept
  BY <1>1, <1>2, <1>3, <1>5 DEF QuotaIsKept, StoreOf
<1>. QED
  BY <1>6, <1>7, <1>8 DEF QuotaInv

\* Neither a table nor what is known of it changes.
LEMMA QuotaKept ==
    ASSUME Typed, QuotaInv, UNCHANGED <<table, schema, overdue, botched>>,
           \A a \in {"app", "cli"} :
               \/ proc'[a].at = proc[a].at /\ proc'[a].search = proc[a].search
               \/ /\ {proc[a].at, proc'[a].at} \cap {"altered", "inserted"} = {}
                  /\ a = "app" /\ proc'[a].at = "opened" => schema = "current"
    PROVE  QuotaInv'
<1>1. CountInv'
  BY QuotaTypes DEF QuotaInv, CountInv
<1>2. LastInv'
  BY DEF QuotaInv, LastInv
<1>3. QuotaIsKept'
  BY DEF QuotaInv, QuotaIsKept
<1>. QED
  BY <1>1, <1>2, <1>3 DEF QuotaInv

LEMMA QuotaAbort ==
    ASSUME Typed, QuotaInv, NEW a \in {"app", "cli"}, Abort(a)
    PROVE  QuotaInv'
<1>1. /\ UNCHANGED <<table, schema>> /\ Goto(a, Idle)
      /\ overdue' = IF proc[a].at = "inserted" THEN overdue \cup {StoreOf(a)} ELSE overdue
      /\ botched' = (botched \/ proc[a].at = "altered")
  BY DEF Abort
<1>2. proc'[a].at = "idle" /\ \A b \in {"app", "cli"} : b # a => proc'[b] = proc[b]
  BY <1>1, GotoIs DEF Typed, Idle
<1>3. CountInv'
  BY <1>1, <1>2, QuotaTypes DEF QuotaInv, CountInv
<1>4. LastInv'
  BY <1>1, <1>2 DEF QuotaInv, LastInv
<1>5. QuotaIsKept'
  <2>1. ASSUME NEW b \in {"app", "cli"}, proc'[b].at # "inserted"
        PROVE  \/ StoreOf(b) \in overdue'
               \/ b = "app" /\ (botched' \/ proc'["cli"].at = "altered")
               \/ SizeOf(table[StoreOf(b)]) <= Quota
    <3>1. CASE b = a /\ proc[a].at = "inserted"
      BY <1>1, <3>1
    <3>2. CASE ~(b = a /\ proc[a].at = "inserted")
      <4>1. proc[b].at # "inserted"
        BY <1>2, <2>1, <3>2
      <4>2. \/ StoreOf(b) \in overdue
            \/ b = "app" /\ (botched \/ proc["cli"].at = "altered")
            \/ SizeOf(table[StoreOf(b)]) <= Quota
        BY <4>1 DEF QuotaInv, QuotaIsKept
      <4>3. proc["cli"].at = "altered" => proc'["cli"].at = "altered" \/ botched'
        BY <1>1, <1>2
      <4>. QED
        BY <1>1, <4>2, <4>3
    <3>. QED
      BY <3>1, <3>2
  <2>2. ASSUME NEW b \in {"app", "cli"}, proc'[b].at = "inserted"
        PROVE  proc'[b].search \in SearchesIn(table[StoreOf(b)])
    <3>1. proc'[b] = proc[b]
      BY <1>2, <2>2
    <3>. QED
      BY <2>2, <3>1 DEF QuotaInv, QuotaIsKept
  <2>. QED
    BY <1>1, <2>1, <2>2 DEF QuotaIsKept
<1>. QED
  BY <1>3, <1>4, <1>5 DEF QuotaInv

\* ALTER TABLE.
LEMMA QuotaAlter ==
    ASSUME Typed, QuotaInv, NEW a \in {"app", "cli"}, Alter(a), schema = "legacy"
    PROVE  QuotaInv'
<1>1. /\ proc[a].at = "looked" /\ schema' = "current"
      /\ Goto(a, [proc[a] EXCEPT !.at = "altered"]) /\ UNCHANGED <<table, overdue, botched>>
  BY DEF Alter
<1>2. proc'[a].at = "altered" /\ \A b \in {"app", "cli"} : b # a => proc'[b] = proc[b]
  <2>1. "altered" \in AppSteps \cap CliSteps /\ proc[a].at # "idle"
    BY <1>1 DEF AppSteps, CliSteps
  <2>. QED
    BY <1>1, <2>1, GoesOn
<1>3. CountInv'
  BY <1>1, <1>2 DEF QuotaInv, CountInv
<1>4. LastInv'
  BY <1>1, <1>2 DEF QuotaInv, LastInv
<1>5. QuotaIsKept'
  BY <1>1, <1>2, QuotaTypes DEF QuotaInv, QuotaIsKept, CountInv
<1>. QED
  BY <1>3, <1>4, <1>5 DEF QuotaInv

\* The UPDATE.
LEMMA QuotaFill ==
    ASSUME Typed, QuotaInv, NEW a \in {"app", "cli"}, Fill(a)
    PROVE  QuotaInv'
<1>1. PICK rows \in Seq(Row) : rows = table.history
  BY QuotaTypes
<1>2. PICK filled : filled = Filled(rows)
  OBVIOUS
<1>3. /\ proc[a].at = "altered" /\ Goto(a, [proc[a] EXCEPT !.at = "opened"])
      /\ UNCHANGED <<schema, botched>> /\ table' = [table EXCEPT !.history = filled]
      /\ overdue' = IF Used(filled) > Quota THEN overdue \cup {"history"} ELSE overdue
  BY <1>1, <1>2 DEF Fill, Filled
<1>4. /\ proc'[a].at = "opened" /\ \A b \in {"app", "cli"} : b # a => proc'[b] = proc[b]
  <2>1. "opened" \in AppSteps \cap CliSteps /\ proc[a].at # "idle"
    BY <1>3 DEF AppSteps, CliSteps
  <2>. QED
    BY <1>3, <2>1, GoesOn
<1>5. /\ filled \in Seq(Row) /\ Len(filled) = Len(rows) /\ DOMAIN filled = DOMAIN rows
      /\ \A i \in DOMAIN rows : filled[i].counted /\ filled[i].search = rows[i].search
  BY <1>2, FilledIs
<1>6. table'.history = filled /\ table'.runs = table.runs /\ table'["history"] = filled /\ table'["runs"] = table.runs
  BY <1>3, QuotaTypes
<1>7. DOMAIN filled = DOMAIN rows /\ Counted(filled)
  BY <1>5 DEF Counted
<1>8. Used(filled) = SizeOf(filled)
  BY <1>7, CountedIsUsed
<1>9. schema # "legacy"
  BY <1>3 DEF QuotaInv, CountInv
<1>10. CountInv'
  BY <1>3, <1>6, <1>7, <1>9, QuotaTypes DEF QuotaInv, CountInv
<1>11. ASSUME rows # <<>>
       PROVE  filled # <<>> /\ filled[Len(filled)].search = rows[Len(rows)].search
  <2>1. Len(rows) \in DOMAIN rows
    BY <1>11, EmptySeq, LenProperties
  <2>2. filled # <<>>
    BY <1>7, <2>1
  <2>. QED
    BY <1>5, <2>1, <2>2
<1>12. LastInv'
  <2>1. ASSUME NEW b \in {"app", "cli"}, proc'[b].at = "inserted"
        PROVE  /\ table'[StoreOf(b)] # <<>>
               /\ table'[StoreOf(b)][Len(table'[StoreOf(b)])].search = proc'[b].search
    <3>1. proc'[b] = proc[b] /\ proc[b].at = "inserted"
      BY <1>4, <2>1
    <3>2. /\ table[StoreOf(b)] # <<>>
          /\ table[StoreOf(b)][Len(table[StoreOf(b)])].search = proc[b].search
      BY <3>1 DEF QuotaInv, LastInv
    <3>3. CASE b = "app"
      BY <1>1, <1>6, <1>11, <3>1, <3>2, <3>3, QuotaTypes
    <3>4. CASE b = "cli"
      BY <1>6, <3>1, <3>2, <3>4, QuotaTypes
    <3>. QED
      BY <3>3, <3>4
  <2>. QED
    BY <2>1 DEF LastInv
<1>13. SizeOf(filled) <= Quota \/ "history" \in overdue'
  <2>1. Used(filled) > Quota \/ Used(filled) <= Quota
    <3>1. Used(filled) \in Nat
      BY <1>5, UsedIsNat
    <3>2. Quota \in Nat
      BY ResearchAssumption
    <3>. QED
      BY <3>1, <3>2
  <2>. QED
    BY <1>3, <1>8, <2>1
<1>14. QuotaIsKept'
  <2>1. ASSUME NEW b \in {"app", "cli"}, proc'[b].at # "inserted"
        PROVE  \/ StoreOf(b) \in overdue'
               \/ b = "app" /\ (botched' \/ proc'["cli"].at = "altered")
               \/ SizeOf(table'[StoreOf(b)]) <= Quota
    <3>1. CASE b = "app"
      BY <1>6, <1>13, <3>1, QuotaTypes
    <3>2. CASE b = "cli"
      <4>1. proc[b].at # "inserted"
        BY <1>3, <1>4, <2>1
      <4>2. StoreOf(b) \in overdue \/ SizeOf(table[StoreOf(b)]) <= Quota
        BY <3>2, <4>1 DEF QuotaInv, QuotaIsKept
      <4>. QED
        BY <1>3, <1>6, <3>2, <4>2, QuotaTypes
    <3>. QED
      BY <3>1, <3>2
  <2>2. ASSUME NEW b \in {"app", "cli"}, proc'[b].at = "inserted"
        PROVE  proc'[b].search \in SearchesIn(table'[StoreOf(b)])
    <3>1. /\ table'[StoreOf(b)] # <<>>
          /\ table'[StoreOf(b)][Len(table'[StoreOf(b)])].search = proc'[b].search
      BY <1>12, <2>2 DEF LastInv
    <3>2. table'[StoreOf(b)] \in Seq(Row)
      BY <1>5, <1>6, QuotaTypes
    <3>. QED
      BY <3>1, <3>2, LastIsThere
  <2>. QED
    BY <2>1, <2>2 DEF QuotaIsKept
<1>. QED
  BY <1>10, <1>12, <1>14 DEF QuotaInv

\* A table that a row is being saved in gets other rows, the last one the same.
LEMMA QuotaSaving ==
    ASSUME Typed, QuotaInv, NEW a \in {"app", "cli"}, NEW rows \in Seq(Row), rows # <<>>,
           rows[Len(rows)].search = proc'[a].search,
           proc'[a].at = "inserted", proc[a].at # "altered",
           \A b \in {"app", "cli"} : b # a => proc'[b] = proc[b],
           table' = [table EXCEPT ![StoreOf(a)] = rows], UNCHANGED <<schema, overdue, botched>>,
           Counted(table[StoreOf(a)]) => Counted(rows),
           a = "app" => schema = "current"
    PROVE  QuotaInv'
<1>1. /\ table'[StoreOf(a)] = rows
      /\ \A b \in {"app", "cli"} : b # a => table'[StoreOf(b)] = table[StoreOf(b)]
      /\ table'.history = table'["history"] /\ table'.runs = table'["runs"]
  BY QuotaTypes DEF StoreOf
<1>2. CountInv'
  <2>1. CASE a = "app"
    BY <1>1, <2>1, QuotaTypes DEF QuotaInv, CountInv
  <2>2. CASE a = "cli"
    BY <1>1, <2>2, QuotaTypes DEF QuotaInv, CountInv
  <2>. QED
    BY <2>1, <2>2
<1>3. LastInv'
  <2>1. ASSUME NEW b \in {"app", "cli"}, proc'[b].at = "inserted"
        PROVE  /\ table'[StoreOf(b)] # <<>>
               /\ table'[StoreOf(b)][Len(table'[StoreOf(b)])].search = proc'[b].search
    <3>1. CASE b = a
      BY <1>1, <3>1
    <3>2. CASE b # a
      BY <1>1, <2>1, <3>2 DEF QuotaInv, LastInv
    <3>. QED
      BY <3>1, <3>2
  <2>. QED
    BY <2>1 DEF LastInv
<1>4. QuotaIsKept'
  <2>1. ASSUME NEW b \in {"app", "cli"}, proc'[b].at # "inserted"
        PROVE  \/ StoreOf(b) \in overdue'
               \/ b = "app" /\ (botched' \/ proc'["cli"].at = "altered")
               \/ SizeOf(table'[StoreOf(b)]) <= Quota
    <3>1. b # a /\ proc[b].at # "inserted"
      BY <2>1
    <3>2. \/ StoreOf(b) \in overdue
          \/ b = "app" /\ (botched \/ proc["cli"].at = "altered")
          \/ SizeOf(table[StoreOf(b)]) <= Quota
      BY <3>1 DEF QuotaInv, QuotaIsKept
    <3>3. proc["cli"].at = "altered" => proc'["cli"].at = "altered"
      OBVIOUS
    <3>. QED
      BY <1>1, <3>1, <3>2, <3>3
  <2>2. ASSUME NEW b \in {"app", "cli"}, proc'[b].at = "inserted"
        PROVE  proc'[b].search \in SearchesIn(table'[StoreOf(b)])
    <3>1. CASE b = a
      BY <1>1, <3>1, LastIsThere
    <3>2. CASE b # a
      BY <1>1, <2>2, <3>2 DEF QuotaInv, QuotaIsKept
    <3>. QED
      BY <3>1, <3>2
  <2>. QED
    BY <2>1, <2>2 DEF QuotaIsKept
<1>. QED
  BY <1>2, <1>3, <1>4 DEF QuotaInv

LEMMA QuotaInsert ==
    ASSUME Typed, QuotaInv, NEW a \in {"app", "cli"}, Insert(a)
    PROVE  QuotaInv'
<1>1. PICK old \in Seq(Row) : old = table[StoreOf(a)]
  BY QuotaTypes
<1>2. /\ proc[a].at = IF a = "app" THEN "opened" ELSE "answered"
      /\ Goto(a, [proc[a] EXCEPT !.at = "inserted"])
      /\ UNCHANGED <<schema, overdue, botched>>
      /\ table' = [table EXCEPT ![StoreOf(a)] = Append(old, NewRow(a))]
  BY <1>1, QuotaTypes DEF Insert, NewRow
<1>3. PICK new \in Row : new = NewRow(a)
  BY <1>2, NewRowTyped
<1>4. new.search = proc[a].search /\ new.counted
  BY <1>3 DEF NewRow
<1>5. /\ proc'[a].at = "inserted" /\ proc'[a].search = proc[a].search
      /\ \A b \in {"app", "cli"} : b # a => proc'[b] = proc[b]
  <2>1. "inserted" \in AppSteps \cap CliSteps /\ proc[a].at # "idle"
    BY <1>2 DEF AppSteps, CliSteps
  <2>. QED
    BY <1>2, <2>1, GoesOn
<1>6. PICK rows : rows = Append(old, new)
  OBVIOUS
<1>7. /\ rows \in Seq(Row) /\ rows # <<>> /\ rows[Len(rows)] = new
      /\ DOMAIN rows = 1..(Len(old) + 1) /\ rows[Len(old) + 1] = new
      /\ \A i \in 1..Len(old) : rows[i] = old[i]
      /\ DOMAIN old = 1..Len(old) /\ Len(old) \in Nat
  BY <1>6, AppendProperties, LenProperties
<1>8. Counted(old) => Counted(rows)
  <2>1. \A i \in 1..(Len(old) + 1) : i \in 1..Len(old) \/ i = Len(old) + 1
    BY <1>7
  <2>. QED
    BY <1>4, <1>7, <2>1 DEF Counted
<1>9. a = "app" => schema = "current"
  BY <1>2, QuotaTypes DEF QuotaInv, CountInv
<1>10. proc[a].at # "altered"
  BY <1>2
<1>11. table' = [table EXCEPT ![StoreOf(a)] = rows]
  BY <1>2, <1>3, <1>6
<1>12. Counted(table[StoreOf(a)]) => Counted(rows)
  BY <1>1, <1>8
<1>13. rows \in Seq(Row) /\ rows # <<>> /\ rows[Len(rows)].search = proc'[a].search
  BY <1>4, <1>5, <1>7
<1>14. UNCHANGED <<schema, overdue, botched>>
  BY <1>2
<1>. QED
  BY <1>5, <1>9, <1>10, <1>11, <1>12, <1>13, <1>14, QuotaSaving

LEMMA QuotaPrune ==
    ASSUME Typed, QuotaInv, NEW a \in {"app", "cli"}, Prune(a)
    PROVE  QuotaInv'
<1>1. PICK old \in Seq(Row) : old = table[StoreOf(a)]
  BY QuotaTypes
<1>2. /\ proc[a].at = "inserted" /\ Used(old) > Quota
      /\ table' = [table EXCEPT ![StoreOf(a)] = Rest(old)]
      /\ UNCHANGED <<schema, overdue, botched, proc>>
  BY <1>1 DEF Prune, Rest
<1>3. PICK rows : rows = Rest(old)
  OBVIOUS
<1>4. /\ rows \in Seq(Row) /\ rows # <<>> /\ rows[Len(rows)] = old[Len(old)]
      /\ \A i \in DOMAIN rows : \E j \in DOMAIN old : rows[i] = old[j]
  BY <1>2, <1>3, PruneIs
<1>5. Counted(old) => Counted(rows)
  BY <1>4 DEF Counted
<1>6. old[Len(old)].search = proc[a].search
  BY <1>1, <1>2 DEF QuotaInv, LastInv
<1>7. a = "app" => schema = "current"
  BY <1>2, QuotaTypes DEF QuotaInv, CountInv
<1>. QED
  BY <1>1, <1>2, <1>3, <1>4, <1>5, <1>6, <1>7, QuotaSaving

\* _prune is over: nothing is left uncounted, or the migration is to blame.
LEMMA QuotaFinish ==
    ASSUME Typed, QuotaInv, NEW a \in {"app", "cli"}, Finish(a)
    PROVE  QuotaInv'
<1>1. /\ proc[a].at = "inserted" /\ Used(table[StoreOf(a)]) <= Quota
      /\ overdue' = overdue \ {StoreOf(a)} /\ UNCHANGED <<table, schema, botched>>
  BY DEF Finish, Saved
<1>2. /\ proc'[a].at \notin {"altered", "inserted", "opened"}
      /\ \A b \in {"app", "cli"} : b # a => proc'[b] = proc[b]
  <2>1. CASE a = "app"
    BY <2>1, GotoIs DEF Typed, Finish, Saved, Idle
  <2>2. CASE a = "cli"
    <3>1. proc.cli \in CliBusy
      BY <1>1, <2>2, Calls DEF Typed
    <3> DEFINE at == IF Len(proc.cli.todo) = 1 THEN "reporting" ELSE "selected"
               c == [proc.cli EXCEPT !.at = at, !.todo = Tail(@)]
    <3>2. Goto("cli", c)
      BY <2>2 DEF Finish, Saved
    <3>3. c.at = at
      BY <3>1 DEF CliBusy
    <3>4. at \in {"reporting", "selected"}
      OBVIOUS
    <3> HIDE DEF c, at
    <3>5. proc'.cli = c /\ proc'.app = proc.app
      BY <3>2, GotoIs DEF Typed
    <3>. QED
      BY <2>2, <3>3, <3>4, <3>5
  <2>. QED
    BY <2>1, <2>2
<1>3. CountInv'
  BY <1>1, <1>2, QuotaTypes DEF QuotaInv, CountInv
<1>4. LastInv'
  BY <1>1, <1>2 DEF QuotaInv, LastInv
<1>5. \/ SizeOf(table[StoreOf(a)]) <= Quota
      \/ a = "app" /\ (botched \/ proc["cli"].at = "altered")
  <2>1. Counted(table[StoreOf(a)]) => SizeOf(table[StoreOf(a)]) <= Quota
    BY <1>1, CountedIsUsed
  <2>2. CASE a = "app"
    <3>1. schema = "current" /\ proc.app.at # "altered"
      BY <1>1, <2>2, QuotaTypes DEF QuotaInv, CountInv
    <3>. QED
      BY <2>1, <2>2, <3>1, QuotaTypes DEF QuotaInv, CountInv
  <2>3. CASE a = "cli"
    BY <2>1, <2>3, QuotaTypes DEF QuotaInv, CountInv
  <2>. QED
    BY <2>2, <2>3
<1>6. QuotaIsKept'
  <2>1. ASSUME NEW b \in {"app", "cli"}, proc'[b].at # "inserted"
        PROVE  \/ StoreOf(b) \in overdue'
               \/ b = "app" /\ (botched' \/ proc'["cli"].at = "altered")
               \/ SizeOf(table'[StoreOf(b)]) <= Quota
    <3>1. CASE b = a
      BY <1>1, <1>2, <1>5, <3>1
    <3>2. CASE b # a
      <4>1. proc'[b] = proc[b] /\ StoreOf(b) # StoreOf(a)
        BY <1>2, <3>2, QuotaTypes
      <4>2. \/ StoreOf(b) \in overdue
            \/ b = "app" /\ (botched \/ proc["cli"].at = "altered")
            \/ SizeOf(table[StoreOf(b)]) <= Quota
        BY <2>1, <4>1 DEF QuotaInv, QuotaIsKept
      <4>3. proc["cli"].at = "altered" => proc'["cli"].at = "altered"
        BY <1>1, <1>2
      <4>. QED
        BY <1>1, <4>1, <4>2, <4>3
    <3>. QED
      BY <3>1, <3>2
  <2>2. ASSUME NEW b \in {"app", "cli"}, proc'[b].at = "inserted"
        PROVE  proc'[b].search \in SearchesIn(table'[StoreOf(b)])
    <3>1. proc'[b] = proc[b]
      BY <1>2, <2>2
    <3>. QED
      BY <1>1, <2>2, <3>1 DEF QuotaInv, QuotaIsKept
  <2>. QED
    BY <2>1, <2>2 DEF QuotaIsKept
<1>. QED
  BY <1>3, <1>4, <1>6 DEF QuotaInv

LEMMA QuotaStore ==
    ASSUME Typed, QuotaInv, NEW a \in {"app", "cli"}, Store(a)
    PROVE  QuotaInv'
<1>1. CASE Look(a)
  <2>1. /\ proc[a].at \in {"answered", "reporting"}
        /\ UNCHANGED <<table, schema, overdue, botched>>
    BY <1>1 DEF Look, stores
  <2>2. PICK at \in {"looked", "opened"} : /\ Goto(a, [proc[a] EXCEPT !.at = at])
                                           /\ at = "opened" => schema # "legacy"
    BY <1>1 DEF Look
  <2>3. proc'[a].at = at /\ \A b \in {"app", "cli"} : b # a => proc'[b] = proc[b]
    <3>1. at \in AppSteps \cap CliSteps /\ proc[a].at # "idle"
      BY <2>1 DEF AppSteps, CliSteps
    <3>. QED
      BY <2>2, <3>1, GoesOn
  <2>4. at = "opened" => schema = "current"
    BY <2>2, QuotaTypes
  <2>. QED
    BY <2>1, <2>3, <2>4, QuotaKept
<1>2. CASE Alter(a)
  BY <1>2, QuotaAlter, QuotaAbort DEF Alter
<1>3. CASE Fail(a)
  BY <1>3, QuotaAbort DEF Fail
<1>. QED
  BY <1>1, <1>2, <1>3, QuotaFill, QuotaInsert, QuotaPrune, QuotaFinish DEF Store

LEMMA QuotaLearner ==
    ASSUME Typed, QuotaInv,
           \/ \E p \in Problems : Select(p)
           \/ Reset \/ ToggleConsent \/ Click \/ Withhold \/ Ask
    PROVE  QuotaInv'
<1>1. TypeOK /\ UNCHANGED <<table, schema, overdue, botched>>
  BY DEF Typed, Select, Reset, ToggleConsent, Click, Withhold, Ask, stores
<1>2. ASSUME NEW p \in Problems, Select(p), proc.app # Idle PROVE QuotaInv'
  <2> DEFINE c == [proc.app EXCEPT !.left = TRUE]
  <2>1. proc.app \in AppBusy
    BY <1>1, <1>2, Calls
  <2>2. c.at = proc.app.at /\ c.search = proc.app.search
    BY <2>1 DEF AppBusy
  <2>3. Goto("app", c)
    BY <1>2 DEF Select
  <2> HIDE DEF c
  <2>4. proc'.app = c /\ proc'.cli = proc.cli
    BY <1>1, <2>3, GotoIs
  <2>. QED
    BY <1>1, <2>2, <2>4, QuotaKept
<1>3. CASE UNCHANGED proc
  BY <1>1, <1>3, QuotaKept
<1>4. ASSUME NEW r, Goto("app", r), r.at \in {"idle", "clicked", "answered"},
             proc.app.at \in {"idle", "clicked"}
      PROVE  QuotaInv'
  <2>1. proc'.app = r /\ proc'.cli = proc.cli
    BY <1>1, <1>4, GotoIs
  <2>. QED
    BY <1>1, <1>4, <2>1, QuotaKept
<1>5. ASSUME NEW p \in Problems, Select(p) PROVE QuotaInv'
  BY <1>2, <1>3, <1>5 DEF Select
<1>6. CASE Reset \/ ToggleConsent
  BY <1>3, <1>6 DEF Reset, ToggleConsent
<1>7. CASE Click
  <2> DEFINE c == [at |-> "clicked", problem |-> page.problem, consent |-> page.consent,
                   early |-> page.resets > 0, left |-> FALSE, search |-> 0, size |-> 0]
  <2>1. Goto("app", c) /\ proc.app = Idle
    BY <1>7 DEF Click
  <2>2. c.at = "clicked"
    OBVIOUS
  <2> HIDE DEF c
  <2>. QED
    BY <1>4, <2>1, <2>2, IdleIsNoStep
<1>8. CASE Withhold
  BY <1>4, <1>8, IdleIsNoStep DEF Withhold
<1>9. CASE Ask
  <2>1. proc.app.at = "clicked"
    BY <1>9 DEF Ask
  <2>2. proc.app \in AppBusy
    BY <1>1, <2>1, Calls
  <2>3. ASSUME NEW size \in 1..MaxSize,
               Goto("app", [proc.app EXCEPT !.at = "answered", !.search = searches + 1,
                                            !.size = size])
        PROVE  QuotaInv'
    <3> DEFINE c == [proc.app EXCEPT !.at = "answered", !.search = searches + 1, !.size = size]
    <3>1. c.at = "answered" /\ Goto("app", c)
      BY <2>2, <2>3 DEF AppBusy
    <3> HIDE DEF c
    <3>. QED
      BY <1>4, <2>1, <3>1
  <2>4. CASE Goto("app", Idle)
    BY <1>4, <2>1, <2>4, IdleIsNoStep
  <2>. QED
    BY <1>9, <2>3, <2>4 DEF Ask
<1>. QED
  BY <1>5, <1>6, <1>7, <1>8, <1>9

LEMMA QuotaOperator ==
    ASSUME Typed, QuotaInv,
           \/ \E n \in 1..NumCases, ids \in SUBSET Cases, rerun \in BOOLEAN : Evaluate(n, ids, rerun)
           \/ AskCase \/ Report
    PROVE  QuotaInv'
<1>1. TypeOK /\ UNCHANGED <<table, schema, overdue, botched>>
  BY DEF Typed, Evaluate, AskCase, Report, stores
<1>2. ASSUME NEW r, Goto("cli", r), r.at \in {"idle", "selected", "reporting", "answered"},
             proc.cli.at \in {"idle", "selected", "opened"}
      PROVE  QuotaInv'
  <2>1. proc'.cli = r /\ proc'.app = proc.app
    BY <1>1, <1>2, GotoIs
  <2>. QED
    BY <1>1, <1>2, <2>1, QuotaKept
<1>3. ASSUME NEW n \in 1..NumCases, NEW ids \in SUBSET Cases, NEW rerun \in BOOLEAN,
             Evaluate(n, ids, rerun)
      PROVE  QuotaInv'
  <2>1. PICK todo : todo = Selected(n, ids, rerun)
    OBVIOUS
  <2> DEFINE c == [at |-> IF todo = <<>> THEN "reporting" ELSE "selected",
                   todo |-> todo, search |-> 0, size |-> 0]
  <2>2. Goto("cli", c) /\ proc.cli = Idle
    BY <1>3, <2>1 DEF Evaluate
  <2>3. c.at \in {"reporting", "selected"}
    OBVIOUS
  <2> HIDE DEF c
  <2>. QED
    BY <1>2, <2>2, <2>3, IdleIsNoStep
<1>4. CASE AskCase
  <2>1. proc.cli.at = "selected"
    BY <1>4 DEF AskCase
  <2>2. proc.cli \in CliBusy
    BY <1>1, <2>1, Calls
  <2>3. ASSUME NEW size \in 1..MaxSize,
               Goto("cli", [proc.cli EXCEPT !.at = "answered", !.search = searches + 1,
                                            !.size = size])
        PROVE  QuotaInv'
    <3> DEFINE c == [proc.cli EXCEPT !.at = "answered", !.search = searches + 1, !.size = size]
    <3>1. c.at = "answered" /\ Goto("cli", c)
      BY <2>2, <2>3 DEF CliBusy
    <3> HIDE DEF c
    <3>. QED
      BY <1>2, <2>1, <3>1
  <2>4. CASE Goto("cli", Idle)
    BY <1>2, <2>1, <2>4, IdleIsNoStep
  <2>. QED
    BY <1>4, <2>3, <2>4 DEF AskCase
<1>5. CASE Report
  BY <1>2, <1>5, IdleIsNoStep DEF Report
<1>. QED
  BY <1>3, <1>4, <1>5

LEMMA QuotaNext == Typed /\ QuotaInv /\ [Next]_vars => QuotaInv'
<1> SUFFICES ASSUME Typed, QuotaInv, [Next]_vars PROVE QuotaInv'
  OBVIOUS
<1>1. CASE Restart
  BY <1>1, QuotaAbort DEF Restart
<1>2. CASE UNCHANGED vars
  BY <1>2, QuotaKept DEF vars
<1>. QED
  BY <1>1, <1>2, QuotaLearner, QuotaOperator, QuotaStore DEF Next

\* Between two saves neither table holds more than its quota, whatever the sizes
\* of the answers, the rows of an earlier version and the interleaving of the two
\* processes; only a pruning that a death prevented, or the migration, excuses it.
THEOREM QuotaStaysKept == Spec => []QuotaIsKept
<1>1. QuotaInv => QuotaIsKept
  BY DEF QuotaInv
<1>. QED
  BY <1>1, TypedInit, TypedNext, QuotaInit, QuotaNext, PTL DEF Spec

=============================================================================
