------------------------- MODULE ProfileStore_proofs -------------------------
(***************************************************************************)
(* What the profile list keeps, for all names, preferences, problems,      *)
(* handlers and bounds.  Whatever calls overlap, no identity is in it      *)
(* twice, the first page shows a problem that exists, and a call that was  *)
(* not overtaken alters one preference of one profile or adds a profile.   *)
(* As long as no call has written what another has overtaken, no profile   *)
(* is lost and no name is taken twice.                                     *)
(***************************************************************************)
EXTENDS ProfileStore, TLAPS

\* What a call c of lane m has read is of its type, was unique when it was
\* read, and is still the file if no one has overtaken it.
LaneOK(f, m, c) ==
    /\ c.at = "lookup" => m = "create" /\ c.name \in Names
    /\ c.at = "fetch" => c.change \in Changes
    /\ c.at \in {"list", "write"} =>
         /\ c.row \in Profile
         /\ c.overtaken \in BOOLEAN
         /\ c.new \in BOOLEAN
         /\ c.new /\ ~c.row.development => m = "create"
    /\ c.at = "write" =>
         /\ c.rows \in Seq(Profile)
         /\ UniqueIds(c.rows)
         /\ ~c.overtaken => c.rows = f

\* The name of a new profile is free; an altered profile is in the list under
\* the same name.
NameOK(f, m, c) ==
    c.at \in {"list", "write"} /\ ~c.overtaken =>
        /\ c.new /\ ~c.row.development =>
             \A i \in DOMAIN f : f[i].name = c.row.name => f[i].development
        /\ ~c.new =>
             /\ c.row.id \in Ids(f)
             /\ \A i \in DOMAIN f : f[i].id = c.row.id =>
                  f[i].name = c.row.name /\ f[i].development = c.row.development

Distinct(f) ==
    \A i, j \in DOMAIN f :
        (f[i].name = f[j].name /\ ~f[i].development /\ ~f[j].development) => i = j

Typed ==
    /\ file \in Seq(Profile)
    /\ nextId \in Nat
    /\ catalogue \subseteq Problems
    /\ call = [m \in Lanes |-> call[m]]

Inv ==
    /\ Typed
    /\ UniqueIds(file)
    /\ \A m \in Lanes : LaneOK(file, m, call[m])
    /\ ~lossy => /\ created \subseteq Ids(file)
                 /\ Distinct(file)
                 /\ \A m \in Lanes : NameOK(file, m, call[m])

-----------------------------------------------------------------------------
(* The list *)

\* A new profile has the type of a profile.
LEMMA NewProfileType ==
    ASSUME NEW i \in Nat, NEW name \in Names \cup {"development"}, NEW dev \in BOOLEAN
    PROVE  /\ NewProfile(i, name, dev) \in Profile
           /\ NewProfile(i, name, dev).id = i
           /\ NewProfile(i, name, dev).name = name
           /\ NewProfile(i, name, dev).development = dev
  BY ProfileAssumption DEF NewProfile, Profile, NoProblem

\* Altering a preference keeps type and identity.
LEMMA AlteredType ==
    ASSUME NEW row \in Profile, NEW change \in Changes
    PROVE  /\ Altered(row, change) \in Profile
           /\ Altered(row, change).id = row.id
           /\ Altered(row, change).name = row.name
           /\ Altered(row, change).development = row.development
<1>1. CASE change.key = "provider" /\ change.value \in Providers
  BY <1>1 DEF Altered, Profile
<1>2. CASE change.key = "mode" /\ change.value \in Modes
  BY <1>2 DEF Altered, Profile
<1>3. CASE change.key = "last" /\ change.value \in Problems
  BY <1>3 DEF Altered, Profile
<1>. QED
  BY <1>1, <1>2, <1>3 DEF Changes

\* What save_profile makes of a list: the ids that were there and the new one,
\* each once, with every other row as it was.
LEMMA UpsertedList ==
    ASSUME NEW rows \in Seq(Profile), NEW row \in Profile
    PROVE  /\ Upserted(rows, row) \in Seq(Profile)
           /\ UniqueIds(rows) => UniqueIds(Upserted(rows, row))
           /\ Ids(rows) \cup {row.id} \subseteq Ids(Upserted(rows, row))
<1>1. CASE row.id \in Ids(rows)
  <2>1. Upserted(rows, row) = [i \in DOMAIN rows |-> IF rows[i].id = row.id THEN row ELSE rows[i]]
    BY <1>1 DEF Upserted
  <2>2. Upserted(rows, row) \in Seq(Profile) /\ DOMAIN Upserted(rows, row) = DOMAIN rows
    BY <2>1
  <2>3. \A i \in DOMAIN rows : Upserted(rows, row)[i].id = rows[i].id
    BY <2>1
  <2>. QED
    BY <1>1, <2>2, <2>3 DEF UniqueIds, Ids
<1>2. CASE row.id \notin Ids(rows)
  <2>1. Upserted(rows, row) = Append(rows, row)
    BY <1>2 DEF Upserted
  <2>2. /\ Upserted(rows, row) \in Seq(Profile)
        /\ DOMAIN Upserted(rows, row) = 1..(Len(rows) + 1)
        /\ DOMAIN rows = 1..Len(rows)
        /\ Len(rows) \in Nat
        /\ \A i \in DOMAIN rows : Upserted(rows, row)[i] = rows[i]
        /\ Upserted(rows, row)[Len(rows) + 1] = row
    BY <2>1
  <2>3. \A i \in DOMAIN rows : rows[i].id # row.id
    BY <1>2 DEF Ids
  <2>4. \A i \in DOMAIN Upserted(rows, row) : i \in DOMAIN rows \/ i = Len(rows) + 1
    BY <2>2
  <2>5. UniqueIds(rows) => UniqueIds(Upserted(rows, row))
    BY <2>2, <2>3, <2>4 DEF UniqueIds
  <2>6. Ids(rows) \cup {row.id} \subseteq Ids(Upserted(rows, row))
    BY <2>2, <2>4 DEF Ids
  <2>. QED
    BY <2>2, <2>5, <2>6
<1>. QED
  BY <1>1, <1>2

\* Where the rows of the new list come from.
LEMMA UpsertedRows ==
    ASSUME NEW rows \in Seq(Profile), NEW row \in Profile
    PROVE  \A i \in DOMAIN Upserted(rows, row) :
              \/ Upserted(rows, row)[i] = row
                 /\ (row.id \in Ids(rows) => i \in DOMAIN rows /\ rows[i].id = row.id)
                 /\ (row.id \notin Ids(rows) => i = Len(rows) + 1)
              \/ i \in DOMAIN rows /\ Upserted(rows, row)[i] = rows[i] /\ rows[i].id # row.id
<1>1. CASE row.id \in Ids(rows)
  BY <1>1 DEF Upserted
<1>2. CASE row.id \notin Ids(rows)
  <2>1. Upserted(rows, row) = Append(rows, row)
    BY <1>2 DEF Upserted
  <2>2. \A i \in DOMAIN rows : rows[i].id # row.id
    BY <1>2 DEF Ids
  <2>. QED
    BY <1>2, <2>1, <2>2
<1>. QED
  BY <1>1, <1>2

-----------------------------------------------------------------------------
(* Steps that do not write the file *)

\* Such a step leaves the calls as they were, but for one, which has read the
\* file as it is.
QuietStep ==
    /\ file' = file
    /\ created' = created
    /\ lossy' = lossy
    /\ nextId' \in {nextId, nextId + 1}
    /\ catalogue' \subseteq Problems
    /\ call' = [m \in Lanes |-> call'[m]]
    /\ \A m \in Lanes :
         \/ call'[m] = call[m]
         \/ LaneOK(file, m, call'[m]) /\ NameOK(file, m, call'[m])

\* One lane moves on to a call that has read the file as it is.
LEMMA OneLaneMoves ==
    ASSUME Typed, NEW l \in Lanes, NEW STATE c, LaneOK(file, l, c), NameOK(file, l, c),
           Goto(l, c), file' = file, created' = created, lossy' = lossy,
           nextId' \in {nextId, nextId + 1}, catalogue' \subseteq Problems
    PROVE  QuietStep
  BY DEF Typed, Goto, QuietStep

LEMMA IdleIsOK == \A m \in Lanes : LaneOK(file, m, NoCall) /\ NameOK(file, m, NoCall)
  BY DEF LaneOK, NameOK, NoCall

LEMMA ClickIsQuiet ==
    ASSUME Inv, Learner
    PROVE  QuietStep
<1>1. ASSUME NEW name \in Names, ClickCreate(name) PROVE QuietStep
  <2>1. LaneOK(file, "create", [at |-> "lookup", name |-> name])
        /\ NameOK(file, "create", [at |-> "lookup", name |-> name])
    BY DEF LaneOK, NameOK
  <2>2. "create" \in Lanes
    BY <1>1 DEF ClickCreate, Click, Lanes
  <2>. QED
    BY <1>1, <2>1, <2>2, OneLaneMoves DEF ClickCreate, Click, Inv, Typed
<1>2. ASSUME NEW i, ClickProfile(i) PROVE QuietStep
  <2>1. LaneOK(file, "profile", [at |-> "restore", id |-> i])
        /\ NameOK(file, "profile", [at |-> "restore", id |-> i])
    BY DEF LaneOK, NameOK
  <2>2. "profile" \in Lanes
    BY <1>2 DEF ClickProfile, Click, Lanes
  <2>. QED
    BY <1>2, <2>1, <2>2, OneLaneMoves DEF ClickProfile, Click, Inv, Typed
<1>3. ASSUME NEW l \in Lanes, NEW i, NEW change \in Changes,
             Click(l, [at |-> "fetch", id |-> i, change |-> change])
      PROVE  QuietStep
  <2>1. LaneOK(file, l, [at |-> "fetch", id |-> i, change |-> change])
        /\ NameOK(file, l, [at |-> "fetch", id |-> i, change |-> change])
    BY DEF LaneOK, NameOK
  <2>. QED
    BY <1>3, <2>1, OneLaneMoves DEF Click, Inv, Typed
<1>4. ASSUME NEW i, NEW p \in Problems, ClickProblem(i, p) PROVE QuietStep
  <2>1. [key |-> "last", value |-> p] \in Changes /\ "problem" \in Lanes
    BY <1>4 DEF Changes, ClickProblem, Click, Lanes
  <2>. QED
    BY <1>3, <1>4, <2>1 DEF ClickProblem
<1>5. ASSUME NEW i, NEW v \in Providers, ClickProvider(i, v) PROVE QuietStep
  <2>1. [key |-> "provider", value |-> v] \in Changes /\ "provider" \in Lanes
    BY <1>5 DEF Changes, ClickProvider, Click, Lanes
  <2>. QED
    BY <1>3, <1>5, <2>1 DEF ClickProvider
<1>6. ASSUME NEW i, NEW v \in Modes, ClickMode(i, v) PROVE QuietStep
  <2>1. [key |-> "mode", value |-> v] \in Changes /\ "mode" \in Lanes
    BY <1>6 DEF Changes, ClickMode, Click, Lanes
  <2>. QED
    BY <1>3, <1>6, <2>1 DEF ClickMode
<1>. QED
  BY <1>1, <1>2, <1>4, <1>5, <1>6 DEF Learner

\* The end of a call.
LEMMA DoneIsQuiet ==
    ASSUME Inv, NEW l \in Lanes, NEW STATE p, Done(l, p)
    PROVE  QuietStep
  BY IdleIsOK, OneLaneMoves DEF Done, Inv, Typed

\* A new profile that is about to be stored: a normal one by create, when no
\* normal profile has its name.
LEMMA NewRowOK ==
    ASSUME NEW l \in Lanes, NEW i \in Nat, NEW name \in Names \cup {"development"},
           NEW dev \in BOOLEAN,
           ~dev => l = "create" /\ \A j \in DOMAIN file : file[j].name = name => file[j].development
    PROVE  LET c == [at |-> "list", row |-> NewProfile(i, name, dev),
                     overtaken |-> FALSE, new |-> TRUE]
           IN LaneOK(file, l, c) /\ NameOK(file, l, c)
<1> DEFINE c == [at |-> "list", row |-> NewProfile(i, name, dev),
                 overtaken |-> FALSE, new |-> TRUE]
<1>1. /\ c.at = "list" /\ c.overtaken = FALSE /\ c.new = TRUE
      /\ c.row = NewProfile(i, name, dev)
  OBVIOUS
<1>2. c.row \in Profile /\ c.row.name = name /\ c.row.development = dev
  BY <1>1, NewProfileType
<1> HIDE DEF c
<1>. QED
  BY <1>1, <1>2 DEF LaneOK, NameOK, c

LEMMA LookupIsQuiet ==
    ASSUME Inv, NEW l \in Lanes, Lookup(l)
    PROVE  QuietStep
<1> DEFINE same == {i \in DOMAIN file : file[i].name = call[l].name /\ ~file[i].development}
<1>1. call[l].name \in Names /\ l = "create"
  BY DEF Inv, LaneOK, Lookup
<1>2. ASSUME NEW i \in same, Goto(l, [at |-> "restore", id |-> file[i].id]), UNCHANGED nextId
      PROVE  QuietStep
  <2>1. LaneOK(file, l, [at |-> "restore", id |-> file[i].id])
        /\ NameOK(file, l, [at |-> "restore", id |-> file[i].id])
    BY DEF LaneOK, NameOK
  <2>. QED
    BY <1>2, <2>1, OneLaneMoves DEF Lookup, Inv, Typed
<1>3. ASSUME same = {}, nextId' = nextId + 1,
             Goto(l, [at |-> "list", row |-> NewProfile(nextId, call[l].name, FALSE),
                      overtaken |-> FALSE, new |-> TRUE])
      PROVE  QuietStep
  <2> DEFINE c == [at |-> "list", row |-> NewProfile(nextId, call[l].name, FALSE),
                   overtaken |-> FALSE, new |-> TRUE]
  <2>1. nextId \in Nat
    BY DEF Inv, Typed
  <2>2. \A j \in DOMAIN file : file[j].name = call[l].name => file[j].development
    BY <1>3
  <2>3. LaneOK(file, l, c) /\ NameOK(file, l, c)
    BY <1>1, <2>1, <2>2, NewRowOK
  <2>4. Goto(l, c)
    BY <1>3
  <2> HIDE DEF c
  <2>. QED
    BY <1>3, <2>3, <2>4, OneLaneMoves DEF Lookup, Inv, Typed
<1>. QED
  BY <1>2, <1>3 DEF Lookup

LEMMA DefaultIsQuiet ==
    ASSUME Inv, NEW l \in Lanes, ChooseDefault(l)
    PROVE  QuietStep
<1>1. ASSUME NEW STATE i, Continue(l, [at |-> "restore", id |-> i]) PROVE QuietStep
  <2>1. LaneOK(file, l, [at |-> "restore", id |-> i])
        /\ NameOK(file, l, [at |-> "restore", id |-> i])
    BY DEF LaneOK, NameOK
  <2>. QED
    BY <1>1, <2>1, OneLaneMoves DEF Continue, Inv, Typed
<1>2. ASSUME Continue(l, [at |-> "list", overtaken |-> FALSE, new |-> TRUE,
                          row |-> NewProfile(DevelopmentId, "development", TRUE)])
      PROVE  QuietStep
  <2> DEFINE c == [at |-> "list", row |-> NewProfile(DevelopmentId, "development", TRUE),
                   overtaken |-> FALSE, new |-> TRUE]
  <2>1. DevelopmentId \in Nat
    BY DEF DevelopmentId
  <2>2. LaneOK(file, l, c) /\ NameOK(file, l, c)
    BY <2>1, NewRowOK
  <2>3. Goto(l, c)
    BY <1>2 DEF Continue
  <2> HIDE DEF c
  <2>. QED
    BY <1>2, <2>2, <2>3, OneLaneMoves DEF Continue, Inv, Typed
<1>. QED
  BY <1>1, <1>2, DoneIsQuiet DEF ChooseDefault

LEMMA RestoreIsQuiet ==
    ASSUME Inv, NEW l \in Lanes, Restore(l)
    PROVE  QuietStep
<1>1. ASSUME NEW p \in catalogue,
             Continue(l, [at |-> "fetch", id |-> call[l].id,
                          change |-> [key |-> "last", value |-> p]])
      PROVE  QuietStep
  <2> DEFINE c == [at |-> "fetch", id |-> call[l].id,
                   change |-> [key |-> "last", value |-> p]]
  <2>1. [key |-> "last", value |-> p] \in Changes
    BY DEF Changes, Inv, Typed
  <2>2. LaneOK(file, l, c) /\ NameOK(file, l, c)
    BY <2>1 DEF LaneOK, NameOK
  <2>. QED
    BY <1>1, <2>2, OneLaneMoves DEF Continue, Inv, Typed
<1>. QED
  BY <1>1, DoneIsQuiet DEF Restore

LEMMA FetchIsQuiet ==
    ASSUME Inv, NEW l \in Lanes, Fetch(l)
    PROVE  QuietStep
<1>1. call[l].change \in Changes
  BY DEF Inv, LaneOK, Fetch
<1>2. PICK i \in DOMAIN file :
        Continue(l, [at |-> "list", overtaken |-> FALSE, new |-> FALSE,
                     row |-> Altered(file[i], call[l].change)])
  BY DEF Fetch
<1> DEFINE c == [at |-> "list", overtaken |-> FALSE, new |-> FALSE,
                 row |-> Altered(file[i], call[l].change)]
<1>3. file[i] \in Profile /\ UniqueIds(file)
  BY DEF Inv, Typed
<1>4. /\ c.at = "list" /\ c.overtaken = FALSE /\ c.new = FALSE
      /\ c.row \in Profile /\ c.row.id = file[i].id /\ c.row.name = file[i].name
      /\ c.row.development = file[i].development
  BY <1>1, <1>3, AlteredType
<1>5. Goto(l, c) /\ file' = file /\ created' = created /\ lossy' = lossy
      /\ nextId' = nextId /\ catalogue' = catalogue
  BY <1>2 DEF Continue
<1> HIDE DEF c
<1>6. LaneOK(file, l, c)
  BY <1>4 DEF LaneOK
<1>7. NameOK(file, l, c)
  BY <1>3, <1>4 DEF NameOK, UniqueIds, Ids
<1>. QED
  BY <1>5, <1>6, <1>7, OneLaneMoves DEF Inv, Typed

\* Reading the list: what is read is the file.
LEMMA ListIsQuiet ==
    ASSUME Inv, NEW l \in Lanes, List(l), lossy \/ NameOK(file, l, call[l])
    PROVE  /\ file' = file /\ created' = created /\ lossy' = lossy
           /\ Typed'
           /\ \A m \in Lanes : LaneOK(file, m, call'[m])
           /\ \A m \in Lanes : NameOK(file, m, call[m]) => NameOK(file, m, call'[m])
<1> DEFINE c == [at |-> "write", row |-> call[l].row, overtaken |-> call[l].overtaken,
                 new |-> call[l].new, rows |-> file]
<1>1. /\ c.at = "write" /\ c.row = call[l].row /\ c.overtaken = call[l].overtaken
      /\ c.new = call[l].new /\ c.rows = file
  OBVIOUS
<1>2. Goto(l, c) /\ file' = file /\ created' = created /\ lossy' = lossy
      /\ nextId' = nextId /\ catalogue' = catalogue
  BY DEF List, Continue
<1> HIDE DEF c
<1>3. call[l].at = "list" /\ LaneOK(file, l, call[l])
  BY DEF List, Inv
<1>4. LaneOK(file, l, c)
  BY <1>1, <1>3 DEF LaneOK, Inv, Typed
<1>5. NameOK(file, l, call[l]) => NameOK(file, l, c)
  BY <1>1, <1>3 DEF NameOK
<1>6. \A m \in Lanes : call'[m] = IF m = l THEN c ELSE call[m]
  BY <1>2 DEF Goto, Inv, Typed
<1>7. Typed'
  BY <1>2 DEF Goto, Inv, Typed
<1>. QED
  BY <1>2, <1>4, <1>5, <1>6, <1>7 DEF Inv

\* A step that reads keeps the invariant.
LEMMA QuietKeepsInv ==
    ASSUME Inv, QuietStep
    PROVE  Inv'
<1>1. Typed'
  BY DEF QuietStep, Inv, Typed
<1>2. \A m \in Lanes : LaneOK(file, m, call'[m])
  BY DEF QuietStep, Inv
<1>3. ~lossy => \A m \in Lanes : NameOK(file, m, call'[m])
  BY DEF QuietStep, Inv
<1>. QED
  BY <1>1, <1>2, <1>3 DEF QuietStep, Inv

-----------------------------------------------------------------------------
(* The step that writes the file *)

\* Another call after the write: as it was, or overtaken.
LEMMA OthersAfterWrite ==
    ASSUME Inv, NEW l \in Lanes, WriteProfile(l), NEW m \in Lanes, m # l
    PROVE  /\ call'[m] = IF Outdated(call[m], file')
                         THEN [call[m] EXCEPT !.overtaken = TRUE] ELSE call[m]
           /\ LaneOK(file', m, call'[m])
<1>1. call'[m] = IF Outdated(call[m], file')
                 THEN [call[m] EXCEPT !.overtaken = TRUE] ELSE call[m]
  BY DEF WriteProfile, Overtaken
<1>2. LaneOK(file, m, call[m])
  BY DEF Inv
<1>3. CASE Outdated(call[m], file')
  <2> DEFINE c == [call[m] EXCEPT !.overtaken = TRUE]
  <2>1. call[m].at \in {"list", "write"}
    BY <1>3 DEF Outdated
  <2>. QED
    BY <1>1, <1>2, <1>3, <2>1 DEF LaneOK
<1>4. CASE ~Outdated(call[m], file')
  <2>1. call[m].at # "write"
    BY <1>4 DEF Outdated
  <2>. QED
    BY <1>1, <1>2, <1>4, <2>1 DEF LaneOK
<1>. QED
  BY <1>1, <1>3, <1>4

\* The call that has written either restores its profile or is over.
LEMMA WriterAfterWrite ==
    ASSUME Inv, NEW l \in Lanes, WriteProfile(l)
    PROVE  /\ call' = [m \in Lanes |-> call'[m]]
           /\ call'[l].at \in {"restore", "idle"}
           /\ LaneOK(file', l, call'[l])
           /\ NameOK(file', l, call'[l])
<1>1. call' = [m \in Lanes |-> call'[m]]
  BY DEF WriteProfile, Overtaken
<1>2. call'[l] \in {[at |-> "restore", id |-> call[l].row.id], NoCall}
  BY DEF WriteProfile, Overtaken
<1>3. call'[l].at \in {"restore", "idle"}
  BY <1>2 DEF NoCall
<1>. QED
  BY <1>1, <1>3 DEF LaneOK, NameOK

\* A write that was not overtaken adds its row to the file, or replaces a row
\* of the same name.
LEMMA WriteIsCurrent ==
    ASSUME Inv, NEW l \in Lanes, WriteProfile(l), ~lossy'
    PROVE  /\ ~lossy /\ ~call[l].overtaken
           /\ call[l].row \in Profile
           /\ file' = Upserted(file, call[l].row)
           /\ created \subseteq Ids(file) /\ Distinct(file)
           /\ \A m \in Lanes : NameOK(file, m, call[m])
<1>1. /\ call[l].at = "write"
      /\ file' = Upserted(call[l].rows, call[l].row)
      /\ ~lossy /\ ~call[l].overtaken
  BY DEF WriteProfile
<1>2. LaneOK(file, l, call[l])
  BY DEF Inv
<1>3. call[l].rows = file /\ call[l].row \in Profile
  BY <1>1, <1>2 DEF LaneOK
<1>. QED
  BY <1>1, <1>3 DEF Inv

\* Names stay distinct ...
LEMMA DistinctAfterWrite ==
    ASSUME Inv, NEW l \in Lanes, WriteProfile(l), ~lossy'
    PROVE  Distinct(file')
<1> DEFINE row == call[l].row
<1>1. /\ row \in Profile /\ file' = Upserted(file, row) /\ Distinct(file)
      /\ NameOK(file, l, call[l]) /\ ~call[l].overtaken /\ call[l].at = "write"
      /\ call[l].new \in BOOLEAN
      /\ file \in Seq(Profile) /\ UniqueIds(file)
  BY WriteIsCurrent DEF Inv, Typed, WriteProfile, LaneOK
<1>2. \A i \in DOMAIN file' :
         \/ /\ file'[i] = row
            /\ row.id \in Ids(file) => i \in DOMAIN file /\ file[i].id = row.id
            /\ row.id \notin Ids(file) => i = Len(file) + 1
         \/ i \in DOMAIN file /\ file'[i] = file[i] /\ file[i].id # row.id
  BY <1>1, UpsertedRows
<1>3. CASE row.development
  <2>1. ASSUME NEW i \in DOMAIN file', ~file'[i].development
        PROVE  i \in DOMAIN file /\ file'[i] = file[i]
    BY <1>2, <1>3, <2>1
  <2>. QED
    BY <1>1, <2>1 DEF Distinct
<1>4. CASE ~row.development /\ call[l].new
  <2>1. \A i \in DOMAIN file : file[i].name = row.name => file[i].development
    BY <1>1, <1>4 DEF NameOK
  <2>2. ASSUME NEW i \in DOMAIN file', NEW j \in DOMAIN file',
               file'[i].name = file'[j].name, ~file'[i].development, ~file'[j].development
        PROVE  i = j
    <3>1. CASE file'[i] = row /\ file'[j] = row
      BY <1>1, <1>2, <2>1, <2>2, <3>1 DEF UniqueIds
    <3>2. CASE file'[i] # row /\ file'[j] # row
      BY <1>1, <1>2, <2>2, <3>2 DEF Distinct
    <3>3. CASE file'[i] = row /\ file'[j] # row
      BY <1>2, <2>1, <2>2, <3>3
    <3>4. CASE file'[i] # row /\ file'[j] = row
      BY <1>2, <2>1, <2>2, <3>4
    <3>. QED
      BY <3>1, <3>2, <3>3, <3>4
  <2>. QED
    BY <2>2 DEF Distinct
<1>5. CASE ~call[l].new
  <2>1. /\ row.id \in Ids(file)
        /\ \A i \in DOMAIN file : file[i].id = row.id =>
             file[i].name = row.name /\ file[i].development = row.development
    BY <1>1, <1>5 DEF NameOK
  <2>2. \A i \in DOMAIN file' : /\ i \in DOMAIN file
                                /\ file'[i].name = file[i].name
                                /\ file'[i].development = file[i].development
    BY <1>2, <2>1
  <2>. QED
    BY <1>1, <2>2 DEF Distinct
<1>6. call[l].new \/ ~call[l].new
  OBVIOUS
<1>. QED
  BY <1>3, <1>4, <1>5, <1>6

\* ... and what the other calls know about names stays true.
LEMMA NamesAfterWrite ==
    ASSUME Inv, NEW l \in Lanes, WriteProfile(l), ~lossy', NEW m \in Lanes
    PROVE  NameOK(file', m, call'[m])
<1> DEFINE row == call[l].row
<1>1. /\ row \in Profile /\ file' = Upserted(file, row)
      /\ NameOK(file, l, call[l]) /\ NameOK(file, m, call[m])
      /\ ~call[l].overtaken /\ call[l].at = "write"
      /\ call[l].new \in BOOLEAN
      /\ file \in Seq(Profile)
      /\ LaneOK(file, l, call[l]) /\ LaneOK(file, m, call[m])
  BY WriteIsCurrent DEF Inv, Typed, WriteProfile, LaneOK
<1>2. CASE m = l
  BY <1>2, WriterAfterWrite
<1>3. CASE m # l /\ Outdated(call[m], file')
  <2>1. call'[m] = [call[m] EXCEPT !.overtaken = TRUE] /\ call[m].at \in {"list", "write"}
    BY <1>3, OthersAfterWrite DEF Outdated
  <2>2. call[m].overtaken \in BOOLEAN
    BY <1>1, <2>1 DEF LaneOK
  <2>. QED
    BY <1>1, <2>1, <2>2 DEF NameOK
<1>4. CASE m # l /\ ~Outdated(call[m], file')
  <2>1. call'[m] = call[m] /\ call[m].at # "write"
    BY <1>4, OthersAfterWrite DEF Outdated
  <2>2. SUFFICES ASSUME call[m].at = "list", ~call[m].overtaken
                 PROVE  NameOK(file', m, call[m])
    BY <2>1 DEF NameOK
  <2>3. RowsOf(file, call[m].row.id) = RowsOf(file', call[m].row.id)
    BY <1>4, <2>2 DEF Outdated
  <2>4. \A i \in DOMAIN file' :
           \/ /\ file'[i] = row
              /\ row.id \in Ids(file) => i \in DOMAIN file /\ file[i].id = row.id
           \/ i \in DOMAIN file /\ file'[i] = file[i]
    BY <1>1, UpsertedRows
  <2>5. ASSUME call[m].new, ~call[m].row.development,
               NEW i \in DOMAIN file', file'[i].name = call[m].row.name
        PROVE  file'[i].development
    <3>1. \A j \in DOMAIN file : file[j].name = call[m].row.name => file[j].development
      BY <1>1, <2>2, <2>5 DEF NameOK
    <3>2. m = "create"
      BY <1>1, <2>2, <2>5 DEF LaneOK
    <3>3. row.development \/ ~call[l].new
      BY <1>1, <1>4, <3>2 DEF LaneOK
    <3>4. CASE file'[i] = row /\ ~row.development
      <4>1. ~call[l].new
        BY <3>3, <3>4
      <4>2. row.id \in Ids(file) /\ \A j \in DOMAIN file : file[j].id = row.id =>
               file[j].name = row.name /\ file[j].development = row.development
        BY <1>1, <4>1 DEF NameOK
      <4>. QED
        BY <2>5, <3>1, <3>4, <4>2 DEF Ids
    <3>. QED
      BY <2>4, <2>5, <3>1, <3>4
  <2>6. ASSUME ~call[m].new
        PROVE  /\ call[m].row.id \in Ids(file')
               /\ \A i \in DOMAIN file' : file'[i].id = call[m].row.id =>
                    /\ file'[i].name = call[m].row.name
                    /\ file'[i].development = call[m].row.development
    <3>1. /\ call[m].row.id \in Ids(file)
          /\ \A i \in DOMAIN file : file[i].id = call[m].row.id =>
               /\ file[i].name = call[m].row.name
               /\ file[i].development = call[m].row.development
      BY <1>1, <2>2, <2>6 DEF NameOK
    <3>2. \A r \in RowsOf(file, call[m].row.id) :
             r.name = call[m].row.name /\ r.development = call[m].row.development
      BY <3>1 DEF RowsOf
    <3>3. RowsOf(file, call[m].row.id) # {}
      BY <3>1 DEF RowsOf, Ids
    <3>4. \E r \in RowsOf(file', call[m].row.id) : TRUE
      BY <2>3, <3>3
    <3>5. call[m].row.id \in Ids(file')
      BY <3>4 DEF RowsOf, Ids
    <3>6. \A i \in DOMAIN file' : file'[i].id = call[m].row.id =>
             file'[i] \in RowsOf(file', call[m].row.id)
      BY DEF RowsOf
    <3>. QED
      BY <2>3, <3>2, <3>5, <3>6
  <2>. QED
    BY <2>5, <2>6 DEF NameOK
<1>. QED
  BY <1>2, <1>3, <1>4

LEMMA WriteKeepsInv ==
    ASSUME Inv, NEW l \in Lanes, WriteProfile(l)
    PROVE  Inv'
<1>1. /\ call[l].at = "write"
      /\ call[l].rows \in Seq(Profile) /\ UniqueIds(call[l].rows)
      /\ call[l].row \in Profile
      /\ file' = Upserted(call[l].rows, call[l].row)
  BY DEF Inv, LaneOK, WriteProfile
<1>2. file' \in Seq(Profile) /\ UniqueIds(file')
  BY <1>1, UpsertedList
<1>3. Typed'
  BY <1>2, WriterAfterWrite DEF Typed, Inv, WriteProfile
<1>4. \A m \in Lanes : LaneOK(file', m, call'[m])
  BY OthersAfterWrite, WriterAfterWrite
<1>5. ASSUME ~lossy' PROVE created' \subseteq Ids(file')
  <2>1. /\ created \subseteq Ids(file) /\ file' = Upserted(file, call[l].row)
        /\ file \in Seq(Profile)
    BY <1>5, WriteIsCurrent DEF Inv, Typed
  <2>2. Ids(file) \cup {call[l].row.id} \subseteq Ids(file')
    BY <1>1, <2>1, UpsertedList
  <2>3. created' \subseteq created \cup {call[l].row.id}
    BY DEF WriteProfile
  <2>. QED
    BY <2>1, <2>2, <2>3
<1>. QED
  BY <1>2, <1>3, <1>4, <1>5, DistinctAfterWrite, NamesAfterWrite DEF Inv

-----------------------------------------------------------------------------
(* The invariant *)

LEMMA InvInit == Init => Inv
<1> SUFFICES ASSUME Init PROVE Inv
  OBVIOUS
<1>1. file = <<>> /\ nextId = 1 /\ catalogue = {} /\ created = {}
      /\ call = [m \in Lanes |-> NoCall]
  BY DEF Init
<1>2. Typed
  BY <1>1 DEF Typed
<1>3. \A m \in Lanes : LaneOK(file, m, call[m]) /\ NameOK(file, m, call[m])
  BY <1>1, IdleIsOK
<1>. QED
  BY <1>1, <1>2, <1>3 DEF Inv, UniqueIds, Distinct, Ids

LEMMA InvNext ==
    ASSUME Inv, [Next]_vars
    PROVE  Inv'
<1>1. CASE Learner
  BY <1>1, ClickIsQuiet, QuietKeepsInv
<1>2. ASSUME NEW l \in Lanes, Lookup(l) \/ ChooseDefault(l) \/ Restore(l) \/ Fetch(l)
      PROVE  Inv'
  BY <1>2, LookupIsQuiet, DefaultIsQuiet, RestoreIsQuiet, FetchIsQuiet, QuietKeepsInv
<1>3. ASSUME NEW l \in Lanes, Unknown(l) PROVE Inv'
  BY <1>3, DoneIsQuiet, QuietKeepsInv DEF Unknown
<1>4. ASSUME NEW l \in Lanes, List(l) PROVE Inv'
  <2>1. lossy \/ NameOK(file, l, call[l])
    BY DEF Inv
  <2>. QED
    BY <1>4, <2>1, ListIsQuiet DEF Inv
<1>5. ASSUME NEW l \in Lanes, WriteProfile(l) PROVE Inv'
  BY <1>5, WriteKeepsInv
<1>6. ASSUME NEW l \in Lanes, Fail(l) PROVE Inv'
  <2>1. QuietStep
    BY <1>6, IdleIsOK, OneLaneMoves DEF Fail, Inv, Typed
  <2>. QED
    BY <2>1, QuietKeepsInv
<1>7. CASE Boot
  <2>1. LaneOK(file, "boot", [at |-> "default"]) /\ NameOK(file, "boot", [at |-> "default"])
    BY DEF LaneOK, NameOK
  <2>2. "boot" \in Lanes
    BY DEF Lanes
  <2>3. QuietStep
    BY <1>7, <2>1, <2>2, OneLaneMoves DEF Boot, Inv, Typed
  <2>. QED
    BY <2>3, QuietKeepsInv
<1>8. CASE Crash
  <2>1. QuietStep
    BY <1>8, IdleIsOK DEF Crash, QuietStep, Inv, Typed
  <2>. QED
    BY <2>1, QuietKeepsInv
<1>9. CASE UNCHANGED vars
  <2>1. QuietStep
    BY <1>9 DEF vars, QuietStep, Inv, Typed
  <2>. QED
    BY <2>1, QuietKeepsInv
<1>. QED
  BY <1>1, <1>2, <1>3, <1>4, <1>5, <1>6, <1>7, <1>8, <1>9 DEF Next, Proceed

LEMMA InvAlways == Spec => []Inv
<1>1. Inv /\ [Next]_vars => Inv'
  BY InvNext
<1>. QED
  BY InvInit, <1>1, PTL DEF Spec

\* However calls overlap and wherever the process dies, no identity is in
\* profiles.json twice.
THEOREM IdentitiesUnique == Spec => []IdsUnique
<1>1. Inv => IdsUnique
  BY DEF Inv, IdsUnique
<1>. QED
  BY <1>1, InvAlways, PTL

\* A profile can be lost only by a call that writes what another call has
\* overtaken, and none is ever in the file twice.
THEOREM ProfilesSurvive == Spec => []ProfilesKept
<1>1. Inv => ProfilesKept
  BY DEF Inv, ProfilesKept, IdsUnique
<1>. QED
  BY <1>1, InvAlways, PTL

\* Only such a call can make two normal profiles share a name.
THEOREM NamesStayDistinct == Spec => []NamesDistinct
<1>1. Inv => NamesDistinct
  BY DEF Inv, Distinct, NamesDistinct
<1>. QED
  BY <1>1, InvAlways, PTL

-----------------------------------------------------------------------------
(* The types *)

\* What a call carries, by the step it is at.
LEMMA CallFields ==
    ASSUME NEW c \in Call
    PROVE  /\ c.at = "lookup" => c.name \in Names
           /\ c.at = "restore" => c.id \in Nat
           /\ c.at = "fetch" => c.id \in Nat /\ c.change \in Changes
           /\ c.at \in {"list", "write"} =>
                /\ c.row \in Profile /\ c.overtaken \in BOOLEAN /\ c.new \in BOOLEAN
                /\ [c EXCEPT !.overtaken = TRUE] \in Call
           /\ c.at = "write" => c.rows \in Seq(Profile)
<1>1. CASE c = NoCall \/ c \in [at: {"default"}]
  BY <1>1 DEF NoCall
<1>2. CASE c \in [at: {"lookup"}, name: Names]
  BY <1>2
<1>3. CASE c \in [at: {"restore"}, id: Nat]
  BY <1>3
<1>4. CASE c \in [at: {"fetch"}, id: Nat, change: Changes]
  BY <1>4
<1>5. CASE c \in [at: {"list"}, row: Profile, overtaken: BOOLEAN, new: BOOLEAN]
  <2>1. [c EXCEPT !.overtaken = TRUE]
          \in [at: {"list"}, row: Profile, overtaken: BOOLEAN, new: BOOLEAN]
    BY <1>5
  <2>. QED
    BY <1>5, <2>1 DEF Call
<1>6. CASE c \in [at: {"write"}, row: Profile, overtaken: BOOLEAN, new: BOOLEAN,
                  rows: Seq(Profile)]
  <2>1. [c EXCEPT !.overtaken = TRUE]
          \in [at: {"write"}, row: Profile, overtaken: BOOLEAN, new: BOOLEAN,
               rows: Seq(Profile)]
    BY <1>6
  <2>. QED
    BY <1>6, <2>1 DEF Call
<1>. QED
  BY <1>1, <1>2, <1>3, <1>4, <1>5, <1>6 DEF Call

\* A lane that moves on with a well-formed call keeps the types of the calls.
LEMMA GotoType ==
    ASSUME TypeOK, NEW l \in Lanes, NEW STATE c, c \in Call, Goto(l, c)
    PROVE  call' \in [Lanes -> Call]
  BY DEF TypeOK, Goto

LEMMA ContinueType ==
    ASSUME TypeOK, NEW l \in Lanes, NEW STATE c, c \in Call, Continue(l, c)
    PROVE  TypeOK'
<1>1. call' \in [Lanes -> Call]
  BY GotoType DEF Continue
<1>. QED
  BY <1>1 DEF Continue, TypeOK

LEMMA DoneType ==
    ASSUME TypeOK, NEW l \in Lanes, NEW STATE p, p \in Problems \cup {NoProblem}, Done(l, p)
    PROVE  TypeOK'
<1>1. NoCall \in Call
  BY DEF Call
<1>2. call' \in [Lanes -> Call]
  BY <1>1, GotoType DEF Done
<1>3. server' \in {"down", "booting", "serving"}
  BY DEF Done, TypeOK
<1>4. initial' \in Problems \cup {NoProblem}
  BY DEF Done, TypeOK
<1>. QED
  BY <1>2, <1>3, <1>4 DEF Done, TypeOK

LEMMA ClickType ==
    ASSUME TypeOK, NEW l, NEW STATE c, c \in Call, Click(l, c)
    PROVE  TypeOK'
<1>1. l \in Lanes
  BY DEF Click, Lanes
<1>2. call' \in [Lanes -> Call]
  BY <1>1, GotoType DEF Click
<1>3. clicks' \in Nat
  BY DEF Click, TypeOK
<1>. QED
  BY <1>2, <1>3 DEF Click, TypeOK

LEMMA FileRows ==
    ASSUME TypeOK, NEW i \in DOMAIN file
    PROVE  file[i] \in Profile /\ file[i].id \in Nat
           /\ file[i].last \in Problems \cup {NoProblem}
<1>1. file[i] \in Profile
  BY DEF TypeOK
<1>. QED
  BY <1>1 DEF Profile

LEMMA LearnerType ==
    ASSUME TypeOK, Learner
    PROVE  TypeOK'
<1>0. \A i \in Offered : i \in Nat
  <2>1. \A i \in DOMAIN file : file[i].id \in Nat
    BY FileRows
  <2>. QED
    BY <2>1 DEF Offered, TypeOK
<1>1. ASSUME NEW name \in Names, ClickCreate(name) PROVE TypeOK'
  <2>1. [at |-> "lookup", name |-> name] \in Call
    BY DEF Call
  <2>. QED
    BY <1>1, <2>1, ClickType DEF ClickCreate
<1>2. ASSUME NEW i \in Offered, ClickProfile(i) PROVE TypeOK'
  <2>1. [at |-> "restore", id |-> i] \in Call
    BY <1>0 DEF Call
  <2>. QED
    BY <1>2, <2>1, ClickType DEF ClickProfile
<1>3. ASSUME NEW i \in Offered, NEW change \in Changes, NEW l,
             Click(l, [at |-> "fetch", id |-> i, change |-> change])
      PROVE  TypeOK'
  <2>1. [at |-> "fetch", id |-> i, change |-> change] \in Call
    BY <1>0 DEF Call
  <2>. QED
    BY <1>3, <2>1, ClickType
<1>4. ASSUME NEW i \in Offered, NEW p \in Problems, ClickProblem(i, p) PROVE TypeOK'
  <2>1. [key |-> "last", value |-> p] \in Changes
    BY DEF Changes
  <2>. QED
    BY <1>3, <1>4, <2>1 DEF ClickProblem
<1>5. ASSUME NEW i \in Offered, NEW v \in Providers, ClickProvider(i, v) PROVE TypeOK'
  <2>1. [key |-> "provider", value |-> v] \in Changes
    BY DEF Changes
  <2>. QED
    BY <1>3, <1>5, <2>1 DEF ClickProvider
<1>6. ASSUME NEW i \in Offered, NEW v \in Modes, ClickMode(i, v) PROVE TypeOK'
  <2>1. [key |-> "mode", value |-> v] \in Changes
    BY DEF Changes
  <2>. QED
    BY <1>3, <1>6, <2>1 DEF ClickMode
<1>. QED
  BY <1>1, <1>2, <1>4, <1>5, <1>6 DEF Learner

LEMMA LookupType ==
    ASSUME TypeOK, NEW l \in Lanes, Lookup(l)
    PROVE  TypeOK'
<1> DEFINE same == {i \in DOMAIN file : file[i].name = call[l].name /\ ~file[i].development}
<1>1. call[l].at = "lookup" /\ call[l] \in Call
  BY DEF Lookup, TypeOK
<1>2. call[l].name \in Names
  BY <1>1, CallFields
<1>3. /\ UNCHANGED <<file, server, development, catalogue, initial, clicks,
                     created, lossy, faults>>
      /\ \/ \E i \in same : Goto(l, [at |-> "restore", id |-> file[i].id]) /\ UNCHANGED nextId
         \/ /\ nextId' = nextId + 1
            /\ Goto(l, [at |-> "list", row |-> NewProfile(nextId, call[l].name, FALSE),
                        overtaken |-> FALSE, new |-> TRUE])
  BY DEF Lookup
<1>4. ASSUME NEW i \in same, Goto(l, [at |-> "restore", id |-> file[i].id])
      PROVE  call' \in [Lanes -> Call]
  <2>1. [at |-> "restore", id |-> file[i].id] \in Call
    BY FileRows DEF Call
  <2>. QED
    BY <1>4, <2>1, GotoType
<1>5. ASSUME Goto(l, [at |-> "list", row |-> NewProfile(nextId, call[l].name, FALSE),
                      overtaken |-> FALSE, new |-> TRUE])
      PROVE  call' \in [Lanes -> Call]
  <2> DEFINE row == NewProfile(nextId, call[l].name, FALSE)
             c == [at |-> "list", row |-> row, overtaken |-> FALSE, new |-> TRUE]
  <2>1. row \in Profile
    BY <1>2, NewProfileType DEF TypeOK
  <2> HIDE DEF row
  <2>2. c \in [at: {"list"}, row: Profile, overtaken: BOOLEAN, new: BOOLEAN]
    BY <2>1
  <2>3. c \in Call
    BY <2>2 DEF Call
  <2>4. Goto(l, c)
    BY <1>5 DEF row
  <2> HIDE DEF c
  <2>. QED
    BY <2>3, <2>4, GotoType
<1>6. call' \in [Lanes -> Call]
  BY <1>3, <1>4, <1>5
<1>7. nextId' \in Nat \ {0}
  <2>1. nextId' \in {nextId, nextId + 1} /\ nextId \in Nat \ {0}
    BY <1>3 DEF TypeOK
  <2>. QED
    BY <2>1
<1>. QED
  BY <1>3, <1>6, <1>7 DEF TypeOK

LEMMA DefaultType ==
    ASSUME TypeOK, NEW l \in Lanes, ChooseDefault(l)
    PROVE  TypeOK'
<1>1. ASSUME NEW STATE i, i \in Nat, Continue(l, [at |-> "restore", id |-> i]) PROVE TypeOK'
  <2>1. [at |-> "restore", id |-> i] \in Call
    BY <1>1 DEF Call
  <2>. QED
    BY <1>1, <2>1, ContinueType
<1>2. ASSUME Continue(l, [at |-> "list", overtaken |-> FALSE, new |-> TRUE,
                          row |-> NewProfile(DevelopmentId, "development", TRUE)])
      PROVE  TypeOK'
  <2> DEFINE row == NewProfile(DevelopmentId, "development", TRUE)
             c == [at |-> "list", overtaken |-> FALSE, new |-> TRUE, row |-> row]
  <2>1. row \in Profile
    BY NewProfileType DEF DevelopmentId
  <2> HIDE DEF row
  <2>2. c \in [at: {"list"}, row: Profile, overtaken: BOOLEAN, new: BOOLEAN]
    BY <2>1
  <2>3. c \in Call
    BY <2>2 DEF Call
  <2>4. Continue(l, c)
    BY <1>2 DEF row
  <2> HIDE DEF c
  <2>. QED
    BY <2>3, <2>4, ContinueType
<1>3. DevelopmentId \in Nat
  BY DEF DevelopmentId
<1>4. \A i \in DOMAIN file : file[i].id \in Nat
  BY FileRows
<1>5. \A p \in catalogue \cup {NoProblem} : p \in Problems \cup {NoProblem}
  BY DEF TypeOK
<1>. QED
  BY <1>1, <1>2, <1>3, <1>4, <1>5, DoneType DEF ChooseDefault

LEMMA RestoreType ==
    ASSUME TypeOK, NEW l \in Lanes, Restore(l)
    PROVE  TypeOK'
<1>1. call[l].at = "restore" /\ call[l] \in Call
  BY DEF Restore, TypeOK
<1>2. call[l].id \in Nat
  BY <1>1, CallFields
<1>3. ASSUME NEW p \in catalogue,
             Continue(l, [at |-> "fetch", id |-> call[l].id,
                          change |-> [key |-> "last", value |-> p]])
      PROVE  TypeOK'
  <2>1. [key |-> "last", value |-> p] \in Changes
    BY DEF Changes, TypeOK
  <2>2. [at |-> "fetch", id |-> call[l].id, change |-> [key |-> "last", value |-> p]] \in Call
    BY <1>2, <2>1 DEF Call
  <2>. QED
    BY <1>3, <2>2, ContinueType
<1>4. ASSUME NEW i \in DOMAIN file, Done(l, file[i].last) PROVE TypeOK'
  BY <1>4, FileRows, DoneType
<1>5. ASSUME Done(l, NoProblem) PROVE TypeOK'
  BY <1>5, DoneType
<1>. QED
  BY <1>3, <1>4, <1>5 DEF Restore

LEMMA FetchType ==
    ASSUME TypeOK, NEW l \in Lanes, Fetch(l)
    PROVE  TypeOK'
<1>1. call[l].at = "fetch" /\ call[l] \in Call
  BY DEF Fetch, TypeOK
<1>2. call[l].change \in Changes
  BY <1>1, CallFields
<1>3. PICK i \in DOMAIN file :
        Continue(l, [at |-> "list", overtaken |-> FALSE, new |-> FALSE,
                     row |-> Altered(file[i], call[l].change)])
  BY DEF Fetch
<1> DEFINE row == Altered(file[i], call[l].change)
           c == [at |-> "list", overtaken |-> FALSE, new |-> FALSE, row |-> row]
<1>4. row \in Profile
  BY <1>2, FileRows, AlteredType
<1> HIDE DEF row
<1>5. c \in [at: {"list"}, row: Profile, overtaken: BOOLEAN, new: BOOLEAN]
  BY <1>4
<1>6. c \in Call
  BY <1>5 DEF Call
<1>7. Continue(l, c)
  BY <1>3 DEF row
<1> HIDE DEF c
<1>. QED
  BY <1>6, <1>7, ContinueType

LEMMA ListType ==
    ASSUME TypeOK, NEW l \in Lanes, List(l)
    PROVE  TypeOK'
<1> DEFINE c == [at |-> "write", row |-> call[l].row, overtaken |-> call[l].overtaken,
                 new |-> call[l].new, rows |-> file]
<1>1. call[l].at = "list" /\ call[l] \in Call
  BY DEF List, TypeOK
<1>2. call[l].row \in Profile /\ call[l].overtaken \in BOOLEAN /\ call[l].new \in BOOLEAN
  BY <1>1, CallFields
<1>3. c \in [at: {"write"}, row: Profile, overtaken: BOOLEAN, new: BOOLEAN,
             rows: Seq(Profile)]
  BY <1>2 DEF TypeOK
<1>4. c \in Call
  BY <1>3 DEF Call
<1>5. Continue(l, c)
  BY DEF List
<1> HIDE DEF c
<1>. QED
  BY <1>4, <1>5, ContinueType

LEMMA WriteType ==
    ASSUME TypeOK, NEW l \in Lanes, WriteProfile(l)
    PROVE  TypeOK'
<1>1. call[l].at = "write" /\ call[l] \in Call
  BY DEF WriteProfile, TypeOK
<1>2. /\ call[l].row \in Profile /\ call[l].overtaken \in BOOLEAN /\ call[l].new \in BOOLEAN
      /\ call[l].rows \in Seq(Profile)
  BY <1>1, CallFields
<1>3. call[l].row.id \in Nat /\ call[l].row.last \in Problems \cup {NoProblem}
  BY <1>2 DEF Profile
<1>4. file' \in Seq(Profile)
  BY <1>2, UpsertedList DEF WriteProfile
<1>5. call' \in [Lanes -> Call]
  <2>1. NoCall \in Call /\ [at |-> "restore", id |-> call[l].row.id] \in Call
    BY <1>3 DEF Call
  <2>2. call' = [m \in Lanes |->
                   IF m = l THEN IF call[l].new THEN [at |-> "restore", id |-> call[l].row.id]
                                 ELSE NoCall
                   ELSE IF Outdated(call[m], file')
                        THEN [call[m] EXCEPT !.overtaken = TRUE] ELSE call[m]]
    BY DEF WriteProfile, Overtaken
  <2>3. ASSUME NEW m \in Lanes, Outdated(call[m], file')
        PROVE  [call[m] EXCEPT !.overtaken = TRUE] \in Call
    <3>1. call[m].at \in {"list", "write"} /\ call[m] \in Call
      BY <2>3 DEF Outdated, TypeOK
    <3>. QED
      BY <3>1, CallFields
  <2>4. \A m \in Lanes : call[m] \in Call
    BY DEF TypeOK
  <2>. QED
    BY <2>1, <2>2, <2>3, <2>4
<1>6. created' \in SUBSET Nat
  BY <1>3 DEF WriteProfile, TypeOK
<1>7. lossy' \in BOOLEAN
  BY <1>2 DEF WriteProfile, TypeOK
<1>8. server' \in {"down", "booting", "serving"} /\ initial' \in Problems \cup {NoProblem}
  BY <1>3 DEF WriteProfile, TypeOK
<1>. QED
  BY <1>4, <1>5, <1>6, <1>7, <1>8 DEF WriteProfile, TypeOK

LEMMA FailType ==
    ASSUME TypeOK, NEW l \in Lanes, Fail(l)
    PROVE  TypeOK'
<1>1. call[l].at \in {"list", "write"} /\ call[l] \in Call
  BY DEF Fail, TypeOK
<1>2. call[l].row.last \in Problems \cup {NoProblem}
  <2>1. call[l].row \in Profile
    BY <1>1, CallFields
  <2>. QED
    BY <2>1 DEF Profile
<1>3. call' \in [Lanes -> Call]
  <2>1. NoCall \in Call
    BY DEF Call
  <2>. QED
    BY <2>1, GotoType DEF Fail
<1>4. server' \in {"down", "booting", "serving"} /\ initial' \in Problems \cup {NoProblem}
  BY <1>2 DEF Fail, TypeOK
<1>5. faults' \in Nat
  BY DEF Fail, TypeOK
<1>. QED
  BY <1>3, <1>4, <1>5 DEF Fail, TypeOK

\* Every variable keeps its type, whatever calls overlap and wherever the
\* process dies: in particular each call carries what its next step reads.
THEOREM TypeCorrect == Spec => []TypeOK
<1>0. NoCall \in Call /\ [at |-> "default"] \in Call
  BY DEF Call
<1>1. Init => TypeOK
  <2> SUFFICES ASSUME Init PROVE TypeOK
    OBVIOUS
  <2>1. call \in [Lanes -> Call]
    BY <1>0 DEF Init
  <2>2. file \in Seq(Profile) /\ nextId \in Nat \ {0} /\ created \in SUBSET Nat
        /\ catalogue \in SUBSET Problems /\ clicks \in Nat /\ faults \in Nat
    BY DEF Init
  <2>3. development \in BOOLEAN /\ lossy \in BOOLEAN
    BY Zenon DEF Init
  <2>4. server \in {"down", "booting", "serving"}
        /\ initial \in Problems \cup {NoProblem}
    BY DEF Init
  <2>. QED
    BY <2>1, <2>2, <2>3, <2>4 DEF TypeOK
<1>2. TypeOK /\ [Next]_vars => TypeOK'
  <2> SUFFICES ASSUME TypeOK, [Next]_vars PROVE TypeOK'
    OBVIOUS
  <2>1. CASE Learner
    BY <2>1, LearnerType
  <2>2. ASSUME NEW l \in Lanes, Proceed(l) PROVE TypeOK'
    <3>1. Unknown(l) => TypeOK'
      BY DoneType DEF Unknown
    <3>. QED
      BY <2>2, <3>1, LookupType, DefaultType, RestoreType, FetchType, ListType, WriteType
         DEF Proceed
  <2>3. ASSUME NEW l \in Lanes, Fail(l) PROVE TypeOK'
    BY <2>3, FailType
  <2>4. CASE Boot
    <3>1. "boot" \in Lanes
      BY DEF Lanes
    <3>2. call' \in [Lanes -> Call]
      BY <1>0, <2>4, <3>1, GotoType DEF Boot
    <3>. QED
      BY <2>4, <3>2 DEF Boot, TypeOK
  <2>5. CASE Crash
    <3>1. call' \in [Lanes -> Call]
      BY <1>0, <2>5 DEF Crash
    <3>. QED
      BY <2>5, <3>1 DEF Crash, TypeOK
  <2>6. CASE UNCHANGED vars
    BY <2>6 DEF vars, TypeOK
  <2>. QED
    BY <2>1, <2>2, <2>3, <2>4, <2>5, <2>6 DEF Next
<1>. QED
  BY <1>1, <1>2, PTL DEF Spec

-----------------------------------------------------------------------------
(* The first page *)

\* The boot call c repairs a pointer only with a problem of the catalogue.
BootOK(known, c) ==
    /\ c.at = "fetch" => \E p \in known : c.change = [key |-> "last", value |-> p]
    /\ c.at \in {"list", "write"} /\ ~c.new => c.row.last \in known

PageInv == BootOK(catalogue, call["boot"]) /\ FirstPageExists

\* Only the boot call says what the first page shows.
LEMMA OtherLanesShowNothing ==
    ASSUME TypeOK, PageInv, NEW l \in Lanes, l # "boot", Proceed(l) \/ Fail(l)
    PROVE  PageInv'
<1>1. UNCHANGED <<server, initial, catalogue>>
  BY DEF Proceed, Lookup, ChooseDefault, Restore, Fetch, Unknown, List, WriteProfile, Fail,
         Continue, Done
<1>2. "boot" \in Lanes /\ call["boot"] \in Call
  BY DEF Lanes, TypeOK
<1>3. \/ call'["boot"] = call["boot"]
      \/ /\ call["boot"].at \in {"list", "write"}
         /\ call'["boot"] = [call["boot"] EXCEPT !.overtaken = TRUE]
  <2>1. CASE WriteProfile(l)
    BY <1>2, <2>1 DEF WriteProfile, Overtaken, Outdated
  <2>2. CASE ~WriteProfile(l)
    <3>1. \E c : Goto(l, c)
      BY <2>2 DEF Proceed, Lookup, ChooseDefault, Restore, Fetch, Unknown, List, Fail,
                  Continue, Done
    <3>. QED
      BY <1>2, <3>1 DEF Goto, TypeOK
  <2>. QED
    BY <2>1, <2>2
<1>4. BootOK(catalogue, call'["boot"])
  <2>1. CASE call'["boot"] = call["boot"]
    BY <2>1 DEF PageInv
  <2>2. CASE /\ call["boot"].at \in {"list", "write"}
             /\ call'["boot"] = [call["boot"] EXCEPT !.overtaken = TRUE]
    <3>1. /\ call'["boot"].at = call["boot"].at
          /\ call'["boot"].new = call["boot"].new
          /\ call'["boot"].row = call["boot"].row
      BY <1>2, <2>2 DEF Call, NoCall
    <3>. QED
      BY <2>2, <3>1 DEF PageInv, BootOK
  <2>. QED
    BY <1>3, <2>1, <2>2
<1>. QED
  BY <1>1, <1>4 DEF PageInv, FirstPageExists

\* The boot call opens the application with a problem that exists.
LEMMA BootOpens ==
    ASSUME TypeOK, NEW STATE p, Done("boot", p),
           p \in catalogue \cup {q \in {NoProblem} : catalogue = {}}
    PROVE  PageInv'
<1>1. "boot" \in Lanes
  BY DEF Lanes
<1>2. call'["boot"] = NoCall
  BY <1>1 DEF Done, Goto, TypeOK
<1>3. BootOK(catalogue', call'["boot"])
  BY <1>2 DEF BootOK, NoCall
<1>4. initial' = p /\ catalogue' = catalogue
  BY DEF Done
<1>. QED
  BY <1>3, <1>4 DEF PageInv, FirstPageExists

LEMMA BootGoesOn ==
    ASSUME TypeOK, PageInv, NEW STATE c, Continue("boot", c), BootOK(catalogue, c)
    PROVE  PageInv'
<1>1. call'["boot"] = c
  BY DEF Continue, Goto, TypeOK, Lanes
<1>. QED
  BY <1>1 DEF Continue, PageInv, FirstPageExists

LEMMA BootShowsWhatExists ==
    ASSUME TypeOK, Inv, PageInv, Proceed("boot") \/ Fail("boot")
    PROVE  PageInv'
<1> DEFINE c == call["boot"]
<1>1. "boot" \in Lanes /\ c \in Call
  BY DEF Lanes, TypeOK
<1>2. CASE Lookup("boot")
  <2>1. LaneOK(file, "boot", c)
    BY <1>1 DEF Inv
  <2>. QED
    BY <1>2, <2>1 DEF Lookup, LaneOK
<1>3. CASE ChooseDefault("boot")
  <2>1. ASSUME NEW STATE i, Continue("boot", [at |-> "restore", id |-> i]) PROVE PageInv'
    BY <2>1, BootGoesOn DEF BootOK
  <2>2. ASSUME Continue("boot", [at |-> "list", overtaken |-> FALSE, new |-> TRUE,
                                 row |-> NewProfile(DevelopmentId, "development", TRUE)])
        PROVE  PageInv'
    <3> DEFINE d == [at |-> "list", overtaken |-> FALSE, new |-> TRUE,
                     row |-> NewProfile(DevelopmentId, "development", TRUE)]
    <3>1. d.at = "list" /\ d.new
      OBVIOUS
    <3>2. Continue("boot", d)
      BY <2>2
    <3> HIDE DEF d
    <3>3. BootOK(catalogue, d)
      BY <3>1 DEF BootOK
    <3>. QED
      BY <3>2, <3>3, BootGoesOn
  <2>3. ASSUME NEW p \in catalogue, Done("boot", p) PROVE PageInv'
    BY <2>3, BootOpens
  <2>4. ASSUME catalogue = {}, Done("boot", NoProblem) PROVE PageInv'
    BY <2>4, BootOpens
  <2>. QED
    BY <1>3, <2>1, <2>2, <2>3, <2>4 DEF ChooseDefault
<1>4. CASE Restore("boot")
  <2>1. ASSUME catalogue = {}, Done("boot", NoProblem) PROVE PageInv'
    BY <2>1, BootOpens
  <2>2. ASSUME NEW i \in DOMAIN file, file[i].last \in catalogue, Done("boot", file[i].last)
        PROVE  PageInv'
    BY <2>2, BootOpens
  <2>3. ASSUME NEW p \in catalogue,
               Continue("boot", [at |-> "fetch", id |-> c.id,
                                 change |-> [key |-> "last", value |-> p]])
        PROVE  PageInv'
    <3>1. BootOK(catalogue, [at |-> "fetch", id |-> c.id,
                             change |-> [key |-> "last", value |-> p]])
      BY DEF BootOK
    <3>. QED
      BY <2>3, <3>1, BootGoesOn
  <2>. QED
    BY <1>4, <2>1, <2>2, <2>3 DEF Restore
<1>5. CASE Fetch("boot")
  <2>1. PICK p \in catalogue : c.change = [key |-> "last", value |-> p]
    BY <1>5 DEF Fetch, PageInv, BootOK
  <2>2. PICK i \in DOMAIN file :
          Continue("boot", [at |-> "list", overtaken |-> FALSE, new |-> FALSE,
                            row |-> Altered(file[i], c.change)])
    BY <1>5 DEF Fetch
  <2> DEFINE row == Altered(file[i], c.change)
             d == [at |-> "list", overtaken |-> FALSE, new |-> FALSE, row |-> row]
  <2>3. row.last = p
    <3>1. file[i] \in Profile
      BY FileRows
    <3>2. row = [file[i] EXCEPT !.last = p]
      BY <2>1 DEF Altered
    <3>. QED
      BY <3>1, <3>2 DEF Profile
  <2> HIDE DEF row
  <2>4. d.at = "list" /\ d.row = row
    OBVIOUS
  <2>5. Continue("boot", d)
    BY <2>2 DEF row
  <2> HIDE DEF d
  <2>6. BootOK(catalogue, d)
    BY <2>3, <2>4 DEF BootOK
  <2>. QED
    BY <2>5, <2>6, BootGoesOn
<1>6. CASE List("boot")
  <2> DEFINE d == [at |-> "write", row |-> c.row, overtaken |-> c.overtaken,
                   new |-> c.new, rows |-> file]
  <2>1. d.at = "write" /\ d.row = c.row /\ d.new = c.new
    OBVIOUS
  <2>2. Continue("boot", d) /\ c.at = "list"
    BY <1>6 DEF List
  <2> HIDE DEF d
  <2>3. BootOK(catalogue, d)
    BY <2>1, <2>2 DEF BootOK, PageInv
  <2>. QED
    BY <2>2, <2>3, BootGoesOn
<1>7. CASE WriteProfile("boot")
  <2>1. c.at = "write" /\ catalogue' = catalogue
    BY <1>7 DEF WriteProfile
  <2>2. call'["boot"] = IF c.new THEN [at |-> "restore", id |-> c.row.id] ELSE NoCall
    BY <1>1, <1>7 DEF WriteProfile, Overtaken
  <2>3. BootOK(catalogue, call'["boot"])
    <3>1. call'["boot"].at \in {"restore", "idle"}
      BY <2>2 DEF NoCall
    <3>. QED
      BY <3>1 DEF BootOK
  <2>4. CASE c.new
    <3>1. UNCHANGED <<server, initial>>
      BY <1>7, <2>4 DEF WriteProfile
    <3>. QED
      BY <2>1, <2>3, <3>1 DEF PageInv, FirstPageExists
  <2>5. CASE ~c.new
    <3>1. initial' = c.row.last
      BY <1>7, <2>5 DEF WriteProfile
    <3>2. c.row.last \in catalogue
      BY <2>1, <2>5 DEF PageInv, BootOK
    <3>. QED
      BY <2>1, <2>3, <3>1, <3>2 DEF PageInv, FirstPageExists
  <2>. QED
    BY <2>4, <2>5
<1>8. CASE Fail("boot")
  <2>1. c.at \in {"list", "write"} /\ ~c.new /\ catalogue' = catalogue
    BY <1>8 DEF Fail
  <2>2. call'["boot"] = NoCall /\ initial' = c.row.last
    BY <1>1, <1>8 DEF Fail, Goto, TypeOK
  <2>3. c.row.last \in catalogue
    BY <2>1 DEF PageInv, BootOK
  <2>4. BootOK(catalogue, NoCall)
    BY DEF BootOK, NoCall
  <2>. QED
    BY <2>1, <2>2, <2>3, <2>4 DEF PageInv, FirstPageExists
<1>. QED
  BY <1>2, <1>3, <1>4, <1>5, <1>6, <1>7, <1>8 DEF Proceed, Unknown

LEMMA PageStep ==
    ASSUME TypeOK, Inv, PageInv, [Next]_vars
    PROVE  PageInv'
<1>1. CASE Learner
  <2>1. PICK l, d : Click(l, d)
    BY <1>1 DEF Learner, ClickCreate, ClickProfile, ClickProblem, ClickProvider, ClickMode
  <2>2. l # "boot"
    BY <2>1, ProfileAssumption DEF Click
  <2>3. call'["boot"] = call["boot"]
    BY <2>1, <2>2 DEF Click, Goto, TypeOK, Lanes
  <2>. QED
    BY <2>1, <2>3 DEF Click, PageInv, FirstPageExists
<1>2. ASSUME NEW l \in Lanes, Proceed(l) \/ Fail(l) PROVE PageInv'
  BY <1>2, OtherLanesShowNothing, BootShowsWhatExists
<1>3. CASE Boot
  <2>1. call'["boot"] = [at |-> "default"] /\ server' = "booting"
    BY <1>3 DEF Boot, Goto, TypeOK, Lanes
  <2>2. BootOK(catalogue', call'["boot"])
    BY <2>1 DEF BootOK
  <2>. QED
    BY <2>1, <2>2 DEF PageInv, FirstPageExists
<1>4. CASE Crash
  <2>1. call'["boot"] = NoCall /\ server' = "down"
    BY <1>4 DEF Crash, Lanes
  <2>2. BootOK(catalogue', call'["boot"])
    BY <2>1 DEF BootOK, NoCall
  <2>. QED
    BY <2>1, <2>2 DEF PageInv, FirstPageExists
<1>5. CASE UNCHANGED vars
  BY <1>5 DEF vars, PageInv, FirstPageExists
<1>. QED
  BY <1>1, <1>2, <1>3, <1>4, <1>5 DEF Next

\* The first page shows a problem that exists, whatever the stored pointer says
\* and whether or not its repair could be saved (build_app, restore).
THEOREM FirstPageIsReal == Spec => []FirstPageExists
<1>1. Init => PageInv
  <2>1. "boot" \in Lanes
    BY DEF Lanes
  <2>2. Init => call["boot"] = NoCall /\ server = "down"
    BY <2>1 DEF Init
  <2>3. BootOK(catalogue, NoCall)
    BY DEF BootOK, NoCall
  <2>. QED
    BY <2>2, <2>3 DEF PageInv, FirstPageExists
<1>2. TypeOK /\ Inv /\ PageInv /\ [Next]_vars => PageInv'
  BY PageStep
<1>3. PageInv => FirstPageExists
  BY DEF PageInv
<1>. QED
  BY <1>1, <1>2, <1>3, TypeCorrect, InvAlways, PTL DEF Spec

-----------------------------------------------------------------------------
(* What a write changes *)

\* The row that call c is about to store is new to list f, or differs from the
\* one that it replaces in one preference.
RowOK(f, c) ==
    c.at \in {"list", "write"} /\ ~c.overtaken =>
        /\ c.new => RowsOf(f, c.row.id) = {}
        /\ ~c.new => \E r \in RowsOf(f, c.row.id), change \in Changes : c.row = Altered(r, change)

\* Identities below n have been given out: those of list f and of what c holds.
FreshList(f, n) == \A i \in DOMAIN f : f[i].id < n

FreshCall(c, n) ==
    /\ c.at \in {"list", "write"} => c.row.id < n
    /\ c.at = "write" => FreshList(c.rows, n)

RowsInv ==
    /\ FreshList(file, nextId)
    /\ \A m \in Lanes : RowOK(file, call[m]) /\ FreshCall(call[m], nextId)

LEMMA FreshLonger ==
    ASSUME NEW n \in Nat, NEW k \in {n, n + 1}
    PROVE  /\ \A f \in Seq(Profile) : FreshList(f, n) => FreshList(f, k)
           /\ \A c \in Call : FreshCall(c, n) => FreshCall(c, k)
<1>1. ASSUME NEW f \in Seq(Profile), FreshList(f, n) PROVE FreshList(f, k)
  <2>1. ASSUME NEW i \in DOMAIN f PROVE f[i].id < k
    <3>1. f[i] \in Profile
      OBVIOUS
    <3>2. f[i].id \in Nat /\ f[i].id < n
      BY <1>1, <3>1 DEF Profile, FreshList
    <3>. QED
      BY <3>2
  <2>. QED
    BY <2>1 DEF FreshList
<1>2. ASSUME NEW c \in Call, FreshCall(c, n) PROVE FreshCall(c, k)
  <2>1. c.at = "write" => c.rows \in Seq(Profile)
    BY CallFields
  <2>2. c.at \in {"list", "write"} => c.row.id \in Nat
    <3>1. c.at \in {"list", "write"} => c.row \in Profile
      BY CallFields
    <3>. QED
      BY <3>1 DEF Profile
  <2>3. c.at \in {"list", "write"} => c.row.id < k
    BY <1>2, <2>2 DEF FreshCall
  <2>4. c.at = "write" => FreshList(c.rows, k)
    BY <1>1, <1>2, <2>1 DEF FreshCall
  <2>. QED
    BY <2>3, <2>4 DEF FreshCall
<1>. QED
  BY <1>1, <1>2

\* A call that has read nothing that it will write.
Light(c) == c.at \notin {"list", "write"}

LEMMA LightIsOK == ASSUME NEW f, NEW n, NEW c, Light(c) PROVE RowOK(f, c) /\ FreshCall(c, n)
  BY DEF Light, RowOK, FreshCall

\* A step that leaves the file alone moves one lane to a call c.
LEMMA OneLaneRows ==
    ASSUME TypeOK, RowsInv, NEW l \in Lanes, NEW STATE c, Goto(l, c),
           file' = file, nextId' \in {nextId, nextId + 1},
           RowOK(file, c), FreshCall(c, nextId')
    PROVE  RowsInv'
<1>1. FreshList(file, nextId')
  BY FreshLonger DEF RowsInv, TypeOK
<1>2. ASSUME NEW m \in Lanes PROVE RowOK(file, call'[m]) /\ FreshCall(call'[m], nextId')
  <2>1. CASE m = l
    <3>1. call'[m] = c
      BY <2>1 DEF Goto, TypeOK
    <3>. QED
      BY <3>1
  <2>2. CASE m # l
    <3>1. call'[m] = call[m] /\ call[m] \in Call /\ nextId \in Nat
      BY <2>2 DEF Goto, TypeOK
    <3>2. RowOK(file, call[m]) /\ FreshCall(call[m], nextId)
      BY DEF RowsInv
    <3>3. FreshCall(call[m], nextId')
      BY <3>1, <3>2, FreshLonger
    <3>. QED
      BY <3>1, <3>2, <3>3
  <2>. QED
    BY <2>1, <2>2
<1>. QED
  BY <1>1, <1>2 DEF RowsInv

LEMMA LightStep ==
    ASSUME TypeOK, RowsInv, NEW l \in Lanes, NEW STATE c, Light(c), Goto(l, c),
           file' = file, nextId' = nextId
    PROVE  RowsInv'
  BY LightIsOK, OneLaneRows

\* A new profile is stored under an id that no list has.
LEMMA LookupRows ==
    ASSUME TypeOK, RowsInv, NEW l \in Lanes, Lookup(l)
    PROVE  RowsInv'
<1>1. call[l] \in Call /\ call[l].at = "lookup" /\ nextId \in Nat /\ file' = file
  BY DEF Lookup, TypeOK
<1>2. ASSUME NEW STATE i, Goto(l, [at |-> "restore", id |-> i]), UNCHANGED nextId
      PROVE  RowsInv'
  <2>1. Light([at |-> "restore", id |-> i])
    BY DEF Light
  <2>. QED
    BY <1>1, <1>2, <2>1, LightStep
<1>3. ASSUME nextId' = nextId + 1,
             Goto(l, [at |-> "list", row |-> NewProfile(nextId, call[l].name, FALSE),
                      overtaken |-> FALSE, new |-> TRUE])
      PROVE  RowsInv'
  <2> DEFINE row == NewProfile(nextId, call[l].name, FALSE)
             c == [at |-> "list", row |-> row, overtaken |-> FALSE, new |-> TRUE]
  <2>1. row.id = nextId
    BY DEF NewProfile
  <2>2. RowsOf(file, nextId) = {}
    <3>1. \A i \in DOMAIN file : file[i].id < nextId /\ file[i].id \in Nat
      BY FileRows DEF RowsInv, FreshList
    <3>2. \A i \in DOMAIN file : file[i].id # nextId
      BY <1>1, <3>1
    <3>. QED
      BY <3>2 DEF RowsOf
  <2> HIDE DEF row
  <2>3. c.at = "list" /\ c.row = row /\ c.new = TRUE
    OBVIOUS
  <2>4. Goto(l, c)
    BY <1>3 DEF row
  <2> HIDE DEF c
  <2>5. RowOK(file, c)
    BY <2>1, <2>2, <2>3 DEF RowOK
  <2>6. FreshCall(c, nextId')
    BY <1>1, <1>3, <2>1, <2>3 DEF FreshCall
  <2>. QED
    BY <1>1, <1>3, <2>4, <2>5, <2>6, OneLaneRows
<1>. QED
  BY <1>2, <1>3 DEF Lookup

LEMMA DefaultRows ==
    ASSUME TypeOK, RowsInv, NEW l \in Lanes, ChooseDefault(l)
    PROVE  RowsInv'
<1>1. ASSUME NEW STATE i, Continue(l, [at |-> "restore", id |-> i]) PROVE RowsInv'
  <2>1. Light([at |-> "restore", id |-> i])
    BY DEF Light
  <2>. QED
    BY <1>1, <2>1, LightStep DEF Continue
<1>2. ASSUME DevelopmentId \notin Ids(file),
             Continue(l, [at |-> "list", overtaken |-> FALSE, new |-> TRUE,
                          row |-> NewProfile(DevelopmentId, "development", TRUE)])
      PROVE  RowsInv'
  <2> DEFINE row == NewProfile(DevelopmentId, "development", TRUE)
             c == [at |-> "list", overtaken |-> FALSE, new |-> TRUE, row |-> row]
  <2>1. row.id = 0
    BY DEF NewProfile, DevelopmentId
  <2>2. RowsOf(file, 0) = {}
    BY <1>2 DEF RowsOf, Ids, DevelopmentId
  <2> HIDE DEF row
  <2>3. c.at = "list" /\ c.row = row /\ c.new = TRUE
    OBVIOUS
  <2>4. Continue(l, c)
    BY <1>2 DEF row
  <2> HIDE DEF c
  <2>5. RowOK(file, c)
    BY <2>1, <2>2, <2>3 DEF RowOK
  <2>6. nextId \in Nat \ {0} /\ nextId' = nextId
    BY <2>4 DEF Continue, TypeOK
  <2>7. FreshCall(c, nextId')
    BY <2>1, <2>3, <2>6 DEF FreshCall
  <2>. QED
    BY <2>4, <2>5, <2>7, OneLaneRows DEF Continue
<1>3. ASSUME NEW STATE p, Done(l, p) PROVE RowsInv'
  <2>1. Light(NoCall)
    BY DEF Light, NoCall
  <2>. QED
    BY <1>3, <2>1, LightStep DEF Done
<1>. QED
  BY <1>1, <1>2, <1>3 DEF ChooseDefault

LEMMA RestoreRows ==
    ASSUME TypeOK, RowsInv, NEW l \in Lanes, Restore(l)
    PROVE  RowsInv'
<1>1. ASSUME NEW STATE d, Continue(l, [at |-> "fetch", id |-> call[l].id, change |-> d])
      PROVE  RowsInv'
  <2>1. Light([at |-> "fetch", id |-> call[l].id, change |-> d])
    BY DEF Light
  <2>. QED
    BY <1>1, <2>1, LightStep DEF Continue
<1>2. ASSUME NEW STATE p, Done(l, p) PROVE RowsInv'
  <2>1. Light(NoCall)
    BY DEF Light, NoCall
  <2>. QED
    BY <1>2, <2>1, LightStep DEF Done
<1>. QED
  BY <1>1, <1>2 DEF Restore

\* What Fetch alters is the profile in the file.
LEMMA FetchRows ==
    ASSUME TypeOK, RowsInv, NEW l \in Lanes, Fetch(l)
    PROVE  RowsInv'
<1>1. call[l].at = "fetch" /\ call[l] \in Call /\ nextId \in Nat
  BY DEF Fetch, TypeOK
<1>2. call[l].change \in Changes
  BY <1>1, CallFields
<1>3. PICK i \in DOMAIN file :
        Continue(l, [at |-> "list", overtaken |-> FALSE, new |-> FALSE,
                     row |-> Altered(file[i], call[l].change)])
  BY DEF Fetch
<1> DEFINE row == Altered(file[i], call[l].change)
           c == [at |-> "list", overtaken |-> FALSE, new |-> FALSE, row |-> row]
<1>4. row.id = file[i].id /\ file[i].id \in Nat
  BY <1>2, FileRows, AlteredType
<1>5. row = Altered(file[i], call[l].change)
  OBVIOUS
<1> HIDE DEF row
<1>6. c.at = "list" /\ c.row = row /\ c.new = FALSE
  OBVIOUS
<1>7. Continue(l, c)
  BY <1>3 DEF row
<1> HIDE DEF c
<1>8. RowOK(file, c)
  <2>1. file[i] \in RowsOf(file, c.row.id)
    BY <1>4, <1>6 DEF RowsOf
  <2>2. \E r \in RowsOf(file, c.row.id), change \in Changes : c.row = Altered(r, change)
    BY <1>2, <1>5, <1>6, <2>1
  <2>. QED
    BY <1>6, <2>2 DEF RowOK
<1>9. FreshCall(c, nextId')
  BY <1>1, <1>4, <1>6, <1>7 DEF FreshCall, RowsInv, FreshList, Continue
<1>. QED
  BY <1>7, <1>8, <1>9, OneLaneRows DEF Continue

LEMMA ListRows ==
    ASSUME TypeOK, RowsInv, NEW l \in Lanes, List(l)
    PROVE  RowsInv'
<1> DEFINE c == [at |-> "write", row |-> call[l].row, overtaken |-> call[l].overtaken,
                 new |-> call[l].new, rows |-> file]
<1>1. /\ c.at = "write" /\ c.row = call[l].row /\ c.overtaken = call[l].overtaken
      /\ c.new = call[l].new /\ c.rows = file
  OBVIOUS
<1>2. Continue(l, c) /\ call[l].at = "list"
  BY DEF List
<1> HIDE DEF c
<1>3. RowOK(file, call[l]) /\ FreshCall(call[l], nextId) /\ FreshList(file, nextId)
  BY DEF RowsInv
<1>4. RowOK(file, c)
  BY <1>1, <1>2, <1>3 DEF RowOK
<1>5. FreshCall(c, nextId')
  BY <1>1, <1>2, <1>3 DEF FreshCall, Continue
<1>. QED
  BY <1>2, <1>4, <1>5, OneLaneRows DEF Continue

\* A write marks as overtaken every call whose rows it changes.
LEMMA WriteRows ==
    ASSUME TypeOK, Inv, RowsInv, NEW l \in Lanes, WriteProfile(l)
    PROVE  RowsInv'
<1>1. call[l].at = "write" /\ call[l] \in Call /\ nextId' = nextId
  BY DEF WriteProfile, TypeOK
<1>2. call[l].row \in Profile /\ call[l].rows \in Seq(Profile)
  BY <1>1, CallFields
<1>3. FreshList(file', nextId')
  <2>1. call[l].row.id < nextId /\ FreshList(call[l].rows, nextId)
    BY <1>1 DEF RowsInv, FreshCall
  <2>2. file' = Upserted(call[l].rows, call[l].row)
    BY DEF WriteProfile
  <2>3. \A i \in DOMAIN file' :
           \/ file'[i] = call[l].row
           \/ i \in DOMAIN call[l].rows /\ file'[i] = call[l].rows[i]
    BY <1>2, <2>2, UpsertedRows
  <2>. QED
    BY <1>1, <2>1, <2>3 DEF FreshList
<1>4. ASSUME NEW m \in Lanes PROVE RowOK(file', call'[m]) /\ FreshCall(call'[m], nextId')
  <2>1. CASE m = l
    <3>1. Light(call'[m])
      BY <2>1, WriterAfterWrite DEF Light
    <3>. QED
      BY <3>1, LightIsOK
  <2>2. CASE m # l /\ Outdated(call[m], file')
    <3>1. /\ call[m] \in Call /\ call[m].at \in {"list", "write"}
          /\ call'[m] = [call[m] EXCEPT !.overtaken = TRUE]
      BY <2>2, OthersAfterWrite DEF Outdated, TypeOK
    <3>2. /\ call'[m].at = call[m].at /\ call'[m].row = call[m].row
          /\ call[m].at = "write" => call'[m].rows = call[m].rows
          /\ call'[m].overtaken
      BY <3>1 DEF Call, NoCall
    <3>. QED
      BY <1>1, <3>2 DEF RowOK, FreshCall, RowsInv
  <2>3. CASE m # l /\ ~Outdated(call[m], file')
    <3>1. call'[m] = call[m] /\ call[m].at # "write"
      BY <2>3, OthersAfterWrite DEF Outdated
    <3>2. RowOK(file, call[m]) /\ FreshCall(call[m], nextId)
      BY DEF RowsInv
    <3>3. call[m].at = "list" => RowsOf(file', call[m].row.id) = RowsOf(file, call[m].row.id)
      BY <2>3 DEF Outdated
    <3>4. RowOK(file', call[m])
      BY <3>1, <3>2, <3>3 DEF RowOK
    <3>. QED
      BY <1>1, <3>1, <3>2, <3>4
  <2>. QED
    BY <2>1, <2>2, <2>3
<1>. QED
  BY <1>3, <1>4 DEF RowsInv

LEMMA RowsNext ==
    ASSUME TypeOK, Inv, RowsInv, [Next]_vars
    PROVE  RowsInv'
<1>0. Light(NoCall) /\ Light([at |-> "default"])
  BY DEF Light, NoCall
<1>1. CASE Learner
  <2>1. ASSUME NEW l, NEW STATE c, Light(c), Click(l, c) PROVE RowsInv'
    <3>1. l \in Lanes
      BY <2>1 DEF Click, Lanes
    <3>. QED
      BY <2>1, <3>1, LightStep DEF Click
  <2>2. /\ \A name : Light([at |-> "lookup", name |-> name])
        /\ \A i : Light([at |-> "restore", id |-> i])
        /\ \A i, d : Light([at |-> "fetch", id |-> i, change |-> d])
    BY DEF Light
  <2>. QED
    BY <1>1, <2>1, <2>2
       DEF Learner, ClickCreate, ClickProfile, ClickProblem, ClickProvider, ClickMode
<1>2. ASSUME NEW l \in Lanes, Proceed(l) PROVE RowsInv'
  <2>1. Unknown(l) => RowsInv'
    BY <1>0, LightStep DEF Unknown, Done
  <2>. QED
    BY <1>2, <2>1, LookupRows, DefaultRows, RestoreRows, FetchRows, ListRows, WriteRows
       DEF Proceed
<1>3. ASSUME NEW l \in Lanes, Fail(l) PROVE RowsInv'
  BY <1>0, <1>3, LightStep DEF Fail
<1>4. CASE Boot
  <2>1. "boot" \in Lanes
    BY DEF Lanes
  <2>. QED
    BY <1>0, <1>4, <2>1, LightStep DEF Boot
<1>5. CASE Crash
  <2>1. \A m \in Lanes : call'[m] = NoCall
    BY <1>5 DEF Crash
  <2>2. file' = file /\ nextId' = nextId
    BY <1>5 DEF Crash
  <2>. QED
    BY <1>0, <2>1, <2>2, LightIsOK DEF RowsInv
<1>6. CASE UNCHANGED vars
  BY <1>6 DEF vars, RowsInv
<1>. QED
  BY <1>1, <1>2, <1>3, <1>4, <1>5, <1>6 DEF Next

\* Replacing one altered row, or adding a new one, is one change.
LEMMA UpsertIsOneChange ==
    ASSUME NEW f \in Seq(Profile), UniqueIds(f), NEW row \in Profile, NEW g,
           g = Upserted(f, row),
           \/ RowsOf(f, row.id) = {}
           \/ \E r \in RowsOf(f, row.id), change \in Changes : row = Altered(r, change)
    PROVE  OneChange(f, g)
<1>1. CASE RowsOf(f, row.id) = {}
  <2>1. row.id \notin Ids(f)
    BY <1>1 DEF RowsOf, Ids
  <2>2. g = Append(f, row)
    BY <2>1 DEF Upserted
  <2>3. Len(g) = Len(f) + 1 /\ \A i \in DOMAIN f : g[i] = f[i]
    BY <2>2
  <2>. QED
    BY <2>3 DEF OneChange
<1>2. ASSUME NEW r \in RowsOf(f, row.id), NEW change \in Changes, row = Altered(r, change)
      PROVE  OneChange(f, g)
  <2>1. PICK k \in DOMAIN f : r = f[k] /\ f[k].id = row.id
    BY DEF RowsOf
  <2>2. row.id \in Ids(f)
    BY <2>1 DEF Ids
  <2>3. g = [i \in DOMAIN f |-> IF f[i].id = row.id THEN row ELSE f[i]]
    BY <2>2 DEF Upserted
  <2>4. \A i \in DOMAIN f : f[i].id = row.id => i = k
    BY <2>1 DEF UniqueIds
  <2>5. \A i \in DOMAIN f : f[i] # g[i] => i = k /\ g[i] = Altered(f[i], change)
    BY <1>2, <2>1, <2>3, <2>4
  <2>6. Len(g) = Len(f)
    BY <2>3
  <2>. QED
    BY <2>5, <2>6 DEF OneChange
<1>. QED
  BY <1>1, <1>2

LEMMA WriteIsOneChange ==
    ASSUME TypeOK, Inv, RowsInv, [Next]_vars, NEW l \in Lanes,
           call[l].at = "write", call'[l].at # "write", ~call[l].overtaken
    PROVE  OneChange(file, file') \/ UNCHANGED file
<1>1. CASE UNCHANGED file
  BY <1>1
<1>2. ASSUME NEW m \in Lanes, WriteProfile(m) PROVE OneChange(file, file')
  <2>1. m = l
    <3>1. SUFFICES ASSUME m # l PROVE FALSE
      OBVIOUS
    <3>2. call'[l] = [call[l] EXCEPT !.overtaken = TRUE] /\ call[l] \in Call
      BY <1>2, <3>1, OthersAfterWrite DEF Outdated, TypeOK
    <3>3. call'[l].at = "write"
      BY <3>2 DEF Call, NoCall
    <3>. QED
      BY <3>3
  <2>2. LaneOK(file, l, call[l]) /\ RowOK(file, call[l]) /\ UniqueIds(file)
    BY DEF Inv, RowsInv
  <2>3. call[l].rows = file /\ call[l].row \in Profile
    BY <2>2 DEF LaneOK
  <2>4. file' = Upserted(file, call[l].row)
    BY <1>2, <2>1, <2>3 DEF WriteProfile
  <2>5. \/ RowsOf(file, call[l].row.id) = {}
        \/ \E r \in RowsOf(file, call[l].row.id), change \in Changes :
             call[l].row = Altered(r, change)
    BY <2>2 DEF RowOK
  <2>. QED
    BY <2>2, <2>3, <2>4, <2>5, UpsertIsOneChange DEF TypeOK
<1>3. UNCHANGED file \/ \E m \in Lanes : WriteProfile(m)
  BY DEF Next, Learner, ClickCreate, ClickProfile, ClickProblem, ClickProvider, ClickMode, Click,
         Proceed, Lookup, ChooseDefault, Restore, Fetch, Unknown, List, Continue, Done, Fail,
         Boot, Crash, vars
<1>. QED
  BY <1>1, <1>2, <1>3

\* A call that no other has overtaken changes one preference of its own profile
\* or adds one profile, and leaves every other entry of profiles.json as it was
\* (model_copy and save_profile).
THEOREM OthersAreLeftAlone == Spec => UnrelatedKept
<1>1. Init => RowsInv
  <2>1. Init => /\ FreshList(file, nextId)
                /\ \A m \in Lanes : call[m] = NoCall
    BY DEF Init, FreshList
  <2>2. Light(NoCall)
    BY DEF Light, NoCall
  <2>. QED
    BY <2>1, <2>2, LightIsOK DEF RowsInv
<1>2. TypeOK /\ Inv /\ RowsInv /\ [Next]_vars => RowsInv'
  BY RowsNext
<1>3. TypeOK /\ Inv /\ RowsInv /\ [Next]_vars =>
        [\A l \in Lanes :
           (call[l].at = "write" /\ call'[l].at # "write" /\ ~call[l].overtaken)
               => OneChange(file, file') \/ UNCHANGED file]_vars
  BY WriteIsOneChange
<1>. QED
  BY <1>1, <1>2, <1>3, TypeCorrect, InvAlways, PTL DEF Spec, UnrelatedKept

=============================================================================
