---------------------------- MODULE ProfileStore -----------------------------
(***************************************************************************)
(* profiles.json: one list that holds every profile with its preferences,  *)
(* and the event functions that change it.                                 *)
(*                                                                         *)
(* A change of a preference reads the profile, alters its copy, reads the  *)
(* whole list again, puts the copy into it and replaces the file.  A new   *)
(* profile goes the same way.  The three file operations are separate      *)
(* steps and no lock spans them.  A lane is one event function, which the  *)
(* queue runs one call of at a time, or the start of the process ("boot"). *)
(*                                                                         *)
(* A definition marked Deviation is a mistake whose effect a run must      *)
(* notice.                                                                 *)
(***************************************************************************)
EXTENDS Integers, Sequences, FiniteSets

CONSTANTS
    Names,          \* display names
    Providers,      \* hint providers
    Modes,          \* personalised quiz modes
    DefaultProvider,
    DefaultMode,
    Problems,       \* problem ids, numbered in the order of the repository
    L0,             \* those of the first level
    Handlers,       \* the event functions that may run
    MaxClicks,      \* bound: calls ever started
    MaxFaults       \* bound: crashes and failed writes

ASSUME ProfileAssumption ==
    /\ Handlers \subseteq {"create", "profile", "problem", "provider", "mode"}
    /\ DefaultProvider \in Providers
    /\ DefaultMode \in Modes
    /\ Problems \subseteq Nat \ {0}
    /\ L0 \subseteq Problems
    /\ MaxClicks \in Nat
    /\ MaxFaults \in Nat

VARIABLES
    file,        \* the list in profiles.json
    nextId,      \* the next uuid: ids are numbered in the order of creation
    server,      \* "down", "booting" or "serving"
    development, \* the mode this process was started in
    catalogue,   \* the problems that exist
    initial,     \* the problem that build_app shows first
    call,        \* per lane, the call in progress
    clicks,
    created,     \* history: ids that a call of create has stored
    lossy,       \* history: a call wrote what it had read before another write
    faults

vars == <<file, nextId, server, development, catalogue, initial, call,
          clicks, created, lossy, faults>>

-----------------------------------------------------------------------------

Lanes == Handlers \cup {"boot"}
NoProblem == 0
DevelopmentId == 0

Profile == [id: Nat, name: Names \cup {"development"}, development: BOOLEAN,
            provider: Providers, mode: Modes, last: Problems \cup {NoProblem}]

NewProfile(i, name, dev) ==
    [id |-> i, name |-> name, development |-> dev,
     provider |-> DefaultProvider, mode |-> DefaultMode, last |-> NoProblem]

Changes == [key: {"provider"}, value: Providers] \cup [key: {"mode"}, value: Modes]
           \cup [key: {"last"}, value: Problems]

NoCall == [at |-> "idle"]

\* id is the profile a call is about; once read, row is its altered copy and
\* rows the list it goes into.  overtaken: another call wrote in between.
Call ==
    {NoCall}
    \cup [at: {"lookup"}, name: Names]
    \cup [at: {"default"}]
    \cup [at: {"restore"}, id: Nat]
    \cup [at: {"fetch"}, id: Nat, change: Changes]
    \cup [at: {"list"}, row: Profile, overtaken: BOOLEAN, new: BOOLEAN]
    \cup [at: {"write"}, row: Profile, overtaken: BOOLEAN, new: BOOLEAN,
          rows: Seq(Profile)]

Ids(rows) == {rows[i].id : i \in DOMAIN rows}

\* Deviation: the two string preferences are stored under each other's key.
AlteredSwapped(row, change) ==
    CASE change.key = "provider" -> [row EXCEPT !.mode = change.value]
      [] change.key = "mode" -> [row EXCEPT !.provider = change.value]
      [] change.key = "last" -> [row EXCEPT !.last = change.value]

\* set_hint_provider, set_personalized_quiz_mode and set_last_problem.
Altered(row, change) ==
    CASE change.key = "provider" -> [row EXCEPT !.provider = change.value]
      [] change.key = "mode" -> [row EXCEPT !.mode = change.value]
      [] change.key = "last" -> [row EXCEPT !.last = change.value]

\* Deviation: a profile that the list does not hold is forgotten.
UpsertedIfPresent(rows, row) ==
    [i \in DOMAIN rows |-> IF rows[i].id = row.id THEN row ELSE rows[i]]

\* save_profile: in the place of the profile with the same id, or at the end.
Upserted(rows, row) ==
    IF row.id \in Ids(rows)
    THEN [i \in DOMAIN rows |-> IF rows[i].id = row.id THEN row ELSE rows[i]]
    ELSE Append(rows, row)

\* The problem of a learner who has no valid pointer: the first of level 0, or
\* the first of all.
IsDefault(p) ==
    LET preferred == IF L0 \cap catalogue # {} THEN L0 \cap catalogue ELSE catalogue IN
    p \in preferred /\ \A q \in preferred : p <= q

\* get_profile of ProfileService hides the development profile.
Visible(row) == development \/ ~row.development

Init ==
    /\ file = <<>>
    /\ nextId = 1
    /\ server = "down"
    /\ development = FALSE
    /\ catalogue = {}
    /\ initial = NoProblem
    /\ call = [l \in Lanes |-> NoCall]
    /\ clicks = 0
    /\ created = {}
    /\ lossy = FALSE
    /\ faults = 0

Goto(l, c) == call' = [call EXCEPT ![l] = c]

-----------------------------------------------------------------------------
(* Clicks *)

Click(l, c) ==
    /\ server = "serving"
    /\ l \in Handlers
    /\ call[l] = NoCall
    /\ clicks < MaxClicks
    /\ clicks' = clicks + 1
    /\ Goto(l, c)
    /\ UNCHANGED <<file, nextId, server, development, catalogue, initial,
                   created, lossy, faults>>

\* A page lists the profiles that it has seen: a profile that is lost from the
\* file may still be chosen.
Offered == created \cup {file[i].id : i \in {j \in DOMAIN file : Visible(file[j])}}

ClickCreate(name) == Click("create", [at |-> "lookup", name |-> name])

ClickProfile(i) == i \in Offered /\ Click("profile", [at |-> "restore", id |-> i])

\* select: the problem must exist.
ClickProblem(i, p) ==
    /\ i \in Offered
    /\ p \in catalogue
    /\ Click("problem", [at |-> "fetch", id |-> i, change |-> [key |-> "last", value |-> p]])

ClickProvider(i, v) ==
    /\ i \in Offered
    /\ Click("provider", [at |-> "fetch", id |-> i, change |-> [key |-> "provider", value |-> v]])

ClickMode(i, v) ==
    /\ i \in Offered
    /\ Click("mode", [at |-> "fetch", id |-> i, change |-> [key |-> "mode", value |-> v]])

-----------------------------------------------------------------------------
(* The steps of a call *)

\* A call is over; the boot call opens the application with problem p.
Done(l, p) ==
    /\ Goto(l, NoCall)
    /\ server' = IF l = "boot" THEN "serving" ELSE server
    /\ initial' = IF l = "boot" THEN p ELSE initial
    /\ UNCHANGED <<file, nextId, development, catalogue, clicks, created, lossy, faults>>

Continue(l, c) ==
    /\ Goto(l, c)
    /\ UNCHANGED <<file, nextId, server, development, catalogue, initial, clicks,
                   created, lossy, faults>>

\* create_profile of the repository: the first normal profile of that name,
\* else a new one.
Lookup(l) ==
    LET same == {i \in DOMAIN file : file[i].name = call[l].name /\ ~file[i].development}
    IN
    /\ call[l].at = "lookup"
    /\ \/ \E i \in same :
            /\ \A j \in same : i <= j
            /\ Goto(l, [at |-> "restore", id |-> file[i].id])
            /\ UNCHANGED nextId
       \/ /\ same = {}
          /\ nextId' = nextId + 1
          /\ Goto(l, [at |-> "list", row |-> NewProfile(nextId, call[l].name, FALSE),
                      overtaken |-> FALSE, new |-> TRUE])
    /\ UNCHANGED <<file, server, development, catalogue, initial, clicks,
                   created, lossy, faults>>

\* default_profile at the start: the development profile, made if need be, or
\* the first normal profile, or none.
ChooseDefault(l) ==
    LET normal == {i \in DOMAIN file : ~file[i].development} IN
    /\ call[l].at = "default"
    /\ \/ /\ development
          /\ DevelopmentId \in Ids(file)
          /\ Continue(l, [at |-> "restore", id |-> DevelopmentId])
       \/ /\ development
          /\ DevelopmentId \notin Ids(file)
          /\ Continue(l, [at |-> "list", overtaken |-> FALSE, new |-> TRUE,
                          row |-> NewProfile(DevelopmentId, "development", TRUE)])
       \/ /\ ~development
          /\ \E i \in normal : /\ \A j \in normal : i <= j
                               /\ Continue(l, [at |-> "restore", id |-> file[i].id])
       \/ /\ ~development
          /\ normal = {}
          /\ \E p \in catalogue : IsDefault(p) /\ Done(l, p)
       \/ /\ ~development
          /\ normal = {}
          /\ catalogue = {}
          /\ Done(l, NoProblem)

\* Deviation: the pointer is trusted.
RestoreUnchecked(l) ==
    /\ call[l].at = "restore"
    /\ \/ catalogue = {} /\ Done(l, NoProblem)
       \/ /\ catalogue # {}
          /\ \E i \in DOMAIN file :
               /\ file[i].id = call[l].id
               /\ Visible(file[i])
               /\ \/ file[i].last # NoProblem /\ Done(l, file[i].last)
                  \/ /\ file[i].last = NoProblem
                     /\ \E p \in catalogue :
                          /\ IsDefault(p)
                          /\ Continue(l, [at |-> "fetch", id |-> call[l].id,
                                          change |-> [key |-> "last", value |-> p]])

\* restore: a pointer to a problem that exists is kept, any other is repaired.
Restore(l) ==
    /\ call[l].at = "restore"
    /\ \/ catalogue = {} /\ Done(l, NoProblem)
       \/ /\ catalogue # {}
          /\ \E i \in DOMAIN file :
               /\ file[i].id = call[l].id
               /\ Visible(file[i])
               /\ \/ file[i].last \in catalogue /\ Done(l, file[i].last)
                  \/ /\ file[i].last \notin catalogue
                     /\ \E p \in catalogue :
                          /\ IsDefault(p)
                          /\ Continue(l, [at |-> "fetch", id |-> call[l].id,
                                          change |-> [key |-> "last", value |-> p]])

\* Deviation: the other preferences start from their defaults.
FetchFresh(l) ==
    /\ call[l].at = "fetch"
    /\ \E i \in DOMAIN file :
         /\ file[i].id = call[l].id
         /\ call[l].change.key = "last" => Visible(file[i])
         /\ Continue(l, [at |-> "list", overtaken |-> FALSE, new |-> FALSE,
                         row |-> Altered(NewProfile(file[i].id, file[i].name,
                                                    file[i].development), call[l].change)])

\* The profile is read and its copy altered.
Fetch(l) ==
    /\ call[l].at = "fetch"
    /\ \E i \in DOMAIN file :
         /\ file[i].id = call[l].id
         /\ call[l].change.key = "last" => Visible(file[i])
         /\ Continue(l, [at |-> "list", overtaken |-> FALSE, new |-> FALSE,
                         row |-> Altered(file[i], call[l].change)])

\* KeyError: the profile is not in the file, or is hidden.
Unknown(l) ==
    /\ call[l].at \in {"restore", "fetch"}
    /\ call[l].at = "restore" => catalogue # {}
    /\ \A i \in DOMAIN file :
         file[i].id = call[l].id =>
             /\ ~Visible(file[i])
             /\ call[l].at = "restore" \/ call[l].change.key = "last"
    /\ l # "boot"
    /\ Done(l, NoProblem)

\* save_profile reads the list ...
List(l) ==
    /\ call[l].at = "list"
    /\ Continue(l, [at |-> "write", row |-> call[l].row, overtaken |-> call[l].overtaken,
                    new |-> call[l].new, rows |-> file])

RowsOf(rows, i) == {rows[j] : j \in {k \in DOMAIN rows : rows[k].id = i}}

\* What a call has read is out of date once the file is rows: the list, or the
\* profile that it has altered.
Outdated(c, rows) ==
    \/ c.at = "write"
    \/ c.at = "list" /\ RowsOf(file, c.row.id) # RowsOf(rows, c.row.id)

Overtaken(l, next, rows) ==
    [m \in Lanes |-> IF m = l THEN next
                     ELSE IF Outdated(call[m], rows)
                          THEN [call[m] EXCEPT !.overtaken = TRUE] ELSE call[m]]

\* ... and replaces the file.  A new profile, and the development profile, is
\* then restored; any other call has ended.
WriteProfile(l) ==
    LET this == call[l] IN
    /\ this.at = "write"
    /\ file' = Upserted(this.rows, this.row)
    /\ call' = Overtaken(l, IF this.new THEN [at |-> "restore", id |-> this.row.id] ELSE NoCall,
                         file')
    /\ created' = IF this.new /\ ~this.row.development
                  THEN created \cup {this.row.id} ELSE created
    /\ lossy' = (lossy \/ this.overtaken)
    /\ server' = IF l = "boot" /\ ~this.new THEN "serving" ELSE server
    /\ initial' = IF l = "boot" /\ ~this.new THEN this.row.last ELSE initial
    /\ UNCHANGED <<nextId, development, catalogue, clicks, faults>>

-----------------------------------------------------------------------------
(* The process *)

\* The catalogue may have changed since the last start.
Boot ==
    /\ server = "down"
    /\ server' = "booting"
    /\ development' \in BOOLEAN
    /\ catalogue' \in SUBSET Problems
    /\ Goto("boot", [at |-> "default"])
    /\ UNCHANGED <<file, nextId, initial, clicks, created, lossy, faults>>

Crash ==
    /\ server # "down"
    /\ faults < MaxFaults
    /\ faults' = faults + 1
    /\ server' = "down"
    /\ call' = [l \in Lanes |-> NoCall]
    /\ UNCHANGED <<file, nextId, development, catalogue, initial, clicks, created, lossy>>

\* OSError: the file is left as it is.  The boot call goes on with the problem
\* that it could not store; it dies (Crash) if it cannot store its profile.
Fail(l) ==
    /\ call[l].at \in {"list", "write"}
    /\ faults < MaxFaults
    /\ l = "boot" => ~call[l].new
    /\ faults' = faults + 1
    /\ Goto(l, NoCall)
    /\ server' = IF l = "boot" THEN "serving" ELSE server
    /\ initial' = IF l = "boot" THEN call[l].row.last ELSE initial
    /\ UNCHANGED <<file, nextId, development, catalogue, clicks, created, lossy>>

-----------------------------------------------------------------------------

Learner ==
    \/ \E name \in Names : ClickCreate(name)
    \/ \E i \in Offered :
         \/ ClickProfile(i)
         \/ \E p \in Problems : ClickProblem(i, p)
         \/ \E v \in Providers : ClickProvider(i, v)
         \/ \E v \in Modes : ClickMode(i, v)

Proceed(l) ==
    \/ Lookup(l) \/ ChooseDefault(l) \/ Restore(l) \/ Fetch(l) \/ Unknown(l)
    \/ List(l) \/ WriteProfile(l)

Next ==
    \/ Learner
    \/ \E l \in Lanes : Proceed(l) \/ Fail(l)
    \/ Boot
    \/ Crash

Spec == Init /\ [][Next]_vars

-----------------------------------------------------------------------------
(* Properties *)

\* Type invariant.
TypeOK ==
    /\ file \in Seq(Profile)
    /\ nextId \in Nat \ {0}
    /\ server \in {"down", "booting", "serving"}
    /\ development \in BOOLEAN
    /\ catalogue \in SUBSET Problems
    /\ initial \in Problems \cup {NoProblem}
    /\ call \in [Lanes -> Call]
    /\ clicks \in Nat
    /\ created \in SUBSET Nat
    /\ lossy \in BOOLEAN
    /\ faults \in Nat

UniqueIds(rows) == \A i, j \in DOMAIN rows : rows[i].id = rows[j].id => i = j

\* Whatever calls overlap, no identity is in the file twice (save_profile).
IdsUnique == UniqueIds(file)

\* g is f with one preference of one profile altered, or with one profile more.
OneChange(f, g) ==
    \/ Len(g) = Len(f) + 1 /\ \A i \in DOMAIN f : g[i] = f[i]
    \/ /\ Len(g) = Len(f)
       /\ \A i, j \in DOMAIN f : f[i] # g[i] /\ f[j] # g[j] => i = j
       /\ \A i \in DOMAIN f :
            f[i] # g[i] => \E change \in Changes : g[i] = Altered(f[i], change)

\* A call that no other call has overtaken changes one preference of its own
\* profile and nothing else (model_copy and save_profile).  A call that was
\* overtaken is excused, and so is what it loses (overtaken, lossy): it may lose a
\* profile, against the docstring of save_profile.
UnrelatedKept ==
    [][\A l \in Lanes :
         (call[l].at = "write" /\ call'[l].at # "write" /\ ~call[l].overtaken)
             => OneChange(file, file') \/ UNCHANGED file]_vars

\* No profile is in the file twice, and as long as no call has written what another
\* has overtaken, every profile that was created is in it ...
ProfilesKept ==
    /\ IdsUnique
    /\ ~lossy => created \subseteq Ids(file)

\* ... and no two normal profiles have the same name (create_profile).
NamesDistinct ==
    ~lossy =>
        \A i, j \in DOMAIN file :
            (file[i].name = file[j].name /\ ~file[i].development /\ ~file[j].development)
                => i = j

\* The first page shows a problem that exists, also when the problem of the
\* stored pointer has been removed or the repair could not be saved.
FirstPageExists ==
    server = "serving" =>
        initial \in catalogue \cup {p \in {NoProblem} : catalogue = {}}

=============================================================================
