---------------------------- MODULE CodeWorkspace ----------------------------
(***************************************************************************)
(* The drafts of one profile, edited from several browser tabs.            *)
(*                                                                         *)
(* The drafts table keeps one source and one revision per problem, and     *)
(* save_draft replaces the source only if the caller names the current     *)
(* revision.  The revision a caller names is a gr.State: it lives in the   *)
(* tab's session on the server, is read when a call starts to run and      *)
(* written when it ends.  The source is what the code box of the browser   *)
(* holds at the click.  The box shows what load_editor_workspace and       *)
(* apply_code_history_ui return, some time after the session was written,  *)
(* and what the learner types.                                             *)
(*                                                                         *)
(* Sessions, the event queue and the browser are Gradio's; they are        *)
(* modelled from how gradio_workspace.py uses them.  A definition marked   *)
(* Deviation is a mistake whose effect a run must notice.                  *)
(***************************************************************************)
EXTENDS Naturals, Sequences, FiniteSets

CONSTANTS
    Problems,
    Texts,          \* sources a learner types
    Tabs,           \* browser tabs of the same profile
    Patient,        \* TRUE: a learner acts in a tab only when it is quiet
    MaxWrites,      \* bound: accepted writes
    MaxFaults       \* bound: reloads, restarts and failed calls

ASSUME WorkspaceAssumption ==
    /\ Problems # {}
    /\ Patient \in BOOLEAN
    /\ MaxWrites \in Nat
    /\ MaxFaults \in Nat

VARIABLES
    drafts,     \* per problem, the writes accepted so far: the row holds the
                \* last one and its revision is their number
    snapshots,  \* per problem, the executed sources that are kept
    page0,      \* the draft that build_app read, which every new page shows
    session,    \* per tab, editor_problem_id and draft_revision
    selected,   \* per tab, the value of the problem selector
    box,        \* per tab, the text in the code box and the draft it stems from
    call,       \* per tab and function, the call in progress
    harm,       \* history: writes that should not have been accepted
    faults

stores == <<drafts, snapshots, page0>>
vars == <<drafts, snapshots, page0, session, selected, box, call,
          harm, faults>>

-----------------------------------------------------------------------------

Blank == "blank"
Sources == Texts \cup {Blank}
Calls == {"save", "apply", "load"}

Write == [text: Sources, tab: Tabs]
Draft == [problem: Problems, revision: Nat, text: Sources]
Stem == [problem: Problems, revision: Nat]

NoCall == [at |-> "idle"]
\* draft is what a call was given, then what it answers; from is what its
\* text stems from.
Call == {NoCall} \cup
        [at: {"queued", "running", "answered", "refused", "arriving"},
         draft: Draft, from: Stem]

StemOf(d) == [problem |-> d.problem, revision |-> d.revision]
RevisionOf(p) == Len(drafts[p])

Accepted == UNION {{p} \X (1..RevisionOf(p)) : p \in Problems}

\* Deviation: revisions are counted from zero.
LoadDraftOffByOne(p) ==
    [problem |-> p, revision |-> RevisionOf(p) - 1,
     text |-> IF drafts[p] = <<>> THEN Blank ELSE drafts[p][RevisionOf(p)].text]

\* load_draft: the row, or an empty draft of revision 0.
LoadDraft(p) ==
    [problem |-> p, revision |-> RevisionOf(p),
     text |-> IF drafts[p] = <<>> THEN Blank ELSE drafts[p][RevisionOf(p)].text]

Quiet(t) == \A c \in Calls : call[t][c] = NoCall
MayAct(t) == Patient => Quiet(t)

Advance(t, c, to) == call' = [call EXCEPT ![t][c] = to]

Init ==
    /\ drafts = [p \in Problems |-> <<>>]
    /\ snapshots = [p \in Problems |-> {}]
    /\ \E p \in Problems : page0 = [problem |-> p, revision |-> 0, text |-> Blank]
    /\ session = [t \in Tabs |-> StemOf(page0)]
    /\ selected = [t \in Tabs |-> page0.problem]
    /\ box = [t \in Tabs |-> page0]
    /\ call = [t \in Tabs |-> [c \in Calls |-> NoCall]]
    /\ harm = {}
    /\ faults = 0

-----------------------------------------------------------------------------
(* The learner, in the browser *)

Type(t, x) ==
    /\ MayAct(t)
    /\ x # box[t].text
    /\ box' = [box EXCEPT ![t].text = x]
    /\ UNCHANGED <<stores, session, selected, call, harm, faults>>

\* Two seconds without typing, a click elsewhere, or the end of a submission:
\* the autosave takes the text of the box along.
ClickSave(t) ==
    /\ MayAct(t)
    /\ call[t]["save"] = NoCall
    /\ Advance(t, "save", [at |-> "queued", draft |-> box[t], from |-> StemOf(box[t])])
    /\ UNCHANGED <<stores, session, selected, box, harm, faults>>

\* "Apply to the current draft" of a snapshot that the history lists; it is
\* named by its problem and its source.
ClickApply(t, x) ==
    /\ MayAct(t)
    /\ call[t]["apply"] = NoCall
    /\ x \in snapshots[selected[t]]
    /\ Advance(t, "apply", [at |-> "queued",
                            draft |-> [problem |-> selected[t], revision |-> 0, text |-> x],
                            from |-> StemOf(box[t])])
    /\ UNCHANGED <<stores, session, selected, box, harm, faults>>

\* Another problem is selected; load_editor_workspace follows.
Navigate(t, p) ==
    /\ MayAct(t)
    /\ call[t]["load"] = NoCall
    /\ p # selected[t]
    /\ selected' = [selected EXCEPT ![t] = p]
    /\ Advance(t, "load", [at |-> "queued",
                           draft |-> [problem |-> p, revision |-> 0, text |-> Blank],
                           from |-> StemOf(box[t])])
    /\ UNCHANGED <<stores, session, box, harm, faults>>

\* A submission keeps its source as a snapshot of the selected problem; the
\* snapshot of an empty program is left out.
RecordSnapshot(t) ==
    /\ MayAct(t)
    /\ box[t].text # Blank
    /\ snapshots' = [snapshots EXCEPT ![selected[t]] = @ \cup {box[t].text}]
    /\ UNCHANGED <<drafts, page0, session, selected, box, call, harm, faults>>

DeleteSnapshot(t, x) ==
    /\ MayAct(t)
    /\ x \in snapshots[selected[t]]
    /\ snapshots' = [snapshots EXCEPT ![selected[t]] = @ \ {x}]
    /\ UNCHANGED <<drafts, page0, session, selected, box, call, harm, faults>>

-----------------------------------------------------------------------------
(* The calls, on the server *)

\* The queue runs one call of a function at a time, whichever tab made it.
SlotFree(c) == \A t \in Tabs : call[t][c].at \notin {"running", "answered", "refused"}

\* get_snapshot asks for a snapshot of the problem that the session names.
SameProblem(t, c) == c = "apply" => call[t][c].draft.problem = session[t].problem

\* Deviation: a write goes to the problem that the selector shows.
RunOnSelected(t, c) ==
    /\ call[t][c].at = "queued"
    /\ SlotFree(c)
    /\ SameProblem(t, c)
    /\ Advance(t, c, IF c = "load"
                     THEN [call[t][c] EXCEPT !.at = "running"]
                     ELSE [call[t][c] EXCEPT !.at = "running",
                                             !.draft.problem = selected[t],
                                             !.draft.revision = session[t].revision])
    /\ UNCHANGED <<stores, session, selected, box, harm, faults>>

\* A write takes its problem and its expected revision from the session.
Run(t, c) ==
    /\ call[t][c].at = "queued"
    /\ SlotFree(c)
    /\ SameProblem(t, c)
    /\ Advance(t, c, IF c = "load"
                     THEN [call[t][c] EXCEPT !.at = "running"]
                     ELSE [call[t][c] EXCEPT !.at = "running",
                                             !.draft.problem = session[t].problem,
                                             !.draft.revision = session[t].revision])
    /\ UNCHANGED <<stores, session, selected, box, harm, faults>>

Load(t) ==
    LET this == call[t]["load"] IN
    /\ this.at = "running"
    /\ Advance(t, "load", [this EXCEPT !.at = "answered",
                                       !.draft = LoadDraft(this.draft.problem)])
    /\ UNCHANGED <<stores, session, selected, box, harm, faults>>

\* The text comes from a page of another problem, or replaces a write of
\* another tab that the page has not shown.
HarmOf(t, p, from) ==
    {k \in {"misplaced", "overwritten"} :
        \/ k = "misplaced" /\ from.problem # p
        \/ /\ k = "overwritten"
           /\ from.problem = p
           /\ \E r \in from.revision + 1 .. RevisionOf(p) : drafts[p][r].tab # t}

\* get_snapshot finds the source; the source itself never changes.
SourceExists(t, c) == c = "apply" => call[t][c].draft.text \in snapshots[call[t][c].draft.problem]

\* Deviation: the expected revision is not compared.
ReplaceUnchecked(t, c) ==
    LET this == call[t][c]
        p == this.draft.problem
        x == this.draft.text
    IN
    /\ c # "load"
    /\ this.at = "running"
    /\ SourceExists(t, c)
    /\ x # LoadDraft(p).text \/ drafts[p] = <<>>
    /\ Cardinality(Accepted) < MaxWrites
    /\ drafts' = [drafts EXCEPT ![p] = Append(@, [text |-> x, tab |-> t])]
    /\ Advance(t, c, [this EXCEPT !.at = "answered", !.draft.revision = RevisionOf(p) + 1])
    /\ box' = IF box[t].problem = p
              THEN [box EXCEPT ![t].revision = RevisionOf(p) + 1] ELSE box
    /\ harm' = harm \cup HarmOf(t, p, this.from)
    /\ UNCHANGED <<snapshots, page0, session, selected, faults>>

\* save_draft with the current revision and another source.
Replace(t, c) ==
    LET this == call[t][c]
        p == this.draft.problem
        x == this.draft.text
    IN
    /\ c # "load"
    /\ this.at = "running"
    /\ SourceExists(t, c)
    /\ this.draft.revision = RevisionOf(p)
    /\ x # LoadDraft(p).text \/ drafts[p] = <<>>
    /\ Cardinality(Accepted) < MaxWrites
    /\ drafts' = [drafts EXCEPT ![p] = Append(@, [text |-> x, tab |-> t])]
    /\ Advance(t, c, [this EXCEPT !.at = "answered", !.draft.revision = @ + 1])
    /\ box' = IF box[t].problem = p
              THEN [box EXCEPT ![t].revision = RevisionOf(p) + 1] ELSE box
    /\ harm' = harm \cup HarmOf(t, p, this.from)
    /\ UNCHANGED <<snapshots, page0, session, selected, faults>>

\* save_draft with the current revision and the same source: nothing to write.
Keep(t, c) ==
    LET this == call[t][c]
        p == this.draft.problem
    IN
    /\ c # "load"
    /\ this.at = "running"
    /\ SourceExists(t, c)
    /\ this.draft.revision = RevisionOf(p)
    /\ drafts[p] # <<>>
    /\ this.draft.text = LoadDraft(p).text
    /\ Advance(t, c, [this EXCEPT !.at = "answered"])
    /\ UNCHANGED <<stores, session, selected, box, harm, faults>>

\* DraftConflictError: the learner reads that another tab updated the draft.
Refuse(t, c) ==
    LET this == call[t][c]
        p == this.draft.problem
    IN
    /\ c # "load"
    /\ this.at = "running"
    /\ SourceExists(t, c)
    /\ this.draft.revision # RevisionOf(p)
    /\ Advance(t, c, [this EXCEPT !.at = "refused"])
    /\ UNCHANGED <<stores, session, selected, box, harm, faults>>

\* Deviation: a refused write answers the revision of the store.
SettleRefreshing(t, c) ==
    LET this == call[t][c] IN
    /\ this.at \in {"answered", "refused"}
    /\ session' = [session EXCEPT ![t] =
                     IF c = "load" THEN StemOf(this.draft)
                     ELSE [@ EXCEPT !.revision = RevisionOf(this.draft.problem)]]
    /\ Advance(t, c, IF c = "save" \/ this.at = "refused" THEN NoCall
                     ELSE [this EXCEPT !.at = "arriving"])
    /\ UNCHANGED <<stores, selected, box, harm, faults>>

\* The outputs reach the session: a load sets the problem and the revision, a
\* write the revision alone, which for a refused one is the one it was given.
Settle(t, c) ==
    LET this == call[t][c] IN
    /\ this.at \in {"answered", "refused"}
    /\ session' = [session EXCEPT ![t] =
                     IF c = "load" THEN StemOf(this.draft)
                     ELSE [@ EXCEPT !.revision = this.draft.revision]]
    /\ Advance(t, c, IF c = "save" \/ this.at = "refused" THEN NoCall
                     ELSE [this EXCEPT !.at = "arriving"])
    /\ UNCHANGED <<stores, selected, box, harm, faults>>

\* The code box shows the answer.
Arrive(t, c) ==
    /\ call[t][c].at = "arriving"
    /\ box' = [box EXCEPT ![t] = call[t][c].draft]
    /\ Advance(t, c, NoCall)
    /\ UNCHANGED <<stores, session, selected, harm, faults>>

\* The snapshot to apply was deleted meanwhile, or belongs to the problem that
\* the selector shows and the session does not: KeyError ends the call.
SnapshotGone(t) ==
    /\ \/ call[t]["apply"].at = "running" /\ ~SourceExists(t, "apply")
       \/ call[t]["apply"].at = "queued" /\ SlotFree("apply") /\ ~SameProblem(t, "apply")
    /\ Advance(t, "apply", NoCall)
    /\ UNCHANGED <<stores, session, selected, box, harm, faults>>

-----------------------------------------------------------------------------
(* Faults *)

\* A call fails before its transaction commits: nothing changes.
Fail(t, c) ==
    /\ call[t][c].at \in {"queued", "running"}
    /\ faults < MaxFaults
    /\ faults' = faults + 1
    /\ Advance(t, c, NoCall)
    /\ UNCHANGED <<stores, session, selected, box, harm>>

\* A page that is loaded again shows what build_app read at the start of the
\* process: app.load only installs scripts.
Reload(t) ==
    /\ Quiet(t)
    /\ faults < MaxFaults
    /\ faults' = faults + 1
    /\ session' = [session EXCEPT ![t] = StemOf(page0)]
    /\ selected' = [selected EXCEPT ![t] = page0.problem]
    /\ box' = [box EXCEPT ![t] = page0]
    /\ UNCHANGED <<stores, call, harm>>

\* The process starts again: build_app reads the draft of the problem that the
\* profile was last on, and the pages of the old process are loaded again.
Restart(p) ==
    /\ faults < MaxFaults
    /\ faults' = faults + 1
    /\ page0' = LoadDraft(p)
    /\ session' = [t \in Tabs |-> StemOf(page0')]
    /\ selected' = [t \in Tabs |-> p]
    /\ box' = [t \in Tabs |-> page0']
    /\ call' = [t \in Tabs |-> [c \in Calls |-> NoCall]]
    /\ UNCHANGED <<drafts, snapshots, harm>>

-----------------------------------------------------------------------------

Learner(t) ==
    \/ \E x \in Texts : Type(t, x)
    \/ ClickSave(t)
    \/ \E x \in Sources : ClickApply(t, x) \/ DeleteSnapshot(t, x)
    \/ \E p \in Problems : Navigate(t, p)
    \/ RecordSnapshot(t)

Server(t, c) ==
    \/ Run(t, c) \/ Replace(t, c) \/ Keep(t, c) \/ Refuse(t, c)
    \/ Settle(t, c) \/ Arrive(t, c)

Next ==
    \/ \E t \in Tabs : \/ Learner(t) \/ Load(t) \/ SnapshotGone(t) \/ Reload(t)
                       \/ \E c \in Calls : Server(t, c) \/ Fail(t, c)
    \/ \E p \in Problems : Restart(p)

Spec == Init /\ [][Next]_vars

-----------------------------------------------------------------------------
(* Properties *)

\* Type invariant.
TypeOK ==
    /\ drafts \in [Problems -> Seq(Write)]
    /\ snapshots \in [Problems -> SUBSET Sources]
    /\ page0 \in Draft
    /\ session \in [Tabs -> Stem]
    /\ selected \in [Tabs -> Problems]
    /\ box \in [Tabs -> Draft]
    /\ call \in [Tabs -> [Calls -> Call]]
    /\ harm \in SUBSET {"misplaced", "overwritten"}
    /\ faults \in Nat

\* A draft is only ever replaced by a text that was typed into, or chosen on, a
\* page of the same problem (the editor_problem_id of save_draft_ui).
NeverMisplaced == "misplaced" \notin harm

\* A write never replaces another tab's write that its own page has not shown
\* (save_draft_ui: "without allowing an older browser tab to overwrite").  It holds
\* for learners who wait for the calls of a tab to end (Patient); a save that waits
\* while its learner leaves the problem and comes back takes a newer revision along.
NeverOverwritten == "overwritten" \notin harm

\* Between calls, the session expects the revision and the problem of the
\* draft that the page shows, and no revision the store has not reached.
QuietTabKnowsItsDraft ==
    \A t \in Tabs : Quiet(t) => /\ session[t] = StemOf(box[t])
                                /\ box[t].revision <= RevisionOf(box[t].problem)

=============================================================================
