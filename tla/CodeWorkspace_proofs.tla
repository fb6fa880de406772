------------------------- MODULE CodeWorkspace_proofs -------------------------
(***************************************************************************)
(* Proofs about CodeWorkspace, for every set of problems, sources and      *)
(* tabs, and every bound.                                                  *)
(***************************************************************************)
EXTENDS CodeWorkspace, SequenceTheorems, TLAPS

-----------------------------------------------------------------------------
(* Drafts and calls *)

LEMMA NoCallType == NoCall \in Call /\ NoCall.at = "idle"
BY DEF NoCall, Call

LEMMA BlankType == Blank \in Sources
BY DEF Sources

LEMMA StemType ==
    ASSUME NEW d \in Draft
    PROVE  StemOf(d) \in Stem /\ StemOf(d).problem = d.problem /\ StemOf(d).revision = d.revision
BY DEF Draft, Stem, StemOf

LEMMA StemsEqual ==
    ASSUME NEW a \in Stem, NEW b \in Stem, a.problem = b.problem, a.revision = b.revision
    PROVE  a = b
BY DEF Stem

\* A call, once made, has all its fields.
LEMMA CallFields ==
    ASSUME NEW k \in Call, k # NoCall
    PROVE  /\ k.at \in {"queued", "running", "answered", "refused", "arriving"}
           /\ k.draft \in Draft /\ k.from \in Stem
BY DEF Call, NoCall

LEMMA RevisionType ==
    ASSUME TypeOK, NEW p \in Problems
    PROVE  RevisionOf(p) \in Nat /\ drafts[p] \in Seq(Write)
BY LenProperties DEF TypeOK, RevisionOf

\* load_draft answers a draft of the problem, of the last revision.
LEMMA LoadDraftType ==
    ASSUME TypeOK, NEW p \in Problems
    PROVE  /\ LoadDraft(p) \in Draft
           /\ LoadDraft(p).problem = p /\ LoadDraft(p).revision = RevisionOf(p)
<1>1. drafts[p] \in Seq(Write) /\ RevisionOf(p) \in Nat
    BY RevisionType
<1>2. CASE drafts[p] = <<>>
    BY <1>1, <1>2, BlankType DEF LoadDraft, Draft
<1>3. CASE drafts[p] # <<>>
  <2>1. RevisionOf(p) \in 1..Len(drafts[p])
      BY <1>1, <1>3, EmptySeq DEF RevisionOf
  <2>2. drafts[p][RevisionOf(p)] \in Write
      BY <1>1, <2>1, ElementOfSeq
  <2>3. QED BY <1>1, <1>3, <2>2 DEF LoadDraft, Draft, Write
<1>4. QED BY <1>2, <1>3

\* The call of one tab and function changes, every other stays.
LEMMA OneCallChanges ==
    ASSUME TypeOK, NEW t \in Tabs, NEW c \in Calls, NEW k \in Call, Advance(t, c, k)
    PROVE  /\ call' \in [Tabs -> [Calls -> Call]]
           /\ \A u \in Tabs, d \in Calls :
                call'[u][d] = IF u = t /\ d = c THEN k ELSE call[u][d]
BY DEF TypeOK, Advance

LEMMA TypeStays ==
    ASSUME drafts' \in [Problems -> Seq(Write)],
           snapshots' \in [Problems -> SUBSET Sources],
           page0' \in Draft, session' \in [Tabs -> Stem],
           selected' \in [Tabs -> Problems], box' \in [Tabs -> Draft],
           call' \in [Tabs -> [Calls -> Call]],
           harm' \in SUBSET {"misplaced", "overwritten"}, faults' \in Nat
    PROVE  TypeOK'
BY DEF TypeOK

\* A step of a call that changes no more than the call.
LEMMA OnlyCallChanges ==
    ASSUME TypeOK, NEW t \in Tabs, NEW c \in Calls, NEW k \in Call, Advance(t, c, k),
           UNCHANGED <<stores, session, selected, box, harm>>, faults' \in Nat
    PROVE  TypeOK'
<1>1. call' \in [Tabs -> [Calls -> Call]]
    BY OneCallChanges
<1>2. UNCHANGED <<drafts, snapshots, page0, session, selected, box, harm>>
    BY DEF stores
<1>3. QED BY <1>1, <1>2, TypeStays DEF TypeOK

-----------------------------------------------------------------------------
(* Types *)

LEMMA TypeInit == Init => TypeOK
<1> SUFFICES ASSUME Init PROVE TypeOK
    OBVIOUS
<1>1. PICK p \in Problems : page0 = [problem |-> p, revision |-> 0, text |-> Blank]
    BY DEF Init
<1>2. page0 \in Draft /\ page0.problem = p
    BY <1>1, BlankType DEF Draft
<1>3. StemOf(page0) \in Stem
    BY <1>2, StemType
<1>4. /\ drafts \in [Problems -> Seq(Write)] /\ snapshots \in [Problems -> SUBSET Sources]
      /\ harm = {} /\ faults = 0
    BY DEF Init
<1>5. session \in [Tabs -> Stem] /\ box \in [Tabs -> Draft]
    BY <1>2, <1>3 DEF Init
<1>6. selected \in [Tabs -> Problems]
    BY <1>2 DEF Init
<1>7. call \in [Tabs -> [Calls -> Call]]
    BY NoCallType DEF Init
<1>8. QED BY <1>2, <1>4, <1>5, <1>6, <1>7 DEF TypeOK

LEMMA LearnerKeepsType ==
    ASSUME TypeOK, NEW t \in Tabs, Learner(t)
    PROVE  TypeOK'
<1>1. ASSUME NEW x \in Texts, Type(t, x) PROVE TypeOK'
  <2>1. x \in Sources /\ box[t] \in Draft
      BY DEF TypeOK, Sources
  <2>2. [box[t] EXCEPT !.text = x] \in Draft
      BY <2>1 DEF Draft
  <2>3. box' \in [Tabs -> Draft]
      BY <1>1, <2>2 DEF Type, TypeOK
  <2>4. UNCHANGED <<drafts, snapshots, page0, session, selected, call, harm, faults>>
      BY <1>1 DEF Type, stores
  <2>5. QED BY <2>3, <2>4, TypeStays DEF TypeOK
<1>2. CASE ClickSave(t)
  <2>1. box[t] \in Draft
      BY DEF TypeOK
  <2>2. [at |-> "queued", draft |-> box[t], from |-> StemOf(box[t])] \in Call
      BY <2>1, StemType DEF Call
  <2>3. QED BY <1>2, <2>2, OnlyCallChanges DEF ClickSave, Calls, TypeOK
<1>3. ASSUME NEW x \in Sources, ClickApply(t, x) PROVE TypeOK'
  <2>1. box[t] \in Draft /\ selected[t] \in Problems
      BY DEF TypeOK
  <2>2. [problem |-> selected[t], revision |-> 0, text |-> x] \in Draft
      BY <2>1 DEF Draft
  <2>3. [at |-> "queued", draft |-> [problem |-> selected[t], revision |-> 0, text |-> x],
         from |-> StemOf(box[t])] \in Call
      BY <2>1, <2>2, StemType DEF Call
  <2>4. QED BY <1>3, <2>3, OnlyCallChanges DEF ClickApply, Calls, TypeOK
<1>4. ASSUME NEW x \in Sources, DeleteSnapshot(t, x) PROVE TypeOK'
  <2>1. snapshots' \in [Problems -> SUBSET Sources]
      BY <1>4 DEF DeleteSnapshot, TypeOK
  <2>2. UNCHANGED <<drafts, page0, session, selected, box, call, harm, faults>>
      BY <1>4 DEF DeleteSnapshot
  <2>3. QED BY <2>1, <2>2, TypeStays DEF TypeOK
<1>5. ASSUME NEW p \in Problems, Navigate(t, p) PROVE TypeOK'
  <2>1. box[t] \in Draft
      BY DEF TypeOK
  <2>2. [problem |-> p, revision |-> 0, text |-> Blank] \in Draft
      BY BlankType DEF Draft
  <2>3. PICK k \in Call : Advance(t, "load", k)
    <3>1. [at |-> "queued", draft |-> [problem |-> p, revision |-> 0, text |-> Blank],
           from |-> StemOf(box[t])] \in Call
        BY <2>1, <2>2, StemType DEF Call
    <3>2. QED BY <1>5, <3>1 DEF Navigate
  <2>4. call' \in [Tabs -> [Calls -> Call]]
      BY <2>3, OneCallChanges DEF Calls
  <2>5. selected' \in [Tabs -> Problems]
      BY <1>5 DEF Navigate, TypeOK
  <2>6. UNCHANGED <<drafts, snapshots, page0, session, box, harm, faults>>
      BY <1>5 DEF Navigate, stores
  <2>7. QED BY <2>4, <2>5, <2>6, TypeStays DEF TypeOK
<1>6. CASE RecordSnapshot(t)
  <2>1. box[t].text \in Sources
      BY DEF TypeOK, Draft
  <2>2. snapshots' \in [Problems -> SUBSET Sources]
      BY <1>6, <2>1 DEF RecordSnapshot, TypeOK
  <2>3. UNCHANGED <<drafts, page0, session, selected, box, call, harm, faults>>
      BY <1>6 DEF RecordSnapshot
  <2>4. QED BY <2>2, <2>3, TypeStays DEF TypeOK
<1>7. QED BY <1>1, <1>2, <1>3, <1>4, <1>5, <1>6 DEF Learner

\* What Run makes of a queued call.
Started(k, c, s) ==
    IF c = "load" THEN [k EXCEPT !.at = "running"]
    ELSE [k EXCEPT !.at = "running", !.draft.problem = s.problem,
                   !.draft.revision = s.revision]

LEMMA StartedType ==
    ASSUME NEW k \in Call, k # NoCall, NEW c, NEW s \in Stem
    PROVE  /\ Started(k, c, s) \in Call /\ Started(k, c, s).at = "running"
           /\ Started(k, c, s).from = k.from
           /\ Started(k, c, s).draft.text = k.draft.text
           /\ c = "load" => Started(k, c, s).draft = k.draft
           /\ c # "load" => Started(k, c, s).draft.problem = s.problem
           /\ c # "load" => Started(k, c, s).draft.revision = s.revision
<1>1. k.draft \in Draft /\ k.from \in Stem
    BY CallFields
<1>2. CASE c = "load"
    BY <1>1, <1>2 DEF Started, Call, NoCall
<1>3. CASE c # "load"
  <2>1. PICK d : d = [k.draft EXCEPT !.problem = s.problem, !.revision = s.revision]
      OBVIOUS
  <2>2. d \in Draft /\ d.problem = s.problem /\ d.revision = s.revision /\ d.text = k.draft.text
      BY <1>1, <2>1 DEF Draft, Stem
  <2>3. Started(k, c, s) = [k EXCEPT !.at = "running", !.draft = d]
      BY <1>1, <1>3, <2>1 DEF Started, Call, NoCall, Draft
  <2>4. QED BY <1>1, <1>3, <2>2, <2>3 DEF Call, NoCall
<1>4. QED BY <1>2, <1>3

\* A call comes to another step.
LEMMA MovesType ==
    ASSUME NEW k \in Call, k # NoCall,
           NEW to \in {"queued", "running", "answered", "refused", "arriving"},
           NEW d \in Draft
    PROVE  /\ [k EXCEPT !.at = to] \in Call /\ [k EXCEPT !.at = to].at = to
           /\ [k EXCEPT !.at = to].draft = k.draft /\ [k EXCEPT !.at = to].from = k.from
           /\ [k EXCEPT !.at = to, !.draft = d] \in Call
           /\ [k EXCEPT !.at = to, !.draft = d].at = to
           /\ [k EXCEPT !.at = to, !.draft = d].draft = d
           /\ [k EXCEPT !.at = to, !.draft = d].from = k.from
BY DEF Call, NoCall

\* What Replace does.
Replaced(t, c, k, p, d, w) ==
    /\ k \in Call /\ k # NoCall /\ k.at = "running" /\ c # "load"
    /\ p = k.draft.problem /\ k.draft.revision = RevisionOf(p)
    /\ d.problem = p /\ d.revision = RevisionOf(p) + 1
    /\ Advance(t, c, [k EXCEPT !.at = "answered", !.draft = d])
    /\ drafts' = [drafts EXCEPT ![p] = Append(@, w)]
    /\ box' = IF box[t].problem = p
              THEN [box EXCEPT ![t] = [box[t] EXCEPT !.revision = RevisionOf(p) + 1]]
              ELSE box
    /\ harm' = harm \cup HarmOf(t, p, k.from)
    /\ UNCHANGED <<snapshots, page0, session, selected, faults>>

LEMMA ReplaceStep ==
    ASSUME TypeOK, NEW t \in Tabs, NEW c \in Calls, Replace(t, c), NEW k, k = call[t][c]
    PROVE  \E p \in Problems, d \in Draft, w \in Write : Replaced(t, c, k, p, d, w)
<1>1. k \in Call /\ k # NoCall /\ k.at = "running" /\ c # "load"
    BY NoCallType DEF TypeOK, Replace
<1>2. k.draft \in Draft /\ k.from \in Stem
    BY <1>1, CallFields
<1>3. PICK p \in Problems : p = k.draft.problem
    BY <1>2 DEF Draft
<1>4. RevisionOf(p) \in Nat /\ k.draft.revision = RevisionOf(p)
    BY <1>3, RevisionType DEF Replace
<1>5. PICK d : d = [k.draft EXCEPT !.revision = RevisionOf(p) + 1]
    OBVIOUS
<1>6. d \in Draft /\ d.problem = p /\ d.revision = RevisionOf(p) + 1
    BY <1>2, <1>3, <1>4, <1>5 DEF Draft
<1>7. [k EXCEPT !.at = "answered", !.draft.revision = @ + 1] =
          [k EXCEPT !.at = "answered", !.draft = d]
    BY <1>1, <1>2, <1>4, <1>5 DEF Call, NoCall, Draft
<1>8. Advance(t, c, [k EXCEPT !.at = "answered", !.draft = d])
    BY <1>7 DEF Replace
<1>9. PICK w : w = [text |-> k.draft.text, tab |-> t]
    OBVIOUS
<1>10. w \in Write /\ drafts' = [drafts EXCEPT ![p] = Append(@, w)]
    BY <1>2, <1>3, <1>9 DEF Replace, Write, Draft
<1>11. box' = IF box[t].problem = p
              THEN [box EXCEPT ![t] = [box[t] EXCEPT !.revision = RevisionOf(p) + 1]]
              ELSE box
    BY <1>3 DEF Replace, TypeOK, Draft
<1>12. /\ harm' = harm \cup HarmOf(t, p, k.from)
       /\ UNCHANGED <<snapshots, page0, session, selected, faults>>
    BY <1>3 DEF Replace
<1>13. Replaced(t, c, k, p, d, w)
    BY <1>1, <1>3, <1>4, <1>6, <1>8, <1>10, <1>11, <1>12 DEF Replaced
<1>14. QED BY <1>3, <1>6, <1>10, <1>13

LEMMA ReplaceKeepsType ==
    ASSUME TypeOK, NEW t \in Tabs, NEW c \in Calls, Replace(t, c)
    PROVE  TypeOK'
<1>1. PICK k : k = call[t][c]
    OBVIOUS
<1>2. PICK p \in Problems, d \in Draft, w \in Write : Replaced(t, c, k, p, d, w)
    BY <1>1, ReplaceStep
<1>3. call' \in [Tabs -> [Calls -> Call]]
    BY <1>2, MovesType, OneCallChanges, ZenonT(60) DEF Replaced
<1>4. drafts' \in [Problems -> Seq(Write)]
  <2>1. drafts' = [drafts EXCEPT ![p] = Append(@, w)]
      BY <1>2 DEF Replaced
  <2>2. Append(drafts[p], w) \in Seq(Write)
      BY RevisionType, AppendProperties
  <2>3. QED BY <2>1, <2>2 DEF TypeOK
<1>5. box' \in [Tabs -> Draft]
  <2>1. box[t] \in Draft /\ RevisionOf(p) + 1 \in Nat
      BY RevisionType DEF TypeOK
  <2>2. [box[t] EXCEPT !.revision = RevisionOf(p) + 1] \in Draft
      BY <2>1 DEF Draft
  <2>3. QED BY <1>2, <2>2 DEF TypeOK, Replaced
<1>6. harm' \in SUBSET {"misplaced", "overwritten"}
  <2>1. HarmOf(t, p, k.from) \subseteq {"misplaced", "overwritten"}
      BY DEF HarmOf
  <2>2. QED BY <1>2, <2>1 DEF TypeOK, Replaced
<1>7. QED BY <1>2, <1>3, <1>4, <1>5, <1>6, TypeStays DEF TypeOK, Replaced

\* What Settle makes of the session of its tab.
Settled(k, c, s) ==
    IF c = "load" THEN StemOf(k.draft) ELSE [s EXCEPT !.revision = k.draft.revision]

LEMMA SettleStep ==
    ASSUME TypeOK, NEW t \in Tabs, NEW c \in Calls, Settle(t, c), NEW k, k = call[t][c]
    PROVE  /\ k \in Call /\ k # NoCall /\ k.at \in {"answered", "refused"}
           /\ Settled(k, c, session[t]) \in Stem
           /\ session' = [session EXCEPT ![t] = Settled(k, c, session[t])]
           /\ Advance(t, c, IF c = "save" \/ k.at = "refused" THEN NoCall
                            ELSE [k EXCEPT !.at = "arriving"])
           /\ UNCHANGED <<drafts, snapshots, page0, selected, box, harm, faults>>
<1>1. k \in Call /\ k # NoCall /\ k.at \in {"answered", "refused"}
    BY NoCallType DEF TypeOK, Settle
<1>2. k.draft \in Draft /\ session[t] \in Stem
    BY <1>1, CallFields DEF TypeOK
<1>3. Settled(k, c, session[t]) \in Stem
  <2>1. [session[t] EXCEPT !.revision = k.draft.revision] \in Stem
      BY <1>2 DEF Stem, Draft
  <2>2. QED BY <1>2, <2>1, StemType DEF Settled
<1>4. session' = [session EXCEPT ![t] = Settled(k, c, session[t])]
    BY DEF Settle, Settled, TypeOK
<1>5. Advance(t, c, IF c = "save" \/ k.at = "refused" THEN NoCall
                    ELSE [k EXCEPT !.at = "arriving"])
    BY DEF Settle
<1>6. QED BY <1>1, <1>3, <1>4, <1>5 DEF Settle, stores

LEMMA ServerKeepsType ==
    ASSUME TypeOK, NEW t \in Tabs, NEW c \in Calls, Server(t, c) \/ Fail(t, c)
    PROVE  TypeOK'
<1>1. PICK k \in Call : k = call[t][c]
    BY DEF TypeOK
<1>2. CASE Run(t, c)
  <2>1. k # NoCall /\ session[t] \in Stem
      BY <1>1, <1>2, NoCallType DEF Run, TypeOK
  <2>2. Advance(t, c, Started(k, c, session[t]))
      BY <1>1, <1>2 DEF Run, Started
  <2>3. QED BY <1>2, <2>1, <2>2, StartedType, OnlyCallChanges DEF Run, TypeOK
<1>3. CASE Replace(t, c)
    BY <1>3, ReplaceKeepsType
<1>4. CASE Keep(t, c)
  <2>1. k # NoCall /\ Advance(t, c, [k EXCEPT !.at = "answered"])
      BY <1>1, <1>4, NoCallType DEF Keep
  <2>2. [k EXCEPT !.at = "answered"] \in Call
      BY <2>1, CallFields, MovesType
  <2>3. QED BY <1>4, <2>1, <2>2, OnlyCallChanges DEF Keep, TypeOK
<1>5. CASE Refuse(t, c)
  <2>1. k # NoCall /\ Advance(t, c, [k EXCEPT !.at = "refused"])
      BY <1>1, <1>5, NoCallType DEF Refuse
  <2>2. [k EXCEPT !.at = "refused"] \in Call
      BY <2>1, CallFields, MovesType
  <2>3. QED BY <1>5, <2>1, <2>2, OnlyCallChanges DEF Refuse, TypeOK
<1>6. CASE Settle(t, c)
  <2>1. /\ k # NoCall /\ Settled(k, c, session[t]) \in Stem
        /\ session' = [session EXCEPT ![t] = Settled(k, c, session[t])]
        /\ Advance(t, c, IF c = "save" \/ k.at = "refused" THEN NoCall
                         ELSE [k EXCEPT !.at = "arriving"])
        /\ UNCHANGED <<drafts, snapshots, page0, selected, box, harm, faults>>
      BY <1>1, <1>6, SettleStep
  <2>2. (IF c = "save" \/ k.at = "refused" THEN NoCall
         ELSE [k EXCEPT !.at = "arriving"]) \in Call
    <3>1. [k EXCEPT !.at = "arriving"] \in Call
        BY <2>1, CallFields, MovesType
    <3>2. QED BY <3>1, NoCallType
  <2>3. call' \in [Tabs -> [Calls -> Call]]
      BY <2>1, <2>2, OneCallChanges
  <2>4. session' \in [Tabs -> Stem]
      BY <2>1 DEF TypeOK
  <2>5. QED BY <2>1, <2>3, <2>4, TypeStays DEF TypeOK
<1>7. CASE Arrive(t, c)
  <2>1. k # NoCall /\ Advance(t, c, NoCall) /\ box' = [box EXCEPT ![t] = k.draft]
      BY <1>1, <1>7, NoCallType DEF Arrive
  <2>2. call' \in [Tabs -> [Calls -> Call]]
      BY <2>1, NoCallType, OneCallChanges
  <2>3. box' \in [Tabs -> Draft]
      BY <2>1, CallFields DEF TypeOK
  <2>4. UNCHANGED <<drafts, snapshots, page0, session, selected, harm, faults>>
      BY <1>7 DEF Arrive, stores
  <2>5. QED BY <2>2, <2>3, <2>4, TypeStays DEF TypeOK
<1>8. CASE Fail(t, c)
  <2>1. faults' \in Nat
      BY <1>8 DEF Fail, TypeOK
  <2>2. QED BY <1>8, <2>1, NoCallType, OnlyCallChanges DEF Fail
<1>9. QED BY <1>2, <1>3, <1>4, <1>5, <1>6, <1>7, <1>8 DEF Server

\* What Load answers: the draft of the problem that was selected.
LEMMA LoadStep ==
    ASSUME TypeOK, NEW t \in Tabs, Load(t), NEW k, k = call[t]["load"]
    PROVE  /\ k \in Call /\ k # NoCall /\ k.at = "running"
           /\ k.draft.problem \in Problems /\ LoadDraft(k.draft.problem) \in Draft
           /\ Advance(t, "load", [k EXCEPT !.at = "answered", !.draft = LoadDraft(k.draft.problem)])
           /\ UNCHANGED <<drafts, snapshots, page0, session, selected, box, harm, faults>>
<1>1. k \in Call /\ k # NoCall /\ k.at = "running"
    BY NoCallType DEF TypeOK, Load, Calls
<1>2. k.draft.problem \in Problems
    BY <1>1, CallFields DEF Draft
<1>3. QED BY <1>1, <1>2, LoadDraftType DEF Load, stores

LEMMA PageKeepsType ==
    ASSUME TypeOK, NEW t \in Tabs, Load(t) \/ SnapshotGone(t) \/ Reload(t)
    PROVE  TypeOK'
<1>1. CASE Load(t)
  <2>1. PICK k : k = call[t]["load"]
      OBVIOUS
  <2>2. /\ k \in Call /\ k # NoCall /\ LoadDraft(k.draft.problem) \in Draft
        /\ Advance(t, "load", [k EXCEPT !.at = "answered", !.draft = LoadDraft(k.draft.problem)])
        /\ UNCHANGED <<drafts, snapshots, page0, session, selected, box, harm, faults>>
      BY <1>1, <2>1, LoadStep
  <2>3. call' \in [Tabs -> [Calls -> Call]]
      BY <2>2, MovesType, OneCallChanges, ZenonT(60) DEF Calls
  <2>4. QED BY <2>2, <2>3, TypeStays DEF TypeOK
<1>2. CASE SnapshotGone(t)
    BY <1>2, NoCallType, OnlyCallChanges DEF SnapshotGone, Calls, TypeOK
<1>3. CASE Reload(t)
  <2>1. page0 \in Draft /\ StemOf(page0) \in Stem /\ page0.problem \in Problems
      BY StemType DEF TypeOK, Draft
  <2>2. /\ session' \in [Tabs -> Stem] /\ selected' \in [Tabs -> Problems]
        /\ box' \in [Tabs -> Draft] /\ faults' \in Nat
      BY <1>3, <2>1 DEF Reload, TypeOK
  <2>3. UNCHANGED <<drafts, snapshots, page0, call, harm>>
      BY <1>3 DEF Reload, stores
  <2>4. QED BY <2>2, <2>3, TypeStays DEF TypeOK
<1>4. QED BY <1>1, <1>2, <1>3

LEMMA RestartKeepsType ==
    ASSUME TypeOK, NEW p \in Problems, Restart(p)
    PROVE  TypeOK'
<1>1. page0' = LoadDraft(p)
    BY DEF Restart
<1>2. page0' \in Draft /\ StemOf(page0') \in Stem
    BY <1>1, LoadDraftType, StemType
<1>3. /\ session' \in [Tabs -> Stem] /\ selected' \in [Tabs -> Problems]
      /\ box' \in [Tabs -> Draft] /\ faults' \in Nat
    BY <1>2 DEF Restart, TypeOK
<1>4. call' \in [Tabs -> [Calls -> Call]]
    BY NoCallType DEF Restart
<1>5. UNCHANGED <<drafts, snapshots, harm>>
    BY DEF Restart
<1>6. QED BY <1>2, <1>3, <1>4, <1>5, TypeStays DEF TypeOK

LEMMA TypeStep == TypeOK /\ [Next]_vars => TypeOK'
<1> SUFFICES ASSUME TypeOK, [Next]_vars PROVE TypeOK'
    OBVIOUS
<1>1. CASE UNCHANGED vars
    BY <1>1, TypeStays DEF vars, stores, TypeOK
<1>2. CASE Next
    BY <1>2, LearnerKeepsType, ServerKeepsType, PageKeepsType, RestartKeepsType DEF Next
<1>3. QED BY <1>1, <1>2

\* Every variable keeps its type, whether or not a learner waits.
THEOREM TypeCorrect == Spec => []TypeOK
BY TypeInit, TypeStep, PTL DEF Spec

-----------------------------------------------------------------------------
(* A learner who lets calls finish *)

Revisions == [p \in Problems |-> RevisionOf(p)]

\* r has reached the revision that d names.
Known(d, r) == d.revision <= r[d.problem]

\* What a call of a function is, in a tab whose session is s and whose box shows
\* the draft b: a write carries what the session expects, and that is what the
\* box shows, until the write is answered; then box and answer agree and the
\* session follows.
CallFits(c, k, s, b, r) ==
    k # NoCall =>
        /\ k.at \in {"queued", "running", "refused"} => s = b
        /\ k.at \in {"answered", "arriving"} => Known(k.draft, r)
        /\ k.at = "arriving" => s = StemOf(k.draft)
        /\ c = "load" => k.at # "refused"
        /\ c # "load" =>
            /\ k.at \in {"queued", "running"} => k.from = b
            /\ k.at \in {"running", "refused"} => StemOf(k.draft) = s
            /\ k.at \in {"answered", "arriving"} =>
                StemOf(k.draft) = b /\ s.problem = k.draft.problem

\* The calls ks of a tab: one at a time.
TabFits(ks, s, b, r) ==
    /\ Known(s, r) /\ Known(b, r)
    /\ (\A c \in Calls : ks[c] = NoCall) => s = StemOf(b)
    /\ \A c, d \in Calls : ks[c] # NoCall /\ ks[d] # NoCall => c = d
    /\ \A c \in Calls : CallFits(c, ks[c], s, StemOf(b), r)

PatientInv ==
    /\ harm = {}
    /\ Known(page0, Revisions)
    /\ \A t \in Tabs : TabFits(call[t], session[t], box[t], Revisions)

LEMMA RevisionsType ==
    ASSUME TypeOK
    PROVE  Revisions \in [Problems -> Nat]
BY RevisionType DEF Revisions

\* Known revisions stay known when drafts are written.
LEMMA KnownGrows ==
    ASSUME NEW r \in [Problems -> Nat], NEW q \in [Problems -> Nat],
           \A p \in Problems : r[p] <= q[p], NEW d, d.problem \in Problems,
           d.revision \in Nat, Known(d, r)
    PROVE  Known(d, q)
<1>1. PICK n \in Nat : n = d.revision
    OBVIOUS
<1>2. PICK p \in Problems : p = d.problem
    OBVIOUS
<1>3. n <= r[p] /\ r[p] <= q[p] /\ r[p] \in Nat /\ q[p] \in Nat
    BY <1>1, <1>2 DEF Known
<1>4. n <= q[p]
    BY <1>3
<1>5. QED BY <1>1, <1>2, <1>4 DEF Known

LEMMA TabGrows ==
    ASSUME NEW ks \in [Calls -> Call], NEW s \in Stem, NEW b \in Draft,
           NEW r \in [Problems -> Nat], NEW q \in [Problems -> Nat],
           \A p \in Problems : r[p] <= q[p], TabFits(ks, s, b, r)
    PROVE  TabFits(ks, s, b, q)
<1>1. Known(s, q) /\ Known(b, q)
  <2>1. s.problem \in Problems /\ s.revision \in Nat
      BY DEF Stem
  <2>2. b.problem \in Problems /\ b.revision \in Nat
      BY DEF Draft
  <2>3. QED BY <2>1, <2>2, KnownGrows DEF TabFits
<1>2. ASSUME NEW c \in Calls PROVE CallFits(c, ks[c], s, StemOf(b), q)
  <2>1. PICK k \in Call : k = ks[c]
      OBVIOUS
  <2>2. CallFits(c, k, s, StemOf(b), r)
      BY <2>1 DEF TabFits
  <2>3. CASE k = NoCall
      BY <2>1, <2>3 DEF CallFits
  <2>4. CASE k # NoCall
    <3>1. k.draft.problem \in Problems /\ k.draft.revision \in Nat
        BY <2>4, CallFields DEF Draft
    <3>2. Known(k.draft, r) => Known(k.draft, q)
        BY <3>1, KnownGrows
    <3>3. QED BY <2>1, <2>2, <3>2 DEF CallFits
  <2>5. QED BY <2>3, <2>4
<1>3. QED BY <1>1, <1>2 DEF TabFits

\* One call of a tab, which has no other, comes to its next step.
LEMMA TabMoves ==
    ASSUME NEW ks, NEW ls, NEW s, NEW b, NEW r, NEW c \in Calls, NEW k,
           \A d \in Calls : ls[d] = IF d = c THEN k ELSE ks[d],
           \A d \in Calls : d # c => ks[d] = NoCall,
           Known(s, r), Known(b, r), CallFits(c, k, s, StemOf(b), r),
           k = NoCall => s = StemOf(b)
    PROVE  TabFits(ls, s, b, r)
<1>1. \A d \in Calls : d # c => ls[d] = NoCall
    OBVIOUS
<1>2. (\A d \in Calls : ls[d] = NoCall) => s = StemOf(b)
    OBVIOUS
<1>3. \A d, e \in Calls : ls[d] # NoCall /\ ls[e] # NoCall => d = e
    BY <1>1
<1>4. ASSUME NEW d \in Calls PROVE CallFits(d, ls[d], s, StemOf(b), r)
  <2>1. CASE d = c
      BY <2>1
  <2>2. CASE d # c
      BY <1>1, <2>2 DEF CallFits
  <2>3. QED BY <2>1, <2>2
<1>5. QED BY <1>2, <1>3, <1>4 DEF TabFits

\* The same of the whole state: the other tabs stay.
LEMMA OneTabMoves ==
    ASSUME TypeOK, TypeOK', PatientInv, NEW t \in Tabs, NEW c \in Calls, NEW k \in Call,
           Advance(t, c, k), \A d \in Calls : d # c => call[t][d] = NoCall,
           \A u \in Tabs : u # t => session'[u] = session[u] /\ box'[u] = box[u],
           \A p \in Problems : Revisions[p] <= Revisions'[p],
           Known(session'[t], Revisions'), Known(box'[t], Revisions'),
           CallFits(c, k, session'[t], StemOf(box'[t]), Revisions'),
           k = NoCall => session'[t] = StemOf(box'[t]),
           harm' = {}, page0' = page0
    PROVE  PatientInv'
<1>1. Revisions \in [Problems -> Nat]
    BY RevisionsType
<1>2. Revisions' \in [Problems -> Nat]
  <2>1. drafts' \in [Problems -> Seq(Write)]
      BY DEF TypeOK
  <2>2. \A p \in Problems : Len(drafts'[p]) \in Nat
      BY <2>1, LenProperties
  <2>3. QED BY <2>2 DEF Revisions, RevisionOf
<1>3. /\ call' \in [Tabs -> [Calls -> Call]]
      /\ \A u \in Tabs, d \in Calls :
            call'[u][d] = IF u = t /\ d = c THEN k ELSE call[u][d]
    BY OneCallChanges
<1>4. TabFits(call'[t], session'[t], box'[t], Revisions')
    BY <1>3, TabMoves
<1>5. ASSUME NEW u \in Tabs, u # t
      PROVE  TabFits(call'[u], session'[u], box'[u], Revisions')
  <2>1. call'[u] = call[u]
      BY <1>3, <1>5 DEF TypeOK
  <2>2. call[u] \in [Calls -> Call] /\ session[u] \in Stem /\ box[u] \in Draft
      BY DEF TypeOK
  <2>3. TabFits(call[u], session[u], box[u], Revisions')
      BY <1>1, <1>2, <2>2, TabGrows DEF PatientInv
  <2>4. QED BY <1>5, <2>1, <2>3
<1>6. Known(page0', Revisions')
  <2>1. page0.problem \in Problems /\ page0.revision \in Nat
      BY DEF TypeOK, Draft
  <2>2. QED BY <1>1, <1>2, <2>1, KnownGrows DEF PatientInv
<1>7. \A u \in Tabs : TabFits(call'[u], session'[u], box'[u], Revisions')
    BY <1>4, <1>5
<1>8. QED BY <1>6, <1>7 DEF PatientInv

LEMMA PatientInit == Init => PatientInv
<1> SUFFICES ASSUME Init PROVE PatientInv
    OBVIOUS
<1>1. PICK p \in Problems : page0 = [problem |-> p, revision |-> 0, text |-> Blank]
    BY DEF Init
<1>2. drafts[p] = <<>> /\ page0.problem = p /\ page0.revision = 0
    BY <1>1 DEF Init
<1>3. Revisions[p] = 0
    BY <1>2 DEF Revisions, RevisionOf
<1>4. Known(page0, Revisions)
    BY <1>2, <1>3 DEF Known
<1>5. Known(StemOf(page0), Revisions)
    BY <1>2, <1>3 DEF Known, StemOf
<1>6. ASSUME NEW t \in Tabs PROVE TabFits(call[t], session[t], box[t], Revisions)
  <2>1. session[t] = StemOf(page0) /\ box[t] = page0
      BY DEF Init
  <2>2. \A c \in Calls : call[t][c] = NoCall
      BY DEF Init
  <2>3. \A c \in Calls : CallFits(c, call[t][c], session[t], StemOf(box[t]), Revisions)
      BY <2>2 DEF CallFits
  <2>4. QED BY <1>4, <1>5, <2>1, <2>2, <2>3 DEF TabFits
<1>7. QED BY <1>4, <1>6 DEF PatientInv, Init

\* What a quiet tab knows.
LEMMA QuietTab ==
    ASSUME PatientInv, NEW t \in Tabs, Quiet(t)
    PROVE  /\ session[t] = StemOf(box[t]) /\ \A c \in Calls : call[t][c] = NoCall
           /\ Known(session[t], Revisions) /\ Known(box[t], Revisions)
BY DEF PatientInv, TabFits, Quiet

\* What a tab knows while it waits for a call.
LEMMA BusyTab ==
    ASSUME PatientInv, NEW t \in Tabs, NEW c \in Calls, NEW k, k = call[t][c], k # NoCall
    PROVE  /\ CallFits(c, k, session[t], StemOf(box[t]), Revisions)
           /\ \A d \in Calls : d # c => call[t][d] = NoCall
           /\ Known(session[t], Revisions) /\ Known(box[t], Revisions)
<1>1. TabFits(call[t], session[t], box[t], Revisions)
    BY DEF PatientInv
<1>2. QED BY <1>1 DEF TabFits

\* When drafts do not change, a step of one call is enough.
LEMMA OneCallMoves ==
    ASSUME TypeOK, TypeOK', PatientInv, NEW t \in Tabs, NEW c \in Calls, NEW k \in Call,
           Advance(t, c, k), \A d \in Calls : d # c => call[t][d] = NoCall,
           UNCHANGED <<stores, session, box, harm>>,
           Known(session[t], Revisions), Known(box[t], Revisions),
           CallFits(c, k, session[t], StemOf(box[t]), Revisions),
           k = NoCall => session[t] = StemOf(box[t])
    PROVE  PatientInv'
<1>1. Revisions' = Revisions
    BY DEF stores, Revisions, RevisionOf
<1>2. \A p \in Problems : Revisions[p] <= Revisions'[p]
  <2>1. \A p \in Problems : Revisions[p] \in Nat
      BY RevisionsType
  <2>2. QED BY <1>1, <2>1
<1>3. page0' = page0 /\ session' = session /\ box' = box /\ harm' = {}
    BY DEF stores, PatientInv
<1>4. QED BY <1>1, <1>2, <1>3, OneTabMoves

\* A step that changes neither a revision nor a call.
LEMMA PagesStay ==
    ASSUME PatientInv, UNCHANGED <<drafts, page0, session, call, harm>>,
           \A t \in Tabs : /\ StemOf(box'[t]) = StemOf(box[t])
                           /\ box'[t].problem = box[t].problem
                           /\ box'[t].revision = box[t].revision
    PROVE  PatientInv'
<1>1. Revisions' = Revisions
    BY DEF Revisions, RevisionOf
<1>2. ASSUME NEW t \in Tabs PROVE TabFits(call'[t], session'[t], box'[t], Revisions')
  <2>1. TabFits(call[t], session[t], box[t], Revisions)
      BY DEF PatientInv
  <2>2. Known(box'[t], Revisions) = Known(box[t], Revisions)
      BY DEF Known
  <2>3. TabFits(call[t], session[t], box'[t], Revisions)
      BY <2>1, <2>2 DEF TabFits
  <2>4. QED BY <1>1, <2>3
<1>3. QED BY <1>1, <1>2 DEF PatientInv

LEMMA LearnerStaysPatient ==
    ASSUME Patient, TypeOK, TypeOK', PatientInv, NEW t \in Tabs, Learner(t)
    PROVE  PatientInv'
<1>1. ASSUME NEW x \in Texts, Type(t, x) PROVE PatientInv'
  <2>1. ASSUME NEW u \in Tabs
        PROVE  /\ StemOf(box'[u]) = StemOf(box[u])
               /\ box'[u].problem = box[u].problem /\ box'[u].revision = box[u].revision
    <3>1. box[u] \in Draft /\ box'[u] = IF u = t THEN [box[t] EXCEPT !.text = x] ELSE box[u]
        BY <1>1 DEF Type, TypeOK
    <3>2. QED BY <3>1 DEF Draft, StemOf
  <2>2. QED BY <1>1, <2>1, PagesStay DEF Type, stores
<1>2. ASSUME NEW c \in Calls, NEW k \in Call, Advance(t, c, k), k.at = "queued",
             k.from = StemOf(box[t]), Quiet(t), UNCHANGED <<stores, session, box, harm>>
      PROVE  PatientInv'
  <2>1. CallFits(c, k, session[t], StemOf(box[t]), Revisions)
      BY <1>2, QuietTab DEF CallFits
  <2>2. k # NoCall
      BY <1>2, NoCallType
  <2>3. QED BY <1>2, <2>1, <2>2, QuietTab, OneCallMoves
<1>3. CASE ClickSave(t)
  <2>1. PICK k : k = [at |-> "queued", draft |-> box[t], from |-> StemOf(box[t])]
      OBVIOUS
  <2>2. k \in Call /\ k.at = "queued" /\ k.from = StemOf(box[t])
      BY <2>1, StemType DEF TypeOK, Call
  <2>3. QED BY <1>2, <1>3, <2>1, <2>2 DEF ClickSave, MayAct, Calls
<1>4. ASSUME NEW x \in Sources, ClickApply(t, x) PROVE PatientInv'
  <2>1. PICK d : d = [problem |-> selected[t], revision |-> 0, text |-> x]
      OBVIOUS
  <2>2. d \in Draft
      BY <2>1 DEF TypeOK, Draft
  <2>3. PICK k : k = [at |-> "queued", draft |-> d, from |-> StemOf(box[t])]
      OBVIOUS
  <2>4. k \in Call /\ k.at = "queued" /\ k.from = StemOf(box[t])
      BY <2>2, <2>3, StemType DEF TypeOK, Call
  <2>5. QED BY <1>2, <1>4, <2>1, <2>3, <2>4 DEF ClickApply, MayAct, Calls
<1>5. ASSUME NEW p \in Problems, Navigate(t, p) PROVE PatientInv'
  <2>1. PICK d : d = [problem |-> p, revision |-> 0, text |-> Blank]
      OBVIOUS
  <2>2. d \in Draft
      BY <2>1, BlankType DEF Draft
  <2>3. PICK k : k = [at |-> "queued", draft |-> d, from |-> StemOf(box[t])]
      OBVIOUS
  <2>4. k \in Call /\ k.at = "queued" /\ k.from = StemOf(box[t])
      BY <2>2, <2>3, StemType DEF TypeOK, Call
  <2>5. QED BY <1>2, <1>5, <2>1, <2>3, <2>4 DEF Navigate, MayAct, Calls
<1>6. CASE RecordSnapshot(t) \/ \E x \in Sources : DeleteSnapshot(t, x)
    BY <1>6, PagesStay DEF RecordSnapshot, DeleteSnapshot
<1>7. QED BY <1>1, <1>3, <1>4, <1>5, <1>6 DEF Learner

LEMMA RunStaysPatient ==
    ASSUME TypeOK, TypeOK', PatientInv, NEW t \in Tabs, NEW c \in Calls, Run(t, c)
    PROVE  PatientInv'
<1>1. PICK k : k = call[t][c]
    OBVIOUS
<1>2. k \in Call /\ k # NoCall /\ k.at = "queued" /\ session[t] \in Stem
    BY <1>1, NoCallType DEF Run, TypeOK
<1>3. PICK n : n = Started(k, c, session[t])
    OBVIOUS
<1>4. /\ n \in Call /\ n.at = "running" /\ n.from = k.from
      /\ c # "load" => n.draft.problem = session[t].problem
      /\ c # "load" => n.draft.revision = session[t].revision
    BY <1>2, <1>3, StartedType
<1>5. n # NoCall
    BY <1>4, NoCallType
<1>6. Advance(t, c, n)
    BY <1>1, <1>3 DEF Run, Started
<1>7. /\ CallFits(c, k, session[t], StemOf(box[t]), Revisions)
      /\ \A d \in Calls : d # c => call[t][d] = NoCall
      /\ Known(session[t], Revisions) /\ Known(box[t], Revisions)
    BY <1>1, <1>2, BusyTab
<1>8. c # "load" => StemOf(n.draft) = session[t]
  <2>1. n.draft \in Draft
      BY <1>4, <1>5, CallFields
  <2>2. QED BY <1>2, <1>4, <2>1, StemType, StemsEqual
<1>9. CallFits(c, n, session[t], StemOf(box[t]), Revisions)
    BY <1>2, <1>4, <1>5, <1>7, <1>8 DEF CallFits
<1>10. UNCHANGED <<stores, session, box, harm>>
    BY DEF Run
<1>11. QED BY <1>4, <1>5, <1>6, <1>7, <1>9, <1>10, OneCallMoves

\* The text of a running write is of the page that its tab shows, and of its
\* last revision: the write harms nobody.
LEMMA ReplaceStaysPatient ==
    ASSUME TypeOK, TypeOK', PatientInv, NEW t \in Tabs, NEW c \in Calls, Replace(t, c)
    PROVE  PatientInv'
<1>1. PICK k : k = call[t][c]
    OBVIOUS
<1>2. PICK p \in Problems, d \in Draft, w \in Write : Replaced(t, c, k, p, d, w)
    BY <1>1, ReplaceStep
<1>3. PICK R : R = RevisionOf(p)
    OBVIOUS
<1>4. PICK s : s = session[t]
    OBVIOUS
<1>5. PICK b : b = box[t]
    OBVIOUS
<1>6. R \in Nat /\ drafts[p] \in Seq(Write) /\ s \in Stem /\ b \in Draft
    BY <1>3, <1>4, <1>5, RevisionType DEF TypeOK
<1>7. /\ k \in Call /\ k # NoCall /\ k.at = "running" /\ c # "load"
      /\ p = k.draft.problem /\ k.draft.revision = R
      /\ d.problem = p /\ d.revision = R + 1
    BY <1>2, <1>3 DEF Replaced
<1>8. k.draft \in Draft
    BY <1>7, CallFields
<1>9. /\ CallFits(c, k, s, StemOf(b), Revisions)
      /\ \A e \in Calls : e # c => call[t][e] = NoCall
      /\ Known(s, Revisions)
    BY <1>1, <1>4, <1>5, <1>7, BusyTab
<1>10. /\ s = StemOf(b) /\ k.from = s /\ StemOf(k.draft) = s
    BY <1>7, <1>9 DEF CallFits
<1>11. s.problem = p /\ s.revision = R /\ b.problem = p
    BY <1>6, <1>7, <1>8, <1>10, StemType
<1>12. HarmOf(t, p, k.from) = {}
  <2>1. k.from.problem = p /\ k.from.revision = R
      BY <1>10, <1>11
  <2>2. k.from.revision + 1 .. RevisionOf(p) = {}
      BY <1>3, <1>6, <2>1
  <2>3. QED BY <2>1, <2>2 DEF HarmOf
<1>13. PICK n : n = [b EXCEPT !.revision = R + 1]
    OBVIOUS
<1>14. n \in Draft /\ n.problem = p /\ n.revision = R + 1
    BY <1>6, <1>11, <1>13 DEF Draft
<1>15. box' = [box EXCEPT ![t] = n]
    BY <1>2, <1>3, <1>5, <1>11, <1>13 DEF Replaced
<1>16. box'[t] = n /\ \A u \in Tabs : u # t => box'[u] = box[u]
    BY <1>15 DEF TypeOK
<1>17. session' = session /\ page0' = page0 /\ harm' = {}
    BY <1>2, <1>12 DEF Replaced, PatientInv
<1>18. /\ Revisions'[p] = R + 1
       /\ \A q \in Problems : Revisions[q] <= Revisions'[q]
  <2>1. drafts' = [drafts EXCEPT ![p] = Append(@, w)]
      BY <1>2 DEF Replaced
  <2>2. Len(Append(drafts[p], w)) = R + 1
      BY <1>3, <1>6, AppendProperties DEF RevisionOf
  <2>3. \A q \in Problems : drafts'[q] = IF q = p THEN Append(drafts[p], w) ELSE drafts[q]
      BY <2>1 DEF TypeOK
  <2>4. \A q \in Problems : Len(drafts'[q]) = IF q = p THEN R + 1 ELSE Len(drafts[q])
      BY <2>2, <2>3
  <2>5. \A q \in Problems : Len(drafts[q]) \in Nat
      BY RevisionType DEF RevisionOf
  <2>6. Len(drafts[p]) = R
      BY <1>3 DEF RevisionOf
  <2>7. \A q \in Problems : Revisions[q] = Len(drafts[q]) /\ Revisions'[q] = Len(drafts'[q])
      BY DEF Revisions, RevisionOf
  <2>8. QED BY <1>6, <2>4, <2>5, <2>6, <2>7
<1>19. Known(s, Revisions') /\ Known(n, Revisions') /\ Known(d, Revisions')
    BY <1>6, <1>7, <1>11, <1>14, <1>18 DEF Known
<1>20. PICK m : m = [k EXCEPT !.at = "answered", !.draft = d]
    OBVIOUS
<1>21. m \in Call /\ m.at = "answered" /\ m.draft = d /\ m # NoCall
  <2>1. m \in Call /\ m.at = "answered" /\ m.draft = d
      BY <1>7, <1>20 DEF Call, NoCall
  <2>2. QED BY <2>1, NoCallType
<1>22. Advance(t, c, m)
    BY <1>2, <1>20 DEF Replaced
<1>23. StemOf(d) = StemOf(n)
    BY <1>7, <1>14 DEF StemOf
<1>24. CallFits(c, m, s, StemOf(n), Revisions')
    BY <1>7, <1>11, <1>19, <1>21, <1>23 DEF CallFits
<1>25. /\ session'[t] = s
       /\ \A u \in Tabs : u # t => session'[u] = session[u] /\ box'[u] = box[u]
    BY <1>4, <1>16, <1>17
<1>26. QED
    BY <1>9, <1>16, <1>17, <1>18, <1>19, <1>21, <1>22, <1>24, <1>25, OneTabMoves

LEMMA AnswerStaysPatient ==
    ASSUME TypeOK, TypeOK', PatientInv, NEW t \in Tabs, NEW c \in Calls,
           Keep(t, c) \/ Refuse(t, c)
    PROVE  PatientInv'
<1>1. PICK k : k = call[t][c]
    OBVIOUS
<1>2. k \in Call /\ k # NoCall /\ k.at = "running" /\ c # "load"
    BY <1>1, NoCallType DEF Keep, Refuse, TypeOK
<1>3. PICK to \in {"answered", "refused"} : Advance(t, c, [k EXCEPT !.at = to])
    BY <1>1 DEF Keep, Refuse
<1>4. PICK n : n = [k EXCEPT !.at = to]
    OBVIOUS
<1>5. k.draft \in Draft
    BY <1>2, CallFields
<1>6. n \in Call /\ n.at = to /\ n.draft = k.draft /\ n # NoCall
  <2>1. n \in Call /\ n.at = to /\ n.draft = k.draft
      BY <1>2, <1>4, <1>5 DEF Call, NoCall
  <2>2. QED BY <2>1, NoCallType
<1>7. /\ CallFits(c, k, session[t], StemOf(box[t]), Revisions)
      /\ \A d \in Calls : d # c => call[t][d] = NoCall
      /\ Known(session[t], Revisions) /\ Known(box[t], Revisions)
    BY <1>1, <1>2, BusyTab
<1>8. session[t] = StemOf(box[t]) /\ StemOf(k.draft) = session[t]
    BY <1>2, <1>7 DEF CallFits
<1>9. session[t].problem = k.draft.problem /\ session[t].revision = k.draft.revision
    BY <1>5, <1>8, StemType
<1>10. Known(k.draft, Revisions)
    BY <1>7, <1>9 DEF Known
<1>11. CallFits(c, n, session[t], StemOf(box[t]), Revisions)
    BY <1>2, <1>6, <1>8, <1>9, <1>10 DEF CallFits
<1>12. UNCHANGED <<stores, session, box, harm>>
    BY DEF Keep, Refuse
<1>13. QED BY <1>3, <1>4, <1>6, <1>7, <1>11, <1>12, OneCallMoves

\* The session follows the answer, and the box of a save shows it already.
LEMMA SettleStaysPatient ==
    ASSUME TypeOK, TypeOK', PatientInv, NEW t \in Tabs, NEW c \in Calls, Settle(t, c)
    PROVE  PatientInv'
<1>1. PICK k : k = call[t][c]
    OBVIOUS
<1>2. PICK s : s = session[t]
    OBVIOUS
<1>3. PICK z : z = Settled(k, c, s)
    OBVIOUS
<1>4. PICK n : n = IF c = "save" \/ k.at = "refused" THEN NoCall
                   ELSE [k EXCEPT !.at = "arriving"]
    OBVIOUS
<1>5. /\ k \in Call /\ k # NoCall /\ k.at \in {"answered", "refused"}
      /\ z \in Stem /\ session' = [session EXCEPT ![t] = z]
      /\ Advance(t, c, n)
      /\ UNCHANGED <<drafts, snapshots, page0, selected, box, harm, faults>>
    BY <1>1, <1>2, <1>3, <1>4, SettleStep
<1>6. k.draft \in Draft /\ s \in Stem
    BY <1>2, <1>5, CallFields DEF TypeOK
<1>7. /\ CallFits(c, k, s, StemOf(box[t]), Revisions)
      /\ \A d \in Calls : d # c => call[t][d] = NoCall
      /\ Known(s, Revisions) /\ Known(box[t], Revisions)
    BY <1>1, <1>2, <1>5, BusyTab
<1>8. s.problem = k.draft.problem \/ c = "load"
  <2>1. CASE c # "load" /\ k.at = "refused"
    <3>1. StemOf(k.draft) = s
        BY <1>7, <1>5, <2>1 DEF CallFits
    <3>2. QED BY <1>6, <3>1, StemType
  <2>2. CASE c # "load" /\ k.at = "answered"
      BY <1>7, <1>5, <2>2 DEF CallFits
  <2>3. QED BY <1>5, <2>1, <2>2
<1>9. z = StemOf(k.draft)
  <2>1. CASE c = "load"
      BY <1>3, <2>1 DEF Settled
  <2>2. CASE c # "load"
    <3>1. z = [s EXCEPT !.revision = k.draft.revision]
        BY <1>3, <2>2 DEF Settled
    <3>2. z.problem = k.draft.problem /\ z.revision = k.draft.revision
        BY <1>6, <1>8, <2>2, <3>1 DEF Stem
    <3>3. QED BY <1>5, <1>6, <3>2, StemType, StemsEqual
  <2>3. QED BY <2>1, <2>2
<1>10. c # "load" => z = StemOf(box[t])
    BY <1>5, <1>7, <1>9 DEF CallFits
<1>11. Known(z, Revisions)
  <2>1. CASE k.at = "answered"
    <3>1. Known(k.draft, Revisions)
        BY <1>5, <1>7, <2>1 DEF CallFits
    <3>2. z.problem = k.draft.problem /\ z.revision = k.draft.revision
        BY <1>6, <1>9, StemType
    <3>3. QED BY <3>1, <3>2 DEF Known
  <2>2. CASE k.at = "refused"
    <3>1. c # "load" /\ StemOf(k.draft) = s
        BY <1>5, <1>7, <2>2 DEF CallFits
    <3>2. QED BY <1>7, <1>9, <3>1
  <2>3. QED BY <1>5, <2>1, <2>2
<1>12. /\ session'[t] = z
       /\ \A u \in Tabs : u # t => session'[u] = session[u] /\ box'[u] = box[u]
       /\ box'[t] = box[t] /\ page0' = page0 /\ harm' = {}
    BY <1>5 DEF TypeOK, PatientInv
<1>13. Revisions' = Revisions /\ \A p \in Problems : Revisions[p] <= Revisions'[p]
  <2>1. Revisions' = Revisions
      BY <1>5 DEF Revisions, RevisionOf
  <2>2. \A p \in Problems : Revisions[p] \in Nat
      BY RevisionsType
  <2>3. QED BY <2>1, <2>2
<1>14. CASE c = "save" \/ k.at = "refused"
  <2>1. n = NoCall /\ c # "load"
      BY <1>4, <1>5, <1>7, <1>14 DEF CallFits
  <2>2. CallFits(c, n, z, StemOf(box[t]), Revisions)
      BY <2>1 DEF CallFits
  <2>3. QED
      BY <1>5, <1>7, <1>10, <1>11, <1>12, <1>13, <2>1, <2>2, NoCallType, OneTabMoves
<1>15. CASE ~(c = "save" \/ k.at = "refused")
  <2>1. n = [k EXCEPT !.at = "arriving"] /\ k.at = "answered"
      BY <1>4, <1>5, <1>15
  <2>2. n \in Call /\ n.at = "arriving" /\ n.draft = k.draft
      BY <1>5, <1>6, <2>1, MovesType
  <2>3. n # NoCall
      BY <2>2, NoCallType
  <2>4. CallFits(c, n, z, StemOf(box[t]), Revisions)
    <3>1. Known(k.draft, Revisions)
        BY <1>5, <1>7, <2>1 DEF CallFits
    <3>2. z.problem = k.draft.problem
        BY <1>6, <1>9, StemType
    <3>3. QED BY <1>9, <1>10, <2>2, <3>1, <3>2 DEF CallFits
  <2>5. QED BY <1>5, <1>7, <1>11, <1>12, <1>13, <2>2, <2>3, <2>4, OneTabMoves
<1>16. QED BY <1>14, <1>15

LEMMA ArriveStaysPatient ==
    ASSUME TypeOK, TypeOK', PatientInv, NEW t \in Tabs, NEW c \in Calls, Arrive(t, c)
    PROVE  PatientInv'
<1>1. PICK k : k = call[t][c]
    OBVIOUS
<1>2. k \in Call /\ k # NoCall /\ k.at = "arriving"
    BY <1>1, NoCallType DEF Arrive, TypeOK
<1>3. k.draft \in Draft
    BY <1>2, CallFields
<1>4. /\ CallFits(c, k, session[t], StemOf(box[t]), Revisions)
      /\ \A d \in Calls : d # c => call[t][d] = NoCall
      /\ Known(session[t], Revisions)
    BY <1>1, <1>2, BusyTab
<1>5. session[t] = StemOf(k.draft) /\ Known(k.draft, Revisions)
    BY <1>2, <1>4 DEF CallFits
<1>6. /\ box'[t] = k.draft /\ Advance(t, c, NoCall)
      /\ \A u \in Tabs : u # t => box'[u] = box[u]
    BY <1>1 DEF Arrive, TypeOK
<1>7. session' = session /\ page0' = page0 /\ harm' = {} /\ drafts' = drafts
    BY DEF Arrive, stores, PatientInv
<1>8. Revisions' = Revisions /\ \A p \in Problems : Revisions[p] <= Revisions'[p]
  <2>1. Revisions' = Revisions
      BY <1>7 DEF Revisions, RevisionOf
  <2>2. \A p \in Problems : Revisions[p] \in Nat
      BY RevisionsType
  <2>3. QED BY <2>1, <2>2
<1>9. CallFits(c, NoCall, session[t], StemOf(k.draft), Revisions)
    BY DEF CallFits
<1>10. QED BY <1>4, <1>5, <1>6, <1>7, <1>8, <1>9, NoCallType, OneTabMoves

\* A call that ends before it has an answer leaves the page as it was.
LEMMA EndStaysPatient ==
    ASSUME TypeOK, TypeOK', PatientInv, NEW t \in Tabs, NEW c \in Calls,
           call[t][c].at \in {"queued", "running"}, Advance(t, c, NoCall),
           UNCHANGED <<stores, session, box, harm>>
    PROVE  PatientInv'
<1>1. PICK k : k = call[t][c]
    OBVIOUS
<1>2. k # NoCall /\ k.at \in {"queued", "running"}
    BY <1>1, NoCallType
<1>3. /\ CallFits(c, k, session[t], StemOf(box[t]), Revisions)
      /\ \A d \in Calls : d # c => call[t][d] = NoCall
      /\ Known(session[t], Revisions) /\ Known(box[t], Revisions)
    BY <1>1, <1>2, BusyTab
<1>4. session[t] = StemOf(box[t])
    BY <1>2, <1>3 DEF CallFits
<1>5. CallFits(c, NoCall, session[t], StemOf(box[t]), Revisions)
    BY DEF CallFits
<1>6. QED BY <1>3, <1>4, <1>5, NoCallType, OneCallMoves

LEMMA LoadStaysPatient ==
    ASSUME TypeOK, TypeOK', PatientInv, NEW t \in Tabs, Load(t)
    PROVE  PatientInv'
<1>1. PICK c \in Calls : c = "load"
    BY DEF Calls
<1>2. PICK k : k = call[t][c]
    OBVIOUS
<1>3. PICK d : d = LoadDraft(k.draft.problem)
    OBVIOUS
<1>4. PICK n : n = [k EXCEPT !.at = "answered", !.draft = d]
    OBVIOUS
<1>5. /\ k \in Call /\ k # NoCall /\ k.at = "running" /\ k.draft.problem \in Problems
      /\ d \in Draft /\ Advance(t, c, n)
      /\ UNCHANGED <<drafts, snapshots, page0, session, selected, box, harm, faults>>
    BY <1>1, <1>2, <1>3, <1>4, LoadStep
<1>6. n \in Call /\ n.at = "answered" /\ n.draft = d
    BY <1>4, <1>5 DEF Call, NoCall
<1>7. n # NoCall
    BY <1>6, NoCallType
<1>8. Known(d, Revisions)
  <2>1. PICK p \in Problems : p = k.draft.problem
      BY <1>5
  <2>2. d.problem = p /\ d.revision = RevisionOf(p) /\ RevisionOf(p) \in Nat
      BY <1>3, <2>1, LoadDraftType, RevisionType
  <2>3. QED BY <2>2 DEF Known, Revisions
<1>9. /\ \A e \in Calls : e # c => call[t][e] = NoCall
      /\ Known(session[t], Revisions) /\ Known(box[t], Revisions)
    BY <1>2, <1>5, BusyTab
<1>10. CallFits(c, n, session[t], StemOf(box[t]), Revisions)
    BY <1>1, <1>6, <1>8 DEF CallFits
<1>11. UNCHANGED <<stores, session, box, harm>>
    BY <1>5 DEF stores
<1>12. QED BY <1>5, <1>6, <1>7, <1>9, <1>10, <1>11, OneCallMoves

LEMMA ReloadStaysPatient ==
    ASSUME TypeOK, PatientInv, NEW t \in Tabs, Reload(t)
    PROVE  PatientInv'
<1>1. Revisions' = Revisions /\ call' = call /\ harm' = {} /\ page0' = page0
    BY DEF Reload, stores, Revisions, RevisionOf, PatientInv
<1>2. ASSUME NEW u \in Tabs PROVE TabFits(call[u], session'[u], box'[u], Revisions)
  <2>1. CASE u = t
    <3>1. session'[u] = StemOf(page0) /\ box'[u] = page0
        BY <2>1 DEF Reload, TypeOK
    <3>2. \A c \in Calls : call[u][c] = NoCall
        BY <2>1 DEF Reload, Quiet
    <3>3. Known(page0, Revisions)
        BY DEF PatientInv
    <3>4. Known(StemOf(page0), Revisions)
        BY <3>3 DEF Known, StemOf
    <3>5. \A c \in Calls : CallFits(c, call[u][c], session'[u], StemOf(box'[u]), Revisions)
        BY <3>2 DEF CallFits
    <3>6. QED BY <3>1, <3>2, <3>3, <3>4, <3>5 DEF TabFits
  <2>2. CASE u # t
    <3>1. session'[u] = session[u] /\ box'[u] = box[u]
        BY <2>2 DEF Reload, TypeOK
    <3>2. QED BY <3>1 DEF PatientInv
  <2>3. QED BY <2>1, <2>2
<1>3. QED BY <1>1, <1>2 DEF PatientInv

LEMMA RestartStaysPatient ==
    ASSUME TypeOK, PatientInv, NEW p \in Problems, Restart(p)
    PROVE  PatientInv'
<1>1. PICK d : d = LoadDraft(p)
    OBVIOUS
<1>2. d \in Draft /\ d.problem = p /\ d.revision = RevisionOf(p) /\ RevisionOf(p) \in Nat
    BY <1>1, LoadDraftType, RevisionType
<1>3. Known(d, Revisions) /\ Known(StemOf(d), Revisions)
    BY <1>2 DEF Known, Revisions, StemOf
<1>4. Revisions' = Revisions /\ harm' = {} /\ page0' = d
    BY <1>1 DEF Restart, Revisions, RevisionOf, PatientInv
<1>5. ASSUME NEW t \in Tabs PROVE TabFits(call'[t], session'[t], box'[t], Revisions)
  <2>1. session'[t] = StemOf(d) /\ box'[t] = d
      BY <1>4 DEF Restart
  <2>2. \A c \in Calls : call'[t][c] = NoCall
      BY DEF Restart
  <2>3. \A c \in Calls : CallFits(c, call'[t][c], session'[t], StemOf(box'[t]), Revisions)
      BY <2>2 DEF CallFits
  <2>4. QED BY <1>3, <2>1, <2>2, <2>3 DEF TabFits
<1>6. QED BY <1>3, <1>4, <1>5 DEF PatientInv

LEMMA PatientStep ==
    ASSUME Patient
    PROVE  TypeOK /\ TypeOK' /\ PatientInv /\ [Next]_vars => PatientInv'
<1> SUFFICES ASSUME TypeOK, TypeOK', PatientInv, [Next]_vars PROVE PatientInv'
    OBVIOUS
<1>1. CASE UNCHANGED vars
    BY <1>1, PagesStay DEF vars, stores
<1>2. ASSUME NEW t \in Tabs, Learner(t) \/ Load(t) \/ SnapshotGone(t) \/ Reload(t)
      PROVE  PatientInv'
  <2>1. CASE SnapshotGone(t)
      BY <2>1, EndStaysPatient DEF SnapshotGone, Calls
  <2>2. QED BY <1>2, <2>1, LearnerStaysPatient, LoadStaysPatient, ReloadStaysPatient
<1>3. ASSUME NEW t \in Tabs, NEW c \in Calls, Server(t, c) \/ Fail(t, c)
      PROVE  PatientInv'
  <2>1. CASE Fail(t, c)
      BY <2>1, EndStaysPatient DEF Fail
  <2>2. QED BY <1>3, <2>1, RunStaysPatient, ReplaceStaysPatient, AnswerStaysPatient,
               SettleStaysPatient, ArriveStaysPatient DEF Server
<1>4. QED BY <1>1, <1>2, <1>3, RestartStaysPatient DEF Next

LEMMA PatientReachable ==
    ASSUME Patient
    PROVE  Spec => [](TypeOK /\ PatientInv)
BY TypeInit, TypeStep, PatientInit, PatientStep, PTL DEF Spec

\* If learners let calls finish, a draft is only ever replaced by a text of a page
\* of the same problem (the editor_problem_id of save_draft_ui).
THEOREM PatientlyPlaced ==
    ASSUME Patient
    PROVE  Spec => []NeverMisplaced
<1>1. PatientInv => NeverMisplaced
    BY DEF PatientInv, NeverMisplaced
<1>2. QED BY <1>1, PatientReachable, PTL

\* If learners let calls finish, no write replaces another tab's write that its
\* own page has not shown (save_draft with the expected revision).
THEOREM NothingIsOverwritten ==
    ASSUME Patient
    PROVE  Spec => []NeverOverwritten
<1>1. PatientInv => NeverOverwritten
    BY DEF PatientInv, NeverOverwritten
<1>2. QED BY <1>1, PatientReachable, PTL

\* Between calls, the session of a page expects the draft that the page shows,
\* and no revision that the store has not reached (the gr.State of
\* load_editor_workspace, save_draft_ui and apply_code_history_ui).
THEOREM QuietTabsAgree ==
    ASSUME Patient
    PROVE  Spec => []QuietTabKnowsItsDraft
<1>1. TypeOK /\ PatientInv => QuietTabKnowsItsDraft
  <2> SUFFICES ASSUME TypeOK, PatientInv, NEW t \in Tabs, Quiet(t)
               PROVE  /\ session[t] = StemOf(box[t])
                      /\ box[t].revision <= RevisionOf(box[t].problem)
      BY DEF QuietTabKnowsItsDraft
  <2>1. session[t] = StemOf(box[t]) /\ Known(box[t], Revisions)
      BY QuietTab
  <2>2. box[t].problem \in Problems
      BY DEF TypeOK, Draft
  <2>3. QED BY <2>1, <2>2 DEF Known, Revisions
<1>2. QED BY <1>1, PatientReachable, PTL

=============================================================================
