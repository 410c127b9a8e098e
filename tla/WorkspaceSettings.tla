------------------------- MODULE WorkspaceSettings -------------------------
(***************************************************************************)
(* The Configure page of one Workspace and the routes it writes through.   *)
(*                                                                         *)
(* The Workspace document carries a revision.  Every write names the       *)
(* revision it was made from, is refused when the document has moved       *)
(* (409, with the document in the answer), and otherwise does its work on  *)
(* disk and then saves the document, all under the config lock.            *)
(*                                                                         *)
(* The page (web, pages/configure) keeps three drafts over one document:   *)
(* the General form, the sources and the text of a Skill file.  Its        *)
(* requests overlap; an answer of one section changes what the others send.*)
(***************************************************************************)
EXTENDS Integers, FiniteSets, Sequences, TLC

CONSTANTS
    Settings0,      \* the settings on disk when the page is opened
    TypedValues,    \* the (field, value) pairs an operator types
    SourceIds,      \* the sources that may be registered
    SourceKinds,    \* which source requests are made
    SkillKinds,     \* which Skill requests are made
    InOrder,        \* documents reach the page in the order they were answered
    MaxRequests,    \* bound: requests the page sends
    MaxEdits,       \* bound: values and texts typed
    MaxElsewhere,   \* bound: writes of another client
    MaxFailures     \* bound: failed saves, lost provider reads, crashes

VARIABLES
    server,     \* the document on disk: revision, settings, sources, selector
    disk,       \* what the writes leave beside it: the fork's text, the clones
    working,    \* the request that holds the config lock, or Nobody
    requests,   \* what each section of the page has in flight
    order,      \* the answers with a document that are under way (InOrder)
    page,       \* the state of the page's hooks
    budget      \* what the bounds leave

vars == <<server, disk, working, requests, order, page, budget>>

FormFields == {"name", "contextTargetTokens", "planRescoutMaxRounds",
               "maxSourcesPerRun", "planner"}
Fields == FormFields \cup {"maxPlanScoutConcurrency"}

Unset == 0              \* an optional field that is not there, a blank input
Absent == -1            \* a key the body of a PATCH does not have
DefaultRounds == 1
DefaultScoutConcurrency == 4
FormMaxSources == 16

NoText == 0             \* no fork, nothing read yet
BundledText == 1        \* the text of the bundled Skill
Texts == 1..(2 + MaxEdits + MaxElsewhere)

Nobody == "nobody"
Sections == {"save", "source", "skill", "mount"}
Idle == [kind |-> "none"]

Least(a, b) == IF a < b THEN a ELSE b
Most(a, b) == IF a > b THEN a ELSE b

----------------------------------------------------------------------------
\* The General form: from the document to inputs, to a body, to the document.

\* applyWorkspace: every input is filled from the document.
FormOf(settings) == [f \in FormFields |-> settings[f]]

\* handleSubmit: a blank context target is left out, numbers are forced into
\* the form's ranges, a role needs the catalogue to name its model, and the
\* keys of orchestration the form does not have get the schema's defaults.
BodyOf(form, catalog) ==
    [f \in Fields |->
        CASE f = "contextTargetTokens" -> IF form[f] = Unset THEN Absent ELSE form[f]
          [] f = "planRescoutMaxRounds" -> IF form[f] = 0 THEN DefaultRounds ELSE Least(4, form[f])
          [] f = "maxSourcesPerRun" -> Least(FormMaxSources, Most(1, form[f]))
          [] f = "planner" -> IF catalog THEN form[f] ELSE Unset
          [] f = "maxPlanScoutConcurrency" -> DefaultScoutConcurrency
          [] OTHER -> form[f]]

\* applyWorkspacePatch: limits are merged over the stored ones, orchestration
\* and roleModels are replaced whole.
ApplyWorkspacePatch(settings, body) ==
    [f \in Fields |-> IF body[f] = Absent THEN settings[f] ELSE body[f]]

Dirty(p) == p.baseline # p.form

\* GeneralSection: the button is there once the page is loaded.
CanSave == Dirty(page) /\ ~page.loading /\ requests["save"] = Idle

----------------------------------------------------------------------------
\* The Skill: a selector in the document, a fork on disk.

\* resolveSkillSource: a selector that names no Skill is an error; a project
\* fork is taken even when no selector names it; else home or package.
ResolveSkillSource ==
    CASE server.selector /\ disk.fork = NoText -> "error"
      [] disk.fork # NoText -> "fork"
      [] OTHER -> "bundled"

\* getSkillInfo and the routes that only read.
SkillShown == IF ResolveSkillSource = "error" THEN "none" ELSE ResolveSkillSource

----------------------------------------------------------------------------
\* The server.

\* Mutant: the revision is not compared.
NeverStale(r) == FALSE

\* withWorkspaceRevision.
Stale(r) == r.expected # server.revision

\* What the mutation callback does on disk before the document is written,
\* and the document it proposes; Refused when it throws first.
Refused == [ok |-> FALSE]
Done(d, s) == [ok |-> TRUE, disk |-> d, doc |-> s]

HandlePatch(r) ==
    Done(disk, [server EXCEPT !.settings = ApplyWorkspacePatch(@, r.body)])

AddSource(s) == [server EXCEPT !.sources = @ \cup {s}]
RemoveSource(s) == [server EXCEPT !.sources = @ \ {s}]
CloneIntoWorkspace(s) == [disk EXCEPT !.clones = @ \cup {s}]
CreateSkillFork == [disk EXCEPT !.fork = BundledText]
WriteSkillFile(text) == [disk EXCEPT !.fork = text]

\* A path registered twice is refused.
HandleAddSource(r) ==
    IF r.source \in server.sources THEN Refused ELSE Done(disk, AddSource(r.source))

\* A destination that exists is refused.
HandleCloneSource(r) ==
    IF r.source \in server.sources \cup disk.clones THEN Refused
    ELSE Done(CloneIntoWorkspace(r.source), AddSource(r.source))

\* A clone's directory is left where it is.
HandleDeleteSource(r) ==
    IF r.source \notin server.sources THEN Refused ELSE Done(disk, RemoveSource(r.source))

\* The ignore patterns of a source are not part of the model.
HandleUpdateSource(r) ==
    IF r.source \notin server.sources THEN Refused ELSE Done(disk, server)

\* The bundled Skill is copied over whatever the fork holds.
HandleCreateSkillFork(r) == Done(CreateSkillFork, [server EXCEPT !.selector = TRUE])

\* The fork is removed before the selector is reset.
HandleResetSkill(r) == Done([disk EXCEPT !.fork = NoText], [server EXCEPT !.selector = FALSE])

\* writeWorkspaceSkillFile: only the fork the selector names is written.
HandleWriteSkillFile(r) ==
    IF ~server.selector THEN Refused ELSE Done(WriteSkillFile(r.text), server)

Handle(r) ==
    CASE r.kind = "patch" -> HandlePatch(r)
      [] r.kind = "add" -> HandleAddSource(r)
      [] r.kind = "clone" -> HandleCloneSource(r)
      [] r.kind = "remove" -> HandleDeleteSource(r)
      [] r.kind = "ignores" -> HandleUpdateSource(r)
      [] r.kind = "fork" -> HandleCreateSkillFork(r)
      [] r.kind = "reset" -> HandleResetSkill(r)
      [] r.kind = "write" -> HandleWriteSkillFile(r)

Writes == {"patch", "add", "clone", "remove", "ignores", "fork", "reset", "write"}
Reads == {"info", "file", "load"}

Answered(k, answer) ==
    /\ requests' = [requests EXCEPT ![k] = [@ EXCEPT !.answer = answer]]
    /\ order' = IF InOrder /\ answer.how \in {"saved", "stale"} THEN Append(order, k) ELSE order
Conflict == [how |-> "stale", ws |-> server]
Failed == [how |-> "failed"]
Waiting(k) == requests[k] # Idle /\ requests[k].answer = Idle

\* mutateWorkspace: the lock, the revision, the callback's effects on disk.
Enter(k) ==
    /\ working = Nobody
    /\ Waiting(k) /\ requests[k].kind \in Writes
    /\ LET r == requests[k]
           done == Handle(r)
       IN IF Stale(r)
          THEN Answered(k, Conflict) /\ UNCHANGED <<disk, working>>
          ELSE IF ~done.ok
          THEN Answered(k, Failed) /\ UNCHANGED <<disk, working>>
          ELSE disk' = done.disk /\ working' = k
               /\ requests' = [requests EXCEPT ![k] = [@ EXCEPT !.doc = done.doc]]
               /\ UNCHANGED order
    /\ UNCHANGED <<server, page, budget>>

\* writeWorkspaceAtRoot: the proposed document with the next revision.
Commit(k) ==
    /\ working = k
    /\ server' = [requests[k].doc EXCEPT !.revision = server.revision + 1]
    /\ working' = Nobody
    /\ Answered(k, [how |-> "saved", ws |-> server'])
    /\ UNCHANGED <<disk, page, budget>>

\* The save of the document fails: what the callback did on disk stays.
CommitFails(k) ==
    /\ working = k
    /\ budget.failures > 0
    /\ budget' = [budget EXCEPT !.failures = @ - 1]
    /\ working' = Nobody
    /\ Answered(k, Failed)
    /\ UNCHANGED <<server, disk, page>>

\* The server dies and is started again: the page's requests fail.
Crash ==
    /\ budget.failures > 0
    /\ budget' = [budget EXCEPT !.failures = @ - 1]
    /\ working' = Nobody
    /\ requests' = [k \in Sections |->
                      IF Waiting(k) THEN [requests[k] EXCEPT !.answer = Failed] ELSE requests[k]]
    /\ UNCHANGED <<server, disk, order, page>>

\* A read is answered from what is there.
Serve(k) ==
    /\ Waiting(k) /\ requests[k].kind \in Reads
    /\ LET kind == requests[k].kind
       IN Answered(k, IF \/ kind = "info" /\ ResolveSkillSource = "error"
                         \/ kind # "info" /\ disk.fork = NoText
                      THEN Failed
                      ELSE [how |-> "read", skill |-> SkillShown, text |-> disk.fork])
    /\ UNCHANGED <<server, disk, working, page, budget>>

\* Another client writes with the current revision: a setting or the fork.
Elsewhere ==
    /\ working = Nobody
    /\ budget.elsewhere > 0
    /\ \/ \E c \in TypedValues :
            /\ server.settings[c[1]] # c[2]
            /\ server' = [server EXCEPT !.revision = @ + 1, !.settings[c[1]] = c[2]]
            /\ disk' = disk
       \/ /\ server.selector /\ disk.fork # NoText
          /\ server' = [server EXCEPT !.revision = @ + 1]
          /\ disk' = [disk EXCEPT !.fork = budget.text]
    /\ budget' = [budget EXCEPT !.elsewhere = @ - 1, !.text = @ + 1]
    /\ UNCHANGED <<working, requests, order, page>>

----------------------------------------------------------------------------
\* The page.

\* The effect of useWorkspaceGeneralForm on a new document: a marked local
\* change cancels a pending load and starts none, any other one loads again.
Changed(p, ws) ==
    IF p.skip
    THEN [p EXCEPT !.ws = ws, !.skip = FALSE, !.hydrating = FALSE]
    ELSE [p EXCEPT !.ws = ws, !.hydrating = TRUE, !.loading = TRUE]

SkipNextWorkspaceHydrate(p) == [p EXCEPT !.skip = TRUE]

\* applyWorkspace: the inputs and the baseline are set from the document.
ApplyWorkspace(p, ws) ==
    [Changed(p, ws) EXCEPT !.form = FormOf(ws.settings), !.baseline = FormOf(ws.settings)]

\* getProvider answers, or fails and leaves the catalogue empty.
Hydrate(ok) ==
    /\ page.hydrating
    /\ ok \/ budget.failures > 0
    /\ page' = [page EXCEPT !.catalog = ok, !.hydrating = FALSE, !.loading = FALSE,
                            !.form = FormOf(page.ws.settings),
                            !.baseline = FormOf(page.ws.settings)]
    /\ budget' = IF ok THEN budget ELSE [budget EXCEPT !.failures = @ - 1]
    /\ UNCHANGED <<server, disk, working, requests, order>>

\* A value is typed; nothing is disabled while a save is under way.
SetField(c) ==
    /\ ~page.loading /\ budget.edits > 0
    /\ page.form[c[1]] # c[2]
    /\ page' = [page EXCEPT !.form[c[1]] = c[2]]
    /\ budget' = [budget EXCEPT !.edits = @ - 1]
    /\ UNCHANGED <<server, disk, working, requests, order>>

\* The text of the Skill file is typed.
SetText ==
    /\ page.skill = "fork" /\ ~page.loading /\ budget.edits > 0
    /\ page' = [page EXCEPT !.text = budget.text, !.textDirty = TRUE]
    /\ budget' = [budget EXCEPT !.edits = @ - 1, !.text = @ + 1]
    /\ UNCHANGED <<server, disk, working, requests, order>>

Ask(k, r) ==
    /\ requests[k] = Idle /\ budget.requests > 0
    /\ budget' = [budget EXCEPT !.requests = @ - 1]
    /\ requests' = [requests EXCEPT ![k] = r]
    /\ UNCHANGED <<server, disk, working, order, page>>

Write(kind) == [kind |-> kind, expected |-> page.ws.revision, answer |-> Idle, doc |-> Idle,
                shown |-> page.baseline, sent |-> page.form]

\* handleSubmit: the body and the revision are of the page as it is now.
HandleSubmit ==
    /\ CanSave
    /\ Ask("save", Write("patch") @@ [body |-> BodyOf(page.form, page.catalog)])

\* handleAdd, handleClone, handleDeleteConfirm, handleSaveIgnores.
HandleSources ==
    \E s \in SourceIds, kind \in SourceKinds :
        /\ kind \in {"remove", "ignores"} => s \in page.ws.sources
        /\ Ask("source", Write(kind) @@ [source |-> s])

\* The four buttons of SkillSection.
HandleSkill(kind) ==
    /\ ~page.loading
    /\ kind # "fork" => page.skill = "fork"
    /\ kind = "write" => page.textDirty
    /\ Ask("skill", Write(kind) @@ [text |-> page.text, read |-> page.textRead])

\* A document in a 409 replaces the page's; the Skill's text stays.
OnConflict(k, ws) ==
    page' = IF k = "source" THEN Changed(page, ws) ELSE ApplyWorkspace(page, ws)

OnSaved(k, r, ws) ==
    LET p == SkipNextWorkspaceHydrate(page)
    IN page' = CASE k = "save" -> ApplyWorkspace(p, ws)
                 [] r.kind = "fork" -> [Changed(p, ws) EXCEPT !.skill = "fork"]
                 [] r.kind = "reset" -> [Changed(p, ws) EXCEPT !.skill = "bundled", !.text = NoText,
                                                               !.textDirty = FALSE]
                 [] r.kind = "write" -> [Changed(p, ws) EXCEPT !.skill = "fork", !.textDirty = FALSE,
                                                               !.textRead = r.text]
                 [] OTHER -> Changed(p, ws)

\* loadSkill and the reads of SkillSection: a fork's text is read after it.
OnRead(r) ==
    page' = IF r.kind = "info" THEN [page EXCEPT !.skill = r.answer.skill]
            ELSE [page EXCEPT !.text = r.answer.text, !.textRead = r.answer.text,
                              !.textDirty = FALSE]

\* What follows an answer: a fork's SKILL.md is read.
Follows(r) ==
    \/ r.kind = "fork" /\ r.answer.how = "saved"
    \/ r.kind = "info" /\ r.answer.how = "read" /\ r.answer.skill = "fork"

\* The answer of one request reaches the page.
Answer(k) ==
    /\ requests[k] # Idle /\ requests[k].answer # Idle
    /\ k \in {order[i] : i \in DOMAIN order} => k = Head(order)
    /\ order' = IF order # <<>> /\ k = Head(order) THEN Tail(order) ELSE order
    /\ LET r == requests[k]
       IN /\ CASE r.answer.how = "saved" -> OnSaved(k, r, r.answer.ws)
               [] r.answer.how = "stale" -> OnConflict(k, r.answer.ws)
               [] r.answer.how = "read" -> OnRead(r)
               [] OTHER -> page' = IF r.kind = "info" THEN [page EXCEPT !.skill = "none"] ELSE page
          /\ requests' = [requests EXCEPT ![k] =
                             IF Follows(r) THEN [kind |-> "file", answer |-> Idle] ELSE Idle]
    /\ UNCHANGED <<server, disk, working, budget>>

----------------------------------------------------------------------------
Init ==
    /\ server = [revision |-> 0, settings |-> Settings0, sources |-> {}, selector |-> FALSE]
    /\ disk = [fork |-> NoText, clones |-> {}]
    /\ working = Nobody
    /\ order = <<>>
    \* loadSkill runs when the page is mounted.
    /\ requests = [k \in Sections |-> IF k = "mount" THEN [kind |-> "info", answer |-> Idle] ELSE Idle]
    \* The page has the document and waits for the catalogue.
    /\ page = [ws |-> server, form |-> FormOf([f \in Fields |-> Unset]),
               baseline |-> FormOf([f \in Fields |-> Unset]),
               loading |-> TRUE, hydrating |-> TRUE, skip |-> FALSE, catalog |-> FALSE,
               skill |-> "none", text |-> NoText, textDirty |-> FALSE, textRead |-> NoText]
    /\ budget = [requests |-> MaxRequests, edits |-> MaxEdits, elsewhere |-> MaxElsewhere,
                 failures |-> MaxFailures, text |-> 2]

Proceed ==
    \/ \E k \in Sections : Enter(k) \/ Commit(k) \/ Serve(k) \/ Answer(k)
    \/ Hydrate(TRUE)

Next ==
    \/ Proceed
    \/ \E k \in Sections : CommitFails(k)
    \/ Crash
    \/ Hydrate(FALSE)
    \/ Elsewhere
    \/ \E c \in TypedValues : SetField(c)
    \/ SetText
    \/ HandleSubmit
    \/ HandleSources
    \/ \E kind \in SkillKinds : HandleSkill(kind)

Spec == Init /\ [][Next]_vars /\ WF_vars(Proceed)

----------------------------------------------------------------------------
TypeOK ==
    /\ server.revision \in 0..(MaxRequests + MaxElsewhere)
    /\ DOMAIN server.settings = Fields /\ server.sources \subseteq SourceIds
    /\ disk.fork \in Texts \cup {NoText} /\ disk.clones \subseteq SourceIds
    /\ working \in Sections \cup {Nobody}
    /\ DOMAIN page.form = FormFields /\ page.skill \in {"none", "bundled", "fork"}

SaveCommits == working = "save" /\ server'.revision # server.revision

\* A save of the form that is accepted overwrites nothing but what the form
\* was filled from, whatever sources and Skill requests and other clients'
\* writes were answered in between (mutateWorkspace, core/workspace-config.ts).
OverwritesWhatWasShown == SaveCommits => requests["save"].shown = FormOf(server.settings)
NoLostUpdate == [][OverwritesWhatWasShown]_vars

\* A page that is loaded, has nothing typed and knows the current revision
\* shows the document on disk (useWorkspaceGeneralForm's skip mark and loads).
ShownIsSaved ==
    ~page.loading /\ ~Dirty(page) /\ page.ws.revision = server.revision /\ working = Nobody
        => page.form = FormOf(server.settings)

\* What is typed is what an accepted save stores (handleSubmit, applyWorkspacePatch).
SavesWhatIsTyped ==
    SaveCommits => \A f \in FormFields :
        requests["save"].sent[f] # requests["save"].shown[f]
            => server'.settings[f] = requests["save"].sent[f]
TypedIsSaved == [][SavesWhatIsTyped]_vars

\* A save leaves a setting nobody touched as it is (GeneralSection, applyWorkspacePatch).
SavesNothingElse ==
    SaveCommits => \A f \in Fields :
        f \notin FormFields \/ requests["save"].sent[f] = requests["save"].shown[f]
            => server'.settings[f] = server.settings[f]
UntouchedIsKept == [][SavesNothingElse]_vars

\* A change made in another section of the page neither replaces the form's
\* draft nor puts the form away to load it again (skipNextWorkspaceHydrate).
KeepsTheDraft ==
    \A k \in {"source", "skill"} :
        requests[k] # Idle /\ requests[k].answer # Idle /\ requests'[k] # requests[k]
        /\ requests[k].answer.how = "saved"
            => page'.form = page.form /\ page'.loading = page.loading
OwnChangeKeepsDraft == [][KeepsTheDraft]_vars

\* A selector in the document names a Skill that is there (handleResetSkill).
SelectorResolves == working = Nobody => ResolveSkillSource # "error"

\* A save of the Skill's text replaces only the text the page has read.
SkillEditKeepsOthers ==
    [][working = Nobody /\ working' = "skill" /\ requests["skill"].kind = "write"
          => disk.fork = requests["skill"].read]_vars

\* Text that is not saved is marked, so that it can be saved (SkillSection).
UnsavedTextIsMarked == page.text # page.textRead => page.textDirty

\* A clone that was not registered can be tried again (cloneIntoWorkspace).
CloneCanBeRetried == working = Nobody => disk.clones \subseteq server.sources

\* The form is always shown again (the load effect of useWorkspaceGeneralForm).
LoadingEnds == page.loading ~> ~page.loading

\* Every request of the page is answered in the end.
AllAnswered == \A k \in Sections : requests[k] = Idle
Settles == []<>AllAnswered

=============================================================================
