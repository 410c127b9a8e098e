----------------------------- MODULE ProviderCatalog -----------------------------
(* The catalogue of model providers: provider.json with its endpoints and keys, *)
(* the requests that load, change and save it without a lock, the Settings page *)
(* whose forms they come from, and what a workspace's choice of a model resolves*)
(* to.                                                                          *)
EXTENDS Integers, FiniteSets, SequencesExt

CONSTANTS Kinds, File0,   \* what provider.json may be at first, and the catalogue it may hold
          ProviderForms,  \* what is typed for a provider: [name, base, key, shape, agent, clear]
          ModelForms,     \* what is typed for a model: [name, modelId, tokens]
          Bodies,         \* requests of other clients: <<operation, body>>
          Env,            \* OPENAI_BASE_URL and OPENAI_API_KEY: [base, key]
          Overlap,        \* whether requests may overlap and answers overtake
          MaxRequests, MaxEdits

VARIABLES disk,      \* provider.json: [kind, file, by], by the client whose change it is
          temps,     \* the files of saves not renamed yet
          backups,   \* catalogues moved out of the way
          requests,  \* every request: [op, body, by, phase, seen]
          answers,   \* the answered ones in order
          page,      \* the Settings page
          workspace, \* the model a workspace chose: [profile, modelId, of]
          edits

vars == <<disk, temps, backups, requests, answers, page, workspace, edits>>

None == "none"
NoId == <<None, 0>>
Keep == "keep"
NoForm == [name |-> None]
Empty == [providers |-> <<>>, default |-> NoId]

Ids(seq) == {seq[i].id : i \in DOMAIN seq}

(* An id is a name and a number.                                                *)
UniqueId(name, taken) == <<name, CHOOSE n \in 1..(Cardinality(taken) + 1) :
                                    /\ <<name, n>> \notin taken
                                    /\ \A k \in 1..(n - 1) : <<name, k>> \in taken>>

FlattenModels(c) ==
    FlattenSeq([i \in DOMAIN c.providers |->
        [j \in DOMAIN c.providers[i].models |->
            [id |-> c.providers[i].models[j].id, modelId |-> c.providers[i].models[j].modelId,
             provider |-> c.providers[i].id, base |-> c.providers[i].base,
             key |-> c.providers[i].key, shape |-> c.providers[i].shape]]])

AllModelIds(c) == Ids(FlattenModels(c))
AllProviderIds(c) == Ids(c.providers)

EnforceDefaultModelInvariants(c) ==
    IF c.default \in AllModelIds(c) THEN c ELSE [c EXCEPT !.default = NoId]

ProviderIndex(c, id) == SelectInSeq(c.providers, LAMBDA p : p.id = id)

(* Profile, model id, default, sole model; an unset endpoint or key is that of  *)
(* the environment.                                                             *)
ResolveProviderRuntime(c, profile, modelId) ==
    LET flat == FlattenModels(c)
        Those(Test(_)) == SelectSeq(flat, Test)
        tries == Those(LAMBDA m : m.id = profile) \o Those(LAMBDA m : m.modelId = modelId)
                   \o Those(LAMBDA m : m.id = c.default) \o (IF Len(flat) = 1 THEN flat ELSE <<>>)
        found == IF tries = <<>> THEN [id |-> NoId, provider |-> NoId, base |-> None, key |-> None,
                                       shape |-> "completions", modelId |-> modelId]
                 ELSE tries[1]
    IN [found EXCEPT !.base = IF @ = None THEN Env.base ELSE @,
                     !.key = IF @ = None THEN Env.key ELSE @]

(* resolveWorkspaceModelSelection, for a given profile.                         *)
ResolveWorkspaceModelSelection(c, profile) ==
    LET flat == FlattenModels(c)  at == SelectInSeq(flat, LAMBDA m : m.id = profile)
    IN [profile |-> profile, modelId |-> flat[at].modelId, of |-> flat[at].provider]

--------------------------------------------------------------------------------
(* The changes. A body that is refused gives Refused.                           *)

Refused == [providers |-> <<>>, default |-> <<"refused", 0>>]

CreateProviderEntry(c, b) ==
    [c EXCEPT !.providers = Append(@,
        [id |-> UniqueId(b.name, AllProviderIds(c)), base |-> b.base,
         key |-> IF b.key = Keep THEN None ELSE b.key, shape |-> b.shape,
         headers |-> b.headers, models |-> <<>>])]

UpdateProviderEntry(c, b) ==
    LET i == ProviderIndex(c, b.id)
    IN IF i = 0 THEN Refused
       ELSE [c EXCEPT !.providers[i].base = b.base,
                      !.providers[i].key = IF b.key = Keep THEN @ ELSE b.key,
                      !.providers[i].shape = b.shape,
                      !.providers[i].headers = b.headers]

(* The default goes to the first model left.                                    *)
Fallback(c, default) ==
    IF default \in AllModelIds(c) \cup {NoId} THEN default
    ELSE IF FlattenModels(c) = <<>> THEN NoId ELSE FlattenModels(c)[1].id

DeleteProviderEntry(c, b) ==
    IF ProviderIndex(c, b.id) = 0 THEN Refused
    ELSE LET rest == [c EXCEPT !.providers = RemoveAt(@, ProviderIndex(c, b.id))]
         IN [rest EXCEPT !.default = Fallback(rest, @)]

(* A body without endpoint or shape: the schema puts its defaults in.           *)
ParsedModel(b) ==
    [id |-> b.id, name |-> b.name, modelId |-> b.modelId, tokens |-> b.tokens, provider |-> b.provider,
     base |-> IF b.base = Keep THEN None ELSE b.base,
     shape |-> IF b.shape = Keep THEN "completions" ELSE b.shape]

(* Under the provider named, else under the first of the same connection, else  *)
(* under a new one; the first model of all is the default.                      *)
CreateModelProfile(c, raw) ==
    LET b == ParsedModel(raw)
        id == UniqueId(b.name, AllModelIds(c))
        model == [id |-> id, modelId |-> b.modelId, tokens |-> b.tokens]
        i == IF b.provider # NoId THEN ProviderIndex(c, b.provider)
             ELSE SelectInSeq(c.providers, LAMBDA p : p.base = b.base /\ p.shape = b.shape /\ p.key = None)
        new == [id |-> UniqueId(b.name, AllProviderIds(c)), base |-> b.base, key |-> None,
                shape |-> b.shape, headers |-> None, models |-> <<model>>]
        providers == IF i = 0 THEN Append(c.providers, new)
                     ELSE [c.providers EXCEPT ![i].models = Append(@, model),
                                              ![i].base = IF @ = None THEN b.base ELSE @]
    IN IF b.provider # NoId /\ i = 0 THEN Refused
       ELSE [providers |-> providers,
             default |-> IF c.default = NoId /\ AllModelIds(c) = {} THEN id ELSE c.default]

Holding(c, profile) == SelectInSeq(c.providers, LAMBDA p : profile \in Ids(p.models))

(* The connection in the body goes to the provider.                             *)
UpdateModelProfile(c, raw) ==
    LET b == ParsedModel(raw)  i == Holding(c, b.id)
    IN IF i = 0 THEN Refused
       ELSE [c EXCEPT !.providers[i].base = b.base, !.providers[i].shape = b.shape,
                      !.providers[i].models =
                          [j \in DOMAIN @ |-> IF @[j].id # b.id THEN @[j]
                                              ELSE [id |-> b.id, modelId |-> b.modelId, tokens |-> b.tokens]]]

(* The last model takes its provider with it.                                   *)
DeleteModelProfile(c, b) ==
    LET i == Holding(c, b.id)
        left == SelectSeq(c.providers[i].models, LAMBDA m : m.id # b.id)
        rest == [c EXCEPT !.providers = IF left = <<>> THEN RemoveAt(@, i) ELSE [@ EXCEPT ![i].models = left]]
    IN IF i = 0 THEN Refused
       ELSE [rest EXCEPT !.default = IF @ = b.id THEN Fallback(rest, @) ELSE @]

SetDefaultModelProfile(c, b) ==
    IF b.id \notin AllModelIds(c) \cup {NoId} THEN Refused ELSE [c EXCEPT !.default = b.id]

Changed(op, c, b) ==
    CASE op = "createProvider" -> CreateProviderEntry(c, b)
      [] op = "updateProvider" -> UpdateProviderEntry(c, b)
      [] op = "deleteProvider" -> DeleteProviderEntry(c, b)
      [] op = "createModel" -> CreateModelProfile(c, b)
      [] op = "updateModel" -> UpdateModelProfile(c, b)
      [] op = "deleteModel" -> DeleteModelProfile(c, b)
      [] op = "setDefault" -> SetDefaultModelProfile(c, b)
      [] OTHER -> c

(* The connection test. A key that is not typed is the stored one, and goes only*)
(* where it was stored for; the answer is what the probe was sent to.           *)
NotTested == [base |-> None, key |-> None, shape |-> None]

TestProvider(c, b) ==
    LET runtime == ResolveProviderRuntime(c, b.profile, None)
        base == IF b.base # None THEN b.base ELSE runtime.base
        key == IF b.key = Keep THEN runtime.key ELSE b.key
    IN IF base = None \/ (b.key = Keep /\ runtime.key # None /\ base # runtime.base) THEN NotTested
       ELSE [base |-> base, key |-> key, shape |-> b.shape]

--------------------------------------------------------------------------------
(* A request on the server: load, change, write a file of its own, rename it.   *)

Init ==
    /\ disk \in {[kind |-> k, file |-> IF k = "valid" THEN File0 ELSE Empty, by |-> "other"] : k \in Kinds}
    /\ temps = [r \in {} |-> Empty] /\ backups = {}
    /\ requests = <<>> /\ answers = <<>> /\ edits = 0
    /\ page = [shown |-> disk.file, loading |-> FALSE, editor |-> None, id |-> NoId,
               form |-> NoForm, saving |-> 0, testing |-> 0, tested |-> NotTested]
    /\ workspace = [profile |-> NoId, modelId |-> None, of |-> NoId]

Asked(op, body, by) ==
    /\ Len(requests) < MaxRequests
    /\ requests' = Append(requests, [op |-> op, body |-> body, by |-> by, phase |-> "sent", seen |-> Empty])

InPhase(r, p) == r \in DOMAIN requests /\ requests[r].phase = p
Goes(r, p, c) == [requests EXCEPT ![r].phase = p, ![r].seen = c]
Answered(r, p, c) == requests' = Goes(r, p, c) /\ answers' = Append(answers, r)
Untouched == UNCHANGED <<page, workspace, edits>>

Reads(op) == op \in {"list", "test"}

MayStart == Overlap \/ ~\E o \in DOMAIN requests : requests[o].phase \in {"legacy", "read", "written"}

(* What was loaded is changed and parsed in one go.                             *)
Proceed(r, c) ==
    IF Reads(requests[r].op) THEN Answered(r, "done", c)
    ELSE LET next == Changed(requests[r].op, c, requests[r].body)
         IN IF next = Refused THEN Answered(r, "refused", c)
            ELSE requests' = Goes(r, "read", EnforceDefaultModelInvariants(next)) /\ UNCHANGED answers

LoadProviderConfig(r) ==
    /\ InPhase(r, "sent") /\ MayStart
    /\ CASE disk.kind = "legacy" -> requests' = Goes(r, "legacy", Empty) /\ UNCHANGED answers
         [] disk.kind = "absent" -> Proceed(r, Empty)
         [] disk.kind = "garbled" -> Answered(r, "refused", Empty)
         [] OTHER -> Proceed(r, EnforceDefaultModelInvariants(disk.file))
    /\ UNCHANGED <<disk, temps, backups>> /\ Untouched

(* Whatever the file is by now is moved out of the way.                         *)
BackUp(r) ==
    /\ InPhase(r, "legacy")
    /\ backups' = backups \cup ({disk.kind} \ {"absent"})
    /\ disk' = [disk EXCEPT !.kind = "absent", !.file = Empty]
    /\ Proceed(r, Empty)
    /\ UNCHANGED temps /\ Untouched

(* The file's name is the process and the millisecond: with Overlap two saves   *)
(* may have the same one.                                                       *)
Names(r) == IF Overlap THEN {r, 0} ELSE {r}

WriteTemp(r) ==
    /\ InPhase(r, "read")
    /\ \E name \in Names(r) :
          /\ temps' = (name :> requests[r].seen) @@ temps
          /\ requests' = [requests EXCEPT ![r].phase = "written", ![r].body = [temp |-> name] @@ @]
    /\ UNCHANGED <<disk, backups, answers>> /\ Untouched

Rename(r) ==
    /\ InPhase(r, "written")
    /\ LET name == requests[r].body.temp
       IN IF name \in DOMAIN temps
          THEN /\ disk' = [kind |-> "valid", file |-> temps[name], by |-> requests[r].by]
               /\ temps' = [n \in DOMAIN temps \ {name} |-> temps[n]]
               /\ Answered(r, "done", requests[r].seen)
          ELSE UNCHANGED <<disk, temps>> /\ Answered(r, "refused", requests[r].seen)
    /\ UNCHANGED backups /\ Untouched

--------------------------------------------------------------------------------
(* The Settings page.                                                           *)

Edit == edits < MaxEdits /\ edits' = edits + 1
Idle == UNCHANGED <<disk, temps, backups, answers, workspace>>
NoEditor(p) == [p EXCEPT !.editor = None, !.id = NoId, !.form = NoForm, !.tested = NotTested]

LoadAll ==
    /\ ~page.loading /\ Asked("list", [temp |-> 0], "page")
    /\ page' = [page EXCEPT !.loading = TRUE]
    /\ UNCHANGED edits /\ Idle

(* A provider's form leaves the key out and knows no header but the agent.      *)
OpenProvider ==
    /\ Edit /\ ~page.loading
    /\ \/ page' = [NoEditor(page) EXCEPT !.editor = "provider",
                      !.form = [name |-> None, base |-> None, key |-> None, shape |-> "completions",
                                agent |-> "node", clear |-> FALSE]]
       \/ \E p \in Range(page.shown.providers) :
             page' = [NoEditor(page) EXCEPT !.editor = "provider", !.id = p.id,
                         !.form = [name |-> p.id[1], base |-> p.base, key |-> None, shape |-> p.shape,
                                   agent |-> "node", clear |-> FALSE]]
    /\ UNCHANGED requests /\ Idle

(* A model's, under a provider.                                                 *)
OpenModel ==
    /\ Edit /\ ~page.loading
    /\ \E p \in Range(page.shown.providers) :
          \/ page' = [NoEditor(page) EXCEPT !.editor = "model",
                         !.form = [name |-> None, modelId |-> None, tokens |-> 0, provider |-> p.id]]
          \/ \E m \in Range(p.models) :
                page' = [NoEditor(page) EXCEPT !.editor = "model", !.id = m.id,
                            !.form = [name |-> m.id[1], modelId |-> m.modelId, tokens |-> m.tokens, provider |-> p.id]]
    /\ UNCHANGED requests /\ Idle

Type ==
    /\ Edit /\ page.editor # None
    /\ \/ page.editor = "provider"
          /\ \E f \in ProviderForms : (page.id = NoId => ~f.clear) /\ page' = [page EXCEPT !.form = f]
       \/ page.editor = "model" /\ \E f \in ModelForms : page' = [page EXCEPT !.form = f @@ @]
    /\ UNCHANGED requests /\ Idle

CloseEditor ==
    /\ page.editor # None
    /\ page' = NoEditor(page)
    /\ UNCHANGED <<requests, edits>> /\ Idle

(* handleProviderSave, handleSave.                                              *)
ProviderBody ==
    [id |-> page.id, name |-> page.form.name, base |-> page.form.base, shape |-> page.form.shape,
     key |-> IF page.form.clear THEN None ELSE IF page.form.key # None THEN page.form.key ELSE Keep,
     headers |-> page.form.agent, temp |-> 0]

ModelBody ==
    [id |-> page.id, name |-> page.form.name, modelId |-> page.form.modelId, tokens |-> page.form.tokens,
     provider |-> page.form.provider, base |-> Keep, shape |-> Keep, temp |-> 0]

Save ==
    /\ page.editor # None /\ page.saving = 0 /\ page.form.name # None
    /\ page.editor = "model" => page.form.modelId # None
    /\ IF page.editor = "model"
       THEN Asked(IF page.id = NoId THEN "createModel" ELSE "updateModel", ModelBody, "page")
       ELSE Asked(IF page.id = NoId THEN "createProvider" ELSE "updateProvider", ProviderBody, "page")
    /\ page' = [page EXCEPT !.saving = Len(requests) + 1, !.tested = IF page.editor = "model" THEN NotTested ELSE @]
    /\ UNCHANGED edits /\ Idle

(* The stored key is reached through the provider's first model.                *)
Test ==
    /\ page.editor = "provider" /\ page.testing = 0 /\ page.form.base # None
    /\ LET i == ProviderIndex(page.shown, page.id)
           models == IF i = 0 THEN <<>> ELSE page.shown.providers[i].models
       IN Asked("test", [profile |-> IF models = <<>> \/ page.form.key # None \/ page.form.clear THEN NoId
                                     ELSE models[1].id,
                         base |-> page.form.base, shape |-> page.form.shape,
                         key |-> IF page.form.clear THEN None
                                 ELSE IF page.form.key # None THEN page.form.key ELSE Keep], "page")
    /\ page' = [page EXCEPT !.testing = Len(requests) + 1, !.tested = NotTested]
    /\ UNCHANGED edits /\ Idle

(* The buttons of the list.                                                     *)
ListButton ==
    /\ Edit /\ ~page.loading
    /\ \/ \E id \in AllProviderIds(page.shown) : Asked("deleteProvider", [id |-> id, temp |-> 0], "page")
       \/ \E id \in AllModelIds(page.shown) :
             \/ Asked("deleteModel", [id |-> id, temp |-> 0], "page")
             \/ id # page.shown.default /\ Asked("setDefault", [id |-> id, temp |-> 0], "page")
    /\ UNCHANGED page /\ Idle

(* What an answer changes on the page. A save closes whatever editor is open, a *)
(* delete the editor of what is gone.                                           *)
OnAnswer(r) ==
    LET q == requests[r]  done == q.phase = "done"
        shown == IF done THEN [page EXCEPT !.shown = q.seen] ELSE page
    IN CASE q.by # "page" -> page
         [] q.op = "list" -> [(IF done THEN shown ELSE [page EXCEPT !.shown = Empty]) EXCEPT !.loading = FALSE]
         [] q.op = "test" -> [page EXCEPT !.testing = 0,
                                          !.tested = IF done THEN TestProvider(q.seen, q.body) ELSE @]
         [] q.op \in {"deleteProvider", "deleteModel"} ->
                IF done /\ page.id = q.body.id THEN NoEditor(shown) ELSE shown
         [] q.op = "setDefault" -> shown
         [] OTHER -> [(IF done THEN NoEditor(shown) ELSE page) EXCEPT !.saving = 0]

Over == [op |-> "list", body |-> [temp |-> 0], by |-> "other", phase |-> "done", seen |-> Empty]

Answer ==
    /\ answers # <<>>
    /\ \E i \in (IF Overlap THEN DOMAIN answers ELSE {1}) :
          /\ page' = OnAnswer(answers[i])
          /\ answers' = RemoveAt(answers, i)
          /\ requests' = [requests EXCEPT ![answers[i]] = Over]
    /\ UNCHANGED <<disk, temps, backups, workspace, edits>>

(* Another tab, or a client of the API.                                         *)
Elsewhere ==
    /\ \E b \in Bodies : Asked(b[1], b[2], "other")
    /\ UNCHANGED <<page, edits>> /\ Idle

(* The workspace form offers what is in the catalogue.                          *)
ChooseModel ==
    /\ Edit /\ disk.kind = "valid"
    /\ \E id \in AllModelIds(disk.file) : workspace' = ResolveWorkspaceModelSelection(disk.file, id)
    /\ UNCHANGED <<disk, temps, backups, requests, answers, page>>

Step(r) == LoadProviderConfig(r) \/ BackUp(r) \/ WriteTemp(r) \/ Rename(r)
Progress == Answer \/ \E r \in 1..MaxRequests : Step(r)

Next == \/ LoadAll \/ OpenProvider \/ OpenModel \/ Type \/ CloseEditor \/ Save \/ Test \/ ListButton
        \/ Elsewhere \/ ChooseModel \/ Progress

Spec == Init /\ [][Next]_vars

--------------------------------------------------------------------------------
Catalogue == disk.file

TypeOK ==
    /\ disk.by \in {"page", "other"} /\ edits \in 0..MaxEdits
    /\ Len(requests) <= MaxRequests
    /\ \A r \in DOMAIN requests :
          requests[r].phase \in {"sent", "legacy", "read", "written", "done", "refused"}
    /\ page.saving \in 0..MaxRequests /\ page.testing \in 0..MaxRequests

(* An id names one model of one provider, and the default names one that is     *)
(* there (contract/provider.ts: "Unique across all providers").                 *)
CatalogIsSound ==
    /\ IsInjective([i \in DOMAIN Catalogue.providers |-> Catalogue.providers[i].id])
    /\ IsInjective([i \in DOMAIN FlattenModels(Catalogue) |-> FlattenModels(Catalogue)[i].id])
    /\ Catalogue.default \in AllModelIds(Catalogue) \cup {NoId}

(* What a request names on the disk: a provider, or one of its models.          *)
Named(q) ==
    CASE q.op \in {"updateProvider", "deleteProvider"} -> {q.body.id}
      [] q.op = "createModel" ->
            IF q.body.provider # NoId THEN {q.body.provider}
            ELSE {p.id : p \in {x \in Range(Catalogue.providers) : x.key = None /\ x.base = q.body.base}}
      [] q.op \in {"updateModel", "deleteModel"} ->
            {p.id : p \in {x \in Range(Catalogue.providers) : q.body.id \in Ids(x.models)}}
      [] OTHER -> {}

(* A save changes the provider its request names, and of its models at most the *)
(* one it names; everything else on the disk stays as the save found it         *)
(* (mutateProviderCatalog: load, mutate, save).                                 *)
ChangesOnlyTheNamed ==
    \A r \in DOMAIN requests :
        (requests[r].phase = "written" /\ requests'[r].phase = "done") =>
            LET q == requests[r]  after == Range(disk'.file.providers)
            IN \A p \in Range(Catalogue.providers) :
                  IF p.id \notin Named(q) THEN p \in after
                  ELSE q.op # "deleteProvider" =>
                          \A m \in {x \in Range(p.models) : x.id # q.body.id} :
                             \E n \in after : n.id = p.id /\ m \in Range(n.models)
OnlyTheNamedChanges == [][ChangesOnlyTheNamed]_vars

(* Once there is a default there is one for as long as there are models.        *)
KeepsADefault ==
    (Catalogue.default # NoId /\ disk'.kind = "valid" /\ AllModelIds(disk'.file) # {})
        => disk'.file.default # NoId
DefaultSurvives == [][KeepsADefault]_vars

(* Only what is no catalogue is moved out of the way (loadProviderConfig: the   *)
(* next save would overwrite it).                                               *)
OnlyLegacyIsMoved == backups \subseteq {"legacy"}

PageIsQuiet == answers = <<>> /\ \A r \in DOMAIN requests : requests[r].phase \in {"done", "refused"}

(* With nothing under way and the page's own change the newest, the page shows  *)
(* the catalogue.                                                               *)
ShownIsSaved == (PageIsQuiet /\ disk.by = "page") => page.shown = Catalogue

(* "Connection fields belong to the provider entry" (SettingsPage.tsx): saving a*)
(* model leaves the endpoint and the shape of its provider.                     *)
ConnectionIsKept ==
    [][\A r \in DOMAIN requests :
          (requests[r].phase = "written" /\ requests'[r].phase = "done"
             /\ requests[r].by = "page" /\ requests[r].op \in {"createModel", "updateModel"}) =>
              \A p \in Range(Catalogue.providers) :
                 \E n \in Range(disk'.file.providers) : n.id = p.id /\ n.base = p.base /\ n.shape = p.shape]_vars

(* A header the form does not show survives a save of the form.                 *)
HeadersAreKept ==
    [][\A r \in DOMAIN requests :
          (requests[r].phase = "written" /\ requests'[r].phase = "done" /\ requests[r].op = "updateProvider") =>
              \A p \in Range(Catalogue.providers) : p.headers = "more" =>
                 \E n \in Range(disk'.file.providers) : n.id = p.id /\ n.headers = "more"]_vars

(* "Stable selection id" (contract/provider.ts): while a chosen id is in the    *)
(* catalogue it means the model that was chosen.                                *)
ChosenIdIsStable ==
    workspace.profile \in AllModelIds(Catalogue)
        => ResolveProviderRuntime(Catalogue, workspace.profile, workspace.modelId).provider = workspace.of

(* The test result on the page is of the connection the form would save.        *)
TestIsOfTheForm ==
    (page.editor = "provider" /\ page.tested # NotTested /\ PageIsQuiet) =>
        LET i == ProviderIndex(Catalogue, page.id)
            key == IF page.form.key # None THEN page.form.key
                   ELSE IF i = 0 \/ page.form.clear THEN None ELSE Catalogue.providers[i].key
        IN page.tested = [base |-> page.form.base, shape |-> page.form.shape,
                          key |-> IF key = None THEN Env.key ELSE key]

(* What was typed is left to the operator: an answer closes only the editor its *)
(* own save came from.                                                          *)
AnswerClosesItsOwn ==
    [][\A r \in Range(answers) \ Range(answers') :
          (page.editor # None /\ page'.editor = None /\ requests[r].op \in {"updateProvider", "updateModel"})
             => page.id = requests[r].body.id]_vars
================================================================================
