------------------------------ MODULE WikiPublish ------------------------------
(* The wiki of a workspace from the writer's tree to the pages a reader         *)
(* browses: the host regenerates the listings, validates the tree, builds the   *)
(* publication candidate (citations rewritten, change log, listings, stamps)    *)
(* and the reader's navigation is derived from what was published. A page is    *)
(* what the checks tell apart: its text, title, type, citations and provenance. *)
EXTENDS FiniteSets, Integers, SequencesExt

CONSTANTS
    Paths,             \* paths a concept page may have: sequences of names
    Drafts,            \* what the writer may put into a page
    HandListings,      \* listings an operator may put into the published root
    Sources,           \* the sources the run has pinned
    Units,             \* required coverage units: [source, path]
    Critical,          \* critical pages of the Spec
    RequireCitations,  \* evaluation policy
    MaxFiles,          \* WIKI_VALIDATE_MAX_FILES
    Modes,             \* modes of the runs: generate, refresh
    MaxRuns            \* bound on the runs

VARIABLES
    live,     \* the published tree
    staging,  \* the wiki tree of the run
    stage,    \* how far the run is
    mode,     \* the run's mode
    clock,    \* runs started; the time a publication is stamped with
    day,      \* the day of the last publication
    changed   \* when the text of a published page last changed

vars == <<live, staging, stage, mode, clock, day, changed>>

(* A tree: concept pages, a listing per directory, the change log. *)
NoTree == [pages |-> <<>>, index |-> <<>>, log |-> <<>>]
Concepts(tree) == DOMAIN tree.pages
Unstamped == 0

ScanWikiTree(tree) ==
    Cardinality(Concepts(tree)) + Cardinality(DOMAIN tree.index) + (IF tree.log = <<>> THEN 0 ELSE 1)

--------------------------------------------------------------------------------
(* Listings.                                                                    *)

Under(path, dir) == IsPrefix(dir, path) /\ path # dir
DirectPages(concepts, dir) == {p \in concepts : Front(p) = dir}
ChildDirs(concepts, dir) ==
    {p[Len(dir) + 1] : p \in {q \in concepts : Under(q, dir) /\ Len(q) > Len(dir) + 1}}

DirectoriesNeedingIndex(concepts) ==
    UNION {{SubSeq(p, 1, n) : n \in 0..(Len(p) - 1)} : p \in concepts}

BundleRoot == "/"  \* first name of a link from the root
Entry(kind, at, title) == [kind |-> kind, at |-> at, title |-> title]

(* Direct children only: pages by their name, directories by their own listing. *)
RenderDirectoryIndex(tree, dir) ==
    LET concepts == Concepts(tree)
        pages == {Entry("page", <<Last(p)>>, tree.pages[p].title) : p \in DirectPages(concepts, dir)}
        dirs == {Entry("dir", <<d>>, "plain") : d \in ChildDirs(concepts, dir)}
    IN SetToSeq(pages) \o SetToSeq(dirs)

(* Every listing is written again, and one without concepts is removed. *)
RegenerateWikiIndexes(tree) ==
    [tree EXCEPT !.index = [d \in DirectoriesNeedingIndex(Concepts(tree)) |-> RenderDirectoryIndex(tree, d)]]

(* A list line whose title holds a bracket is not read back as a link. *)
ParseWikiIndexListing(listing) == SelectSeq(listing, LAMBDA e : e.title # "bracket")
Links(tree, dir) == Range(ParseWikiIndexListing(tree.index[dir]))
IsDirectChild(e) == Len(e.at) = 1

Lists(tree, dir, kind, name) ==
    dir \in DOMAIN tree.index /\ \E e \in Links(tree, dir) : e.kind = kind /\ e.at = <<name>>

(* Reached along the listings from the root. *)
IsReachable(tree, p) ==
    /\ Lists(tree, Front(p), "page", Last(p))
    /\ \A n \in 0..(Len(p) - 2) : Lists(tree, SubSeq(p, 1, n), "dir", p[n + 1])

ValidateWikiIndexes(tree) ==
    LET needed == DirectoriesNeedingIndex(Concepts(tree))
    IN /\ needed \subseteq DOMAIN tree.index
       /\ \A d \in needed : \A e \in Links(tree, d) : IsDirectChild(e)
       /\ \A p \in Concepts(tree) : IsReachable(tree, p)

--------------------------------------------------------------------------------
(* Mechanical validation: the blocking issues of a tree.                        *)

(* Only citations in the form of the sources are read; published ones are links.*)
ParseSourceCitations(page) == IF page.form = "repo" THEN page.cites ELSE {}
PathsBySource(page, s) == {c.path : c \in {d \in ParseSourceCitations(page) : d.source = s}}

PageCoversUnit(page, unit) ==
    IF unit.path = "." THEN PathsBySource(page, unit.source) # {}
    ELSE unit.path \in PathsBySource(page, unit.source)

ValidateCoverageObligations(tree, units) ==
    \A u \in units : \E p \in Concepts(tree) : PageCoversUnit(tree.pages[p], u)

ValidateCrossSourceFlows(tree) ==
    \A p \in Concepts(tree) :
        tree.pages[p].type = "flow" =>
            Cardinality({c.source : c \in ParseSourceCitations(tree.pages[p])} \cap Sources) >= 2

ValidateCitationResolve(page) == \A c \in ParseSourceCitations(page) : c.path # "gone"

(* One set of rules, with what a caller passes to them. *)
Rules(sources, cited, critical, units) ==
    [sources |-> sources, cited |-> cited, critical |-> critical, units |-> units]

ValidateWikiTree(tree, rules) ==
    /\ ScanWikiTree(tree) <= MaxFiles
    /\ Concepts(tree) # {} \/ DOMAIN tree.index # {} \/ tree.log # <<>>
    /\ \A p \in Concepts(tree) :
           /\ tree.pages[p].title # "none" /\ tree.pages[p].type # "none"
           /\ rules.cited => ParseSourceCitations(tree.pages[p]) # {}
           /\ rules.sources # {} => ValidateCitationResolve(tree.pages[p])
    /\ rules.critical \subseteq Concepts(tree)
    /\ ValidateCoverageObligations(tree, rules.units)
    /\ Cardinality(rules.sources) >= 2 => ValidateCrossSourceFlows(tree)

--------------------------------------------------------------------------------
(* The change log.                                                              *)

StripProvenanceForDiff(page) == [page EXCEPT !.stamp = Unstamped]

Change(kind, p) == [kind |-> kind, path |-> p]

DiffWikiPages(previous, next) ==
    LET Same(p) == StripProvenanceForDiff(previous.pages[p]) = StripProvenanceForDiff(next.pages[p])
        before == Concepts(previous)
        after == Concepts(next)
    IN {Change("Creation", p) : p \in after \ before}
         \cup {Change("Update", p) : p \in {q \in after \cap before : ~Same(q)}}
         \cup {Change("Removal", p) : p \in before \ after}

Section(date, entries) == [date |-> date, entries |-> entries]

(* Publications of one day share a section, the newer entries first. *)
RenderWikiLog(date, changes, prior) ==
    LET new == SetToSeq(changes)
    IN IF prior # <<>> /\ Head(prior).date = date
       THEN <<Section(date, new \o SelectSeq(Head(prior).entries, LAMBDA e : e \notin changes))>>
                \o Tail(prior)
       ELSE <<Section(date, new)>> \o prior

UpdateWikiLogForPublish(candidate, previous, date) ==
    LET changes == DiffWikiPages(previous, candidate)
    IN IF changes = {} /\ previous.log = <<>> THEN candidate
       ELSE [candidate EXCEPT !.log = RenderWikiLog(date, changes, previous.log)]

--------------------------------------------------------------------------------
(* The publication candidate.                                                   *)

RewriteRepoCitations(tree) ==
    [tree EXCEPT !.pages = [p \in Concepts(tree) |-> [tree.pages[p] EXCEPT !.form = "relative"]]]

(* A page that has the key is left as it is. *)
StampConceptPage(page, at) == IF page.stamp = Unstamped THEN [page EXCEPT !.stamp = at] ELSE page

StampWikiTreeForPublish(tree, at) ==
    [tree EXCEPT !.pages = [p \in Concepts(tree) |-> StampConceptPage(tree.pages[p], at)]]

(* The tree before its stamps: log, listings and citations are the host's. *)
MaterializePublicationCandidate(tree, previous, date) ==
    RegenerateWikiIndexes(UpdateWikiLogForPublish(RewriteRepoCitations(tree), previous, date))

BeforeMaterialize == Rules(Sources, Sources # {}, {}, {})
AfterMaterialize == Rules({}, FALSE, {}, {})

--------------------------------------------------------------------------------
(* A run.                                                                       *)

Init ==
    /\ live = NoTree /\ staging = NoTree
    /\ stage = "none" /\ mode = "generate"
    /\ clock = 0 /\ day = 1
    /\ changed = [p \in Paths |-> 0]

(* The reader is refused an empty tree, and one above the cap of the validation.*)
ReadAllPublishedPages(tree) == ScanWikiTree(tree) \in 1..MaxFiles

(* A refresh needs published pages, and begins with a copy of them. *)
StartRun(m) ==
    /\ stage \in {"none", "published", "failed"} /\ clock < MaxRuns
    /\ m = "refresh" => ReadAllPublishedPages(live)
    /\ staging' = IF m = "refresh" THEN live ELSE NoTree
    /\ mode' = m /\ stage' = "writing" /\ clock' = clock + 1
    /\ UNCHANGED <<live, day, changed>>

(* The writer keeps, edits, replaces or leaves out each page; an edit leaves the*)
(* provenance in the frontmatter. Then the host writes the listings.            *)
WriteWiki ==
    /\ stage \in {"writing", "rejected"}
    /\ \E keep \in SUBSET Concepts(staging) : \E write \in SUBSET (Paths \ keep) :
       \E text \in [write -> Drafts], edit \in {{}, Concepts(staging)} :
           LET Written(p) == [text[p] EXCEPT !.stamp = IF p \in edit THEN staging.pages[p].stamp ELSE @]
           IN staging' = RegenerateWikiIndexes(
                  [staging EXCEPT !.pages = [p \in keep \cup write |->
                                                 IF p \in write THEN Written(p) ELSE staging.pages[p]]])
    /\ stage' = "written"
    /\ UNCHANGED <<live, mode, clock, day, changed>>

MechanicalValidate ==
    /\ stage = "written"
    /\ stage' = IF ValidateWikiTree(staging, Rules(Sources, Sources # {} /\ RequireCitations, Critical, Units))
                THEN "validated" ELSE "rejected"
    /\ UNCHANGED <<live, staging, mode, clock, day, changed>>

(* The run fails unless every check of the candidate passes. *)
PreparePublication(date) ==
    /\ stage = "validated" /\ date \in {day, day + 1}
    /\ LET candidate == MaterializePublicationCandidate(staging, live, date)
           stamped == StampWikiTreeForPublish(candidate, clock)
           ok == /\ ValidateWikiTree(staging, BeforeMaterialize) /\ Concepts(staging) # {}
                 /\ ValidateWikiIndexes(candidate)
                 /\ ValidateWikiTree(stamped, AfterMaterialize)
       IN /\ stage' = IF ok THEN "candidate" ELSE "failed"
          /\ staging' = IF ok THEN stamped ELSE staging
          /\ day' = date
    /\ UNCHANGED <<live, mode, clock, changed>>

(* The candidate is swapped in as it is. *)
Publish ==
    /\ stage = "candidate"
    /\ stage' = "published" /\ live' = staging
    /\ changed' = [p \in Paths |->
                       IF Change("Creation", p) \in DiffWikiPages(live, staging)
                            \/ Change("Update", p) \in DiffWikiPages(live, staging)
                       THEN clock ELSE changed[p]]
    /\ UNCHANGED <<staging, mode, clock, day>>

(* The published directory is the operator's: its root listing may be rewritten.*)
EditListing ==
    /\ stage = "published" /\ <<>> \in DOMAIN live.index
    /\ \E listing \in HandListings : live' = [live EXCEPT !.index[<<>>] = listing]
    /\ UNCHANGED <<staging, stage, mode, clock, day, changed>>

Next ==
    \/ \E m \in Modes : StartRun(m)
    \/ WriteWiki \/ MechanicalValidate
    \/ \E d \in {day, day + 1} : PreparePublication(d)
    \/ Publish \/ EditListing

Spec == Init /\ [][Next]_vars

--------------------------------------------------------------------------------
(* The reader's navigation: the pages in the order they are listed.             *)

IsConceptDir(tree, dir) == \E p \in Concepts(tree) : Under(p, dir)

RECURSIVE BuildFromIndex(_, _, _, _), LeavesOf(_, _, _, _)

(* The first listing of a page wins; a listing being read is not read again; a  *)
(* directory without a listing shows the pages below it.                        *)
LeavesOf(tree, e, covered, stack) ==
    IF e.kind = "page" THEN IF e.at \in Concepts(tree) \ covered THEN <<e.at>> ELSE <<>>
    ELSE IF e.at \in stack THEN <<>>
    ELSE IF e.at \in DOMAIN tree.index THEN BuildFromIndex(tree, e.at, covered, stack)
    ELSE SetToSeq({p \in Concepts(tree) \ covered : Under(p, e.at)})

BuildFromIndex(tree, dir, covered, stack) ==
    LET Resolved(e) == [e EXCEPT !.at = IF Head(e.at) = BundleRoot THEN Tail(e.at) ELSE dir \o e.at]
        Add(leaves, e) == leaves \o LeavesOf(tree, Resolved(e), covered \cup Range(leaves), stack \cup {dir})
    IN FoldLeft(Add, <<>>, ParseWikiIndexListing(tree.index[dir]))

(* What no listing reached comes last, as Unlisted. *)
Listed(tree) == IF <<>> \in DOMAIN tree.index THEN BuildFromIndex(tree, <<>>, {}, {}) ELSE SetToSeq(Concepts(tree))
BuildWikiNav(tree) == LET listed == Listed(tree) IN listed \o SetToSeq(Concepts(tree) \ Range(listed))

--------------------------------------------------------------------------------
Entries(log) == FoldLeft(LAMBDA acc, s : acc \o s.entries, <<>>, log)
Mentions(log, p) == SelectSeq(Entries(log), LAMBDA e : e.path = p)

TypeOK ==
    /\ stage \in {"none", "writing", "written", "validated", "rejected", "candidate", "published", "failed"}
    /\ Concepts(live) \subseteq Paths /\ Concepts(staging) \subseteq Paths
    /\ clock \in 0..MaxRuns /\ mode \in Modes \cup {"generate"}

(* A reader finds every published page once, whatever the listings say.         *)
EachPageOnce ==
    live # NoTree =>
        LET nav == BuildWikiNav(live)
        IN ReadAllPublishedPages(live) /\ IsInjective(nav) /\ Range(nav) = Concepts(live)

(* The log is the history of the publications: its newest word on a page says   *)
(* whether the page is there, and no published page is without one.             *)
LogTellsWhatIsThere ==
    \A p \in Paths :
        LET mentions == Mentions(live.log, p)
        IN (p \in Concepts(live)) <=> (mentions # <<>> /\ Head(mentions).kind # "Removal")

(* A tree the validation has let through can be published.                      *)
ValidatedIsPublished == stage # "failed"

(* What is published covers every required unit, for all that the host changed  *)
(* after the validation.                                                        *)
PublishedCovers ==
    stage = "published" =>
        \A u \in Units : \E p \in Concepts(live) : \E c \in live.pages[p].cites :
            c.source = u.source /\ (u.path = "." \/ u.path = c.path)

(* No publication takes an entry out of the history, and one that changes no    *)
(* page adds none.                                                              *)
KeepsHistory ==
    /\ \A i \in DOMAIN live.log : \E j \in DOMAIN live'.log :
          /\ live'.log[j].date = live.log[i].date
          /\ Range(live.log[i].entries) \subseteq Range(live'.log[j].entries)
    /\ ([p \in Concepts(live) |-> live.pages[p].v] = [p \in Concepts(live') |-> live'.pages[p].v]
          /\ clock > 1)
         => Entries(live'.log) = Entries(live.log)
HistoryIsKept == [][live' # live => KeepsHistory]_live

(* Fails in a refresh: the pages are seeded with their stamps, and a stamp is   *)
(* never replaced.                                                              *)
StampIsOfTheText == \A p \in Concepts(live) : live.pages[p].stamp >= changed[p]

(* Fails in a refresh: the seeded pages cite in the published form, which the   *)
(* validation does not read.                                                    *)
KeptIsValid ==
    (stage = "rejected" /\ mode = "refresh") => staging.pages # live.pages
================================================================================
