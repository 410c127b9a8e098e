----------------------------- MODULE CandidateReview -----------------------------
(* The review of a run's candidates: the sealed trees a run has committed, the  *)
(* reads of a page, of its evidence map and of its difference from the parent,  *)
(* the threads on lines of a page and the repairs requested with them, and the  *)
(* review page that reads and commands in several requests. The digest of a     *)
(* candidate is its tree, the digest of a text the text.                        *)
EXTENDS Integers, FiniteSets, SequencesExt

CONSTANTS Trees,        \* the trees a node may commit: each [some pages -> Seq(lines)]
          Paths,        \* the page paths a reader opens
          Notes,        \* the comments a reader types
          Waits,        \* whether the reader opens nothing before a click and a load are done
          Losable,      \* whose answers may be lost: "load", "command"
          MaxCandidates, MaxClicks, MaxOpens, MaxElsewhere, MaxLost, MaxDamaged

VARIABLES candidates,   \* the rows of wiki_candidates in order of their rounds: [tree, parent]
          baselines,    \* candidate_review_artifacts: the baseline of each tree
          damaged,      \* the sealed pages that no longer match their evidence map
          threads,      \* the review threads: [tree, path, from, to, text, body, state], and
                        \* the click and the lines read there
          repairs,      \* the repairs requested: [baseline, ids], and the threads seen open
          revision,     \* of the run
          url, page, run, note,  \* what the address says; what is shown; what is typed
          loads,        \* the refreshes under way
          command,      \* the command under way
          budget        \* what may still happen

server == <<candidates, baselines, damaged, threads, repairs, revision>>
vars == <<server, url, page, run, note, loads, command, budget>>

EmptyTree == [p \in {} |-> <<>>]  \* what an empty publication has
NoLine == ""
Idle == [phase |-> "idle"]
Typed == Notes \cup {NoLine}

Spend(what) == budget[what] > 0 /\ budget' = [budget EXCEPT ![what] = @ - 1]
Snapshot == [revision |-> revision, threads |-> threads,
             trees |-> [i \in DOMAIN candidates |-> candidates[i].tree]]

(* --------------------------------- the reads --------------------------------- *)
(* A page of a candidate is in its map, and its text is still the sealed one.   *)
SealedPage(tree, path) == /\ \E i \in DOMAIN candidates : candidates[i].tree = tree
                          /\ path \in DOMAIN tree
                          /\ <<tree, path>> \notin damaged

(* The newest of the candidates with a digest.                                  *)
CandidateForDigest(tree) == CHOOSE i \in DOMAIN candidates :
    candidates[i].tree = tree /\ \A j \in DOMAIN candidates : candidates[j].tree = tree => j <= i

(* Lines are compared by their place.                                           *)
LineDiff(before, after) ==
    LET last == IF Len(before) > Len(after) THEN Len(before) ELSE Len(after)
        Row(kind, text) == [kind |-> kind, text |-> text]
        RowsAt(i) == IF i <= Len(before) /\ i <= Len(after) /\ before[i] = after[i]
                     THEN <<Row("context", after[i])>>
                     ELSE (IF i <= Len(before) THEN <<Row("remove", before[i])>> ELSE <<>>)
                            \o (IF i <= Len(after) THEN <<Row("add", after[i])>> ELSE <<>>)
    IN FlattenSeq([i \in 1..last |-> RowsAt(i)])

(* Mutant: the text before is that of the candidate of the round before.        *)
BeforeByRound(tree, path) ==
    LET i == CandidateForDigest(tree)
    IN IF i > 1 /\ SealedPage(candidates[i - 1].tree, path) THEN candidates[i - 1].tree[path]
       ELSE <<NoLine>>

(* Whatever keeps the baseline from being read makes an empty text of it, which *)
(* has one empty line.                                                          *)
Before(tree, path) ==
    IF SealedPage(baselines[tree], path) THEN baselines[tree][path] ELSE <<NoLine>>

ReadDiff(tree, path) == LineDiff(Before(tree, path), tree[path])

(* -------------------------------- the commands ------------------------------- *)
Creates(c) == /\ SealedPage(c.tree, c.path)
              /\ c.to <= Len(c.tree[c.path])
Resolves(c) == c.id \in DOMAIN threads /\ threads[c.id].state = "open"
Repairs(c) == /\ \A t \in c.ids : threads[t].state = "open"
              /\ \A t, u \in c.ids : threads[t].tree = threads[u].tree

Accepts(c) == CASE c.type = "create" -> Creates(c)
                [] c.type = "resolve" -> Resolves(c)
                [] c.type = "repair" -> Repairs(c)

Thread(c) == [tree |-> c.tree, path |-> c.path, from |-> c.from, to |-> c.to,
              text |-> SubSeq(c.tree[c.path], c.from, c.to), body |-> c.body, state |-> "open",
              click |-> c.click, read |-> c.read]

Apply(c) ==
    /\ revision' = revision + 1
    /\ threads' = CASE c.type = "create" -> Append(threads, Thread(c))
                    [] c.type = "resolve" -> [threads EXCEPT ![c.id].state = "resolved"]
                    [] OTHER -> threads
    /\ repairs' = IF c.type # "repair" THEN repairs
                  ELSE LET tree == threads[CHOOSE t \in c.ids : TRUE].tree
                       IN Append(repairs, [baseline |-> CandidateForDigest(tree), ids |-> c.ids,
                                           seen |-> c.seen])
    /\ UNCHANGED <<candidates, baselines, damaged>>

(* --------------------------------- the server -------------------------------- *)
TypeOK ==
    /\ \A i \in DOMAIN candidates : candidates[i].tree \in Trees /\ candidates[i].parent \in 0..(i - 1)
    /\ DOMAIN baselines = {candidates[i].tree : i \in DOMAIN candidates}
    /\ \A i \in DOMAIN threads : threads[i].state \in {"open", "resolved"}
    /\ url.path \in Paths
    /\ note \in Typed
    /\ \A l \in loads : l.by \in {"effect", "stale", "command"}
    /\ command.phase \in {"idle", "get", "post", "ok", "stale", "refused", "refresh"}

Init == /\ candidates = <<>> /\ threads = <<>> /\ repairs = <<>>
        /\ baselines = [t \in {} |-> EmptyTree] /\ damaged = {} /\ revision = 0
        /\ url = [tree |-> <<>>, path |-> CHOOSE p \in Paths : TRUE]
        /\ page = <<>> /\ run = <<>> /\ note = NoLine
        /\ loads = {[url |-> url, by |-> "effect", seen |-> <<>>]}
        /\ command = Idle
        /\ budget = [candidates |-> MaxCandidates, clicks |-> MaxClicks, opens |-> MaxOpens,
                     elsewhere |-> MaxElsewhere, lost |-> MaxLost, damaged |-> MaxDamaged]

(* A writer starts anew; a repair has the latest candidate as its parent. A tree*)
(* committed before keeps the baseline of its first commit.                     *)
Commit(tree, producedBy) ==
    LET parent == IF producedBy = "write" THEN 0 ELSE Len(candidates)
        before == IF parent = 0 THEN EmptyTree ELSE candidates[parent].tree
    IN /\ Spend("candidates")
       /\ producedBy = "write" \/ candidates # <<>>
       /\ candidates' = Append(candidates, [tree |-> tree, parent |-> parent])
       /\ baselines' = [t \in DOMAIN baselines \cup {tree} |->
                           IF t \in DOMAIN baselines THEN baselines[t] ELSE before]
       /\ revision' = revision + 1
       /\ UNCHANGED <<damaged, threads, repairs, url, page, run, note, loads, command>>

Damage(tree, path) ==
    /\ Spend("damaged")
    /\ SealedPage(tree, path)
    /\ damaged' = damaged \cup {<<tree, path>>}
    /\ UNCHANGED <<candidates, baselines, threads, repairs, revision,
                   url, page, run, note, loads, command>>

(* A command of another client, which has seen the run as it is.                *)
Elsewhere(c) == /\ Spend("elsewhere")
                /\ Accepts(c)
                /\ Apply(c)
                /\ UNCHANGED <<url, page, run, note, loads, command>>

(* ------------------------------ loading the page ----------------------------- *)
Loading == \E l \in loads : l.by = "effect"
Shown == page # <<>> /\ ~Loading  \* the page and what can be clicked on it
SelectedTree == IF page # <<>> THEN <<Head(page).tree>> ELSE url.tree

(* An effect of an address that has changed only loses its say on loading.      *)
Refresh(new) == {[l EXCEPT !.by = IF @ = "effect" THEN "stale" ELSE @] : l \in loads}
                  \cup {[url |-> new, by |-> "effect", seen |-> <<>>]}

(* A candidate of the list, a page of its list, or a path that is typed; with   *)
(* ~Waits also the browser's way back, while a load is under way.               *)
Open(tree, path) ==
    LET new == [tree |-> tree, path |-> path]
    IN /\ Spend("opens")
       /\ new # url
       /\ Waits => ~Loading /\ command = Idle
       /\ \/ tree = SelectedTree
          \/ run # <<>> /\ tree # <<>> /\ Head(tree) \in Range(Head(run).trees) /\ path = url.path
       /\ url' = new
       /\ loads' = Refresh(new)
       /\ UNCHANGED <<server, page, run, note, command>>

(* A load reads the workspace and the run first ...                             *)
LoadReads(l) ==
    /\ l \in loads /\ l.seen = <<>>
    /\ loads' = (loads \ {l}) \cup {[l EXCEPT !.seen = <<Snapshot>>]}
    /\ UNCHANGED <<server, url, page, run, note, command, budget>>

Selects(l) == IF l.url.tree # <<>> THEN l.url.tree
              ELSE LET trees == Head(l.seen).trees
                   IN IF trees = <<>> THEN <<>> ELSE <<Last(trees)>>

Lands(l) == Selects(l) # <<>> /\ SealedPage(Head(Selects(l)), l.url.path)

(* The end of a command clears what is typed for a comment, however it ended.   *)
Cleared(c) == IF c.op.type = "create" THEN NoLine ELSE note
Ended(l) == IF l.by = "command" THEN /\ command' = Idle
                                     /\ note' = Cleared(command)
            ELSE UNCHANGED <<command, note>>

(* ... then the tree, the page and the difference, and shows them all at once,  *)
(* whatever the address says by then.                                           *)
LoadLands(l) ==
    LET tree == Head(Selects(l))
        named == [l.url EXCEPT !.tree = <<tree>>]
    IN /\ l \in loads /\ l.seen # <<>>
       /\ Lands(l)
       /\ run' = l.seen
       /\ page' = <<[tree |-> tree, path |-> l.url.path, lines |-> tree[l.url.path],
                     diff |-> ReadDiff(tree, l.url.path), pages |-> DOMAIN tree]>>
       /\ IF l.url.tree = <<>>
          THEN url' = named /\ loads' = Refresh(named) \ {[l EXCEPT !.by = "stale"]}
          ELSE url' = url /\ loads' = loads \ {l}
       /\ Ended(l)
       /\ UNCHANGED <<server, budget>>

LoadFails(l) ==
    /\ l \in loads
    /\ \/ l.seen # <<>> /\ ~Lands(l) /\ UNCHANGED budget
       \/ "load" \in Losable /\ Spend("lost")
    /\ loads' = loads \ {l}
    /\ Ended(l)
    /\ UNCHANGED <<server, url, page, run>>

(* ---------------------------- clicking on the page --------------------------- *)
Type(text) == /\ Shown /\ note # text
              /\ note' = text
              /\ UNCHANGED <<server, url, page, run, loads, command, budget>>

ShownThreads == {t \in DOMAIN Head(run).threads : Head(run).threads[t].tree = Head(page).tree}
ShownOpen == {t \in ShownThreads : Head(run).threads[t].state = "open"}

Click(op) == /\ Shown /\ command = Idle
             /\ Spend("clicks")
             /\ command' = [phase |-> "get", op |-> op, url |-> url, tries |-> 0]
             /\ UNCHANGED <<server, url, page, run, note, loads>>

(* The comment goes to the candidate that is shown and to the page of the       *)
(* address; the lines are checked on the page that is shown.                    *)
ClickComment(from, to) ==
    /\ page # <<>> /\ note # NoLine
    /\ from <= to /\ to <= Len(Head(page).lines)
    /\ Click([type |-> "create", tree |-> Head(page).tree, path |-> url.path, from |-> from,
              to |-> to, body |-> note, click |-> budget.clicks,
              read |-> SubSeq(Head(page).lines, from, to)])

ClickResolve(t) == /\ page # <<>> /\ t \in ShownOpen
                   /\ Click([type |-> "resolve", id |-> t])

ClickRepair == /\ page # <<>> /\ ShownOpen # {}
               /\ Click([type |-> "repair", ids |-> ShownOpen, seen |-> ShownOpen])

(* Mutant: every thread that is open goes into the repair.                      *)
BuildAllOpen(op, latest) ==
    IF op.type # "repair" THEN op
    ELSE [op EXCEPT !.ids = {t \in DOMAIN latest.threads : latest.threads[t].state = "open"}]

(* Of the threads of a repair those that are still open.                        *)
Build(op, latest) ==
    IF op.type # "repair" THEN op
    ELSE [op EXCEPT !.ids = {t \in op.ids : latest.threads[t].state = "open"}]

CommandEnds == /\ command' = Idle
               /\ note' = Cleared(command)
               /\ UNCHANGED <<server, url, page, run, loads>>

CommandReads ==
    LET latest == Snapshot  op == Build(command.op, latest)
    IN /\ command.phase = "get"
       /\ run' = <<latest>>
       /\ UNCHANGED <<server, url, page, loads, budget>>
       /\ IF op.type = "repair" /\ op.ids = {}
          THEN command' = Idle /\ note' = Cleared(command)
          ELSE /\ command' = [command EXCEPT !.phase = "post"] @@
                                 [body |-> op, expected |-> latest.revision]
               /\ UNCHANGED note

(* The server's transaction.                                                    *)
CommandIsApplied ==
    LET c == command.body
        Replies(phase) == command' = [command EXCEPT !.phase = phase]
    IN /\ command.phase = "post"
       /\ UNCHANGED <<url, page, run, note, loads, budget>>
       /\ \/ command.expected # revision /\ Replies("stale") /\ UNCHANGED server
          \/ command.expected = revision /\ ~Accepts(c) /\ Replies("refused") /\ UNCHANGED server
          \/ command.expected = revision /\ Accepts(c) /\ Replies("ok") /\ Apply(c)

(* Mutant: whatever went wrong is tried once more.                              *)
AnyError(phase) == phase \in {"stale", "refused", "lost"}

(* Only a stale revision is tried once more, with the run as it is then.        *)
TriesAgain(phase) == phase = "stale"

Again(phase) == /\ TriesAgain(phase) /\ command.tries = 0
                /\ command' = [phase |-> "get", op |-> command.op, url |-> command.url, tries |-> 1]
                /\ UNCHANGED <<server, url, page, run, note, loads>>

(* What follows a command is the refresh of the page where the click was.       *)
CommandIsAnswered ==
    \/ /\ command.phase = "ok"
       /\ command' = [command EXCEPT !.phase = "refresh"]
       /\ loads' = loads \cup {[url |-> command.url, by |-> "command", seen |-> <<>>]}
       /\ UNCHANGED <<server, url, page, run, note, budget>>
    \/ /\ command.phase \in {"stale", "refused"}
       /\ IF TriesAgain(command.phase) /\ command.tries = 0
          THEN Again(command.phase) ELSE CommandEnds
       /\ UNCHANGED budget

CommandIsLost ==
    /\ "command" \in Losable /\ command.phase \in {"get", "ok", "stale", "refused"}
    /\ Spend("lost")
    /\ IF TriesAgain("lost") /\ command.tries = 0 /\ command.phase # "get"
       THEN Again("lost") ELSE CommandEnds

(* ------------------------------ the specification ---------------------------- *)
Lines == 1..2
Others == {[type |-> "create", tree |-> tree, path |-> path, from |-> 1, to |-> 1, click |-> 0,
            body |-> NoLine, read |-> SubSeq(tree[path], 1, 1)] :
               <<tree, path>> \in {<<t, p>> \in Trees \X Paths : p \in DOMAIN t}}
            \cup {[type |-> "resolve", id |-> t] : t \in DOMAIN threads}
            \cup {[type |-> "repair", ids |-> {t}, seen |-> {t}] : t \in DOMAIN threads}

Proceed == \/ \E l \in loads : LoadReads(l) \/ LoadLands(l) \/ LoadFails(l)
           \/ CommandReads \/ CommandIsApplied \/ CommandIsAnswered \/ CommandIsLost

Next ==
    \/ \E tree \in Trees, by \in {"write", "repair"} : Commit(tree, by)
    \/ \E tree \in Trees, path \in Paths : Damage(tree, path)
    \/ \E c \in Others : Elsewhere(c)
    \/ \E path \in Paths : \E tree \in {SelectedTree} \cup {<<t>> : t \in Trees} : Open(tree, path)
    \/ \E text \in Notes : Type(text)
    \/ \E from, to \in Lines : ClickComment(from, to)
    \/ \E t \in DOMAIN threads : ClickResolve(t)
    \/ ClickRepair
    \/ Proceed

Spec == Init /\ [][Next]_vars /\ WF_vars(Proceed)

(* --------------------------------- properties -------------------------------- *)
AtRest == loads = {} /\ command = Idle

(* A thread is on the lines that the reader had before the eyes at the click:   *)
(* the server cuts its text out of the candidate and the page that are named,   *)
(* which are those of the page and of the address (RunReviewPage, createThread).*)
ThreadIsOnWhatWasRead == \A t \in DOMAIN threads : threads[t].text = threads[t].read

(* A click makes one thread at most, as only what the server has refused for its*)
(* revision is sent again, under a new command id (RunReviewPage, dispatch).    *)
OncePerClick == \A t, u \in DOMAIN threads :
    t # u /\ threads[t].click # 0 => threads[t].click # threads[u].click

(* A repair is of threads that were shown to whoever requests it, of one        *)
(* candidate, and it starts from that candidate (CandidateReview, requestRepair)*)
RepairIsOfWhatWasSeen == \A r \in DOMAIN repairs :
    /\ repairs[r].ids # {} /\ repairs[r].ids \subseteq repairs[r].seen
    /\ \A t \in repairs[r].ids : threads[t].tree = candidates[repairs[r].baseline].tree

(* The difference that is shown turns the page of a parent of the candidate into*)
(* the page that is shown, unless a sealed file was changed (readDiff).         *)
Turns(rows, before, after) ==
    LET Texts(Test(_)) == LET kept == SelectSeq(rows, Test) IN [i \in DOMAIN kept |-> kept[i].text]
    IN Texts(LAMBDA r : r.kind # "add") = before /\ Texts(LAMBDA r : r.kind # "remove") = after
TextOf(i, path) == IF i > 0 /\ path \in DOMAIN candidates[i].tree THEN candidates[i].tree[path]
                   ELSE <<NoLine>>
DiffIsTrue == page # <<>> => LET p == Head(page) IN
    \/ damaged # {}
    \/ \E i \in DOMAIN candidates :
          candidates[i].tree = p.tree /\ Turns(p.diff, TextOf(candidates[i].parent, p.path), p.lines)

(* It is the parent that the newest candidate with this digest had. Not kept.   *)
DiffIsOfTheParent == page # <<>> =>
    LET p == Head(page)  i == CandidateForDigest(p.tree)
    IN Turns(p.diff, TextOf(candidates[i].parent, p.path), p.lines)

(* A comment leaves its field as a thread only. Not kept: dispatch reports its  *)
(* own errors, and createThread empties the field after it in any case.         *)
NoteIsKept == [][note # NoLine /\ note' = NoLine
                   => \E t \in DOMAIN threads : threads[t].body = note]_vars

(* What is shown is what the address names, once nothing is under way. Not kept.*)
ShownIsNamed == AtRest /\ page # <<>> => Head(page).path = url.path /\ <<Head(page).tree>> = url.tree

(* Loads and commands come to an end, whatever is lost.                         *)
Settles == []<>AtRest
====
