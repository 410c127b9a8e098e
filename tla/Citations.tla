------------------------------- MODULE Citations -------------------------------
(* A source citation of a page, from the writer's link to the published one:    *)
(* the host canonicalises the target and clamps a line range that is off by     *)
(* little, validates it against the pinned snapshots, and rewrites it at        *)
(* publication. A target is the sequence of the segments after "repo:"; lines   *)
(* are <<>>, <<start>> or <<start, end>>.                                       *)
EXTENDS Integers, SequencesExt

CONSTANTS
    Targets,    \* targets a writer may write
    LineRanges, \* line ranges a writer may write
    Snapshots,  \* pinned sources: [source -> [file -> number of lines]]
    Slack,      \* clampLineSlack
    MaxRounds   \* bound on the validations of a run

VARIABLES
    sources,    \* the snapshot set of the run
    written,    \* the citation as the writer left it
    cite,       \* the citation on disk
    stage,      \* written, fixed, valid, invalid, published
    rounds

vars == <<sources, written, cite, stage, rounds>>

Citation(target, lines) == [target |-> target, lines |-> lines]
SourceIds == DOMAIN sources
MultiSource == \E a, b \in SourceIds : a # b
Mount == "sources"
Up == ".."

--------------------------------------------------------------------------------
(* The policy of targets.                                                       *)

NoParts == [source |-> "", path |-> <<>>]
Parts(source, path) == [source |-> source, path |-> path]

(* Relative, without a way up. *)
NormalizeTargetSegments(t) == t # <<>> /\ Up \notin Range(t)

(* Mount path, then source prefix, then a bare path of the only source.         *)
ParseCitationTarget(t) ==
    CASE ~NormalizeTargetSegments(t) -> NoParts
      [] t[1] = Mount /\ Len(t) >= 2 /\ t[2] \in SourceIds ->
             IF Len(t) = 2 THEN NoParts ELSE Parts(t[2], SubSeq(t, 3, Len(t)))
      [] t[1] \in SourceIds /\ Len(t) >= 2 -> Parts(t[1], Tail(t))
      [] OTHER -> IF MultiSource THEN NoParts ELSE Parts(CHOOSE s \in SourceIds : TRUE, t)

IsParsed(parts) == parts # NoParts

FormatCitationTarget(parts) == IF MultiSource THEN <<parts.source>> \o parts.path ELSE parts.path

CanonicalizeCitationTarget(t) == FormatCitationTarget(ParseCitationTarget(t))

(* The lines of the cited file; -1 when the snapshot has no such file.          *)
CountFileLines(parts) ==
    IF parts.source \in SourceIds /\ parts.path \in DOMAIN sources[parts.source]
    THEN sources[parts.source][parts.path] ELSE -1

ResolveCitationFile(c) == ParseCitationTarget(c.target)

--------------------------------------------------------------------------------
(* Repair by the host.                                                          *)

(* Both bounds to the end of the file, if neither is beyond it by more than     *)
(* the slack; an end before its start is raised to it.                          *)
ClampCitationLineRange(lines, count) ==
    IF lines = <<>> \/ lines[1] < 1 THEN lines
    ELSE LET start == lines[1]
             end == lines[Len(lines)]
             Fit(n) == IF n > count THEN count ELSE n
             Far(n) == n - count > Slack
         IN IF start > count THEN IF Far(start) THEN lines ELSE <<count>>
            ELSE IF Len(lines) = 1 \/ Far(end) THEN lines
            ELSE IF Fit(end) <= start THEN <<start>> ELSE <<start, Fit(end)>>

(* The lines are counted at the canonical target; an unparsable one is left.    *)
AutofixCitation(c) ==
    IF ~IsParsed(ParseCitationTarget(c.target)) THEN c
    ELSE LET target == CanonicalizeCitationTarget(c.target)
             count == CountFileLines(ResolveCitationFile(Citation(target, <<>>)))
         IN Citation(target, IF count < 0 THEN c.lines ELSE ClampCitationLineRange(c.lines, count))

--------------------------------------------------------------------------------
(* Validation and publication.                                                  *)

ValidateCitationFormat(c) ==
    /\ Up \notin Range(c.target)
    /\ c.lines # <<>> => c.lines[1] >= 1
    /\ Len(c.lines) = 2 => c.lines[2] >= c.lines[1]

ValidateCitationResolve(c) ==
    LET parts == ResolveCitationFile(c)
    IN /\ IsParsed(parts) /\ CountFileLines(parts) >= 0
       /\ \A i \in DOMAIN c.lines : c.lines[i] <= CountFileLines(parts)

IsValid(c) == ValidateCitationFormat(c) /\ ValidateCitationResolve(c)

(* A link below sources/ of the published tree. *)
Href(parts, lines) == Citation(<<Mount, parts.source>> \o parts.path, lines)

RewriteOneRepoCitation(c) ==
    IF IsParsed(ParseCitationTarget(c.target)) THEN Href(ParseCitationTarget(c.target), c.lines) ELSE c

--------------------------------------------------------------------------------
Init ==
    /\ sources \in Snapshots
    /\ written \in {Citation(t, l) : t \in Targets, l \in LineRanges}
    /\ cite = written /\ stage = "written" /\ rounds = 0

AutofixWikiTreeCitations ==
    /\ stage \in {"written", "valid", "invalid"} /\ rounds < MaxRounds
    /\ cite' = AutofixCitation(cite) /\ stage' = "fixed" /\ rounds' = rounds + 1
    /\ UNCHANGED <<sources, written>>

Validate ==
    /\ stage = "fixed"
    /\ stage' = IF IsValid(cite) THEN "valid" ELSE "invalid"
    /\ UNCHANGED <<sources, written, cite, rounds>>

Publish ==
    /\ stage = "valid"
    /\ cite' = RewriteOneRepoCitation(cite) /\ stage' = "published"
    /\ UNCHANGED <<sources, written, rounds>>

Next == AutofixWikiTreeCitations \/ Validate \/ Publish

Spec == Init /\ [][Next]_vars

--------------------------------------------------------------------------------
TypeOK == stage \in {"written", "fixed", "valid", "invalid", "published"} /\ rounds \in 0..MaxRounds

NamesAFile == CountFileLines(ResolveCitationFile(written)) >= 0

(* Through every repair and validation of a run, and its publication, the page  *)
(* cites the file the writer meant. Fails when a directory at the top of the    *)
(* only source has the source's name: the canonical target loses it.            *)
TargetIsKept ==
    NamesAFile =>
    IF stage = "published" THEN cite.target = RewriteOneRepoCitation(written).target
    ELSE ResolveCitationFile(cite) = ResolveCitationFile(written)

(* A citation that was valid is not touched but for its form, and the host's    *)
(* repair never moves a range by more than the slack.                           *)
RepairIsSmall ==
    /\ IsValid(written) => stage # "invalid"
    /\ \A i \in DOMAIN cite.lines :
           i \in DOMAIN written.lines /\ stage # "invalid" =>
               cite.lines[i] - written.lines[i] \in -Slack..Slack

(* A second repair finds nothing to do.                                         *)
RepairSettles ==
    NamesAFile /\ stage \in {"fixed", "valid", "invalid"} => AutofixCitation(cite) = cite

(* Fails for an empty file: the start is clamped to line 0, which is no line.   *)
RepairedIsWellFormed ==
    stage = "fixed" /\ ValidateCitationFormat(written) => ValidateCitationFormat(cite)
================================================================================
