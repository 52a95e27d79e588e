-------------------------------- MODULE Reports --------------------------------
(***************************************************************************)
(* From the report of a scanner to a ScanResult: finguard/parsers.  For    *)
(* each format there is what parse_<format> accepts and what it finds.     *)
(*                                                                         *)
(* A JSON object is a record with its keys as fields, a JSON array on top  *)
(* of a document is the record [list |-> <<...>>], and the elements of     *)
(* coverage.xml and JUnit reports are records as well.  The fields no      *)
(* property is about (messages, places, references) are one field ok of    *)
(* their object: it says whether all those that are required are there     *)
(* and have the right type, and one bad object refuses the whole report.   *)
(***************************************************************************)
EXTENDS Integers, Sequences, SequencesExt

(* models.Severity; what is not known is above all others.  More spellings *)
(* of the same five ("moderate", "3") are left out.                        *)
UNKNOWN == 5

SeverityParse(text) ==
    LET aliases == [critical |-> 4, high |-> 3, error |-> 3, medium |-> 2, warning |-> 2,
                    low |-> 1, info |-> 0, note |-> 0]
    IN  IF text \in DOMAIN aliases THEN aliases[text] ELSE UNKNOWN

(* SARIF has levels of its own. *)
OfLevel(level) ==
    LET levels == [error |-> 3, warning |-> 2, note |-> 1, none |-> 0]
    IN  IF level \in DOMAIN levels THEN levels[level] ELSE UNKNOWN

(* A CVSS score in tenths; NoScore is null or "", BadScore no number or out *)
(* of range.  A score of zero is INFO for CycloneDX and LOW for SARIF; the  *)
(* number 0 of a SARIF result is false to Python and thus NoScore as well,  *)
(* and only the text "0" is a score.                                        *)
NoScore == -1
BadScore == 101
OfScore(score, zero) ==
    CASE score >= 90 -> 4 [] score \in 70 .. 89 -> 3 [] score \in 40 .. 69 -> 2
      [] score \in 1 .. 39 -> 1 [] score = 0 -> zero

(* A finding: dependency says that its kind is "dependency_license", which *)
(* decides only where the category is not "license" (Trivy calls licences   *)
(* of plain files "source_license").                                        *)
Issue(category, severity) ==
    [category |-> category, severity |-> severity, license |-> <<>>, dependency |-> FALSE]
LicenseDetected(e) ==
    [category |-> "license", severity |-> 0, license |-> e, dependency |-> TRUE]

(* Licences are inventory, and what their report says of severity is not read. *)
IsInventory(f) == f.category = "license" \/ f.dependency

Each(F(_), s) == [i \in DOMAIN s |-> F(s[i])]
Every(s, Test(_)) == \A i \in DOMAIN s : Test(s[i])
Ok(item) == item.ok

-----------------------------------------------------------------------------
(* ScanResult.from_dict keeps what FinGuard's own scanners wrote, but for *)
(* provenance, which only attestations may give.                          *)
NormalizedKeys == {"scanner", "category", "status"}
NormalizedAccepts(d) ==
    NormalizedKeys \subseteq DOMAIN d /\ d.ok /\ ~d.provenance /\ Every(d.findings, Ok)
NormalizedFinds(d) ==
    Each(LAMBDA f : [category |-> f.category, severity |-> SeverityParse(f.severity),
                     license |-> f.license, dependency |-> f.dependency], d.findings)

SemgrepAccepts(d) == "results" \in DOMAIN d /\ "errors" \in DOMAIN d /\ d.ok
                     /\ Every(d.results, Ok) /\ Every(d.errors, Ok)
SemgrepFinds(d) == Each(LAMBDA r : Issue("sast", SeverityParse(r.severity)), d.results)

RuffAccepts(d) == "list" \in DOMAIN d /\ Every(d.list, LAMBDA r : "filename" \in DOMAIN r /\ r.ok)
RuffFinds(d) ==
    Each(LAMBDA r : Issue("lint", IF r.family \in {"E", "F", "S", "B"} THEN 2 ELSE 1), d.list)

(* The four lists of a target are one here, told apart by category. *)
TrivyAccepts(d) == "Results" \in DOMAIN d /\ d.ok
                   /\ Every(d.Results, LAMBDA r : r.ok /\ Every(r.items, Ok))
TrivyItem(x) == IF x.category = "license" THEN LicenseDetected(x.license)
                                          ELSE Issue(x.category, SeverityParse(x.severity))
TrivyFinds(d) == FlattenSeq(Each(LAMBDA r : Each(TrivyItem, r.items), d.Results))

(* pip-audit ranks nothing: each vulnerability is HIGH.  An object without   *)
(* a list vulns stands for one that has no name or version of a dependency. *)
Dependencies(d) == IF "list" \in DOMAIN d THEN d.list ELSE d.dependencies
PipAuditAccepts(d) == (DOMAIN d) \cap {"list", "dependencies"} # {}
                      /\ Every(Dependencies(d), LAMBDA x : "vulns" \in DOMAIN x /\ x.ok
                                                           /\ Every(x.vulns, Ok))
PipAuditFinds(d) ==
    FlattenSeq(Each(LAMBDA x : Each(LAMBDA v : Issue("sca", 3), x.vulns), Dependencies(d)))

(* An alert without instances was found at the site itself; instances that *)
(* agree on path, method and parameter are one.                            *)
ZapAccepts(d) == /\ "site" \in DOMAIN d /\ d.site # <<>>
                 /\ Every(d.site, LAMBDA s : s.ok /\ Every(s.alerts, LAMBDA a :
                        a.ok /\ a.risk \in 0 .. 4 /\ Every(a.instances, Ok)))
Instances(a) == IF a.instances = <<>> THEN {"base"} ELSE {a.instances[i].identity : i \in DOMAIN a.instances}
ZapFinds(d) ==
    FlattenSeq(Each(LAMBDA s : FlattenSeq(Each(LAMBDA a :
        Each(LAMBDA x : Issue("dast", a.risk), SetToSeq(Instances(a))), s.alerts)), d.site))

-----------------------------------------------------------------------------
(* CycloneDX.  d.parts are the components by number, roots those of the  *)
(* top level and subject those of metadata.component (one or none).      *)

(* _cyclonedx_components: pending components are a stack. *)
Components(part, roots) ==
    LET flat[pending \in Seq(DOMAIN part)] ==
            IF pending = <<>> THEN <<>>
            ELSE <<Head(pending)>> \o flat[part[Head(pending)].components \o Tail(pending)]
    IN  flat[roots]

AllComponents(d) == Components(d.parts, d.subject) \o Components(d.parts, d.roots)

(* No licence at all is UNKNOWN, but the released product itself may have none. *)
LicensesOf(d, c) ==
    IF d.parts[c].licenses # <<>> THEN d.parts[c].licenses
    ELSE IF c \in Range(d.subject) THEN <<>> ELSE <<<<"UNKNOWN">>>>

(* The stricter of severity and score; if one is unknown, so is the rating. *)
Rating(r) ==
    LET values == (IF r.severity = "" THEN {} ELSE {SeverityParse(r.severity)})
                  \cup (IF r.score = NoScore THEN {} ELSE {OfScore(r.score, 0)})
    IN  IF values = {} THEN UNKNOWN ELSE Max(values)

VulnerabilityAccepts(v) ==
    /\ v.ok /\ Every(v.ratings, LAMBDA r : r.ok /\ r.score # BadScore)
    /\ IsInjective(v.affects)
    /\ "" \in Range(v.affects) => v.affects = <<"">>
VulnerabilitySeverity(v) ==
    IF v.ratings = <<>> THEN UNKNOWN ELSE Max({Rating(v.ratings[i]) : i \in DOMAIN v.ratings})

CycloneDXAccepts(d) ==
    /\ "bomFormat" \in DOMAIN d /\ d.ok
    /\ LET all == AllComponents(d)
       IN  /\ Every(all, LAMBDA c : d.parts[c].ok /\ Every(d.parts[c].licenses, LAMBDA e : e # <<>>))
           /\ IsInjective(Each(LAMBDA c : d.parts[c].ref, all))
    /\ Every(d.vulnerabilities, VulnerabilityAccepts)

CycloneDXFinds(d) ==
    FlattenSeq(Each(LAMBDA c : Each(LicenseDetected, LicensesOf(d, c)), AllComponents(d)))
    \o FlattenSeq(Each(LAMBDA v :
           [i \in 1 .. Max({1, Len(v.affects)}) |-> Issue("sca", VulnerabilitySeverity(v))],
           d.vulnerabilities))

-----------------------------------------------------------------------------
(* SARIF *)

RuleOf(run, id) ==
    LET found == {i \in DOMAIN run.rules : run.rules[i].id = id}
    IN  IF found = {} THEN [level |-> "", score |-> NoScore]
                      ELSE run.rules[CHOOSE i \in found : TRUE]

(* A result's own score or level goes before that of its rule, a score *)
(* before a level, and "warning" is the default.                       *)
ScoreOf(run, x) == IF x.score # NoScore THEN x.score ELSE RuleOf(run, x.rule).score
(* Mutant: the level of the rule goes before that of the result. *)
LevelOfRule(run, x) == IF RuleOf(run, x.rule).level # "" THEN RuleOf(run, x.rule).level
                       ELSE IF x.level # "" THEN x.level ELSE "warning"

LevelOf(run, x) == IF x.level # "" THEN x.level
                   ELSE IF RuleOf(run, x.rule).level # "" THEN RuleOf(run, x.rule).level
                   ELSE "warning"
ResultSeverity(run, x) ==
    IF ScoreOf(run, x) # NoScore THEN OfScore(ScoreOf(run, x), 1) ELSE OfLevel(LevelOf(run, x))

SarifAccepts(d) ==
    /\ "runs" \in DOMAIN d
    /\ Every(d.runs, LAMBDA r :
          /\ r.ok /\ Every(r.rules, Ok) /\ IsInjective(Each(LAMBDA x : x.id, r.rules))
          /\ Every(r.results, LAMBDA x : x.ok /\ ScoreOf(r, x) # BadScore))
SarifFinds(d) ==
    FlattenSeq(Each(LAMBDA r : Each(LAMBDA x : Issue("sast", ResultSeverity(r, x)), r.results),
                    d.runs))
SarifFailed(d) ==
    \E i \in DOMAIN d.runs : \E j \in DOMAIN d.runs[i].invocations : ~d.runs[i].invocations[j]

-----------------------------------------------------------------------------
(* JUnit and coverage.py.  A suite has the counts it declares, its cases   *)
(* and the cases of suites inside it, which no one looks at.  A case is    *)
(* the set of its outcomes; an outcome given twice is like two outcomes.   *)

Sum(f(_), s) == FoldLeft(LAMBDA n, x : n + f(x), 0, s)
CountNames == {"tests", "failures", "errors", "skipped"}
Declared(d, name) == Sum(LAMBDA s : s.declared[name], d.suites)

Cases(d) == FlattenSeq(Each(LAMBDA s : s.cases, d.suites))
WithOutcome(cases, outcome) == {i \in DOMAIN cases : outcome \in cases[i]}

JUnitAccepts(d) ==
    LET cases == Cases(d)
    IN  /\ "suites" \in DOMAIN d /\ d.suites # <<>>
        /\ Every(d.suites, LAMBDA s : \A name \in CountNames : s.declared[name] >= 0)
        /\ Every(cases, LAMBDA c : Cardinality(c) <= 1)
        /\ Len(cases) = Declared(d, "tests")
        /\ Cardinality(WithOutcome(cases, "failure")) = Declared(d, "failures")
        /\ Cardinality(WithOutcome(cases, "error")) = Declared(d, "errors")
        /\ Cardinality(WithOutcome(cases, "skipped")) = Declared(d, "skipped")
Broken(c) == c \cap {"failure", "error"} # {}
JUnitFinds(d) ==
    FlattenSeq(Each(LAMBDA c : IF Broken(c) THEN <<Issue("test", 3)>> ELSE <<>>, Cases(d)))

(* The rate, in ten thousandths, must fit the counts it was made from. *)
Fits(rate, x) == /\ 0 <= x.covered /\ x.covered <= x.valid /\ rate \in 0 .. 10000
                 /\ LET error == rate * x.valid - 10000 * x.covered
                    IN  IF x.valid = 0 THEN rate <= 1 ELSE -x.valid <= error /\ error <= x.valid

(* Lines, and branches if the report has them. *)
CoverageAccepts(d) == /\ "coverage" \in DOMAIN d /\ d.ok /\ d.coverage # <<>>
                      /\ Every(d.coverage, LAMBDA x : Fits(x.rate, x))

-----------------------------------------------------------------------------
(* parse_report *)

(* The first match decides; name holds what is looked for in file names. *)
Detected(d, name) ==
    LET Keys(s) == s \subseteq DOMAIN d
    IN  CASE Keys({"coverage"}) \/ Keys({"suites"}) ->
               IF "coverage" \in name THEN "coverage" ELSE IF "junit" \in name THEN "junit" ELSE ""
          [] Keys({"list"}) ->
               IF "ruff" \in name \/ d.list = <<>> THEN "ruff"
               ELSE IF "filename" \in DOMAIN d.list[1] THEN "ruff"
               ELSE IF "audit" \in name THEN "pip-audit" ELSE ""
          [] Keys({"garbled"}) -> ""
          [] OTHER ->
               IF Keys(NormalizedKeys) THEN "normalized"
               ELSE IF Keys({"runs"}) /\ d.version = 2 THEN "sarif"
               ELSE IF Keys({"bomFormat"}) THEN "cyclonedx"
               ELSE IF Keys({"Results"}) THEN "trivy"
               ELSE IF Keys({"site"}) THEN "zap"
               ELSE IF Keys({"results", "errors"}) THEN "semgrep"
               ELSE IF Keys({"dependencies"}) THEN "pip-audit" ELSE ""

Accepts(kind, d) ==
    CASE kind = "normalized" -> NormalizedAccepts(d)
      [] kind = "semgrep"    -> SemgrepAccepts(d)
      [] kind = "ruff"       -> RuffAccepts(d)
      [] kind = "trivy"      -> TrivyAccepts(d)
      [] kind = "pip-audit"  -> PipAuditAccepts(d)
      [] kind = "zap"        -> ZapAccepts(d)
      [] kind = "cyclonedx"  -> CycloneDXAccepts(d)
      [] kind = "sarif"      -> SarifAccepts(d)
      [] kind = "coverage"   -> CoverageAccepts(d)
      [] kind = "junit"      -> JUnitAccepts(d)
      [] OTHER               -> FALSE

Finds(kind, d) ==
    CASE kind = "normalized" -> NormalizedFinds(d)
      [] kind = "semgrep"    -> SemgrepFinds(d)
      [] kind = "ruff"       -> RuffFinds(d)
      [] kind = "trivy"      -> TrivyFinds(d)
      [] kind = "pip-audit"  -> PipAuditFinds(d)
      [] kind = "zap"        -> ZapFinds(d)
      [] kind = "cyclonedx"  -> CycloneDXFinds(d)
      [] kind = "sarif"      -> SarifFinds(d)
      [] kind = "coverage"   -> <<>>
      [] kind = "junit"      -> JUnitFinds(d)

Failed(kind, d) ==
    CASE kind = "normalized" -> d.errors # <<>>
      [] kind = "semgrep"    -> d.errors # <<>>
      [] kind = "sarif"      -> SarifFailed(d)
      [] OTHER               -> FALSE

(* _status; FinGuard's own reports say it themselves. *)
Status(kind, d) ==
    IF kind = "normalized" THEN d.status
    ELSE IF Failed(kind, d) THEN "error"
    ELSE IF Finds(kind, d) # <<>> THEN "findings" ELSE "passed"

ScanOf(kind, d) == [kind |-> kind, status |-> Status(kind, d), errors |-> Failed(kind, d),
                    findings |-> Finds(kind, d),
                    components |-> IF kind = "cyclonedx" THEN Len(AllComponents(d)) ELSE -1,
                    tests |-> IF kind = "junit" THEN Len(Cases(d)) ELSE -1]

-----------------------------------------------------------------------------
(* What parsing gives by its syntax: an array is a sequence, and a component *)
(* has its place at the top of a document or inside one other component,     *)
(* where parts are numbered from the outside to the inside.                  *)

IsList(s) == s \in Seq(Range(s))

IsTree(parts, tops) ==
    /\ IsList(parts) /\ tops \in Seq(DOMAIN parts)
    /\ \A c \in DOMAIN parts : parts[c].components \in Seq({n \in DOMAIN parts : n > c})
    /\ \A c \in DOMAIN parts : \/ c \in Range(tops)
                               \/ \E b \in DOMAIN parts : c \in Range(parts[b].components)

Scores == NoScore .. BadScore

WellFormed(d) ==
    LET Keys(s) == s \subseteq DOMAIN d
    IN  /\ Keys(NormalizedKeys) =>
              IsList(d.findings) /\ Every(d.findings, LAMBDA f : IsList(f.license))
        /\ Keys({"results"}) => IsList(d.results)
        /\ Keys({"Results"}) =>
              IsList(d.Results) /\ Every(d.Results, LAMBDA r :
                  IsList(r.items) /\ Every(r.items, LAMBDA x : IsList(x.license)))
        /\ Keys({"list"}) \/ Keys({"dependencies"}) =>
              IsList(Dependencies(d)) /\ Every(Dependencies(d), LAMBDA x :
                  "vulns" \in DOMAIN x => IsList(x.vulns))
        /\ Keys({"site"}) =>
              IsList(d.site) /\ Every(d.site, LAMBDA s :
                  IsList(s.alerts) /\ Every(s.alerts, LAMBDA a : IsList(a.instances)))
        /\ Keys({"runs"}) => IsList(d.runs) /\ Every(d.runs, LAMBDA r :
              /\ IsList(r.results) /\ Every(r.results, LAMBDA x : x.score \in Scores)
              /\ IsList(r.rules) /\ Every(r.rules, LAMBDA x : x.score \in Scores))
        /\ Keys({"bomFormat"}) =>
              /\ IsTree(d.parts, d.subject \o d.roots)
              /\ d.subject \in Seq(DOMAIN d.parts) /\ d.roots \in Seq(DOMAIN d.parts)
              /\ Every(d.parts, LAMBDA c : IsList(c.licenses) /\ Every(c.licenses, IsList))
              /\ IsList(d.vulnerabilities)
              /\ Every(d.vulnerabilities, LAMBDA v :
                    /\ IsList(v.affects) /\ IsList(v.ratings)
                    /\ Every(v.ratings, LAMBDA r : r.score \in Scores))
        /\ Keys({"suites"}) => IsList(d.suites) /\ Every(d.suites, LAMBDA s :
              IsList(s.cases) /\ IsList(s.inner))
=============================================================================
