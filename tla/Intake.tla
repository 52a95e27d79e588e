-------------------------------- MODULE Intake --------------------------------
(***************************************************************************)
(* What "finguard gate" takes in: execute_gate of finguard/gate_service.py *)
(* copies policy, reports and attestations (_snapshot_request), parses and *)
(* evaluates the copies (_evaluate_snapshot) and archives them.  Of the    *)
(* evaluation only check_licenses is here; the rest of it is Gate.         *)
(***************************************************************************)
EXTENDS Snapshots, Reports, Licenses

CONSTANTS
    PolicyPath,       \* --policy
    ReportPaths,      \* what can be in the directory --reports, in its sorted order
    AttestationPaths, \* what can be in the directory --attestations, in its sorted order
    Scenarios         \* requests, with what is on the disk

ASSUME IntakeAssumption ==
    /\ ReportPaths \in Seq(Paths) /\ AttestationPaths \in Seq(Paths)
    /\ PolicyPath \in Paths
    /\ \A c \in Scenarios :
          /\ c.request.named \in Seq([type : STRING, path : Paths])
          /\ c.disk \in [Paths -> Inodes \cup {Gone}]
          /\ c.files \in [Inodes -> [regular : BOOLEAN, bytes : Seq(Blocks)]]

(* No entry of a policy begins with the empty name: they are stripped, and an *)
(* empty one is refused (config_fields.py:22).                                *)
Stripped(p) == \A e \in p.allowed \cup p.review \cup p.denied : e # <<>> => e[1] # ""

ASSUME DocumentsAssumption ==
    \A b \in Blocks : /\ WellFormed(b.doc)
                      /\ "allowed" \in DOMAIN b.doc => Stripped(b.doc)

VARIABLES
    request,      \* --report type=path, in order; whether a key was given; and what
                  \* each file name has of "coverage", "junit", "ruff", "audit", "="
    pc,           \* where execute_gate is
    todo,         \* paths still to be copied
    reports,      \* report entries: type and path
    attestations, \* paths of the attestations
    policy,       \* the loaded policy
    scans,        \* one result per report
    objections,   \* violations of the licence check
    archive       \* the inputs in the evidence bundle

service == <<request, pc, todo, reports, attestations, policy, scans, objections, archive>>
vars == <<snapshotVars, service>>

(* The document a file holds; torn and cut off bytes are no document. *)
Unreadable == [garbled |-> TRUE]
DocumentOf(bytes) ==
    IF bytes # <<>> /\ Len(bytes) = bytes[1].of /\ \A k \in DOMAIN bytes : bytes[k] = bytes[1]
    THEN bytes[1].doc ELSE Unreadable

NoPolicy == [allowed |-> {}, review |-> {}, denied |-> {}, unknown |-> FALSE]
NoProvenance == <<>>
NotArchived == [p \in Paths |-> NoCopy]

Init ==
    /\ \E c \in Scenarios : /\ request = c.request
                        /\ disk = c.disk /\ files = c.files /\ edits = c.edits
    /\ SnapshotInit
    /\ pc = "copy_policy" /\ todo = <<PolicyPath>>
    /\ reports = <<>> /\ attestations = <<>> /\ policy = NoPolicy /\ scans = <<>>
    /\ objections = {} /\ archive = NotArchived

Refuse == /\ pc' = "refused"
          /\ UNCHANGED <<request, todo, reports, attestations, policy, scans, objections, archive>>

-----------------------------------------------------------------------------
(* _snapshot_request *)

Copying == {"copy_policy", "copy_reports", "copy_attestations"}
CopiedAll == reader = Idle /\ todo = <<>>

Open ==
    /\ pc \in Copying /\ todo # <<>>
    /\ OpenSource(Head(todo))
    /\ UNCHANGED <<outside, service>>

CopyMore == CopyChunk /\ UNCHANGED <<outside, service>>

CopyEnds ==
    /\ EndOfFile
    /\ todo' = Tail(todo)
    /\ UNCHANGED <<outside, request, pc, reports, attestations, policy, scans, objections, archive>>

CopyRefused ==
    \/ /\ pc \in Copying /\ todo # <<>> /\ CannotOpen(Head(todo)) /\ Refuse
       /\ UNCHANGED snapshotVars
    \/ Overflow /\ Refuse /\ UNCHANGED outside

(* What s has at the places S, in the order of s *)
Subsequence(s, S) ==
    [k \in 1 .. Cardinality(S) |-> s[CHOOSE i \in S : Cardinality({j \in S : j <= i}) = k]]

Found(paths, Test(_)) == Subsequence(paths, {i \in DOMAIN paths : Test(paths[i])})

(* _report_entries: what the directory has, then what was named; a path that *)
(* comes twice keeps its first type, but counts twice.                       *)
AllEntries ==
    Each(LAMBDA p : [type |-> "", path |-> p], Found(ReportPaths, IsRegular)) \o request.named

ReportEntries ==
    Subsequence(AllEntries, {i \in DOMAIN AllEntries :
                                \A j \in 1 .. (i - 1) : AllEntries[j].path # AllEntries[i].path})

ListReports ==
    /\ pc = "copy_policy" /\ CopiedAll
    /\ IF Len(AllEntries) > MaxFiles THEN Refuse
       ELSE /\ reports' = ReportEntries
            /\ todo' = Each(LAMBDA r : r.path, ReportEntries)
            /\ pc' = "copy_reports"
            /\ UNCHANGED <<request, attestations, policy, scans, objections, archive>>
    /\ UNCHANGED snapshotVars

ListAttestations ==
    /\ pc = "copy_reports" /\ CopiedAll
    /\ LET found == Found(AttestationPaths, LAMBDA p : disk[p] # Gone)
       IN  IF Len(found) > MaxFiles - budget.entries THEN Refuse
           ELSE /\ attestations' = found /\ todo' = found
                /\ pc' = "copy_attestations"
                /\ UNCHANGED <<request, reports, policy, scans, objections, archive>>
    /\ UNCHANGED snapshotVars

-----------------------------------------------------------------------------
(* _evaluate_snapshot *)

(* Mutant: reports are parsed where they are, not from their private copies. *)
InputInPlace(p) == IF disk[p] = Gone THEN copies[p] ELSE files[disk[p]].bytes

(* From here on the request names the private copies. *)
Input(p) == copies[p]

(* The request of a copy is the text "type=path" or, without a type, "path", *)
(* and it is split at "=" once more: the first half of a path is no type.    *)
Kind(entry) ==
    IF entry.type # "" THEN entry.type
    ELSE IF "=" \in request.names[entry.path] THEN "unsupported"
    ELSE Detected(DocumentOf(Input(entry.path)), request.names[entry.path])

ParseReport ==
    /\ pc = "copy_attestations" /\ CopiedAll /\ Len(scans) < Len(reports)
    /\ LET entry == reports[Len(scans) + 1]
           d == DocumentOf(Input(entry.path))
       IN  IF Accepts(Kind(entry), d)
             THEN /\ scans' = Append(scans, [path |-> entry.path, provenance |-> NoProvenance,
                                             digest |-> Input(entry.path),
                                             result |-> ScanOf(Kind(entry), d)])
                  /\ UNCHANGED <<request, pc, todo, reports, attestations, policy, objections,
                                 archive>>
             ELSE Refuse
    /\ UNCHANGED snapshotVars

LoadPolicy ==
    /\ pc = "copy_attestations" /\ CopiedAll /\ Len(scans) = Len(reports)
    /\ LET d == DocumentOf(Input(PolicyPath))
       IN  IF reports # <<>> /\ "allowed" \in DOMAIN d
             THEN /\ policy' = d /\ pc' = "bind"
                  /\ UNCHANGED <<request, todo, reports, attestations, scans, objections, archive>>
             ELSE Refuse
    /\ UNCHANGED snapshotVars

(* load_attestation_directory: each is valid, is for one of the reports, and *)
(* is the only one for it; a key, if given, must have signed each.           *)
Valid(a) == "report" \in DOMAIN a /\ a.ok /\ (request.key => a.signature = "good")

Attested == {DocumentOf(Input(attestations[i])).report : i \in DOMAIN attestations}

AttestationsAccepted ==
    /\ \A i \in DOMAIN attestations : Valid(DocumentOf(Input(attestations[i])))
    /\ Attested \subseteq {scans[i].digest : i \in DOMAIN scans}
    /\ Cardinality(Attested) = Len(attestations)

BindAttestations ==
    /\ pc = "bind"
    /\ IF AttestationsAccepted
         THEN /\ scans' = [i \in DOMAIN scans |->
                             IF scans[i].digest \in Attested
                               THEN [scans[i] EXCEPT !.provenance = scans[i].digest]
                               ELSE scans[i]]
              /\ pc' = "judge"
              /\ UNCHANGED <<request, todo, reports, attestations, policy, objections, archive>>
         ELSE Refuse
    /\ UNCHANGED snapshotVars

LicensesIn(result) ==
    {f.license : f \in {g \in Range(result.findings) : IsInventory(g)}}

Judge ==
    /\ pc = "judge"
    /\ objections' = Objections(UNION {LicensesIn(scans[i].result) : i \in DOMAIN scans}, policy)
    /\ pc' = "archive"
    /\ UNCHANGED <<snapshotVars, request, todo, reports, attestations, policy, scans, archive>>

(* create_evidence_bundle is given the paths of the private copies. *)
Archive ==
    /\ pc = "archive"
    /\ archive' = copies
    /\ pc' = "done"
    /\ UNCHANGED <<snapshotVars, request, todo, reports, attestations, policy, scans, objections>>

Others ==
    /\ (\E i \in Inodes : Rewrite(i)) \/ (\E p \in Paths : Redirect(p))
    /\ UNCHANGED <<budget, copies, reader, service>>

Next ==
    \/ Open \/ CopyMore \/ CopyEnds \/ CopyRefused \/ ListReports \/ ListAttestations
    \/ ParseReport \/ LoadPolicy \/ BindAttestations \/ Judge \/ Archive \/ Others

Spec == Init /\ [][Next]_vars

-----------------------------------------------------------------------------
(* Properties *)

(* gate_service.py:88, "Evaluate and archive the same bounded, private        *)
(* snapshot": whoever repeats the evaluation with what was archived gets the *)
(* same results, policy and provenance, whatever became of the sources while *)
(* the gate ran, and nothing is archived that the evaluation did not see.    *)
OneSetOfBytes ==
    pc = "done" =>
        /\ policy = DocumentOf(archive[PolicyPath])
        /\ \A i \in DOMAIN scans :
              LET bytes == archive[scans[i].path]
              IN  /\ scans[i].digest = bytes
                  /\ scans[i].result = ScanOf(scans[i].result.kind, DocumentOf(bytes))
                  /\ scans[i].provenance \in {NoProvenance, bytes}
        /\ \A p \in Paths : archive[p] # NoCopy =>
              \/ p = PolicyPath
              \/ \E i \in DOMAIN scans : scans[i].path = p
              \/ \E i \in DOMAIN scans : scans[i].provenance = DocumentOf(archive[p]).report

(* What a report claims, one claim per problem it lists: its category and the *)
(* severity that is stated for it.  The words, from the mildest to the worst,  *)
(* and the scores at which CVSS goes from one band to the next, in tenths:     *)
Claim(category, severity) == [category |-> category, severity |-> severity]
Words == <<{"info", "note"}, {"low"}, {"medium", "warning"}, {"high", "error"}, {"critical"}>>
Levels == <<{"none"}, {"note"}, {"warning"}, {"error"}>>
Bounds == <<1, 40, 70, 90>>

Meaning(words, text) ==
    IF \E i \in DOMAIN words : text \in words[i]
    THEN (CHOOSE i \in DOMAIN words : text \in words[i]) - 1 ELSE UNKNOWN
Band(score) ==
    CHOOSE n \in 0 .. 4 : /\ n > 0 => score >= Bounds[n]
                          /\ n < 4 => score < Bounds[n + 1]

(* A vulnerability of an SBOM is as bad as the worst that any rating says. *)
Stated(v) == {Meaning(Words, v.ratings[i].severity) : i \in {j \in DOMAIN v.ratings : v.ratings[j].severity # ""}}
             \cup {Band(v.ratings[i].score) : i \in {j \in DOMAIN v.ratings : v.ratings[j].score # NoScore}}
             \cup {0}

(* SARIF: what a result says counts before what its rule says, and a score *)
(* before a level; without any of them its level is "warning".             *)
Said(own, others, nothing) == (IF own # nothing THEN {own} ELSE others) \ {nothing}
SarifStated(run, x) ==
    LET rules == {i \in DOMAIN run.rules : run.rules[i].id = x.rule}
        scores == Said(x.score, {run.rules[i].score : i \in rules}, NoScore)
        levels == Said(x.level, {run.rules[i].level : i \in rules}, "")
    IN  IF scores # {} THEN {Band(n) : n \in scores}
        ELSE {Meaning(Levels, l) : l \in IF levels # {} THEN levels ELSE {"warning"}}

CountedCases(d) ==
    LET within == FlattenSeq(Each(LAMBDA s : s.inner, d.suites))
    IN  Cases(d) \o (IF Declared(d, "tests") >= Len(Cases(d)) + Len(within) THEN within ELSE <<>>)

Claims(kind, d) ==
    CASE kind = "normalized" -> Each(LAMBDA f : Claim(f.category, Meaning(Words, f.severity)), d.findings)
      [] kind = "semgrep" -> Each(LAMBDA r : Claim("sast", Meaning(Words, r.severity)), d.results)
      [] kind = "ruff" -> Each(LAMBDA r : Claim("lint", 1), d.list)
      [] kind = "trivy" ->
           FlattenSeq(Each(LAMBDA r : Each(LAMBDA x :
               Claim(x.category, IF x.category = "license" THEN 0 ELSE Meaning(Words, x.severity)),
               r.items), d.Results))
      [] kind = "pip-audit" ->
           FlattenSeq(Each(LAMBDA x : Each(LAMBDA v : Claim("sca", 3), x.vulns), Dependencies(d)))
      [] kind = "zap" ->
           FlattenSeq(Each(LAMBDA s : Each(LAMBDA a : Claim("dast", a.risk), s.alerts), d.site))
      [] kind = "cyclonedx" -> Each(LAMBDA v : Claim("sca", Max(Stated(v))), d.vulnerabilities)
      [] kind = "sarif" ->
           FlattenSeq(Each(LAMBDA r : Each(LAMBDA x :
               Claim("sast", Max(SarifStated(r, x))), r.results), d.runs))
      [] kind = "junit" ->
           FlattenSeq(Each(LAMBDA c : IF Broken(c) THEN <<Claim("test", 3)>> ELSE <<>>, CountedCases(d)))
      [] OTHER -> <<>>

(* How many of these issues are of this category and at least so severe *)
Count(issues, category, severity) ==
    Cardinality({i \in DOMAIN issues : issues[i].category = category /\ issues[i].severity >= severity})

(* A report that is accepted is accepted whole: for every problem it lists    *)
(* there is a finding of its own, of its category and no milder than stated;  *)
(* a tool that says it failed did not pass; and every component of an SBOM is *)
(* counted.  A licence need only be found, since the policy judges it and the *)
(* code reads no severity for it (json_scanners.py:301-326); LicensesHonoured *)
(* is about the rest.  A report whose numbers include the cases of suites     *)
(* inside suites is not accepted; cases that are not counted nobody looks at. *)
NothingReportedIsLost ==
    \A i \in DOMAIN scans :
        LET d == DocumentOf(scans[i].digest)
            r == scans[i].result
            claims == Claims(r.kind, d)
        IN  /\ \A c \in Range(claims) :
                  Count(r.findings, c.category, c.severity) >= Count(claims, c.category, c.severity)
            /\ r.kind # "normalized" /\ claims # <<>> => r.status # "passed"
            /\ r.kind \in {"semgrep", "normalized"} /\ d.errors # <<>> => r.errors
            /\ r.kind = "sarif" /\ (\E k \in DOMAIN d.runs : FALSE \in Range(d.runs[k].invocations))
                  => r.errors
            /\ r.errors /\ r.kind # "normalized" => r.status = "error"
            /\ r.kind = "cyclonedx" => r.components = Cardinality(DOMAIN d.parts)

(* Every licence in the accepted reports, of components inside components as  *)
(* well, is one the policy lets somebody choose, or the gate objects: an      *)
(* expression is worth what its alternatives are, however it is nested.       *)
Expressions(kind, d) ==
    CASE kind = "normalized" ->
           {d.findings[k].license : k \in {n \in DOMAIN d.findings :
               d.findings[n].category = "license" \/ d.findings[n].dependency}}
      [] kind = "cyclonedx" ->
           UNION {IF d.parts[c].licenses # <<>> THEN Range(d.parts[c].licenses)
                  ELSE IF c \in Range(d.subject) THEN {} ELSE {<<>>} : c \in DOMAIN d.parts}
      [] kind = "trivy" ->
           UNION {{d.Results[k].items[j].license :
                     j \in {n \in DOMAIN d.Results[k].items : d.Results[k].items[n].category = "license"}}
                  : k \in DOMAIN d.Results}
      [] OTHER -> {}

LicensesHonoured ==
    pc = "done" =>
        objections = {Code(Worth(e, policy)) :
            e \in {x \in UNION {Expressions(scans[i].result.kind, DocumentOf(scans[i].digest)) :
                                 i \in DOMAIN scans} : Worth(x, policy) # ALLOWED}}
=============================================================================
