------------------------------- MODULE MCIntake -------------------------------
(* Small instances of Intake: one report of every format, well-formed or not; *)
(* SBOMs with licence expressions; and files that others change meanwhile.    *)
EXTENDS Intake

MCPaths == {"policy", "a", "b", "c", "d", "att"}
MCInodes == 1 .. 4
MCReportPaths == <<"a", "b">>
MCAttestationPaths == <<"att">>

(* A file of n blocks that holds document d *)
File(d, n) == [i \in 1 .. n |-> [doc |-> d, of |-> n]]

(* Items of reports: fine ones, and one that lacks a required field *)
Texts == {"critical", "low", "note", "warning", "bogus"}
Item(severity) == [ok |-> TRUE, severity |-> severity]
Items == {Item(t) : t \in Texts} \cup {[Item("low") EXCEPT !.ok = FALSE]}
UpTo(S, n) == UNION {[1 .. k -> S] : k \in 0 .. n}
Errors == {<<>>, <<[ok |-> TRUE]>>, <<[ok |-> FALSE]>>}

Normalized ==
    {[scanner |-> "x", category |-> "sast", status |-> s, ok |-> o, provenance |-> p, errors |-> e,
      findings |-> <<[ok |-> TRUE, category |-> c, severity |-> t, license |-> l, dependency |-> k]>>] :
        s \in {"passed", "findings"}, o \in BOOLEAN, p \in BOOLEAN, e \in {<<>>, <<[ok |-> TRUE]>>},
        c \in {"secret", "license"}, l \in {<<>>, <<"GPL">>}, k \in BOOLEAN,
        t \in {"high", "info"}}

Semgrep == {[ok |-> TRUE, results |-> r, errors |-> e] : r \in UpTo(Items, 2), e \in Errors}

RuffItem(f, o) == [filename |-> "f", ok |-> o, family |-> f]
Ruff == {[list |-> l] : l \in UpTo({RuffItem("E", TRUE), RuffItem("D", TRUE), RuffItem("E", FALSE)}, 2)}

TrivyFinding(c, s, o) == [ok |-> o, category |-> c, severity |-> s, license |-> <<"GPL">>]
Target(o, items) == [ok |-> o, items |-> items]
Trivy ==
    {[ok |-> TRUE, Results |-> <<Target(o, <<x>>), Target(TRUE, <<y, x>>)>>] :
        o \in BOOLEAN,
        x \in {TrivyFinding(c, s, TRUE) : c \in {"sca", "license"}, s \in {"high", "bogus"}},
        y \in {TrivyFinding("secret", "critical", o2) : o2 \in BOOLEAN}}

Audited(o, n) == [ok |-> o, vulns |-> [i \in 1 .. n |-> [ok |-> TRUE]]]
PipAudit == {[dependencies |-> <<Audited(TRUE, n), Audited(o, m)>>] :
                n \in 0 .. 1, m \in 0 .. 2, o \in BOOLEAN}
            \cup {[list |-> <<Audited(TRUE, 1)>>]}

Alert(risk, places) ==
    [ok |-> TRUE, risk |-> risk, instances |-> [i \in DOMAIN places |-> [ok |-> TRUE, identity |-> places[i]]]]
Site(alerts) == [ok |-> TRUE, alerts |-> alerts]
Zap == {[site |-> <<>>]} \cup
       {[site |-> <<Site(<<Alert(r, p), Alert(1, q)>>), Site(<<>>)>>] :
           r \in {0, 3, 5}, p \in UpTo({"/", "/pay"}, 2), q \in UpTo({"/"}, 2)}

Run(results, rules, done) ==
    [ok |-> TRUE, rules |-> rules, results |-> results, invocations |-> done]
Result(rule, level, score) == [ok |-> TRUE, rule |-> rule, level |-> level, score |-> score]
Rule(id, level, score) == [ok |-> TRUE, id |-> id, level |-> level, score |-> score]
Sarif ==
    {[version |-> 2, runs |-> <<Run(<<Result("r", l, s)>>, <<Rule("r", rl, rs), Rule(id, "note", 75)>>, i)>>] :
        l \in {"", "error", "none", "fatal"}, s \in {NoScore, 0, 95, BadScore}, rl \in {"", "note"},
        rs \in {NoScore, 40, BadScore}, id \in {"r", "s"}, i \in {<<>>, <<TRUE, FALSE>>}}

Suite(t, f, e, s, cases, inner) ==
    [declared |-> [tests |-> t, failures |-> f, errors |-> e, skipped |-> s],
     cases |-> cases, inner |-> inner]
JUnits ==
    {[suites |-> <<Suite(t, f, 0, s, <<c>>, inner), Suite(1, 0, e, 0, <<x>>, <<>>)>>] :
        t \in 0 .. 2, f \in -1 .. 1, s \in 0 .. 1, e \in 0 .. 1,
        c \in {{}, {"failure"}, {"skipped"}, {"failure", "error"}}, x \in {{}, {"error"}},
        inner \in {<<>>, <<{"failure"}>>}}

Counter(r, v, c) == [rate |-> r, valid |-> v, covered |-> c]
Coverages ==
    {[ok |-> TRUE, coverage |-> <<Counter(r, 3, c)>> \o b] :
        r \in {3332, 3333, 3334, 10001}, c \in {1, 4}, b \in {<<>>, <<Counter(0, 0, 0)>>, <<Counter(2, 0, 0)>>}}

-----------------------------------------------------------------------------

MIT == <<"MIT">>
Part(ref, licenses, parts) == [ok |-> TRUE, ref |-> ref, licenses |-> licenses, components |-> parts]
Sbom(parts, subject, roots, vulnerabilities) ==
    [bomFormat |-> "CycloneDX", ok |-> TRUE, parts |-> parts, subject |-> subject,
     roots |-> roots, vulnerabilities |-> vulnerabilities]

Rated(severity, score) == [ok |-> TRUE, severity |-> severity, score |-> score]
Vulnerability(ratings, affects) == [ok |-> TRUE, ratings |-> ratings, affects |-> affects]

Trees ==
    {<<Part("p", <<>>, <<2>>), Part("q", <<MIT>>, <<>>), Part(r, l, <<4>>), Part("t", m, <<>>)>> :
        r \in {"q", "s"}, l \in {<<>>, <<MIT>>}, m \in {<<<<"GPL">>, MIT>>, <<<<>>>>}}
Sboms ==
    {Sbom(t, <<1>>, <<3>>, <<>>) : t \in Trees}
    \cup {Sbom(<<Part("p", <<MIT>>, <<>>)>>, <<>>, <<1>>, <<Vulnerability(r, a)>>) :
            r \in UpTo({Rated("low", 95), Rated("critical", 0), Rated("", NoScore), Rated("bogus", 10),
                        Rated("", BadScore)}, 2),
            a \in {<<>>, <<"p">>, <<"p", "x">>, <<"p", "p">>, <<"p", "">>}}

(* Expressions: all of up to three tokens, and longer ones that mix operators *)
Names == {"MIT", "GPL", "EPL", "New"}
Tokens == Names \cup Operators \cup {Garbled}
Joined ==
    LET N == {"MIT", "GPL", "EPL"}
        O == {"AND", "OR"}
    IN  UNION {{<<x, o, y, q, z>>, <<"(", x, o, y, ")", q, z>>, <<x, o, "(", y, q, z, ")">>,
                <<"(", x, o, y, q, z, ")">>, <<x, o, "(", y, q, z>>, <<x, o, y, "WITH", "New", q, z>>,
                <<"(", x, o, y, ")", "WITH", z>>, <<x, o, y, ")", q, z>>} :
               x \in N, y \in N, z \in N, o \in O, q \in O}
MCExpressions == UpTo(Tokens, 3) \cup Joined

Policies ==
    {[allowed |-> {<<"MIT">>, <<"GPL", "WITH", "New">>, <<"GPL", "AND", "EPL">>},
      review |-> {<<"EPL">>}, denied |-> {<<"GPL">>, <<"MIT", "WITH", "GPL">>}, unknown |-> u] : u \in BOOLEAN}
Policy == CHOOSE q \in Policies : ~q.unknown

-----------------------------------------------------------------------------

NoNames == [p \in MCPaths |-> {}]
Request(named, key, names) == [named |-> named, key |-> key, names |-> names]
Regular(bytes) == [regular |-> TRUE, bytes |-> bytes]
Special == [regular |-> FALSE, bytes |-> <<>>]

DocA == [ok |-> TRUE, results |-> <<Item("critical")>>, errors |-> <<>>]
DocB == [ok |-> TRUE, results |-> <<>>, errors |-> <<>>]

(* One report at a, nobody else at work *)
Alone(d, q, names) ==
    [request |-> Request(<<>>, FALSE, [NoNames EXCEPT !["a"] = names]),
     disk |-> [p \in MCPaths |-> IF p = "policy" THEN 1 ELSE IF p = "a" THEN 2 ELSE Gone],
     files |-> [i \in MCInodes |-> Regular(IF i = 1 THEN File(q, 1) ELSE File(d, 1))],
     edits |-> 0]

Detectable ==
    {Alone(d, Policy, {}) : d \in Normalized \cup Semgrep \cup Ruff \cup Trivy \cup PipAudit \cup Zap
                                      \cup Sarif \cup Sboms \cup {[results |-> <<>>]}}
    \cup {Alone(d, Policy, {"junit"}) : d \in JUnits}
    \cup {Alone(d, Policy, {"coverage"}) : d \in Coverages}
    \cup {Alone(d, Policy, {"audit"}) : d \in PipAudit}
    \cup {Alone(DocB, Policy, {"="})}
Licensed ==
    {Alone(Sbom(<<Part("p", <<MIT>>, <<2>>), Part("q", <<e>>, <<>>)>>, <<>>, <<1>>, <<>>), q, {}) :
        e \in MCExpressions \ {<<>>}, q \in Policies}

(* Two reports and an attestation of one of them, with others at work *)
Attests(bytes, signature) == File([ok |-> TRUE, report |-> bytes, signature |-> signature], 1)

Disk(b, c, d, att) == [policy |-> 1, a |-> 2, b |-> b, c |-> c, d |-> d, att |-> att]
Named(p) == [type |-> "semgrep", path |-> p]
Scene(named, key, where, a, b, att, n) ==
    [request |-> Request(named, key, NoNames), disk |-> where,
     files |-> <<Regular(File(Policy, 1)), Regular(a), b, Regular(att)>>, edits |-> n]

Busy ==
    {Scene(named, key, Disk(b, Gone, Gone, 4), File(DocA, n), Regular(File(DocB, 2)), Attests(r, s), 1) :
        named \in {<<>>, <<Named("b")>>}, b \in {Gone, 2, 3}, n \in 1 .. 4,
        r \in {File(DocA, 2), File(DocB, 2)}, key \in BOOLEAN, s \in {"good", "none"}}
    \cup {Scene(<<>>, FALSE, Disk(3, Gone, Gone, att), File(DocA, 2), b, Attests(File(DocA, 2), "none"), 2) :
            b \in {Regular(File(DocB, 2)), Special}, att \in {Gone, 4}}
Crowded ==
    {Scene(named, FALSE, Disk(2, 3, 3, 4), File(DocA, 1), Regular(File(DocB, 1)), Attests(File(DocA, 1), "good"), 1) :
        named \in {<<Named("b"), Named("b")>>, <<Named("b"), Named("b"), Named("b")>>,
                   <<Named("c")>>, <<Named("c"), Named("d")>>}}

MCScenarios == Detectable \cup Licensed \cup Busy \cup Crowded

MCContents == {<<>>, File(DocB, 1), File(DocA, 2), File(DocB, 4)}
(* A file repeats one block. *)
MCFiles == {c.files[i].bytes : c \in MCScenarios, i \in MCInodes}
MCBlocks == {Head(b) : b \in (MCFiles \cup MCContents) \ {<<>>}}
=============================================================================
