---------------------------- MODULE StepReports -----------------------------
(***************************************************************************)
(* What a step leaves in its execution's record (execution/artifacts.go,   *)
(* report_formats.go, the collecting part of docker_exec.go): the runner   *)
(* reads the exports that go with how the container ended, the service     *)
(* ends the step and then registers the exports that go with its status,   *)
(* with a summary of each report, or of a report it makes up when none was *)
(* collected.                                                              *)
(***************************************************************************)
EXTENDS Naturals, Sequences, FiniteSets, SequencesExt, FiniteSetsExt

VARIABLES
    step,        \* the step: how far, how it ended, its exports
    collected,   \* collected[i]: the document read for export i, None without one
    artifacts    \* the artifacts of the record

reportVars == <<step, collected, artifacts>>

Cases == {"passed", "failed", "error", "skipped"}
Count(cases, kind) == Cardinality({i \in DOMAIN cases : cases[i] = kind})
Zero == [total |-> 0, passed |-> 0, failures |-> 0, errors |-> 0, skipped |-> 0]
Plus(a, b) == [f \in DOMAIN Zero |-> a[f] + b[f]]
Minus0(a, b) == IF a > b THEN a - b ELSE 0
None == [kind |-> "none"]

-----------------------------------------------------------------------------
\* JUnit.  A suite has attributes, those it leaves out read as zero; cases; and
\* nested suites.  A document is a suite or a list of them.

Unstated == [total |-> 0, failures |-> 0, errors |-> 0, skipped |-> 0]
Stated(cases) == [total |-> Len(cases), failures |-> Count(cases, "failed"), errors |-> Count(cases, "error"),
                  skipped |-> Count(cases, "skipped")]
JUnitSuite(attributes, cases, suites) == [attributes |-> attributes, cases |-> cases, suites |-> suites]

\* Mutant: what the suite states is taken as it is.
TrustsAttributes(suite) == FALSE

NeedsCounting(suite) ==
    suite.cases # <<>> /\ suite.attributes.failures + suite.attributes.errors + suite.attributes.skipped = 0

\* Cases beside nested suites are not looked at.
RECURSIVE SummarizeJUnitSuite(_)
SummarizeJUnitSuite(suite) ==
    LET a == suite.attributes
        counted == IF NeedsCounting(suite) THEN [Stated(suite.cases) EXCEPT !.total = a.total] ELSE a
        total   == IF suite.cases # <<>> /\ a.total = 0 THEN Len(suite.cases) ELSE a.total
    IN  IF suite.suites # <<>>
        THEN FoldLeft(LAMBDA sum, child : Plus(sum, SummarizeJUnitSuite(child)), Zero, suite.suites)
        ELSE [total |-> total, failures |-> counted.failures, errors |-> counted.errors, skipped |-> counted.skipped,
              passed |-> Minus0(total, counted.failures + counted.errors + counted.skipped)]

ParseJUnitSummary(document) == SummarizeJUnitSuite(JUnitSuite(Unstated, <<>>, document.suites))

SyntheticJUnitReport(status) ==
    [kind |-> "junit", suites |-> <<JUnitSuite([Unstated EXCEPT !.total = 1, !.failures = IF status = "failed" THEN 1 ELSE 0],
                                          <<IF status = "failed" THEN "failed" ELSE "passed">>, <<>>)>>]

-----------------------------------------------------------------------------
\* CTRF: a summary, or none, and the tests; what is not passed, failed or
\* skipped is an error.

CtrfStated(tests) == [total |-> Len(tests), passed |-> Count(tests, "passed"), failures |-> Count(tests, "failed"),
                      skipped |-> Count(tests, "skipped"), errors |-> Count(tests, "error")]

\* The tests are counted when the summary names none; others it names are
\* counted once more then.
ParseCTRFSummary(document) ==
    LET s == document.summary
        total == IF s.total = 0 THEN Len(document.tests) ELSE s.total
    IN  IF total > 0 /\ s.passed + s.failures + s.skipped = 0
        THEN [CtrfStated(document.tests) EXCEPT !.total = total, !.errors = @ + s.errors]
        ELSE [s EXCEPT !.total = total]

-----------------------------------------------------------------------------
\* Artifacts.

ArtifactTriggerMatches(on, ended) == on = "always" \/ on = (IF ended = "healthy" THEN "success" ELSE "failure")
ArtifactExportMatchesStatus(on, status) ==
    (on = "success" /\ status = "healthy") \/ (on = "failure" /\ status = "failed") \/ on = "always"

ExecutionArtifactID(export) == <<export.name, export.format>>

BuildExecutionArtifact(i, status) ==
    LET export == step.exports[i] document == collected[i]
        shown  == IF document = None /\ export.format = "junit" THEN SyntheticJUnitReport(status) ELSE document
    IN  [export |-> i, id |-> ExecutionArtifactID(export), of |-> shown, real |-> document # None,
         summary |-> CASE export.format = "junit" /\ shown.kind = "junit" -> ParseJUnitSummary(shown)
                       [] export.format = "ctrf" /\ shown.kind = "ctrf" -> ParseCTRFSummary(shown)
                       [] OTHER -> Zero]

\* One export after the other; an artifact the record has already is not
\* added again.
RegisterStepArtifacts(status) ==
    FoldLeft(LAMBDA sofar, i : IF \/ ~ArtifactExportMatchesStatus(step.exports[i].on, status)
                                  \/ \E a \in Range(sofar) : a.id = ExecutionArtifactID(step.exports[i])
                               THEN sofar ELSE Append(sofar, BuildExecutionArtifact(i, status)),
             artifacts, [i \in DOMAIN step.exports |-> i])

-----------------------------------------------------------------------------

\* The documents a step may leave: what they state of their cases is true, but
\* they may state any part of it; a suite may nest others, with cases of its own
\* beside them or without.
Stating(fields, counts) == [f \in DOMAIN counts |-> IF f \in fields THEN counts[f] ELSE 0]
Short == UNION {[1..n -> Cases] : n \in 0..2}
Leaves == {JUnitSuite(Stating(f, Stated(c)), c, <<>>) : f \in SUBSET DOMAIN Unstated, c \in Short}
Small == {s \in Leaves : Len(s.cases) = 1}
JUnits == {[kind |-> "junit", suites |-> <<s>>] : s \in Leaves}
              \cup {[kind |-> "junit", suites |-> <<JUnitSuite(Unstated, own, <<s, t>>), u>>]
                        : own \in {<<>>, <<"failed">>}, s \in Small, t, u \in {l \in Small : l.attributes = Unstated}}
CTRFs == {[kind |-> "ctrf", summary |-> Stating(f, CtrfStated(t)), tests |-> t] : f \in SUBSET DOMAIN Zero, t \in Short}
DocumentsOf(format) == CASE format = "junit" -> JUnits [] format = "ctrf" -> CTRFs [] OTHER -> {[kind |-> "raw"]}

Exports == [on : {"success", "failure", "always"}, format : {"junit", "ctrf", "raw"}, name : {"report", "other"}]
AlwaysJUnit == [on |-> "always", format |-> "junit", name |-> "report"]
NoStep == [at |-> "none", ended |-> "none", exports |-> <<>>]

ReportsInit == step = NoStep /\ collected = <<>> /\ artifacts = <<>>

\* The container ran, or the step failed before it.
StepEnds(ended, exports, ran) ==
    /\ step.at = "none"
    /\ step' = [at |-> IF ran THEN "collect" ELSE "finish", ended |-> ended, exports |-> exports]
    /\ collected' = [i \in DOMAIN exports |-> None] /\ UNCHANGED artifacts

\* The runner reads the files of the exports that match; a file may be missing.
CollectExports ==
    /\ step.at = "collect" /\ step' = [step EXCEPT !.at = "finish"]
    /\ \E i \in DOMAIN step.exports, document \in {None} \cup UNION {DocumentsOf(f) : f \in {"junit", "ctrf", "raw"}} :
          /\ document # None =>
               /\ ArtifactTriggerMatches(step.exports[i].on, step.ended)
               /\ document \in DocumentsOf(step.exports[i].format)
          /\ collected' = [collected EXCEPT ![i] = document]
    /\ UNCHANGED artifacts

\* The step is ended in the record first, its artifacts come after; those of
\* a canceled step are not registered.
FinishStep ==
    /\ step.at = "finish" /\ step' = [step EXCEPT !.at = "done"]
    /\ artifacts' = IF step.ended = "canceled" THEN artifacts ELSE RegisterStepArtifacts(step.ended)
    /\ UNCHANGED collected

ReportsNext ==
    \/ \E ended \in {"healthy", "failed", "canceled"}, export \in Exports, ran \in BOOLEAN :
         (ended = "healthy" => ran) /\ StepEnds(ended, <<export, AlwaysJUnit>>, ran)
    \/ CollectExports \/ FinishStep

ReportsSpec == ReportsInit /\ [][ReportsNext]_reportVars

-----------------------------------------------------------------------------
\* All cases of a suite and of a document, those of nested suites included.
RECURSIVE SuiteCases(_)
SuiteCases(suite) == suite.cases \o FlattenSeq([i \in DOMAIN suite.suites |-> SuiteCases(suite.suites[i])])
AllCases(document) ==
    IF document.kind = "ctrf" THEN document.tests
    ELSE FlattenSeq([i \in DOMAIN document.suites |-> SuiteCases(document.suites[i])])

\* The documents the code reads whole: a JUnit suite holds suites or cases and
\* not both, and states of its cases' outcomes all or none; a CTRF summary
\* states all outcomes or none, and not others alone.
AllOrNone(stated, counts, outcomes) == (\A f \in outcomes : stated[f] = counts[f]) \/ (\A f \in outcomes : stated[f] = 0)
RECURSIVE SuiteReadWhole(_)
SuiteReadWhole(suite) ==
    IF suite.suites # <<>> THEN suite.cases = <<>> /\ \A child \in Range(suite.suites) : SuiteReadWhole(child)
    ELSE AllOrNone(suite.attributes, Stated(suite.cases), {"failures", "errors", "skipped"})
ReadWhole(document) ==
    IF document.kind = "junit" THEN \A suite \in Range(document.suites) : SuiteReadWhole(suite)
    ELSE /\ AllOrNone(document.summary, CtrfStated(document.tests), {"passed", "failures", "errors", "skipped"})
         /\ document.summary.errors > 0 => \E f \in {"passed", "failures", "skipped"} : document.summary[f] > 0

\* A summary in the record counts every case of the report exactly once,
\* however the report nests its suites and whether it states its counts or
\* leaves them out, if the code reads the report whole (ReadWhole).  Of the
\* others it may miss cases or their outcomes: the cases beside nested suites
\* are dropped (report_formats.go:105) and what a suite leaves out is not
\* counted once it states another outcome (report_formats.go:122), so that a
\* failed case may go unseen; but it never shows a failure, a skip or a case
\* that is not there.  (A CTRF report that states only others counts them
\* twice.)  A step that failed without a report is shown as failed; and every
\* export that goes with how the step ended is there, unless another one has
\* its name and format.
ReportsCountCases ==
    /\ \A k \in DOMAIN artifacts :
         LET a == artifacts[k] s == a.summary
         IN  /\ ArtifactExportMatchesStatus(step.exports[a.export].on, step.ended)
             /\ ~a.real /\ a.of.kind = "junit" => (s.failures > 0 <=> step.ended = "failed")
             /\ a.of.kind \in {"junit", "ctrf"} =>
                  LET cases == AllCases(a.of)
                  IN  /\ ReadWhole(a.of) => s = CtrfStated(cases)
                      /\ s.total <= Len(cases) /\ s.failures <= Count(cases, "failed")
                      /\ s.skipped <= Count(cases, "skipped")
    /\ step.at = "done" /\ step.ended # "canceled" =>
         \A i \in DOMAIN step.exports : ArtifactExportMatchesStatus(step.exports[i].on, step.ended) =>
             \E k \in DOMAIN artifacts : artifacts[k].id = ExecutionArtifactID(step.exports[i])
=============================================================================
