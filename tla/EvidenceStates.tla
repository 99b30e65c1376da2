--------------------------- MODULE EvidenceStates ---------------------------
(***************************************************************************)
(* The states of the functional requirements after a scan: each test of a  *)
(* requirement is evaluated against what the scanners found and the test   *)
(* suites reported, and the requirement gets a state from the results, the *)
(* standing waivers and the states of the requirements it depends on.      *)
(*                                                                         *)
(* What is evaluated is read before the first requirement, so it does not  *)
(* change here; a step is one requirement.  A scanner that completed has   *)
(* its findings in the run, one that failed may have left some there.      *)
(*                                                                         *)
(* A name with Ignoring or As is a faulty variant of the definition that   *)
(* follows it.                                                             *)
(***************************************************************************)
EXTENDS Naturals, SequencesExt

CONSTANTS
  Order,       \* the requirements of the catalogue, in the order of their ids
  Catalogues,  \* the catalogues: depends and tests by requirement
  Kinds,       \* scanner kinds
  Rules,       \* rule ids of findings
  Starts,      \* pairs <<r, s>> of rules: r starts with s
  TestIds,     \* ids of tests
  NoId,        \* a test without an id
  Patterns,    \* name patterns of the tests
  Outcomes,    \* what the test cases that match a pattern can have reported
  Acceptable,  \* findings that may be accepted
  Waivable     \* requirements that may have a standing waiver

FRs == ToSet(Order)

Findings == [scanner : Kinds, rule : Rules]

Specs == [id : TestIds, type : {"suite"}, pattern : Patterns]
         \cup [id : TestIds, type : {"clean"}, scanner : Kinds, rules : SUBSET Rules]
         \cup [id : TestIds, type : {"finds"}, scanner : Kinds]
         \cup [id : TestIds, type : {"other"}]  \* manual attestations are never supplied

ASSUME CatalogueAssumption ==
  /\ Order \in Seq(FRs)
  /\ IsInjective(Order)
  /\ \A c \in Catalogues :
       /\ \A f \in FRs : c.tests[f] \in Seq(Specs)
       /\ DOMAIN c.depends = FRs
  /\ Acceptable \subseteq Findings
  /\ Waivable \subseteq FRs
  /\ \A outcome \in Outcomes : outcome \subseteq {"pass", "skip", "fail", "error"}
  /\ \A r \in Rules : <<r, r>> \in Starts

VARIABLES
  catalogue,  \* the catalogue of the run
  ran,        \* scanners_that_ran
  found,      \* the findings of the run
  cases,      \* the results of the test cases by pattern
  accepted,   \* accepted_keys: findings that are accepted for the project
  waivers,    \* waiver_frs
  done,       \* requirements evaluated so far
  results,    \* test_results of the requirements
  states      \* states_by_id and, of those done, fr_state

given == <<catalogue, ran, found, cases, accepted, waivers>>
vars == <<given, done, results, states>>

Good == {"passed", "waived", "accepted"}

-----------------------------------------------------------------------------
(***************************************************************************)
(* The scan has ended: whatever scanners completed, found and reported.    *)
(***************************************************************************)
InitialStateAsPassed == "passed"

InitialState == "untested"

Init ==
  /\ catalogue \in Catalogues
  /\ ran \in SUBSET Kinds
  /\ found \in SUBSET Findings
  /\ cases \in [Patterns -> Outcomes]
  /\ accepted \in SUBSET Acceptable
  /\ waivers \in SUBSET Waivable
  /\ done = 0
  /\ results = [f \in FRs |-> <<>>]
  /\ states = [f \in FRs |-> InitialState]

-----------------------------------------------------------------------------
(***************************************************************************)
(* A finding is accepted with its rule or with a rule that starts it, and  *)
(* the others are left to be acted on.                                     *)
(***************************************************************************)
IsAcceptedIgnoringScanner(f) ==
  \E key \in accepted : <<f.rule, key.rule>> \in Starts

IsAccepted(f) ==
  \E key \in accepted : key.scanner = f.scanner /\ <<f.rule, key.rule>> \in Starts

Filtered == {f \in found : ~IsAccepted(f)}

Of(findings, scanner) == {f \in findings : f.scanner = scanner}

AcceptedBy(scanner) == Of(found \ Filtered, scanner)

(***************************************************************************)
(* evaluate_test.  The rule pattern and the severity floor of a test that  *)
(* wants a scanner clean are the set of rules that count against it.       *)
(***************************************************************************)
EvalTestSuite(spec) ==
  IF cases[spec.pattern] = {} THEN "pending"
  ELSE IF cases[spec.pattern] \subseteq {"pass", "skip"} THEN "pass" ELSE "fail"

EvalScannerClean(spec) ==
  LET matching == Of(Filtered, spec.scanner)
  IN  IF matching = {} THEN "no findings"
      ELSE IF \E f \in matching : f.rule \in spec.rules THEN "fail" ELSE "pass"

EvalScannerFinds(spec) ==
  IF Of(Filtered, spec.scanner) = {} THEN "no findings" ELSE "pass"

EvaluateTest(spec) ==
  CASE spec.type = "suite" -> EvalTestSuite(spec)
    [] spec.type = "clean" -> EvalScannerClean(spec)
    [] spec.type = "finds" -> EvalScannerFinds(spec)
    [] OTHER -> "pending"

(***************************************************************************)
(* The results are kept by test id.  They are revised in a loop over the   *)
(* tests, so by each of the tests that have the id: one that waits for a   *)
(* scanner that found nothing passes if the scanner completed, and one     *)
(* that passes although findings of its scanner were accepted is accepted. *)
(***************************************************************************)
RanIgnoringStatus(result, specs) == IF result = "no findings" THEN "pass" ELSE result

Ran(result, specs) ==
  IF result # "no findings" THEN result
  ELSE IF \E spec \in specs : spec.type \in {"clean", "finds"} /\ spec.scanner \in ran
       THEN "pass" ELSE "pending"

AcceptedAsPass(result, specs) == result

Accepted(result, specs) ==
  IF result = "pass" /\ \E spec \in specs : spec.type = "clean" /\ AcceptedBy(spec.scanner) # {}
  THEN "accepted" ELSE result

(***************************************************************************)
(* The tests of a requirement that have an id; the last of them is the one *)
(* whose evaluation stays.  A test without an id is skipped.               *)
(***************************************************************************)
TestsOf(f) == ToSet(catalogue.tests[f])

Ids(f) == {spec.id : spec \in TestsOf(f)} \ {NoId}

Named(f, id) == {spec \in TestsOf(f) : spec.id = id}

LastNamed(f, id) ==
  catalogue.tests[f][Max({i \in DOMAIN catalogue.tests[f] : catalogue.tests[f][i].id = id})]

Evaluations(f) ==
  [id \in Ids(f) |-> Accepted(Ran(EvaluateTest(LastNamed(f, id)), Named(f, id)), Named(f, id))]

-----------------------------------------------------------------------------
(***************************************************************************)
(* evaluate_fr: the ladder.  A dependency that the catalogue does not have *)
(* counts as passed.                                                       *)
(***************************************************************************)
DepState(d) == IF d \in FRs THEN states[d] ELSE "passed"

EvaluateFr(f, evaluations) ==
  LET got == {evaluations[id] : id \in DOMAIN evaluations}
  IN  CASE f \in waivers -> "waived"
        [] f \notin waivers /\ \E d \in catalogue.depends[f] : DepState(d) \notin Good -> "blocked"
        [] OTHER ->
             IF catalogue.tests[f] = <<>> THEN "untested"
             ELSE IF got = {} THEN "pending"
             ELSE IF "fail" \in got THEN "failed"
             ELSE IF "pending" \in got THEN "pending"
             ELSE IF "accepted" \in got THEN "accepted" ELSE "passed"

(***************************************************************************)
(* The loop waits for the dependencies of a requirement to have a state,   *)
(* but all have one from the start: the requirements are evaluated in the  *)
(* order of their ids, once each, and no cycle is left over.               *)
(***************************************************************************)
Ready(f) == \A d \in catalogue.depends[f] : d \in DOMAIN states \/ d \notin FRs

Evaluate ==
  /\ done < Len(Order)
  /\ LET f == Order[done + 1]
     IN  /\ Ready(f)
         /\ results' = [results EXCEPT ![f] = Evaluations(f)]
         /\ states' = [states EXCEPT ![f] = EvaluateFr(f, Evaluations(f))]
  /\ done' = done + 1
  /\ UNCHANGED given

Next == Evaluate

Spec == Init /\ [][Next]_vars

-----------------------------------------------------------------------------
TypeOK ==
  /\ catalogue \in Catalogues
  /\ ran \subseteq Kinds
  /\ found \subseteq Findings
  /\ accepted \subseteq Findings
  /\ waivers \subseteq FRs
  /\ done \in 0 .. Len(Order)
  /\ \A f \in FRs : \A id \in DOMAIN results[f] :
       results[f][id] \in {"pass", "fail", "pending", "accepted"}
  /\ states \in [FRs -> {"untested", "pending", "passed", "accepted", "failed", "waived", "blocked"}]

Evaluated == {Order[n] : n \in 1 .. done}

(***************************************************************************)
(* What the run says of a test, without the steps of the evaluation: it is *)
(* shown by what was found and reported, or it is refuted.  A test that    *)
(* wants a scanner clean needs a word of the scanner, that it completed or *)
(* something it found; one that wants it to find something needs a find.   *)
(***************************************************************************)
Refutes(f, spec) ==
  /\ f.scanner = spec.scanner
  /\ f.rule \in spec.rules
  /\ \A key \in accepted : key.scanner = f.scanner => <<f.rule, key.rule>> \notin Starts

Refuted(spec) ==
  \/ spec.type = "suite" /\ cases[spec.pattern] \cap {"fail", "error"} # {}
  \/ spec.type = "clean" /\ \E f \in found : Refutes(f, spec)

Shown(spec) ==
  /\ ~Refuted(spec)
  /\ spec.type = "suite" => cases[spec.pattern] # {}
  /\ spec.type = "clean" => spec.scanner \in ran \/ Of(found, spec.scanner) # {}
  /\ spec.type = "finds" => Of(found, spec.scanner) # {}
  /\ spec.type # "other"

(***************************************************************************)
(* The schema of the catalogue asks for test ids that are "unique within   *)
(* the FR", in words that nothing enforces.                                *)
(***************************************************************************)
HasOwnIds(f) ==
  \A i, j \in DOMAIN catalogue.tests[f] :
    LET id == catalogue.tests[f][i].id
    IN  id # NoId /\ (id = catalogue.tests[f][j].id => i = j)

(***************************************************************************)
(* A requirement passes only on evidence: it has tests, every suite it     *)
(* names reported, every scanner it names was heard of, and nothing found  *)
(* or reported refutes it; "pending" of a scanner that never ran must not  *)
(* become a pass when the results are revised.  The exception is what      *)
(* PassedFindsAreFound is about: a test that wants a scanner to find       *)
(* something also passes if the scanner completed.                         *)
(***************************************************************************)
PassedIsShown ==
  \A f \in Evaluated : states[f] \in {"passed", "accepted"} /\ HasOwnIds(f) =>
     /\ catalogue.tests[f] # <<>>
     /\ \A spec \in TestsOf(f) : Shown(spec) \/ (spec.type = "finds" /\ spec.scanner \in ran)

(***************************************************************************)
(* A refuted requirement is never reported as done or merely open: only a  *)
(* waiver or a blocking dependency keeps it from being failed, and only an *)
(* acceptance of the same scanner's rule takes a finding away.             *)
(***************************************************************************)
Counted(f) == {LastNamed(f, id) : id \in Ids(f)}

RefutedIsFailed ==
  \A f \in Evaluated :
     (\E spec \in Counted(f) : Refuted(spec)) => states[f] \in {"failed", "blocked", "waived"}

(***************************************************************************)
(* An accepted risk is never shown as a clean pass: a requirement whose    *)
(* test wants a scanner clean does not pass while a finding of that        *)
(* scanner is in the run, unless the finding is there to be acted on and   *)
(* does not count against the test.                                        *)
(***************************************************************************)
RiskIsVisible ==
  \A f \in Evaluated : states[f] = "passed" =>
     \A spec \in Counted(f) : spec.type = "clean" =>
        \A g \in found : g.scanner = spec.scanner => ~IsAccepted(g) /\ g.rule \notin spec.rules

(***************************************************************************)
(* Dependencies hold at the end and not only when they were looked at: a   *)
(* requirement that is neither waived nor blocked depends on requirements  *)
(* that end up passed, accepted or waived, though they are evaluated in    *)
(* the order of their ids and each is looked at once.                      *)
(***************************************************************************)
DependenciesHold ==
  \A f \in Evaluated : states[f] \notin {"waived", "blocked"} =>
     \A d \in catalogue.depends[f] : DepState(d) \in Good

(***************************************************************************)
(* "Topological-ish: leaf FRs first" (the comment on the loop) and         *)
(* "blocked (any dep not in {passed, waived})" (resolver.py): when all     *)
(* have a state, a blocked requirement depends on one that is not good.    *)
(***************************************************************************)
BlockedByDependency ==
  done = Len(Order) =>
    \A f \in FRs : states[f] = "blocked" => \E d \in catalogue.depends[f] : DepState(d) \notin Good

(***************************************************************************)
(* "scanner-finds: scanner must produce >=1 finding" (matcher.py), which   *)
(* is pending when the scanner is silent: a requirement with such a test   *)
(* passes only if the scanner found something.                             *)
(***************************************************************************)
PassedFindsAreFound ==
  \A f \in Evaluated : states[f] \in {"passed", "accepted"} =>
     \A spec \in TestsOf(f) : spec.type = "finds" => Of(found, spec.scanner) # {}
=============================================================================
