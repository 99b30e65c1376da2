------------------------- MODULE EvidenceStatesProofs -------------------------
(***************************************************************************)
(* Theorems of EvidenceStates, for every catalogue, order of requirements  *)
(* and outcome of a scan.                                                  *)
(***************************************************************************)
EXTENDS EvidenceStates, FiniteSetTheorems, WellFoundedInduction, TLAPS

EvidenceResults == {"pass", "fail", "pending", "accepted"}

FRStates == {"untested", "pending", "passed", "accepted", "failed", "waived", "blocked"}

(***************************************************************************)
(* The state of a requirement by its own tests alone, that is, if it has   *)
(* no waiver and no dependency blocks it.                                  *)
(***************************************************************************)
Got(f) == {Evaluations(f)[id] : id \in Ids(f)}

OwnState(f) ==
  IF catalogue.tests[f] = <<>> THEN "untested"
  ELSE IF Got(f) = {} THEN "pending"
  ELSE IF "fail" \in Got(f) THEN "failed"
  ELSE IF "pending" \in Got(f) THEN "pending"
  ELSE IF "accepted" \in Got(f) THEN "accepted" ELSE "passed"

GivenOK ==
  /\ catalogue \in Catalogues
  /\ ran \subseteq Kinds
  /\ found \subseteq Findings
  /\ cases \in [Patterns -> Outcomes]
  /\ accepted \subseteq Findings
  /\ waivers \subseteq FRs

ProgressOK ==
  /\ done \in 0 .. Len(Order)
  /\ DOMAIN results = FRs
  /\ \A f \in FRs : \A id \in DOMAIN results[f] : results[f][id] \in EvidenceResults
  /\ states \in [FRs -> FRStates]

OpenAreUntested == \A f \in FRs \ Evaluated : states[f] = "untested"

EvaluatedByTests ==
  \A f \in Evaluated : states[f] \in {"waived", "blocked"} \/ states[f] = OwnState(f)

Inv == GivenOK /\ ProgressOK /\ OpenAreUntested /\ EvaluatedByTests

-----------------------------------------------------------------------------
(***************************************************************************)
(* The order of the catalogue.                                             *)
(***************************************************************************)
LEMMA Ordered ==
  /\ Len(Order) \in Nat
  /\ DOMAIN Order = 1 .. Len(Order)
  /\ \A n \in 1 .. Len(Order) : Order[n] \in FRs
  /\ \A f \in FRs : \E n \in 1 .. Len(Order) : Order[n] = f
  /\ \A m, n \in 1 .. Len(Order) : Order[m] = Order[n] => m = n
<1>1. Order \in Seq(FRs) /\ IsInjective(Order)
  BY CatalogueAssumption
<1>2. Len(Order) \in Nat /\ DOMAIN Order = 1 .. Len(Order)
  BY <1>1
<1>3. \A n \in 1 .. Len(Order) : Order[n] \in FRs
  BY <1>1
<1>4. \A f \in FRs : \E n \in 1 .. Len(Order) : Order[n] = f
  BY <1>2 DEF FRs, ToSet
<1>5. \A m, n \in 1 .. Len(Order) : Order[m] = Order[n] => m = n
  BY <1>1, <1>2 DEF IsInjective
<1> QED
  BY <1>2, <1>3, <1>4, <1>5

(***************************************************************************)
(* The evaluation of one test: what it can be, and what it says.           *)
(***************************************************************************)
LEMMA SpecKinds ==
  ASSUME NEW spec \in Specs
  PROVE  /\ spec.type \in {"suite", "clean", "finds", "other"}
         /\ spec.type = "suite" => spec.pattern \in Patterns
         /\ spec.type \in {"clean", "finds"} => spec.scanner \in Kinds
BY DEF Specs

LEMMA TestResults ==
  ASSUME NEW spec, NEW specs
  PROVE  Accepted(Ran(EvaluateTest(spec), specs), specs) \in EvidenceResults
BY DEF EvaluateTest, EvalTestSuite, EvalScannerClean, EvalScannerFinds, Ran, Accepted, EvidenceResults

(***************************************************************************)
(* A test passes, with or without an acceptance, only if it is shown, or   *)
(* if its scanner was to find something and completed.                     *)
(***************************************************************************)
LEMMA PassIsShown ==
  ASSUME GivenOK, NEW spec \in Specs,
         Accepted(Ran(EvaluateTest(spec), {spec}), {spec}) \in {"pass", "accepted"}
  PROVE  Shown(spec) \/ (spec.type = "finds" /\ spec.scanner \in ran)
<1>1. CASE spec.type = "suite"
  <2>1. EvaluateTest(spec) = "pass"
    BY <1>1 DEF EvaluateTest, EvalTestSuite, Ran, Accepted
  <2>2. cases[spec.pattern] # {} /\ cases[spec.pattern] \subseteq {"pass", "skip"}
    BY <1>1, <2>1 DEF EvaluateTest, EvalTestSuite
  <2> QED
    BY <1>1, <2>2 DEF Shown, Refuted
<1>2. ASSUME EvaluateTest(spec) = "no findings" PROVE spec.scanner \in ran
  BY <1>2 DEF Ran, Accepted
<1>3. ASSUME Of(Filtered, spec.scanner) # {} PROVE Of(found, spec.scanner) # {}
  BY <1>3 DEF Of, Filtered
<1>4. CASE spec.type = "clean"
  <2>1. EvaluateTest(spec) \in {"pass", "no findings"} /\ EvaluateTest(spec) # "fail"
    BY <1>4 DEF EvaluateTest, EvalScannerClean, Ran, Accepted
  <2>2. ASSUME NEW g \in found, Refutes(g, spec) PROVE FALSE
    <3>1. g \in Of(Filtered, spec.scanner) /\ g.rule \in spec.rules
      BY <2>2 DEF Refutes, Of, Filtered, IsAccepted
    <3> QED
      BY <1>4, <2>1, <3>1 DEF EvaluateTest, EvalScannerClean
  <2>3. EvaluateTest(spec) = "pass" => Of(Filtered, spec.scanner) # {}
    BY <1>4 DEF EvaluateTest, EvalScannerClean
  <2>4. spec.scanner \in ran \/ Of(found, spec.scanner) # {}
    BY <1>2, <1>3, <2>1, <2>3
  <2> QED
    BY <1>4, <2>2, <2>4 DEF Shown, Refuted
<1>5. CASE spec.type = "finds"
  <2>1. EvaluateTest(spec) = "no findings" \/ Of(Filtered, spec.scanner) # {}
    BY <1>5 DEF EvaluateTest, EvalScannerFinds
  <2> QED
    BY <1>2, <1>3, <1>5, <2>1 DEF Shown, Refuted
<1>6. spec.type # "other"
  BY DEF EvaluateTest, Ran, Accepted
<1> QED
  BY <1>1, <1>4, <1>5, <1>6, SpecKinds

(***************************************************************************)
(* A refuted test fails, whatever other tests have its id.                 *)
(***************************************************************************)
LEMMA RefutedFails ==
  ASSUME NEW spec, NEW specs, Refuted(spec)
  PROVE  Accepted(Ran(EvaluateTest(spec), specs), specs) = "fail"
<1>1. SUFFICES EvaluateTest(spec) = "fail"
  BY DEF Ran, Accepted
<1>2. CASE spec.type = "suite" /\ cases[spec.pattern] \cap {"fail", "error"} # {}
  BY <1>2 DEF EvaluateTest, EvalTestSuite
<1>3. CASE spec.type = "clean" /\ \E g \in found : Refutes(g, spec)
  <2>1. PICK g \in found : Refutes(g, spec)
    BY <1>3
  <2>2. g \in Of(Filtered, spec.scanner) /\ g.rule \in spec.rules
    BY <2>1 DEF Refutes, Of, Filtered, IsAccepted
  <2> QED
    BY <1>3, <2>2 DEF EvaluateTest, EvalScannerClean
<1> QED
  BY <1>2, <1>3 DEF Refuted

(***************************************************************************)
(* A test that wants a scanner clean passes plainly only if none of the    *)
(* scanner's findings was accepted, and none counts against it.            *)
(***************************************************************************)
LEMMA PlainPassHidesNothing ==
  ASSUME NEW specs, NEW spec \in specs, spec.type = "clean",
         Accepted(Ran(EvaluateTest(spec), specs), specs) = "pass",
         NEW g \in found, g.scanner = spec.scanner
  PROVE  ~IsAccepted(g) /\ g.rule \notin spec.rules
<1>1. AcceptedBy(spec.scanner) = {}
  BY DEF Accepted
<1>2. ~IsAccepted(g)
  BY <1>1 DEF AcceptedBy, Of, Filtered
<1>3. ASSUME g.rule \in spec.rules PROVE FALSE
  <2>1. Refutes(g, spec)
    BY <1>2, <1>3 DEF Refutes, IsAccepted
  <2>2. Refuted(spec)
    BY <2>1 DEF Refuted
  <2> QED
    BY <2>2, RefutedFails
<1> QED
  BY <1>2, <1>3

-----------------------------------------------------------------------------
(***************************************************************************)
(* The last of the tests with an id is one of them: a set of indices has a *)
(* largest one, whose interval to the end is the smallest.                 *)
(***************************************************************************)
LEMMA LargestIndex ==
  ASSUME NEW n \in Nat, NEW S \in SUBSET (1 .. n), S # {}
  PROVE  Max(S) \in S
<1> DEFINE T == {i .. n : i \in S}
<1>1. T \subseteq SUBSET (1 .. n) /\ T # {}
  <2>1. \A i \in S : i .. n \subseteq 1 .. n
    OBVIOUS
  <2>2. PICK i \in S : TRUE
    OBVIOUS
  <2> QED
    BY <2>1, <2>2
<1>2. IsWellFoundedOn(StrictSubsetOrdering(1 .. n), SUBSET (1 .. n))
  <2>1. IsFiniteSet(1 .. n)
    BY FS_Interval
  <2> QED
    BY <2>1, FS_StrictSubsetOrderingWellFounded, FS_FiniteSubsetsOfFinite
<1>3. \E s \in T : \A t \in T : ~(<<t, s>> \in StrictSubsetOrdering(1 .. n))
  <2> HIDE DEF T
  <2> QED
    BY <1>1, <1>2, WFMin
<1>4. PICK m \in S : \A t \in T : ~(<<t, m .. n>> \in StrictSubsetOrdering(1 .. n))
  BY <1>3
<1>5. ASSUME NEW i \in S, i > m PROVE FALSE
  <2>1. i .. n \in SUBSET (1 .. n) /\ m .. n \in SUBSET (1 .. n)
    OBVIOUS
  <2>2. i .. n \subseteq m .. n /\ m \in m .. n /\ m \notin i .. n
    BY <1>5
  <2>3. i .. n \in T
    OBVIOUS
  <2> QED
    BY <1>4, <2>1, <2>2, <2>3 DEF StrictSubsetOrdering
<1>6. \A i \in S : m >= i
  BY <1>5
<1> QED
  BY <1>6 DEF Max

LEMMA TestsAreSpecs ==
  ASSUME GivenOK, NEW f \in FRs
  PROVE  /\ catalogue.tests[f] \in Seq(Specs)
         /\ Len(catalogue.tests[f]) \in Nat
         /\ DOMAIN catalogue.tests[f] = 1 .. Len(catalogue.tests[f])
         /\ TestsOf(f) = {catalogue.tests[f][i] : i \in DOMAIN catalogue.tests[f]}
         /\ TestsOf(f) \subseteq Specs
<1>1. catalogue.tests[f] \in Seq(Specs)
  BY CatalogueAssumption DEF GivenOK
<1> QED
  BY <1>1 DEF TestsOf, ToSet

LEMMA LastIsNamed ==
  ASSUME GivenOK, NEW f \in FRs, NEW id \in Ids(f)
  PROVE  LastNamed(f, id) \in Named(f, id)
<1> DEFINE S == {i \in DOMAIN catalogue.tests[f] : catalogue.tests[f][i].id = id}
<1>1. S \in SUBSET (1 .. Len(catalogue.tests[f])) /\ S # {}
  BY TestsAreSpecs DEF Ids
<1>2. Max(S) \in S
  <2> HIDE DEF S
  <2> QED
    BY <1>1, TestsAreSpecs, LargestIndex
<1>3. LastNamed(f, id) = catalogue.tests[f][Max(S)]
  BY DEF LastNamed
<1> HIDE DEF S
<1>4. Max(S) \in DOMAIN catalogue.tests[f] /\ catalogue.tests[f][Max(S)].id = id
  BY <1>2 DEF S
<1> QED
  BY <1>3, <1>4, TestsAreSpecs DEF Named

LEMMA OwnIdsName ==
  ASSUME GivenOK, NEW f \in FRs, HasOwnIds(f), NEW spec \in TestsOf(f)
  PROVE  spec.id \in Ids(f) /\ Named(f, spec.id) = {spec} /\ LastNamed(f, spec.id) = spec
<1>1. PICK i \in DOMAIN catalogue.tests[f] : spec = catalogue.tests[f][i]
  BY TestsAreSpecs
<1>2. spec.id \in Ids(f)
  BY <1>1 DEF HasOwnIds, Ids
<1>3. Named(f, spec.id) = {spec}
  <2>1. ASSUME NEW other \in Named(f, spec.id) PROVE other = spec
    <3>1. PICK j \in DOMAIN catalogue.tests[f] : other = catalogue.tests[f][j]
      BY <2>1, TestsAreSpecs DEF Named
    <3>2. catalogue.tests[f][i].id = catalogue.tests[f][j].id
      BY <1>1, <2>1, <3>1 DEF Named
    <3> QED
      BY <1>1, <3>1, <3>2 DEF HasOwnIds
  <2> QED
    BY <2>1 DEF Named
<1> QED
  BY <1>2, <1>3, LastIsNamed

(***************************************************************************)
(* The evaluations of a requirement, and the ladder over them.             *)
(***************************************************************************)
LEMMA EvaluationsTyped ==
  ASSUME NEW f
  PROVE  /\ DOMAIN Evaluations(f) = Ids(f)
         /\ \A id \in Ids(f) :
              /\ Evaluations(f)[id] = Accepted(Ran(EvaluateTest(LastNamed(f, id)), Named(f, id)),
                                               Named(f, id))
              /\ Evaluations(f)[id] \in EvidenceResults
<1>1. \A id \in Ids(f) :
        Accepted(Ran(EvaluateTest(LastNamed(f, id)), Named(f, id)), Named(f, id)) \in EvidenceResults
  BY TestResults
<1> QED
  BY <1>1 DEF Evaluations

LEMMA LadderOfOne ==
  ASSUME GivenOK, NEW f \in FRs
  PROVE  /\ EvaluateFr(f, Evaluations(f)) \in FRStates
         /\ EvaluateFr(f, Evaluations(f)) \in {"waived", "blocked"}
            \/ EvaluateFr(f, Evaluations(f)) = OwnState(f)
         /\ EvaluateFr(f, Evaluations(f)) \notin {"waived", "blocked"} =>
              \A d \in catalogue.depends[f] : DepState(d) \in Good
<1>1. {Evaluations(f)[id] : id \in DOMAIN Evaluations(f)} = Got(f)
  BY EvaluationsTyped DEF Got
<1>2. OwnState(f) \in {"untested", "failed", "pending", "accepted", "passed"}
  BY DEF OwnState
<1>3. EvaluateFr(f, Evaluations(f)) =
        CASE f \in waivers -> "waived"
          [] f \notin waivers /\ \E d \in catalogue.depends[f] : DepState(d) \notin Good -> "blocked"
          [] OTHER -> OwnState(f)
  BY <1>1 DEF EvaluateFr, OwnState
<1> QED
  BY <1>2, <1>3 DEF FRStates

-----------------------------------------------------------------------------
LEMMA InvInit == Init => Inv
<1> SUFFICES ASSUME Init PROVE Inv
  OBVIOUS
<1>1. GivenOK
  BY CatalogueAssumption DEF Init, GivenOK
<1>2. ProgressOK
  <2>1. done \in 0 .. Len(Order)
    BY Ordered DEF Init
  <2>2. \A f \in FRs : DOMAIN results[f] = {}
    BY DEF Init
  <2> QED
    BY <2>1, <2>2 DEF Init, ProgressOK, FRStates, InitialState
<1>3. Evaluated = {}
  BY DEF Init, Evaluated
<1> QED
  BY <1>1, <1>2, <1>3 DEF Init, Inv, OpenAreUntested, EvaluatedByTests, InitialState

(***************************************************************************)
(* One step evaluates one requirement that was not evaluated before.       *)
(***************************************************************************)
LEMMA StepOfOne ==
  ASSUME Inv, Evaluate
  PROVE  \E f \in FRs \ Evaluated :
            /\ Evaluated' = Evaluated \cup {f}
            /\ results' = [results EXCEPT ![f] = Evaluations(f)]
            /\ states' = [states EXCEPT ![f] = EvaluateFr(f, Evaluations(f))]
<1> DEFINE f == Order[done + 1]
<1>1. done \in Nat /\ done + 1 \in 1 .. Len(Order) /\ done' = done + 1
  BY Ordered DEF Inv, ProgressOK, Evaluate
<1>2. f \in FRs
  BY <1>1, Ordered
<1>3. f \notin Evaluated
  <2>1. ASSUME NEW n \in 1 .. done PROVE Order[n] # f
    <3>1. n \in 1 .. Len(Order) /\ n # done + 1
      BY <1>1, <2>1, Ordered
    <3> QED
      BY <1>1, <3>1, Ordered
  <2> QED
    BY <2>1 DEF Evaluated
<1>4. 1 .. done + 1 = (1 .. done) \cup {done + 1}
  BY <1>1
<1>5. Evaluated' = Evaluated \cup {f}
  BY <1>1, <1>4 DEF Evaluated
<1>6. /\ results' = [results EXCEPT ![f] = Evaluations(f)]
      /\ states' = [states EXCEPT ![f] = EvaluateFr(f, Evaluations(f))]
  BY DEF Evaluate
<1> QED
  BY <1>2, <1>3, <1>5, <1>6

LEMMA GivenStays ==
  ASSUME UNCHANGED given
  PROVE  /\ GivenOK => GivenOK'
         /\ \A f : OwnState(f)' = OwnState(f)
<1>1. UNCHANGED <<catalogue, ran, found, cases, accepted, waivers>>
  BY DEF given
<1>2. GivenOK => GivenOK'
  BY <1>1 DEF GivenOK
<1>3. \A f : Evaluations(f)' = Evaluations(f)
  BY <1>1 DEF Evaluations, Ids, Named, LastNamed, TestsOf, Accepted, Ran, EvaluateTest, EvalTestSuite, EvalScannerClean,
              EvalScannerFinds, AcceptedBy, Of, Filtered, IsAccepted
<1>4. \A f : OwnState(f)' = OwnState(f)
  BY <1>1, <1>3 DEF OwnState, Got, Ids, TestsOf
<1> QED
  BY <1>2, <1>4

LEMMA InvNext == Inv /\ [Next]_vars => Inv'
<1>1. ASSUME Inv, Evaluate PROVE Inv'
  <2>1. PICK f \in FRs \ Evaluated :
            /\ Evaluated' = Evaluated \cup {f}
            /\ results' = [results EXCEPT ![f] = Evaluations(f)]
            /\ states' = [states EXCEPT ![f] = EvaluateFr(f, Evaluations(f))]
    BY <1>1, StepOfOne
  <2>2. GivenOK' /\ \A g : OwnState(g)' = OwnState(g)
    BY <1>1, GivenStays DEF Inv, Evaluate
  <2>3. /\ EvaluateFr(f, Evaluations(f)) \in FRStates
        /\ EvaluateFr(f, Evaluations(f)) \in {"waived", "blocked"}
           \/ EvaluateFr(f, Evaluations(f)) = OwnState(f)
    BY <1>1, LadderOfOne DEF Inv
  <2>4. \A g \in FRs : g # f => states'[g] = states[g] /\ results'[g] = results[g]
    BY <1>1, <2>1 DEF Inv, ProgressOK
  <2>5. states'[f] = EvaluateFr(f, Evaluations(f)) /\ results'[f] = Evaluations(f)
    BY <1>1, <2>1 DEF Inv, ProgressOK
  <2>6. ProgressOK'
    <3>1. done' \in 0 .. Len(Order)
      BY <1>1, Ordered DEF Inv, ProgressOK, Evaluate
    <3>2. DOMAIN results' = FRs /\ states' \in [FRs -> FRStates]
      BY <1>1, <2>1, <2>3 DEF Inv, ProgressOK
    <3>3. \A id \in DOMAIN results'[f] : results'[f][id] \in EvidenceResults
      BY <1>1, <2>5, EvaluationsTyped DEF Inv
    <3> QED
      BY <1>1, <2>4, <3>1, <3>2, <3>3 DEF Inv, ProgressOK
  <2>7. OpenAreUntested'
    BY <1>1, <2>1, <2>4 DEF Inv, OpenAreUntested
  <2>8. EvaluatedByTests'
    <3>1. \A g \in Evaluated : g \in FRs
      BY <1>1, Ordered DEF Inv, ProgressOK, Evaluated
    <3> QED
      BY <1>1, <2>1, <2>2, <2>3, <2>4, <2>5, <3>1 DEF Inv, EvaluatedByTests
  <2> QED
    BY <2>2, <2>6, <2>7, <2>8 DEF Inv
<1>2. ASSUME Inv, UNCHANGED vars PROVE Inv'
  <2>1. UNCHANGED given /\ UNCHANGED <<done, results, states>>
    BY <1>2 DEF vars
  <2>2. GivenOK' /\ \A g : OwnState(g)' = OwnState(g)
    BY <1>2, <2>1, GivenStays DEF Inv
  <2> QED
    BY <1>2, <2>1, <2>2 DEF Inv, ProgressOK, OpenAreUntested, EvaluatedByTests, Evaluated
<1> QED
  BY <1>1, <1>2 DEF Next

LEMMA InvAlways == Spec => []Inv
BY InvInit, InvNext, PTL DEF Spec

-----------------------------------------------------------------------------
(***************************************************************************)
(* Type correctness.                                                       *)
(***************************************************************************)
THEOREM TypeCorrect == Spec => []TypeOK
<1>1. Inv => TypeOK
  BY DEF Inv, GivenOK, ProgressOK, TypeOK, EvidenceResults, FRStates
<1> QED
  BY <1>1, InvAlways, PTL

LEMMA EvaluatedAreFRs == Inv => Evaluated \subseteq FRs
BY Ordered DEF Inv, ProgressOK, Evaluated

(***************************************************************************)
(* A requirement that passes has tests, and if each has an id of its own,  *)
(* every one of them is shown by what the scanners found and the suites    *)
(* reported; but a test that wants a scanner to find something may have    *)
(* passed because the scanner completed.                                   *)
(***************************************************************************)
THEOREM OnlyTheShownPass == Spec => []PassedIsShown
<1>1. Inv => PassedIsShown
  <2> SUFFICES ASSUME Inv, NEW f \in Evaluated, states[f] \in {"passed", "accepted"}, HasOwnIds(f)
               PROVE  /\ catalogue.tests[f] # <<>>
                      /\ \A spec \in TestsOf(f) :
                           Shown(spec) \/ (spec.type = "finds" /\ spec.scanner \in ran)
    BY DEF PassedIsShown
  <2>1. f \in FRs /\ GivenOK /\ OwnState(f) \in {"passed", "accepted"}
    BY EvaluatedAreFRs DEF Inv, EvaluatedByTests
  <2>2. catalogue.tests[f] # <<>> /\ "fail" \notin Got(f) /\ "pending" \notin Got(f)
    BY <2>1 DEF OwnState
  <2>3. ASSUME NEW spec \in TestsOf(f)
        PROVE  Shown(spec) \/ (spec.type = "finds" /\ spec.scanner \in ran)
    <3>1. spec.id \in Ids(f) /\ Named(f, spec.id) = {spec} /\ LastNamed(f, spec.id) = spec
      BY <2>1, OwnIdsName
    <3>2. Evaluations(f)[spec.id] \in {"pass", "accepted"}
      BY <2>2, <3>1, EvaluationsTyped DEF Got, EvidenceResults
    <3>3. Accepted(Ran(EvaluateTest(spec), {spec}), {spec}) \in {"pass", "accepted"}
      BY <3>1, <3>2, EvaluationsTyped
    <3> QED
      BY <2>1, <3>3, TestsAreSpecs, PassIsShown
  <2> QED
    BY <2>2, <2>3
<1> QED
  BY <1>1, InvAlways, PTL

(***************************************************************************)
(* A requirement with a refuted test is failed, blocked or waived.         *)
(***************************************************************************)
THEOREM TheRefutedFail == Spec => []RefutedIsFailed
<1>1. Inv => RefutedIsFailed
  <2> SUFFICES ASSUME Inv, NEW f \in Evaluated, NEW id \in Ids(f), Refuted(LastNamed(f, id))
               PROVE  states[f] \in {"failed", "blocked", "waived"}
    BY DEF RefutedIsFailed, Counted
  <2>1. f \in FRs /\ GivenOK
    BY EvaluatedAreFRs DEF Inv
  <2>2. Evaluations(f)[id] = "fail"
    BY EvaluationsTyped, RefutedFails
  <2>3. "fail" \in Got(f)
    BY <2>2 DEF Got
  <2>4. catalogue.tests[f] # <<>>
    BY <2>1, TestsAreSpecs DEF Ids
  <2> QED
    BY <2>3, <2>4 DEF Inv, EvaluatedByTests, OwnState
<1> QED
  BY <1>1, InvAlways, PTL

(***************************************************************************)
(* A plain pass hides no finding of a scanner that is wanted clean.        *)
(***************************************************************************)
THEOREM AcceptedRiskShows == Spec => []RiskIsVisible
<1>1. Inv => RiskIsVisible
  <2> SUFFICES ASSUME Inv, NEW f \in Evaluated, states[f] = "passed",
                      NEW id \in Ids(f), LastNamed(f, id).type = "clean",
                      NEW g \in found, g.scanner = LastNamed(f, id).scanner
               PROVE  ~IsAccepted(g) /\ g.rule \notin LastNamed(f, id).rules
    BY DEF RiskIsVisible, Counted
  <2>1. f \in FRs /\ GivenOK /\ OwnState(f) = "passed"
    BY EvaluatedAreFRs DEF Inv, EvaluatedByTests
  <2>2. "fail" \notin Got(f) /\ "pending" \notin Got(f) /\ "accepted" \notin Got(f)
    BY <2>1 DEF OwnState
  <2>3. Evaluations(f)[id] = "pass"
    BY <2>2, EvaluationsTyped DEF Got, EvidenceResults
  <2>4. LastNamed(f, id) \in Named(f, id)
    BY <2>1, LastIsNamed
  <2> QED
    BY <2>3, <2>4, EvaluationsTyped, PlainPassHidesNothing
<1> QED
  BY <1>1, InvAlways, PTL

-----------------------------------------------------------------------------
(***************************************************************************)
(* Dependencies that were good when they were looked at had been evaluated *)
(* by then, since what is not yet evaluated is untested; none is evaluated *)
(* again, so they are good at the end.                                     *)
(***************************************************************************)
LEMMA DependenciesInit == Init => DependenciesHold
<1> SUFFICES ASSUME Init PROVE DependenciesHold
  OBVIOUS
<1>1. Evaluated = {}
  BY DEF Init, Evaluated
<1> QED
  BY <1>1 DEF DependenciesHold

LEMMA DependenciesNext == Inv /\ DependenciesHold /\ [Next]_vars => DependenciesHold'
<1>1. ASSUME Inv, DependenciesHold, Evaluate PROVE DependenciesHold'
  <2>1. PICK f \in FRs \ Evaluated :
            /\ Evaluated' = Evaluated \cup {f}
            /\ results' = [results EXCEPT ![f] = Evaluations(f)]
            /\ states' = [states EXCEPT ![f] = EvaluateFr(f, Evaluations(f))]
    BY <1>1, StepOfOne
  <2>2. catalogue' = catalogue
    BY <1>1 DEF Evaluate, given
  <2>3. states[f] = "untested"
    BY <1>1 DEF Inv, OpenAreUntested
  <2>4. \A g \in FRs : g # f => states'[g] = states[g]
    BY <1>1, <2>1 DEF Inv, ProgressOK
  <2>5. ASSUME NEW d, DepState(d) \in Good PROVE DepState(d)' \in Good
    <3>1. d # f
      BY <2>3, <2>5 DEF DepState, Good
    <3> QED
      BY <2>4, <2>5, <3>1 DEF DepState, Good
  <2>6. states'[f] = EvaluateFr(f, Evaluations(f))
    BY <1>1, <2>1 DEF Inv, ProgressOK
  <2>7. states'[f] \notin {"waived", "blocked"} =>
          \A d \in catalogue.depends[f] : DepState(d) \in Good
    BY <1>1, <2>6, LadderOfOne DEF Inv
  <2>8. \A g \in Evaluated : g \in FRs /\ g # f
    BY <1>1, EvaluatedAreFRs
  <2> QED
    BY <1>1, <2>1, <2>2, <2>4, <2>5, <2>7, <2>8 DEF DependenciesHold
<1>2. ASSUME DependenciesHold, UNCHANGED vars PROVE DependenciesHold'
  BY <1>2 DEF vars, given, DependenciesHold, Evaluated, DepState
<1> QED
  BY <1>1, <1>2 DEF Next

(***************************************************************************)
(* What a requirement that is neither waived nor blocked depends on is good*)
(* when the evaluation is done, and not only when it was looked at.        *)
(***************************************************************************)
THEOREM DependenciesStayGood == Spec => []DependenciesHold
BY DependenciesInit, DependenciesNext, InvAlways, PTL DEF Spec
=============================================================================
