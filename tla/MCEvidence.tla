----------------------------- MODULE MCEvidence -----------------------------
(***************************************************************************)
(* Instances of EvidenceStates for TLC: three requirements, of which the   *)
(* second has the tests that vary.  They depend on an earlier or a later   *)
(* one, on each other, on themselves or on one the catalogue lacks.        *)
(***************************************************************************)
EXTENDS EvidenceStates

ThreeFRs == <<"FR-1", "FR-2", "FR-3">>

Two == {"FR-2"}

TwoKinds == {"semgrep", "syft"}

TwoRules == {"r", "r.s"}

PrefixOf == {<<"r", "r">>, <<"r.s", "r.s">>, <<"r.s", "r">>}

TwoIds == {"T-1", "T-2"}

OnePattern == {"*"}

CaseResults == {{}, {"pass", "skip"}, {"pass", "error"}}

SomeKeys ==
  {[scanner |-> "semgrep", rule |-> "r"], [scanner |-> "semgrep", rule |-> "r.s"],
   [scanner |-> "syft", rule |-> "r"]}

Dependencies ==
  {[f \in FRs |-> CASE f = "FR-1" -> d1 [] f = "FR-2" -> d2 [] OTHER -> d3] :
     d1 \in {{}, {"FR-1"}, {"FR-2"}, {"FR-3"}},
     d2 \in {{}, {"FR-1"}, {"FR-3"}, {"FR-9"}},
     d3 \in {{}, {"FR-1", "FR-2"}}}

Suite(id) == [id |-> id, type |-> "suite", pattern |-> "*"]

Clean(id, scanner, rules) == [id |-> id, type |-> "clean", scanner |-> scanner, rules |-> rules]

Finds(id, scanner) == [id |-> id, type |-> "finds", scanner |-> scanner]

(***************************************************************************)
(* Of the last list two tests share an id.                                 *)
(***************************************************************************)
Tests ==
  {<<Clean("T-1", "semgrep", {"r.s"})>>,
   <<Clean("T-1", "semgrep", {"r", "r.s"}), Suite("T-2")>>,
   <<Finds("T-1", "syft")>>,
   <<[id |-> "T-1", type |-> "other"], Suite("T-2")>>,
   <<Suite("T-2"), Finds("T-1", "syft"), Clean("T-1", "semgrep", {"r.s"})>>}

CataloguesOf(tests) ==
  {[depends |-> d,
    tests |-> [f \in FRs |-> CASE f = "FR-1" -> <<Suite("T-1")>> [] f = "FR-2" -> t [] OTHER -> <<>>]] :
     d \in Dependencies, t \in tests}

SomeCatalogues == CataloguesOf(Tests)

(***************************************************************************)
(* The second requirement wants syft to find something.                    *)
(***************************************************************************)
FindsCatalogues == CataloguesOf({<<Finds("T-1", "syft")>>})
=============================================================================
