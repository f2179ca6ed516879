--------------------------- MODULE ComplianceGates ---------------------------
(***************************************************************************)
(* What becomes of a model's answer (packages/compliance): a parser turns  *)
(* the raw tool input into a proposal, and ordered rules turn the proposal *)
(* into a verdict.  Pure operators; the module that asks the model and     *)
(* pays for it is InferenceRulings.                                        *)
(*                                                                         *)
(* A raw field the parser cannot read - missing, or of the wrong type - is *)
(* Malformed.  Flags, questions and conflicts are small sets; confidences  *)
(* arrive in ten-thousandths and are kept in thousandths, as the code      *)
(* rounds them to three decimals.                                          *)
(***************************************************************************)
EXTENDS Totals, FiniteSetsExt, Sequences

CONSTANTS
    Malformed,          \* a field the parser cannot read
    NoCode,             \* null: no tariff code
    HsCodes,            \* six-digit codes of the nomenclature
    chapterOf,          \* code -> its first two digits
    headingOf,          \* code -> its first four digits
    ProhibitedHeadings, \* the carrier's published exclusions
    ProhibitedChapters,
    PurposeFlags,       \* the flags the classification schema defines
    IntegrityFlags,     \* the flags the carbon schema defines
    RecognisedRegistries,
    ThisYear,           \* the clock's year
    Invented,           \* a flag no schema defines
    RawConfidences      \* what a model may state, in ten-thousandths

ASSUME GatesAssumption ==
    /\ NoCode \notin HsCodes
    /\ Malformed \notin HsCodes \union {NoCode}
    /\ Invented \notin PurposeFlags \union IntegrityFlags
    /\ RawConfidences \subseteq Int
    /\ ThisYear \in Nat

CONFIDENCE_THRESHOLD == 850
CROSS_BORDER_CONFIDENCE_THRESHOLD == 900
CARBON_CONFIDENCE_THRESHOLD == 600
COMPUTE_CONFIDENCE_THRESHOLD == 850
MAX_VINTAGE_AGE_YEARS == 10

-----------------------------------------------------------------------------
(* What a model may answer: the fields of the tool schema it is forced to  *)
(* fill, each of which may still come back missing or of the wrong type.   *)

Maybe(S) == S \union {Malformed}

HsAnswer ==
    [hs6 : Maybe(HsCodes \union {NoCode}), confidence : Maybe(RawConfidences),
     missing : Maybe({{}, {"question"}}),
     flags : Maybe(SUBSET (PurposeFlags \union {Invented})),
     chapters : Maybe(SUBSET {chapterOf[c] : c \in HsCodes})]

GroundAnswer == [hs6 : Maybe(HsCodes \union {NoCode}), confidence : Maybe(RawConfidences)]

CarbonAnswer ==
    [flags : Maybe(SUBSET (IntegrityFlags \union {Invented})),
     confidence : Maybe(RawConfidences), rationale : Maybe({"text"})]

ComputeAnswer ==
    [conflicts : Maybe({{}, {"conflict"}}), missing : Maybe({{}, {"question"}}),
     confidence : Maybe(RawConfidences)]

\* A class as the provider lists it: whether it has a name, a category or a
\* methodology of its own, and its credits.  A vintage is a year, a date written
\* as one number, or 0 where none is stated.
CarbonCredit == [registry : RecognisedRegistries \union {"CMARK", ""}, vintage : Nat,
                 liquidity : Nat]
CarbonClass == [identified : BOOLEAN, isRegistered : BOOLEAN, credits : SUBSET CarbonCredit]

yearOf(vintage) == IF vintage > 9999 THEN vintage \div 10000 ELSE vintage

\* The facts a retirement of so many tonnes is judged on.
assess(class, tonnes) ==
    LET years == {yearOf(c.vintage) : c \in {d \in class.credits : d.vintage > 0}}
    IN  [identityUnknown |-> ~class.identified,
         isRegistered |-> class.isRegistered,
         registries |-> {c.registry : c \in class.credits} \ {""},
         liquidity |-> Total([c \in class.credits |-> c.liquidity], class.credits),
         requested |-> tonnes,
         ageYears |-> IF years = {} THEN -1 ELSE ThisYear - Min(years)]

-----------------------------------------------------------------------------
(* Reading the model's answer                                              *)

\* The readable members of an array field: a field that is none has none.
strings(field) == IF field = Malformed THEN {} ELSE field

\* Clamped to 0..1, half up to three decimals; what is not a number is 0.
roundConfidence(raw) ==
    CASE raw = Malformed -> 0
      [] raw # Malformed /\ raw < 0 -> 0
      [] raw # Malformed /\ raw > 10000 -> 1000
      [] OTHER -> (raw + 5) \div 10

\* A code that could not be read is no classification and has no confidence.
parseProposal(input) ==
    LET code == IF input.hs6 = Malformed THEN NoCode ELSE input.hs6 IN
    [hs6 |-> code,
     confidence |-> IF code = NoCode THEN 0 ELSE roundConfidence(input.confidence),
     missing |-> strings(input.missing),
     flags |-> strings(input.flags) \intersect PurposeFlags,
     chapters |-> strings(input.chapters)
                    \union (IF code = NoCode THEN {} ELSE {chapterOf[code]})]

\* A judgement with no stated reason carries no confidence.  Findings and open
\* questions are disclosed and decide nothing.
parseCarbonProposal(input) ==
    [flags |-> strings(input.flags) \intersect IntegrityFlags,
     confidence |-> IF input.rationale = Malformed THEN 0
                    ELSE roundConfidence(input.confidence)]

parseComputePolicyProposal(input) ==
    [conflicts |-> strings(input.conflicts), missing |-> strings(input.missing),
     confidence |-> roundConfidence(input.confidence)]

\* Mutant: the second pass is read as a proposal of its own.
GroundedAfresh(first, input) ==
    [first EXCEPT !.hs6 = IF input.hs6 = Malformed THEN NoCode ELSE input.hs6,
                  !.confidence = roundConfidence(input.confidence),
                  !.missing = {}]

\* The second pass chooses among the published codes of the chapters the first
\* one named.  A code it was not offered, or none, leaves the first proposal
\* standing; flags and questions are always those of the first pass.
grounded(first, input) ==
    LET offered == {c \in HsCodes : chapterOf[c] \in first.chapters} IN
    IF input.hs6 \in offered
    THEN [first EXCEPT !.hs6 = input.hs6,
                       !.confidence = roundConfidence(input.confidence)]
    ELSE first

\* What is recorded when the facts decide and no model is asked.
unassessedProposal == [flags |-> {}, confidence |-> 0]

-----------------------------------------------------------------------------
(* The rules: the first one that fires decides                             *)

Rule(fires, verdict, ground) == [fires |-> fires, verdict |-> verdict, ground |-> ground]

FirstFiring(rules) ==
    rules[CHOOSE i \in DOMAIN rules :
            rules[i].fires /\ \A j \in 1 .. i - 1 : ~rules[j].fires]

isAcceptable(code) ==
    /\ headingOf[code] \notin ProhibitedHeadings
    /\ chapterOf[code] \notin ProhibitedChapters

thresholdFor(crossBorder) ==
    IF crossBorder THEN CROSS_BORDER_CONFIDENCE_THRESHOLD ELSE CONFIDENCE_THRESHOLD

decide(p, crossBorder) == FirstFiring(<<
    Rule(p.flags # {}, "Refused", "purpose_flag"),
    Rule(p.hs6 = NoCode, "NeedsInformation", "no_classification"),
    Rule(p.hs6 # NoCode /\ ~isAcceptable(p.hs6), "Refused", "carrier_policy"),
    Rule(p.missing # {}, "NeedsInformation", "missing_information"),
    Rule(p.confidence < thresholdFor(crossBorder), "NeedsInformation", "low_confidence"),
    Rule(TRUE, "Approved", "approved") >>)

\* The grounds that depend on nothing the model supplies; callers skip the
\* model when one of them fires.
FactRules(q) == <<
    Rule(q.identityUnknown, "NeedsInformation", "identity_unknown"),
    Rule(~q.isRegistered, "NeedsInformation", "unregistered_class"),
    Rule(q.registries \intersect RecognisedRegistries = {},
         "NeedsInformation", "unregistered_class"),
    Rule(q.liquidity < q.requested, "NeedsInformation", "insufficient_liquidity") >>

deterministicGround(q) == \E i \in DOMAIN FactRules(q) : FactRules(q)[i].fires

\* Mutant: the facts are consulted only before the model is asked.
DecideCarbonOnProposal(q, p) == FirstFiring(<<
    Rule(p.flags # {}, "Refused", "integrity_flag"),
    Rule(q.ageYears > MAX_VINTAGE_AGE_YEARS, "NeedsInformation", "vintage_too_old"),
    Rule(p.confidence < CARBON_CONFIDENCE_THRESHOLD, "NeedsInformation", "low_confidence"),
    Rule(TRUE, "Approved", "approved") >>)

decideCarbon(q, p) == FirstFiring(
    <<Rule(p.flags # {}, "Refused", "integrity_flag")>>
    \o FactRules(q) \o
    << Rule(q.ageYears > MAX_VINTAGE_AGE_YEARS, "NeedsInformation", "vintage_too_old"),
       Rule(p.confidence < CARBON_CONFIDENCE_THRESHOLD,
            "NeedsInformation", "low_confidence"),
       Rule(TRUE, "Approved", "approved") >>)

decideCompute(p) == FirstFiring(<<
    Rule(p.conflicts # {}, "Refused", "policy_conflict"),
    Rule(p.missing # {}, "NeedsInformation", "missing_information"),
    Rule(p.confidence < COMPUTE_CONFIDENCE_THRESHOLD, "NeedsInformation", "low_confidence"),
    Rule(TRUE, "Approved", "approved") >>)

-----------------------------------------------------------------------------
\* The fields of an answer the parser could not read.
unread(input) == {field \in DOMAIN input : input[field] = Malformed}
=============================================================================
