----------------------- MODULE InferenceRulings_proofs -----------------------
(***************************************************************************)
(* Proofs about rulings: for every nomenclature, every answer a model may  *)
(* give and every listing, an approval rests on an answer that could be    *)
(* read and on facts that allow it; and for any number of processes,       *)
(* rulings, failures and restarts, a ledger is overrun by no more than     *)
(* what was under way.                                                     *)
(***************************************************************************)
EXTENDS InferenceRulings, Totals_proofs, SequenceTheorems, WellFoundedInduction

-----------------------------------------------------------------------------
(* The rule that decides                                                   *)

\* The minimum of a set of naturals is in it and is the least of them.
LEMMA MinOfNats ==
    ASSUME NEW S, S \subseteq Nat, S # {}
    PROVE  Min(S) \in S /\ \A y \in S : Min(S) <= y
BY LeastOfNats DEF Min

\* Rule i decides: it fires, and no rule before it does.
Decides(rules, i) ==
    /\ FirstFiring(rules) = rules[i]
    /\ rules[i].fires
    /\ \A j \in 1 .. i - 1 : ~ rules[j].fires

\* Of rules the last of which fires, one that fires decides, and none before it does.
LEMMA FirstDecides ==
    ASSUME NEW n \in Nat \ {0}, NEW rules, DOMAIN rules = 1 .. n, rules[n].fires = TRUE
    PROVE  \E i \in 1 .. n : Decides(rules, i)
<1> DEFINE firing == {i \in 1 .. n : rules[i].fires}
           first(i) == rules[i].fires /\ \A j \in 1 .. i - 1 : ~ rules[j].fires
<1>1. Min(firing) \in firing /\ \A y \in firing : Min(firing) <= y
  <2>1. firing \subseteq Nat /\ firing # {}
    OBVIOUS
  <2> HIDE DEF firing
  <2>2. QED
    BY <2>1, MinOfNats
<1>2. PICK k \in 1 .. n : k \in firing /\ \A y \in firing : k <= y
  BY <1>1
<1>3. first(k)
  <2>1. ASSUME NEW j \in 1 .. k - 1, rules[j].fires PROVE FALSE
    <3>1. j \in firing /\ j < k
      BY <2>1
    <3>2. QED
      BY <3>1, <1>2
  <2>2. QED
    BY <1>2, <2>1
<1> DEFINE i == CHOOSE i \in 1 .. n : first(i)
<1>4. i \in 1 .. n /\ first(i)
  BY <1>3 DEF Decides
<1>5. FirstFiring(rules) = rules[i]
  BY DEF FirstFiring
<1>6. QED
  BY <1>4, <1>5 DEF Decides

Verdicts == {"Approved", "NeedsInformation", "Refused"}

\* Goods are approved only when no rule before the last one fires, and a flag
\* refuses them.
LEMMA Deciding ==
    ASSUME NEW p, NEW crossBorder
    PROVE  LET d == decide(p, crossBorder) IN
           /\ d.verdict \in Verdicts
           /\ p.flags # {} => d.verdict = "Refused"
           /\ d.verdict = "Approved" =>
                /\ p.flags = {} /\ p.hs6 # NoCode /\ isAcceptable(p.hs6)
                /\ p.missing = {} /\ ~ (p.confidence < thresholdFor(crossBorder))
<1> DEFINE rules == <<
        Rule(p.flags # {}, "Refused", "purpose_flag"),
        Rule(p.hs6 = NoCode, "NeedsInformation", "no_classification"),
        Rule(p.hs6 # NoCode /\ ~isAcceptable(p.hs6), "Refused", "carrier_policy"),
        Rule(p.missing # {}, "NeedsInformation", "missing_information"),
        Rule(p.confidence < thresholdFor(crossBorder), "NeedsInformation",
             "low_confidence"),
        Rule(TRUE, "Approved", "approved") >>
<1>1. decide(p, crossBorder) = FirstFiring(rules)
  BY DEF decide
<1>2. /\ DOMAIN rules = 1 .. 6
      /\ rules[1] = Rule(p.flags # {}, "Refused", "purpose_flag")
      /\ rules[2] = Rule(p.hs6 = NoCode, "NeedsInformation", "no_classification")
      /\ rules[3] = Rule(p.hs6 # NoCode /\ ~isAcceptable(p.hs6), "Refused",
                         "carrier_policy")
      /\ rules[4] = Rule(p.missing # {}, "NeedsInformation", "missing_information")
      /\ rules[5] = Rule(p.confidence < thresholdFor(crossBorder), "NeedsInformation",
                         "low_confidence")
      /\ rules[6] = Rule(TRUE, "Approved", "approved")
  OBVIOUS
<1> HIDE DEF rules
<1>3. PICK i \in 1 .. 6 : Decides(rules, i)
  <2>1. rules[6].fires = TRUE
    BY <1>2 DEF Rule
  <2>2. 6 \in Nat \ {0} /\ DOMAIN rules = 1 .. 6
    BY <1>2
  <2>3. QED
    BY <2>1, <2>2, FirstDecides, Zenon
<1>4. /\ i \in {1, 2, 3, 4, 5, 6}
      /\ i # 1 => ~ rules[1].fires
      /\ i = 6 => \A j \in {1, 2, 3, 4, 5} : ~ rules[j].fires
  BY <1>3 DEF Decides
<1>5. /\ rules[1].verdict = "Refused" /\ rules[2].verdict = "NeedsInformation"
      /\ rules[3].verdict = "Refused" /\ rules[4].verdict = "NeedsInformation"
      /\ rules[5].verdict = "NeedsInformation" /\ rules[6].verdict = "Approved"
  BY <1>2 DEF Rule
<1>6. /\ rules[1].fires = (p.flags # {}) /\ rules[2].fires = (p.hs6 = NoCode)
      /\ rules[3].fires = (p.hs6 # NoCode /\ ~isAcceptable(p.hs6))
      /\ rules[4].fires = (p.missing # {})
      /\ rules[5].fires = (p.confidence < thresholdFor(crossBorder))
  BY <1>2 DEF Rule
<1>7. rules[i].verdict \in Verdicts
  BY <1>4, <1>5 DEF Verdicts
<1>8. p.flags # {} => rules[i].verdict = "Refused"
  BY <1>4, <1>5, <1>6
<1>9. ASSUME rules[i].verdict = "Approved"
      PROVE  /\ p.flags = {} /\ p.hs6 # NoCode /\ isAcceptable(p.hs6)
             /\ p.missing = {} /\ ~ (p.confidence < thresholdFor(crossBorder))
  <2>1. i = 6
    BY <1>4, <1>5, <1>9
  <2>2. /\ ~ rules[1].fires /\ ~ rules[2].fires /\ ~ rules[3].fires
        /\ ~ rules[4].fires /\ ~ rules[5].fires
    BY <2>1, <1>4
  <2>3. QED
    BY <2>2, <1>6, Zenon
<1>10. QED
  BY <1>1, <1>3, <1>7, <1>8, <1>9 DEF Decides

\* Compute policy is approved only without conflicts or questions, and with
\* confidence.
LEMMA DecidingCompute ==
    ASSUME NEW p
    PROVE  LET d == decideCompute(p) IN
           /\ d.verdict \in Verdicts
           /\ d.verdict = "Approved" => ~ (p.confidence < COMPUTE_CONFIDENCE_THRESHOLD)
<1> DEFINE rules == <<
        Rule(p.conflicts # {}, "Refused", "policy_conflict"),
        Rule(p.missing # {}, "NeedsInformation", "missing_information"),
        Rule(p.confidence < COMPUTE_CONFIDENCE_THRESHOLD, "NeedsInformation",
             "low_confidence"),
        Rule(TRUE, "Approved", "approved") >>
<1>1. decideCompute(p) = FirstFiring(rules)
  BY DEF decideCompute
<1>2. /\ DOMAIN rules = 1 .. 4
      /\ rules[1] = Rule(p.conflicts # {}, "Refused", "policy_conflict")
      /\ rules[2] = Rule(p.missing # {}, "NeedsInformation", "missing_information")
      /\ rules[3] = Rule(p.confidence < COMPUTE_CONFIDENCE_THRESHOLD,
                         "NeedsInformation", "low_confidence")
      /\ rules[4] = Rule(TRUE, "Approved", "approved")
  OBVIOUS
<1> HIDE DEF rules
<1>3. PICK i \in 1 .. 4 : Decides(rules, i)
  <2>1. rules[4].fires = TRUE
    BY <1>2 DEF Rule
  <2>2. 4 \in Nat \ {0} /\ DOMAIN rules = 1 .. 4
    BY <1>2
  <2>3. QED
    BY <2>1, <2>2, FirstDecides, Zenon
<1>4. i \in {1, 2, 3, 4} /\ (i = 4 => ~ rules[3].fires)
  BY <1>3 DEF Decides
<1>5. /\ rules[1].verdict = "Refused" /\ rules[2].verdict = "NeedsInformation"
      /\ rules[3].verdict = "NeedsInformation" /\ rules[4].verdict = "Approved"
      /\ rules[3].fires = (p.confidence < COMPUTE_CONFIDENCE_THRESHOLD)
  BY <1>2 DEF Rule
<1>6. rules[i].verdict \in Verdicts
  BY <1>4, <1>5 DEF Verdicts
<1>7. ASSUME rules[i].verdict = "Approved"
      PROVE  ~ (p.confidence < COMPUTE_CONFIDENCE_THRESHOLD)
  <2>1. ~ rules[3].fires
    BY <1>4, <1>5, <1>7
  <2>2. QED
    BY <2>1, <1>5, Zenon
<1>8. QED
  BY <1>1, <1>3, <1>6, <1>7 DEF Decides

\* A retirement is approved only when no ground of the facts and no doubt of the
\* model's fires.
LEMMA DecidingCarbon ==
    ASSUME NEW q, NEW p
    PROVE  LET d == decideCarbon(q, p) IN
           /\ d.verdict \in Verdicts
           /\ d.verdict = "Approved" =>
                /\ ~ q.identityUnknown /\ q.isRegistered
                /\ q.registries \intersect RecognisedRegistries # {}
                /\ ~ (q.liquidity < q.requested)
                /\ ~ (q.ageYears > MAX_VINTAGE_AGE_YEARS)
                /\ ~ (p.confidence < CARBON_CONFIDENCE_THRESHOLD)
<1> DEFINE r1 == Rule(p.flags # {}, "Refused", "integrity_flag")
           r2 == Rule(q.identityUnknown, "NeedsInformation", "identity_unknown")
           r3 == Rule(~q.isRegistered, "NeedsInformation", "unregistered_class")
           r4 == Rule(q.registries \intersect RecognisedRegistries = {},
                      "NeedsInformation", "unregistered_class")
           r5 == Rule(q.liquidity < q.requested, "NeedsInformation",
                      "insufficient_liquidity")
           r6 == Rule(q.ageYears > MAX_VINTAGE_AGE_YEARS, "NeedsInformation",
                      "vintage_too_old")
           r7 == Rule(p.confidence < CARBON_CONFIDENCE_THRESHOLD, "NeedsInformation",
                      "low_confidence")
           r8 == Rule(TRUE, "Approved", "approved")
           rules == (<<r1>> \o <<r2, r3, r4, r5>>) \o <<r6, r7, r8>>
<1>1. decideCarbon(q, p) = FirstFiring(rules)
  BY DEF decideCarbon, FactRules
<1>2. /\ DOMAIN rules = 1 .. 8
      /\ rules[1] = r1 /\ rules[2] = r2 /\ rules[3] = r3 /\ rules[4] = r4
      /\ rules[5] = r5 /\ rules[6] = r6 /\ rules[7] = r7 /\ rules[8] = r8
  <2> HIDE DEF r1, r2, r3, r4, r5, r6, r7, r8
  <2> DEFINE S == {r1, r2, r3, r4, r5, r6, r7, r8}
             facts == <<r1>> \o <<r2, r3, r4, r5>>
  <2>1. <<r1>> \in Seq(S) /\ <<r2, r3, r4, r5>> \in Seq(S) /\ <<r6, r7, r8>> \in Seq(S)
    OBVIOUS
  <2>2. Len(<<r1>>) = 1 /\ Len(<<r2, r3, r4, r5>>) = 4 /\ Len(<<r6, r7, r8>>) = 3
    OBVIOUS
  <2> HIDE DEF S
  <2>3. /\ facts \in Seq(S) /\ Len(facts) = 5
        /\ \A i \in 1 .. 5 :
             facts[i] = IF i <= 1 THEN <<r1>>[i] ELSE <<r2, r3, r4, r5>>[i - 1]
    BY <2>1, <2>2, ConcatProperties
  <2>4. /\ facts[1] = r1 /\ facts[2] = r2 /\ facts[3] = r3
        /\ facts[4] = r4 /\ facts[5] = r5
    BY <2>3
  <2> HIDE DEF facts
  <2> DEFINE doubts == <<r6, r7, r8>>
  <2>5. /\ facts \o doubts \in Seq(S) /\ Len(facts \o doubts) = 8
        /\ \A i \in 1 .. 8 : (facts \o doubts)[i] =
                              IF i <= 5 THEN facts[i] ELSE doubts[i - 5]
    <3> HIDE DEF doubts
    <3>1. facts \in Seq(S) /\ doubts \in Seq(S) /\ Len(facts) = 5 /\ Len(doubts) = 3
      BY <2>1, <2>2, <2>3 DEF doubts
    <3>2. QED
      <4>1. /\ facts \o doubts \in Seq(S)
            /\ Len(facts \o doubts) = Len(facts) + Len(doubts)
            /\ \A i \in 1 .. Len(facts) + Len(doubts) : (facts \o doubts)[i] =
                 IF i <= Len(facts) THEN facts[i] ELSE doubts[i - Len(facts)]
        BY <3>1, ConcatProperties, Zenon
      <4>2. QED
        BY <4>1, <3>1
  <2>6. rules = facts \o <<r6, r7, r8>>
    BY DEF facts
  <2>7. DOMAIN rules = 1 .. 8
    BY <2>5, <2>6, LenProperties
  <2> HIDE DEF rules
  <2>8. /\ rules[1] = facts[1] /\ rules[2] = facts[2] /\ rules[3] = facts[3]
        /\ rules[4] = facts[4] /\ rules[5] = facts[5]
        /\ rules[6] = r6 /\ rules[7] = r7 /\ rules[8] = r8
    BY <2>5, <2>6
  <2>9. QED
    BY <2>4, <2>7, <2>8
<1> HIDE DEF rules
<1>3. PICK i \in 1 .. 8 : Decides(rules, i)
  <2>1. rules[8].fires = TRUE
    BY <1>2 DEF Rule
  <2>2. 8 \in Nat \ {0} /\ DOMAIN rules = 1 .. 8
    BY <1>2
  <2>3. QED
    BY <2>1, <2>2, FirstDecides, Zenon
<1>4. /\ i \in {1, 2, 3, 4, 5, 6, 7, 8}
      /\ i = 8 => \A j \in {2, 3, 4, 5, 6, 7} : ~ rules[j].fires
  BY <1>3 DEF Decides
<1>5. /\ r1.verdict = "Refused" /\ r8.verdict = "Approved"
      /\ r2.verdict = "NeedsInformation" /\ r3.verdict = "NeedsInformation"
      /\ r4.verdict = "NeedsInformation" /\ r5.verdict = "NeedsInformation"
      /\ r6.verdict = "NeedsInformation" /\ r7.verdict = "NeedsInformation"
  BY DEF Rule
<1>6. /\ r2.fires = q.identityUnknown /\ r3.fires = ~ q.isRegistered
      /\ r4.fires = (q.registries \intersect RecognisedRegistries = {})
      /\ r5.fires = (q.liquidity < q.requested)
      /\ r6.fires = (q.ageYears > MAX_VINTAGE_AGE_YEARS)
      /\ r7.fires = (p.confidence < CARBON_CONFIDENCE_THRESHOLD)
  BY DEF Rule
<1> HIDE DEF r1, r2, r3, r4, r5, r6, r7, r8
<1>7. rules[i].verdict \in Verdicts
  BY <1>2, <1>4, <1>5 DEF Verdicts
<1>8. ASSUME rules[i].verdict = "Approved"
      PROVE  /\ ~ q.identityUnknown /\ q.isRegistered
             /\ q.registries \intersect RecognisedRegistries # {}
             /\ ~ (q.liquidity < q.requested)
             /\ ~ (q.ageYears > MAX_VINTAGE_AGE_YEARS)
             /\ ~ (p.confidence < CARBON_CONFIDENCE_THRESHOLD)
  <2>1. i = 8
    BY <1>2, <1>4, <1>5, <1>8
  <2>2. ~ r2.fires /\ ~ r3.fires /\ ~ r4.fires /\ ~ r5.fires /\ ~ r6.fires /\ ~ r7.fires
    BY <2>1, <1>2, <1>4
  <2>3. QED
    BY <2>2, <1>6, Zenon
<1>9. QED
  BY <1>1, <1>3, <1>7, <1>8 DEF Decides

-----------------------------------------------------------------------------
(* What an answer is read as                                               *)

Proposal ==
    [hs6 : HsCodes \union {NoCode}, confidence : Nat, missing : SUBSET {"question"},
     flags : SUBSET PurposeFlags, chapters : SUBSET {chapterOf[c] : c \in HsCodes}]

\* The fields that bind a ruling when they cannot be read.
Binding == {"hs6", "confidence", "rationale"}

LEMMA Rounding ==
    ASSUME NEW raw \in Maybe(RawConfidences)
    PROVE  roundConfidence(raw) \in Nat /\ (raw = Malformed => roundConfidence(raw) = 0)
<1>1. CASE raw = Malformed
  BY <1>1 DEF roundConfidence
<1>2. CASE raw # Malformed
  <2>1. raw \in Int
    BY <1>2, GatesAssumption DEF Maybe
  <2>2. QED
    BY <1>2, <2>1 DEF roundConfidence
<1>3. QED
  BY <1>1, <1>2

LEMMA ProposalType ==
    ASSUME NEW input \in HsAnswer
    PROVE  parseProposal(input) \in Proposal
<1> DEFINE code == IF input.hs6 = Malformed THEN NoCode ELSE input.hs6
           chapters == strings(input.chapters)
                         \union (IF code = NoCode THEN {} ELSE {chapterOf[code]})
<1>1. /\ input.hs6 \in Maybe(HsCodes \union {NoCode})
      /\ input.confidence \in Maybe(RawConfidences)
      /\ input.missing \in Maybe({{}, {"question"}})
      /\ input.flags \in Maybe(SUBSET (PurposeFlags \union {Invented}))
      /\ input.chapters \in Maybe(SUBSET {chapterOf[c] : c \in HsCodes})
  BY DEF HsAnswer
<1>2. code \in HsCodes \union {NoCode}
  BY <1>1 DEF Maybe
<1>3. strings(input.missing) \in SUBSET {"question"}
  BY <1>1 DEF strings, Maybe
<1>4. strings(input.flags) \intersect PurposeFlags \in SUBSET PurposeFlags
  OBVIOUS
<1>5. chapters \in SUBSET {chapterOf[c] : c \in HsCodes}
  BY <1>1, <1>2 DEF strings, Maybe
<1>6. roundConfidence(input.confidence) \in Nat
  BY <1>1, Rounding
<1>7. QED
  BY <1>2, <1>3, <1>4, <1>5, <1>6 DEF parseProposal, Proposal

\* Goods that the first pass gets approved were classified in a readable answer.
LEMMA FirstPassWasRead ==
    ASSUME NEW input \in HsAnswer, NEW crossBorder \in BOOLEAN,
           decide(parseProposal(input), crossBorder).verdict = "Approved"
    PROVE  unread(input) \intersect Binding = {}
<1> DEFINE p == parseProposal(input)
<1>1. p.hs6 # NoCode /\ ~ (p.confidence < thresholdFor(crossBorder))
  BY Deciding, Zenon
<1>2. input.hs6 # Malformed
  BY <1>1 DEF parseProposal
<1>3. input.confidence # Malformed
  <2>1. input.confidence \in Maybe(RawConfidences)
    BY DEF HsAnswer
  <2>2. input.confidence = Malformed => p.confidence = 0
    BY <2>1, Rounding DEF parseProposal
  <2>3. 0 < thresholdFor(crossBorder)
    BY DEF thresholdFor, CONFIDENCE_THRESHOLD, CROSS_BORDER_CONFIDENCE_THRESHOLD
  <2>4. QED
    BY <1>1, <2>2, <2>3
<1>4. DOMAIN input = {"hs6", "confidence", "missing", "flags", "chapters"}
  BY DEF HsAnswer
<1>5. QED
  BY <1>2, <1>3, <1>4 DEF unread, Binding

\* The second pass leaves flags and questions alone; where it changes anything and
\* the goods are approved, its answer could be read.
LEMMA Grounding ==
    ASSUME NEW first \in Proposal, NEW input \in GroundAnswer,
           NEW crossBorder \in BOOLEAN
    PROVE  LET p == grounded(first, input) IN
           /\ p \in Proposal
           /\ p.flags = first.flags /\ p.missing = first.missing
           /\ p # first /\ decide(p, crossBorder).verdict = "Approved" =>
                unread(input) \intersect Binding = {}
<1> DEFINE p == grounded(first, input)
           offered == {c \in HsCodes : chapterOf[c] \in first.chapters}
<1>1. input.confidence \in Maybe(RawConfidences) /\ DOMAIN input = {"hs6", "confidence"}
  BY DEF GroundAnswer
<1>2. roundConfidence(input.confidence) \in Nat
  BY <1>1, Rounding
<1>3. p \in Proposal /\ p.flags = first.flags /\ p.missing = first.missing
  <2>1. CASE input.hs6 \in offered
    <3>1. p = [first EXCEPT !.hs6 = input.hs6,
                            !.confidence = roundConfidence(input.confidence)]
      BY <2>1 DEF grounded
    <3>2. input.hs6 \in HsCodes
      BY <2>1
    <3> HIDE DEF p
    <3>3. QED
      BY <3>1, <3>2, <1>2 DEF Proposal
  <2>2. CASE input.hs6 \notin offered
    BY <2>2 DEF grounded
  <2>3. QED
    BY <2>1, <2>2
<1>4. ASSUME p # first, decide(p, crossBorder).verdict = "Approved"
      PROVE  unread(input) \intersect Binding = {}
  <2>1. input.hs6 \in offered
    BY <1>4 DEF grounded
  <2>2. input.hs6 # Malformed
    BY <2>1, GatesAssumption
  <2>3. ~ (p.confidence < thresholdFor(crossBorder))
    BY <1>4, Deciding, Zenon
  <2>4. p.confidence = roundConfidence(input.confidence)
    BY <2>1 DEF grounded, Proposal
  <2>5. 0 < thresholdFor(crossBorder)
    BY DEF thresholdFor, CONFIDENCE_THRESHOLD, CROSS_BORDER_CONFIDENCE_THRESHOLD
  <2>6. input.confidence # Malformed
    BY <1>1, <2>3, <2>4, <2>5, Rounding
  <2>7. QED
    BY <1>1, <2>2, <2>6 DEF unread, Binding
<1>5. QED
  BY <1>3, <1>4

LEMMA CarbonWasRead ==
    ASSUME NEW input \in CarbonAnswer, NEW q,
           decideCarbon(q, parseCarbonProposal(input)).verdict = "Approved"
    PROVE  unread(input) \intersect Binding = {}
<1> DEFINE p == parseCarbonProposal(input)
<1>1. ~ (p.confidence < CARBON_CONFIDENCE_THRESHOLD)
  BY DecidingCarbon, Zenon
<1>2. /\ input.confidence \in Maybe(RawConfidences)
      /\ DOMAIN input = {"flags", "confidence", "rationale"}
  BY DEF CarbonAnswer
<1>3. input.confidence = Malformed \/ input.rationale = Malformed => p.confidence = 0
  BY <1>2, Rounding DEF parseCarbonProposal
<1>4. input.confidence # Malformed /\ input.rationale # Malformed
  BY <1>1, <1>3 DEF CARBON_CONFIDENCE_THRESHOLD
<1>5. QED
  BY <1>2, <1>4 DEF unread, Binding

LEMMA ComputeWasRead ==
    ASSUME NEW input \in ComputeAnswer,
           decideCompute(parseComputePolicyProposal(input)).verdict = "Approved"
    PROVE  unread(input) \intersect Binding = {}
<1> DEFINE p == parseComputePolicyProposal(input)
<1>1. ~ (p.confidence < COMPUTE_CONFIDENCE_THRESHOLD)
  BY DecidingCompute, Zenon
<1>2. /\ input.confidence \in Maybe(RawConfidences)
      /\ DOMAIN input = {"conflicts", "missing", "confidence"}
  BY DEF ComputeAnswer
<1>3. input.confidence = Malformed => p.confidence = 0
  BY <1>2, Rounding DEF parseComputePolicyProposal
<1>4. input.confidence # Malformed
  BY <1>1, <1>3 DEF COMPUTE_CONFIDENCE_THRESHOLD
<1>5. QED
  BY <1>2, <1>4 DEF unread, Binding

-----------------------------------------------------------------------------
(* What a listing allows                                                   *)

\* What FactsOutrankModel asks of a class.
Allows(class) ==
    /\ class.identified /\ class.isRegistered
    /\ Tonnes <= Total([c \in class.credits |-> c.liquidity], class.credits)
    /\ \E c \in class.credits : c.registry \in RecognisedRegistries
    /\ \A c \in class.credits :
         \/ c.vintage \in {0} \union (ThisYear - MAX_VINTAGE_AGE_YEARS .. 9999)
         \/ c.vintage >= 10000 * (ThisYear - MAX_VINTAGE_AGE_YEARS)

\* No vintage of a class is older than its age.
LEMMA AgeIsOldest ==
    ASSUME NEW class \in CarbonClass, NEW c \in class.credits, c.vintage > 0,
           ~ (assess(class, Tonnes).ageYears > MAX_VINTAGE_AGE_YEARS)
    PROVE  yearOf(c.vintage) >= ThisYear - MAX_VINTAGE_AGE_YEARS
<1> DEFINE dated == {d \in class.credits : d.vintage > 0}
           years == {yearOf(d.vintage) : d \in dated}
<1>1. \A d \in class.credits : d.vintage \in Nat
  BY DEF CarbonClass, CarbonCredit
<1>2. \A d \in class.credits : yearOf(d.vintage) \in Nat
  BY <1>1 DEF yearOf
<1>3. years \subseteq Nat /\ yearOf(c.vintage) \in years
  BY <1>2
<1>4. assess(class, Tonnes).ageYears = IF years = {} THEN -1 ELSE ThisYear - Min(years)
  BY DEF assess
<1> HIDE DEF years
<1>5. Min(years) \in Nat /\ Min(years) <= yearOf(c.vintage)
  BY <1>3, MinOfNats
<1>6. ThisYear - Min(years) <= MAX_VINTAGE_AGE_YEARS
  <2>1. assess(class, Tonnes).ageYears = ThisYear - Min(years)
    BY <1>3, <1>4
  <2>2. ThisYear - Min(years) \in Int /\ MAX_VINTAGE_AGE_YEARS \in Int
    BY <1>5, GatesAssumption DEF MAX_VINTAGE_AGE_YEARS
  <2>3. ~ (ThisYear - Min(years) > MAX_VINTAGE_AGE_YEARS)
    BY <2>1
  <2>4. QED
    BY <2>2, <2>3
<1>7. QED
  BY <1>2, <1>5, <1>6, GatesAssumption DEF MAX_VINTAGE_AGE_YEARS

LEMMA ApprovedClassAllows ==
    ASSUME NEW class \in Classes, NEW p,
           decideCarbon(assess(class, Tonnes), p).verdict = "Approved"
    PROVE  Allows(class)
<1> DEFINE q == assess(class, Tonnes)
           liquidity == Total([c \in class.credits |-> c.liquidity], class.credits)
<1>1. /\ ~ q.identityUnknown /\ q.isRegistered
      /\ q.registries \intersect RecognisedRegistries # {}
      /\ ~ (q.liquidity < q.requested)
      /\ ~ (q.ageYears > MAX_VINTAGE_AGE_YEARS)
  <2>1. decideCarbon(q, p).verdict = "Approved"
    OBVIOUS
  <2> HIDE DEF q
  <2>2. QED
    BY <2>1, DecidingCarbon, Zenon
<1>2. /\ class \in CarbonClass /\ IsFiniteSet(class.credits)
      /\ class.identified \in BOOLEAN /\ class.isRegistered \in BOOLEAN
      /\ \A c \in class.credits : c.liquidity \in Nat /\ c.vintage \in Nat
  BY RulingsAssumption DEF CarbonClass, CarbonCredit
<1>3. class.identified /\ class.isRegistered
  BY <1>1, <1>2 DEF assess
<1>4. \E c \in class.credits : c.registry \in RecognisedRegistries
  BY <1>1 DEF assess
<1>5. Tonnes <= liquidity
  <2>1. liquidity \in Nat /\ Tonnes \in Nat
    <3> DEFINE f == [c \in class.credits |-> c.liquidity]
    <3>1. \A c \in class.credits : f[c] \in Nat
      BY <1>2
    <3> HIDE DEF f
    <3>2. Total(f, class.credits) \in Nat
      BY <1>2, <3>1, TotalType
    <3>3. QED
      BY <3>2, RulingsAssumption DEF f
  <2>2. q.liquidity = liquidity /\ q.requested = Tonnes
    BY DEF assess
  <2> HIDE DEF q, liquidity
  <2>3. QED
    BY <1>1, <2>1, <2>2
<1>6. ASSUME NEW c \in class.credits
      PROVE  \/ c.vintage \in {0} \union (ThisYear - MAX_VINTAGE_AGE_YEARS .. 9999)
             \/ c.vintage >= 10000 * (ThisYear - MAX_VINTAGE_AGE_YEARS)
  <2>1. c.vintage \in Nat
    BY <1>2
  <2>2. CASE c.vintage = 0
    BY <2>2
  <2>3. CASE c.vintage > 0
    <3>1. yearOf(c.vintage) >= ThisYear - MAX_VINTAGE_AGE_YEARS
      BY <1>1, <1>2, <2>3, AgeIsOldest
    <3>2. CASE c.vintage > 9999
      BY <2>1, <3>1, <3>2, GatesAssumption DEF yearOf, MAX_VINTAGE_AGE_YEARS
    <3>3. CASE ~ (c.vintage > 9999)
      BY <2>1, <3>1, <3>3, GatesAssumption DEF yearOf, MAX_VINTAGE_AGE_YEARS
    <3>4. QED
      BY <3>2, <3>3
  <2>4. QED
    BY <2>1, <2>2, <2>3
<1>7. QED
  BY <1>3, <1>4, <1>5, <1>6 DEF Allows

\* A class that a ground of the facts refuses is not approved.
LEMMA GroundsRefuse ==
    ASSUME NEW q, NEW p, deterministicGround(q)
    PROVE  decideCarbon(q, p).verdict # "Approved"
<1> DEFINE rules == FactRules(q)
<1>1. /\ DOMAIN rules = 1 .. 4
      /\ rules[1].fires = q.identityUnknown /\ rules[2].fires = ~ q.isRegistered
      /\ rules[3].fires = (q.registries \intersect RecognisedRegistries = {})
      /\ rules[4].fires = (q.liquidity < q.requested)
  BY DEF FactRules, Rule
<1>2. PICK i \in DOMAIN rules : rules[i].fires
  BY DEF deterministicGround
<1> HIDE DEF rules
<1>3. i \in {1, 2, 3, 4}
  BY <1>1, <1>2
<1>4. rules[1].fires \/ rules[2].fires \/ rules[3].fires \/ rules[4].fires
  BY <1>2, <1>3
<1>5. \/ q.identityUnknown \/ ~ q.isRegistered
      \/ q.registries \intersect RecognisedRegistries = {}
      \/ q.liquidity < q.requested
  BY <1>1, <1>4, Zenon
<1>6. QED
  BY <1>5, DecidingCarbon, Zenon

-----------------------------------------------------------------------------
(* One request slot                                                        *)

Findings == [flags : SUBSET PurposeFlags, missing : SUBSET {"question"}]
Fields == {"hs6", "confidence", "missing", "flags", "chapters", "rationale", "conflicts"}

Slot ==
    [stage : InFlight \union {"idle", "ruled", "failed"}, attempt : 0 .. Attempts - 1,
     class : Classes \union {NoClass},
     first : Proposal \union Findings \union {NoProposal},
     code : HsCodes \union {NoCode}, unread : SUBSET Fields,
     verdict : Verdicts \union {"None"}]

\* How far a ruling has come: what it already knows, it knows from an answer or a
\* listing, and only what is ruled has a verdict.
OnTheWay(r, s) ==
    /\ s.verdict = "None" <=> s.stage # "ruled"
    /\ s.stage = "facts" => kindOf[r] = "carbon"
    /\ s.stage = "first" /\ kindOf[r] = "carbon" => s.class \in Classes
    /\ s.stage = "ground" =>
         /\ kindOf[r] = "hs"
         /\ \E input \in HsAnswers : s.first = parseProposal(input)
                                     /\ s.unread = unread(input)

\* AnswersBind and FactsOutrankModel, of one slot.
Bound(r, s) ==
    s.stage = "ruled" =>
        /\ kindOf[r] = "hs" =>
             /\ s.first.flags # {} => s.verdict = "Refused"
             /\ s.first.missing # {} => s.verdict # "Approved"
        /\ s.verdict = "Approved" => s.unread \intersect Binding = {}

Outranked(r, s) ==
    s.verdict = "Approved" =>
        /\ kindOf[r] = "carbon" => Allows(s.class)
        /\ kindOf[r] = "hs" => isAcceptable(s.code)

SlotOK(r, s) == s \in Slot /\ OnTheWay(r, s) /\ Bound(r, s) /\ Outranked(r, s)

\* The calls a ruling may still record.
Cost(r, s) ==
    IF s.stage = "first" THEN CallsOf(kindOf[r]) ELSE IF s.stage = "ground" THEN 1 ELSE 0

SlotsOK == ruling \in [Rulings -> Slot] /\ \A r \in Rulings : SlotOK(r, ruling[r])

\* Slot r becomes one that is in order and may record no more than so many calls.
Becomes(r, most) ==
    \E s \in Slot : /\ SlotOK(r, s) /\ Cost(r, s) <= most
                     /\ ruling' = [ruling EXCEPT ![r] = s]

LEMMA SlotsKept ==
    ASSUME SlotsOK, NEW r \in Rulings, NEW most, Becomes(r, most)
    PROVE  SlotsOK'
<1>1. PICK s \in Slot : SlotOK(r, s) /\ ruling' = [ruling EXCEPT ![r] = s]
  BY DEF Becomes
<1>2. ruling' \in [Rulings -> Slot]
  BY <1>1 DEF SlotsOK
<1>3. \A q \in Rulings : ruling'[q] = IF q = r THEN s ELSE ruling[q]
  BY <1>1 DEF SlotsOK
<1>4. \A q \in Rulings : SlotOK(q, ruling'[q])
  BY <1>1, <1>3 DEF SlotsOK
<1>5. QED
  BY <1>2, <1>4 DEF SlotsOK, SlotOK, OnTheWay, Bound, Outranked

LEMMA CostRange ==
    ASSUME NEW r \in Rulings, NEW s
    PROVE  /\ Cost(r, s) \in Nat /\ Calls[r] \in Nat /\ Cost(r, s) <= Calls[r]
           /\ Calls[r] = CallsOf(kindOf[r]) /\ Calls[r] \in {1, 2}
BY DEF Cost, Calls, CallsOf

\* A slot without a verdict is in order when it is on the way.
LEMMA Undecided ==
    ASSUME NEW r \in Rulings, NEW s \in Slot, s.stage # "ruled", s.verdict = "None",
           OnTheWay(r, s)
    PROVE  SlotOK(r, s)
BY DEF SlotOK, Bound, Outranked

\* A slot is emptied, or waits for the facts.
LEMMA ToStep ==
    ASSUME SlotsOK, NEW r \in Rulings, NEW stage \in {"facts", "failed", "idle"},
           stage = "facts" => kindOf[r] = "carbon", To(r, stage)
    PROVE  Becomes(r, 0)
<1> DEFINE s == [Idle EXCEPT !.stage = stage]
<1>1. 0 \in 0 .. Attempts - 1
  BY RulingsAssumption
<1>2. s \in Slot /\ s.stage = stage /\ s.verdict = "None"
  BY <1>1 DEF Idle, Slot, InFlight
<1>3. ruling' = [ruling EXCEPT ![r] = s]
  BY DEF To
<1> HIDE DEF s
<1>4. OnTheWay(r, s)
  BY <1>2 DEF OnTheWay
<1>5. Cost(r, s) = 0
  BY <1>2 DEF Cost
<1>6. SlotOK(r, s)
  BY <1>2, <1>4, Undecided
<1>7. Cost(r, s) <= 0
  BY <1>5
<1>8. QED
  BY <1>2, <1>3, <1>6, <1>7 DEF Becomes

\* The model is asked, or the budget refuses.
LEMMA CallStep ==
    ASSUME SlotsOK, NEW r \in Rulings, NEW class \in Classes \union {NoClass},
           kindOf[r] = "carbon" => class \in Classes, Call(r, class)
    PROVE  /\ memory' = [memory EXCEPT ![processOf[r]] = records(processOf[r])]
           /\ IF affordable(processOf[r], kindOf[r]) THEN Becomes(r, Calls[r])
              ELSE Becomes(r, 0)
<1> DEFINE stage == IF affordable(processOf[r], kindOf[r]) THEN "first" ELSE "failed"
           s == [Idle EXCEPT !.stage = stage, !.class = class]
<1>1. stage \in {"first", "failed"}
  OBVIOUS
<1>2. s \in Slot /\ s.stage = stage /\ s.class = class /\ s.verdict = "None"
  <2>1. 0 \in 0 .. Attempts - 1
    BY RulingsAssumption
  <2> HIDE DEF stage
  <2>2. QED
    BY <1>1, <2>1 DEF Idle, Slot, InFlight
<1>3. /\ ruling' = [ruling EXCEPT ![r] = s]
      /\ memory' = [memory EXCEPT ![processOf[r]] = records(processOf[r])]
  BY DEF Call
<1> HIDE DEF s
<1>4. OnTheWay(r, s)
  BY <1>1, <1>2 DEF OnTheWay
<1>5. SlotOK(r, s)
  BY <1>1, <1>2, <1>4, Undecided
<1>6. CASE affordable(processOf[r], kindOf[r])
  <2>1. Cost(r, s) <= Calls[r]
    BY CostRange
  <2>2. QED
    BY <1>2, <1>3, <1>5, <1>6, <2>1 DEF Becomes
<1>7. CASE ~ affordable(processOf[r], kindOf[r])
  <2>1. Cost(r, s) <= 0
    BY <1>2, <1>7 DEF Cost
  <2>2. QED
    BY <1>2, <1>3, <1>5, <1>7, <2>1 DEF Becomes
<1>8. QED
  BY <1>6, <1>7

\* A verdict is given.
LEMMA DecidedStep ==
    ASSUME SlotsOK, NEW r \in Rulings, NEW first \in Findings \union {NoProposal},
           NEW code \in HsCodes \union {NoCode}, NEW missed \in SUBSET Fields,
           NEW verdict \in Verdicts,
           kindOf[r] = "hs" =>
             /\ first.flags # {} => verdict = "Refused"
             /\ first.missing # {} => verdict # "Approved",
           verdict = "Approved" =>
             /\ missed \intersect Binding = {}
             /\ kindOf[r] = "carbon" => Allows(ruling[r].class)
             /\ kindOf[r] = "hs" => isAcceptable(code),
           Decided(r, first, code, missed, verdict)
    PROVE  Becomes(r, 0)
<1> DEFINE s == [Idle EXCEPT !.stage = "ruled", !.class = ruling[r].class,
                             !.first = first, !.code = code, !.unread = missed,
                             !.verdict = verdict]
<1>1. ruling[r].class \in Classes \union {NoClass} /\ 0 \in 0 .. Attempts - 1
  BY RulingsAssumption DEF SlotsOK, Slot
<1>2. /\ s \in Slot /\ s.stage = "ruled" /\ s.class = ruling[r].class
      /\ s.first = first /\ s.code = code /\ s.unread = missed /\ s.verdict = verdict
  BY <1>1 DEF Idle, Slot
<1>3. ruling' = [ruling EXCEPT ![r] = s]
  BY DEF Decided
<1> HIDE DEF s
<1>4. verdict # "None"
  BY DEF Verdicts
<1>5. OnTheWay(r, s)
  BY <1>2, <1>4 DEF OnTheWay
<1>6. Bound(r, s) /\ Outranked(r, s)
  BY <1>2 DEF Bound, Outranked
<1>7. Cost(r, s) <= 0
  BY <1>2 DEF Cost
<1>8. QED
  BY <1>2, <1>3, <1>5, <1>6, <1>7 DEF Becomes, SlotOK

\* A classification is decided on a proposal that keeps what the first pass found.
LEMMA DecidedHsStep ==
    ASSUME SlotsOK, NEW r \in Rulings, NEW first \in Proposal, NEW p \in Proposal,
           p.flags = first.flags, p.missing = first.missing,
           NEW missed \in SUBSET Fields, kindOf[r] = "hs",
           \A crossBorder \in BOOLEAN :
             decide(p, crossBorder).verdict = "Approved" => missed \intersect Binding = {},
           DecidedHs(r, first, p, missed)
    PROVE  Becomes(r, 0)
<1> DEFINE found == [flags |-> first.flags, missing |-> first.missing]
<1>1. PICK crossBorder \in BOOLEAN :
        Decided(r, found, p.hs6, missed, decide(p, crossBorder).verdict)
  BY DEF DecidedHs
<1> DEFINE verdict == decide(p, crossBorder).verdict
<1>2. found \in Findings /\ found.flags = p.flags /\ found.missing = p.missing
  BY DEF Findings, Proposal
<1>3. /\ verdict \in Verdicts
      /\ p.flags # {} => verdict = "Refused"
      /\ verdict = "Approved" => p.missing = {} /\ isAcceptable(p.hs6)
  BY Deciding, Zenon
<1>4. p.hs6 \in HsCodes \union {NoCode}
  BY DEF Proposal
<1>5. verdict = "Approved" => missed \intersect Binding = {}
  OBVIOUS
<1> HIDE DEF found, verdict
<1>6. Decided(r, found, p.hs6, missed, verdict)
  BY <1>1 DEF found, verdict
<1>7. QED
  BY <1>2, <1>3, <1>4, <1>5, <1>6, DecidedStep

-----------------------------------------------------------------------------
(* The steps of a ruling                                                   *)

LEMMA BecomesLess ==
    ASSUME NEW r \in Rulings, NEW few \in Int, NEW most \in Int, few <= most,
           Becomes(r, few)
    PROVE  Becomes(r, most)
<1>1. \A s \in Slot : Cost(r, s) <= few => Cost(r, s) <= most
  BY CostRange
<1>2. QED
  BY <1>1 DEF Becomes

\* The fields an answer leaves unread are fields.
LEMMA UnreadFields ==
    ASSUME NEW input, input \in HsAnswer \/ input \in GroundAnswer
                      \/ input \in CarbonAnswer \/ input \in ComputeAnswer
    PROVE  unread(input) \in SUBSET Fields
<1>1. DOMAIN input \subseteq Fields
  BY DEF HsAnswer, GroundAnswer, CarbonAnswer, ComputeAnswer, Fields
<1>2. QED
  BY <1>1 DEF unread

\* While a call is out it is accounted for.
LEMMA CostOfCall ==
    ASSUME NEW r \in Rulings, ruling[r].stage \in {"first", "ground"}
    PROVE  /\ Cost(r, ruling[r]) \in Nat /\ 0 <= Cost(r, ruling[r]) - 1
           /\ kindOf[r] = "hs" /\ ruling[r].stage = "first" => Cost(r, ruling[r]) = 2
BY DEF Cost, CallsOf

LEMMA AnswerHsStep ==
    ASSUME SlotsOK, NEW r \in Rulings, AnswerHs(r)
    PROVE  Becomes(r, Cost(r, ruling[r]) - 1)
<1>1. kindOf[r] = "hs" /\ ruling[r].stage = "first"
  BY DEF AnswerHs
<1>2. Cost(r, ruling[r]) = 2
  BY <1>1, CostOfCall
<1>3. PICK input \in HsAnswers :
        LET first == parseProposal(input) IN
        IF first.flags = {} /\ first.chapters # {}
        THEN ruling' = [ruling EXCEPT ![r].stage = "ground", ![r].attempt = 0,
                                      ![r].first = first, ![r].unread = unread(input)]
        ELSE DecidedHs(r, first, first, unread(input))
  BY DEF AnswerHs
<1> DEFINE first == parseProposal(input)
<1>4. input \in HsAnswer /\ first \in Proposal /\ unread(input) \in SUBSET Fields
  BY RulingsAssumption, ProposalType, UnreadFields
<1>5. CASE first.flags = {} /\ first.chapters # {}
  <2> DEFINE s == [ruling[r] EXCEPT !.stage = "ground", !.attempt = 0,
                                    !.first = first, !.unread = unread(input)]
  <2>1. ruling[r] \in Slot /\ ruling[r].verdict = "None" /\ 0 \in 0 .. Attempts - 1
    BY <1>1, RulingsAssumption DEF SlotsOK, SlotOK, OnTheWay
  <2>2. ruling' = [ruling EXCEPT ![r] = s]
    BY <1>3, <1>5 DEF SlotsOK
  <2> HIDE DEF first
  <2>3. /\ s \in Slot /\ s.stage = "ground" /\ s.first = first
        /\ s.unread = unread(input) /\ s.verdict = "None"
    BY <1>4, <2>1 DEF Slot, InFlight
  <2> HIDE DEF s
  <2>4. OnTheWay(r, s)
    BY <1>1, <2>3 DEF OnTheWay, first
  <2>5. SlotOK(r, s) /\ Cost(r, s) <= 1
    BY <2>3, <2>4, Undecided DEF Cost
  <2>6. Cost(r, s) <= Cost(r, ruling[r]) - 1
    BY <1>2, <2>5, CostRange
  <2>7. QED
    BY <2>2, <2>3, <2>5, <2>6 DEF Becomes
<1>6. CASE ~ (first.flags = {} /\ first.chapters # {})
  <2>1. DecidedHs(r, first, first, unread(input))
    BY <1>3, <1>6
  <2>2. \A crossBorder \in BOOLEAN : decide(first, crossBorder).verdict = "Approved" =>
          unread(input) \intersect Binding = {}
    BY <1>4, FirstPassWasRead
  <2> HIDE DEF first
  <2>3. Becomes(r, 0)
    BY <1>1, <1>4, <2>1, <2>2, DecidedHsStep
  <2>4. QED
    BY <1>2, <2>3, BecomesLess
<1>7. QED
  BY <1>5, <1>6

LEMMA FirstStandsStep ==
    ASSUME SlotsOK, NEW r \in Rulings, FirstStands(r)
    PROVE  Becomes(r, 0)
<1>1. ruling[r].stage = "ground" /\ SlotOK(r, ruling[r])
  BY DEF FirstStands, SlotsOK
<1>2. /\ kindOf[r] = "hs"
      /\ \E input \in HsAnswers : /\ ruling[r].first = parseProposal(input)
                                  /\ ruling[r].unread = unread(input)
  BY <1>1 DEF SlotOK, OnTheWay
<1>3. PICK input \in HsAnswers : /\ ruling[r].first = parseProposal(input)
                                 /\ ruling[r].unread = unread(input)
  BY <1>2
<1>4. /\ input \in HsAnswer /\ ruling[r].first \in Proposal
      /\ ruling[r].unread \in SUBSET Fields
  BY <1>3, RulingsAssumption, ProposalType, UnreadFields
<1>5. \A crossBorder \in BOOLEAN :
        decide(ruling[r].first, crossBorder).verdict = "Approved" =>
          ruling[r].unread \intersect Binding = {}
  BY <1>3, <1>4, FirstPassWasRead
<1>6. DecidedHs(r, ruling[r].first, ruling[r].first, ruling[r].unread)
  BY DEF FirstStands
<1>7. QED
  BY <1>2, <1>4, <1>5, <1>6, DecidedHsStep

LEMMA AnswerGroundStep ==
    ASSUME SlotsOK, NEW r \in Rulings, AnswerGround(r)
    PROVE  Becomes(r, 0)
<1> DEFINE first == ruling[r].first
<1>1. ruling[r].stage = "ground" /\ SlotOK(r, ruling[r])
  BY DEF AnswerGround, SlotsOK
<1>2. /\ kindOf[r] = "hs"
      /\ \E i \in HsAnswers : first = parseProposal(i) /\ ruling[r].unread = unread(i)
  BY <1>1 DEF SlotOK, OnTheWay
<1>3. PICK i \in HsAnswers : first = parseProposal(i) /\ ruling[r].unread = unread(i)
  BY <1>2
<1>4. /\ i \in HsAnswer /\ first \in Proposal /\ ruling[r].unread \in SUBSET Fields
  BY <1>3, RulingsAssumption, ProposalType, UnreadFields
<1>5. PICK input \in GroundAnswers :
        DecidedHs(r, first, grounded(first, input),
                  IF grounded(first, input) = first THEN ruling[r].unread
                  ELSE unread(input))
  BY DEF AnswerGround
<1> DEFINE p == grounded(first, input)
           missed == IF p = first THEN ruling[r].unread ELSE unread(input)
<1>6. input \in GroundAnswer /\ unread(input) \in SUBSET Fields
  BY RulingsAssumption, UnreadFields
<1>7. p \in Proposal /\ p.flags = first.flags /\ p.missing = first.missing
  BY <1>4, <1>6, Grounding
<1>8. missed \in SUBSET Fields
  BY <1>4, <1>6
<1>9. ASSUME NEW crossBorder \in BOOLEAN, decide(p, crossBorder).verdict = "Approved"
      PROVE  missed \intersect Binding = {}
  <2>1. CASE p = first
    <3>1. decide(parseProposal(i), crossBorder).verdict = "Approved"
      BY <1>3, <1>9, <2>1
    <3>2. unread(i) \intersect Binding = {}
      BY <1>4, <3>1, FirstPassWasRead
    <3>3. QED
      BY <1>3, <2>1, <3>2
  <2>2. CASE p # first
    BY <1>4, <1>6, <1>9, <2>2, Grounding
  <2>3. QED
    BY <2>1, <2>2
<1>10. DecidedHs(r, first, p, missed)
  BY <1>5
<1> HIDE DEF first, p, missed
<1>11. QED
  BY <1>2, <1>4, <1>7, <1>8, <1>9, <1>10, DecidedHsStep

LEMMA AnswerCarbonStep ==
    ASSUME SlotsOK, NEW r \in Rulings, AnswerCarbon(r)
    PROVE  Becomes(r, 0)
<1> DEFINE q == assess(ruling[r].class, Tonnes)
<1>1. kindOf[r] = "carbon" /\ ruling[r].stage = "first" /\ SlotOK(r, ruling[r])
  BY DEF AnswerCarbon, SlotsOK
<1>2. ruling[r].class \in Classes
  BY <1>1 DEF SlotOK, OnTheWay
<1>3. PICK input \in CarbonAnswers :
        Decided(r, NoProposal, NoCode, unread(input),
                decideCarbon(q, parseCarbonProposal(input)).verdict)
  BY DEF AnswerCarbon
<1> DEFINE verdict == decideCarbon(q, parseCarbonProposal(input)).verdict
<1>4. input \in CarbonAnswer /\ unread(input) \in SUBSET Fields
  BY RulingsAssumption, UnreadFields
<1>5. verdict = "Approved" => unread(input) \intersect Binding = {}
  BY <1>4, CarbonWasRead
<1>6. verdict = "Approved" => Allows(ruling[r].class)
  BY <1>2, ApprovedClassAllows
<1> HIDE DEF q
<1>7. verdict \in Verdicts
  BY DecidingCarbon, Zenon
<1> HIDE DEF verdict
<1>8. Decided(r, NoProposal, NoCode, unread(input), verdict)
  BY <1>3 DEF verdict
<1>9. QED
  BY <1>1, <1>4, <1>5, <1>6, <1>7, <1>8, DecidedStep

LEMMA AnswerComputeStep ==
    ASSUME SlotsOK, NEW r \in Rulings, AnswerCompute(r)
    PROVE  Becomes(r, 0)
<1>1. kindOf[r] = "compute"
  BY DEF AnswerCompute
<1>2. PICK input \in ComputeAnswers :
        Decided(r, NoProposal, NoCode, unread(input),
                decideCompute(parseComputePolicyProposal(input)).verdict)
  BY DEF AnswerCompute
<1> DEFINE verdict == decideCompute(parseComputePolicyProposal(input)).verdict
<1>3. input \in ComputeAnswer /\ unread(input) \in SUBSET Fields
  BY RulingsAssumption, UnreadFields
<1>4. verdict = "Approved" => unread(input) \intersect Binding = {}
  BY <1>3, ComputeWasRead
<1>5. verdict \in Verdicts
  BY DecidingCompute, Zenon
<1> HIDE DEF verdict
<1>6. Decided(r, NoProposal, NoCode, unread(input), verdict)
  BY <1>2 DEF verdict
<1>7. QED
  BY <1>1, <1>3, <1>4, <1>5, <1>6, DecidedStep

\* Every answer is recorded, and leaves one call less to record.
AnswerStep(r) ==
    AnswerHs(r) \/ AnswerGround(r) \/ AnswerCarbon(r) \/ AnswerCompute(r)
    \/ AnswerWithoutTool(r)

LEMMA AnsweredStep ==
    ASSUME SlotsOK, NEW r \in Rulings, AnswerStep(r)
    PROVE  Answered(r) /\ Becomes(r, Cost(r, ruling[r]) - 1)
<1>1. Answered(r)
  BY DEF AnswerStep, AnswerHs, AnswerGround, AnswerCarbon, AnswerCompute,
         AnswerWithoutTool
<1>2. /\ Cost(r, ruling[r]) \in Nat /\ 0 <= Cost(r, ruling[r]) - 1
  BY <1>1, CostOfCall DEF Answered
<1>3. CASE AnswerHs(r)
  BY <1>1, <1>3, AnswerHsStep
<1>4. CASE AnswerGround(r)
  <2>1. Becomes(r, 0)
    BY <1>4, AnswerGroundStep
  <2>2. QED
    BY <1>1, <1>2, <2>1, BecomesLess
<1>5. CASE AnswerCarbon(r)
  <2>1. Becomes(r, 0)
    BY <1>5, AnswerCarbonStep
  <2>2. QED
    BY <1>1, <1>2, <2>1, BecomesLess
<1>6. CASE AnswerCompute(r)
  <2>1. Becomes(r, 0)
    BY <1>6, AnswerComputeStep
  <2>2. QED
    BY <1>1, <1>2, <2>1, BecomesLess
<1>7. CASE AnswerWithoutTool(r)
  <2>1. To(r, "failed") \/ FirstStands(r)
    BY <1>7 DEF AnswerWithoutTool
  <2>2. Becomes(r, 0)
    BY <2>1, ToStep, FirstStandsStep
  <2>3. QED
    BY <1>1, <1>2, <2>2, BecomesLess
<1>8. QED
  BY <1>3, <1>4, <1>5, <1>6, <1>7 DEF AnswerStep

\* A step that records nothing and asks nothing.
QuietStep(r) == UNCHANGED <<file, memory>> /\ Becomes(r, Cost(r, ruling[r]))

\* A step that asks the budget.
CallsStep(r) ==
    /\ UNCHANGED file
    /\ memory' = [memory EXCEPT ![processOf[r]] = records(processOf[r])]
    /\ IF affordable(processOf[r], kindOf[r]) THEN Becomes(r, Calls[r])
       ELSE Becomes(r, 0)

LEMMA AttemptFailsStep ==
    ASSUME SlotsOK, NEW r \in Rulings, AttemptFails(r)
    PROVE  QuietStep(r)
<1>1. UNCHANGED <<file, memory>> /\ ruling[r].stage \in {"first", "ground"}
  BY DEF AttemptFails
<1>2. Cost(r, ruling[r]) \in Nat
  BY CostRange
<1>3. CASE To(r, "failed")
  <2>1. Becomes(r, 0)
    BY <1>3, ToStep
  <2>2. QED
    BY <1>1, <1>2, <2>1, BecomesLess DEF QuietStep
<1>4. CASE /\ ruling' = [ruling EXCEPT ![r].attempt = @ + 1]
           /\ ruling[r].attempt # Attempts - 1
  <2> DEFINE s == [ruling[r] EXCEPT !.attempt = @ + 1]
  <2>1. ruling[r] \in Slot /\ SlotOK(r, ruling[r])
    BY DEF SlotsOK
  <2>2. ruling[r].attempt + 1 \in 0 .. Attempts - 1
    BY <1>4, <2>1, RulingsAssumption DEF Slot
  <2>3. ruling' = [ruling EXCEPT ![r] = s]
    BY <1>4 DEF SlotsOK
  <2>4. /\ s \in Slot /\ s.stage = ruling[r].stage /\ s.class = ruling[r].class
        /\ s.first = ruling[r].first /\ s.unread = ruling[r].unread
        /\ s.code = ruling[r].code /\ s.verdict = ruling[r].verdict
    BY <2>1, <2>2 DEF Slot
  <2> HIDE DEF s
  <2>5. SlotOK(r, s) /\ Cost(r, s) = Cost(r, ruling[r])
    BY <2>1, <2>4 DEF SlotOK, OnTheWay, Bound, Outranked, Cost
  <2>6. Cost(r, s) <= Cost(r, ruling[r])
    BY <1>2, <2>5
  <2>7. QED
    BY <1>1, <2>3, <2>4, <2>5, <2>6 DEF QuietStep, Becomes
<1>5. QED
  BY <1>3, <1>4 DEF AttemptFails

LEMMA AssessScriptStep ==
    ASSUME SlotsOK, NEW r \in Rulings, AssessScript(r)
    PROVE  QuietStep(r) \/ CallsStep(r)
<1>1. PICK c \in Classes : LET q == assess(c, Tonnes) IN
         \/ ~deterministicGround(q) /\ Call(r, c)
         \/ /\ deterministicGround(q)
            /\ ruling' = [ruling EXCEPT ![r] =
                    [Idle EXCEPT !.stage = "ruled", !.class = c,
                        !.verdict = decideCarbon(q, unassessedProposal).verdict]]
            /\ UNCHANGED memory
  BY DEF AssessScript
<1> DEFINE q == assess(c, Tonnes)
           verdict == decideCarbon(q, unassessedProposal).verdict
           s == [Idle EXCEPT !.stage = "ruled", !.class = c, !.verdict = verdict]
<1>2. /\ UNCHANGED file /\ Cost(r, ruling[r]) \in Nat
      /\ kindOf[r] = "carbon"
  BY CostRange DEF AssessScript, SlotsOK, SlotOK, OnTheWay
<1>3. CASE Call(r, c)
  BY <1>2, <1>3, CallStep DEF CallsStep
<1>4. CASE deterministicGround(q) /\ ruling' = [ruling EXCEPT ![r] = s] /\ UNCHANGED memory
  <2> HIDE DEF q
  <2>1. verdict \in Verdicts /\ verdict # "Approved"
    BY <1>4, DecidingCarbon, GroundsRefuse, Zenon
  <2>2. 0 \in 0 .. Attempts - 1
    BY RulingsAssumption
  <2> HIDE DEF verdict
  <2>3. s \in Slot /\ s.stage = "ruled" /\ s.verdict = verdict
    BY <2>1, <2>2 DEF Idle, Slot
  <2> HIDE DEF s
  <2>4. SlotOK(r, s)
    BY <1>2, <2>1, <2>3 DEF SlotOK, OnTheWay, Bound, Outranked, Verdicts
  <2>5. Cost(r, s) <= Cost(r, ruling[r])
    BY <1>2, <2>3 DEF Cost
  <2>6. QED
    BY <1>2, <1>4, <2>3, <2>4, <2>5 DEF QuietStep, Becomes
<1>5. QED
  BY <1>1, <1>3, <1>4

\* A step of a ruling is of one of three sorts.
LEMMA RulingStep ==
    ASSUME SlotsOK, NEW r \in Rulings, Progress(r) \/ Run(r) \/ AskHs(r) \/ AskCarbon(r)
    PROVE  AnswerStep(r) \/ QuietStep(r) \/ CallsStep(r)
<1>1. Cost(r, ruling[r]) \in Nat
  BY CostRange
<1>2. ASSUME NEW stage \in {"facts", "failed", "idle"},
             stage = "facts" => kindOf[r] = "carbon", To(r, stage),
             UNCHANGED <<file, memory>>
      PROVE  QuietStep(r)
  <2>1. Becomes(r, 0)
    BY <1>2, ToStep
  <2>2. QED
    BY <1>1, <1>2, <2>1, BecomesLess DEF QuietStep
<1>3. CASE NotOnSale(r)
  BY <1>2, <1>3 DEF NotOnSale
<1>4. CASE AssessServed(r)
  BY <1>4, CallStep DEF AssessServed, CallsStep
<1>5. CASE AssessScript(r)
  BY <1>5, AssessScriptStep
<1>6. CASE AnswerStep(r)
  BY <1>6
<1>7. CASE GroundRefused(r)
  <2>1. Becomes(r, 0) /\ UNCHANGED <<file, memory>>
    BY <1>7, FirstStandsStep DEF GroundRefused
  <2>2. QED
    BY <1>1, <2>1, BecomesLess DEF QuietStep
<1>8. CASE AttemptFails(r)
  BY <1>8, AttemptFailsStep
<1>9. CASE Run(r)
  <2>1. CASE kindOf[r] = "carbon"
    <3>1. To(r, "facts") /\ UNCHANGED <<file, memory>>
      BY <1>9, <2>1 DEF Run
    <3>2. QED
      BY <1>2, <2>1, <3>1
  <2>2. CASE kindOf[r] # "carbon"
    <3>1. Call(r, NoClass) /\ UNCHANGED file
      BY <1>9, <2>2 DEF Run
    <3>2. QED
      BY <2>2, <3>1, CallStep DEF CallsStep
  <2>3. QED
    BY <2>1, <2>2
<1>10. CASE AskHs(r)
  BY <1>10, CallStep DEF AskHs, CallsStep
<1>11. CASE AskCarbon(r)
  BY <1>2, <1>11 DEF AskCarbon
<1>12. QED
  BY <1>3, <1>4, <1>5, <1>6, <1>7, <1>8, <1>9, <1>10, <1>11 DEF Progress, AnswerStep

-----------------------------------------------------------------------------
(* The ledger                                                              *)

Charges == [r \in Rulings |-> Cost(r, ruling[r])]

LedgerTypes == /\ file \in [Ledgers -> Nat]
               /\ memory \in [Processes -> Nat \union {Unread}]

Ruling(p) == p \in Processes /\ Of(p) # {}

\* Of the lines in a ledger, own[p] are those process p ever wrote, in all its
\* lives.  What a process remembers contains its own lines, and these together
\* with the calls it still has out stay within its share of the bound.
Account(own) ==
    /\ own \in [Processes -> Nat]
    /\ \A l \in Ledgers : file[l] = Total(own, Users(l))
    /\ \A p \in Processes : Ruling(p) =>
         /\ memory[p] # Unread => own[p] <= memory[p]
         /\ own[p] + Total(Charges, Of(p)) <= MaxCalls + Overrun(p)

LEMMA FiniteParts ==
    /\ \A p : IsFiniteSet(Of(p)) /\ Of(p) \subseteq Rulings
    /\ \A l : IsFiniteSet(Users(l)) /\ Users(l) \subseteq Processes
<1>1. \A p : Of(p) \subseteq Rulings
  BY DEF Of
<1>2. \A l : Users(l) \subseteq Processes
  BY DEF Users
<1>3. QED
  BY <1>1, <1>2, FS_Subset, RulingsAssumption

LEMMA ChargesType ==
    /\ \A r \in Rulings : Charges[r] \in Nat /\ Calls[r] \in Nat /\ Charges[r] <= Calls[r]
    /\ \A p : Total(Charges, Of(p)) \in Nat /\ Total(Calls, Of(p)) \in Nat
    /\ \A p : Total(Charges, Of(p)) <= Total(Calls, Of(p))
<1>1. \A r \in Rulings : Charges[r] \in Nat /\ Calls[r] \in Nat /\ Charges[r] <= Calls[r]
  BY CostRange DEF Charges
<1>2. ASSUME NEW p
      PROVE  /\ Total(Charges, Of(p)) \in Nat /\ Total(Calls, Of(p)) \in Nat
             /\ Total(Charges, Of(p)) <= Total(Calls, Of(p))
  <2>1. /\ IsFiniteSet(Of(p))
        /\ \A r \in Of(p) : /\ Charges[r] \in Nat /\ Calls[r] \in Nat
                           /\ Charges[r] <= Calls[r]
    BY <1>1, FiniteParts
  <2>2. QED
    BY <2>1, TotalType, TotalMonotone
<1>3. QED
  BY <1>1, <1>2

\* A process's share of the bound is a number, and once a call was allowed the
\* rest of what its rulings can record fits in it.
LEMMA OverrunType ==
    ASSUME NEW p, Ruling(p)
    PROVE  /\ Overrun(p) \in Nat
           /\ \A r \in Of(p) : Total(Calls, Of(p)) - Calls[r] <= Overrun(p)
<1> DEFINE costs == {Calls[r] : r \in Of(p)}
<1>1. costs \subseteq Nat /\ costs # {}
  BY ChargesType, FiniteParts DEF Ruling
<1>2. Overrun(p) = Total(Calls, Of(p)) - Min(costs)
  BY DEF Overrun
<1>3. \A r \in Of(p) : Calls[r] \in costs /\ Calls[r] \in Nat
  BY ChargesType, FiniteParts
<1> HIDE DEF costs
<1>4. Min(costs) \in costs /\ Min(costs) \in Nat /\ \A y \in costs : Min(costs) <= y
  BY <1>1, MinOfNats
<1>5. PICK r \in Of(p) : Calls[r] = Min(costs)
  BY <1>4 DEF costs
<1>6. Calls[r] <= Total(Calls, Of(p)) /\ Total(Calls, Of(p)) \in Nat
  BY <1>3, ChargesType, FiniteParts, TotalBoundsElement
<1>7. QED
  BY <1>2, <1>3, <1>4, <1>5, <1>6

\* What a step of ruling r does to what is owed.
LEMMA ChargesChange ==
    ASSUME SlotsOK, NEW r \in Rulings, NEW most \in Nat, Becomes(r, most)
    PROVE  /\ SlotsOK'
           /\ \A q \in Rulings : Charges'[q] \in Nat /\ Charges'[q] <= Calls[q]
           /\ \A q \in Rulings : q # r => Charges'[q] = Charges[q]
           /\ Charges'[r] <= most
           /\ \A p : p # processOf[r] => Total(Charges', Of(p)) = Total(Charges, Of(p))
<1>1. PICK s \in Slot : Cost(r, s) <= most /\ ruling' = [ruling EXCEPT ![r] = s]
  BY DEF Becomes
<1>2. /\ ruling'[r] = s
      /\ \A q \in Rulings : q # r => ruling'[q] = ruling[q]
  BY <1>1 DEF SlotsOK
<1>3. \A q \in Rulings : Charges'[q] = Cost(q, ruling'[q])
  BY DEF Charges, Cost
<1>4. /\ \A q \in Rulings : Charges'[q] \in Nat /\ Charges'[q] <= Calls[q]
      /\ \A q \in Rulings : q # r => Charges'[q] = Charges[q]
      /\ Charges'[r] <= most
  BY <1>1, <1>2, <1>3, CostRange DEF Charges
<1>5. ASSUME NEW p, p # processOf[r]
      PROVE  Total(Charges', Of(p)) = Total(Charges, Of(p))
  <2>1. \A q \in Of(p) : Charges'[q] = Charges[q]
    BY <1>4, <1>5 DEF Of
  <2>2. QED
    BY <2>1, TotalSame
<1>6. QED
  BY <1>4, <1>5, SlotsKept

\* What is owed by the process of the ruling, after the step.
LEMMA OwnChange ==
    ASSUME SlotsOK, NEW r \in Rulings, NEW most \in Nat, Becomes(r, most)
    PROVE  LET p == processOf[r] IN
           /\ r \in Of(p) /\ Ruling(p)
           /\ Total(Charges', Of(p)) \in Nat
           /\ Total(Charges', Of(p)) <= Total(Calls, Of(p))
           /\ Total(Charges', Of(p)) <= Total(Charges, Of(p)) - Charges[r] + most
<1> DEFINE p == processOf[r]
<1>1. r \in Of(p) /\ Ruling(p)
  BY RulingsAssumption DEF Of, Ruling
<1>2. /\ \A q \in Of(p) : /\ Charges'[q] \in Nat /\ Charges'[q] <= Calls[q]
                         /\ Charges[q] \in Nat /\ Calls[q] \in Nat
      /\ \A q \in Of(p) \ {r} : Charges'[q] = Charges[q]
      /\ Charges'[r] <= most /\ Charges'[r] \in Nat /\ Charges[r] \in Nat
  BY ChargesChange, ChargesType, FiniteParts
<1>3. IsFiniteSet(Of(p))
  BY FiniteParts
<1> DEFINE after == Charges'
<1> HIDE DEF after, p
<1>4. Total(after, Of(p)) \in Nat /\ Total(Charges, Of(p)) \in Nat
  BY <1>2, <1>3, TotalType DEF after
<1>5. Total(after, Of(p)) <= Total(Calls, Of(p))
  BY <1>2, <1>3, TotalMonotone DEF after
<1>6. Total(after, Of(p)) = Total(Charges, Of(p)) - Charges[r] + after[r]
  BY <1>1, <1>2, <1>3, TotalUpdate DEF after
<1>7. Total(after, Of(p)) <= Total(Charges, Of(p)) - Charges[r] + most
  BY <1>2, <1>4, <1>6 DEF after
<1>8. QED
  BY <1>1, <1>4, <1>5, <1>7 DEF after, p

-----------------------------------------------------------------------------
(* The invariant                                                           *)

RulingsInv == LedgerTypes /\ SlotsOK /\ \E own \in [Processes -> Nat] : Account(own)

\* What a process goes by contains the lines it wrote itself.
LEMMA OwnRecorded ==
    ASSUME LedgerTypes, NEW own, Account(own), NEW p, Ruling(p)
    PROVE  /\ records(p) \in Nat /\ own[p] \in Nat /\ own[p] <= records(p)
           /\ ledgerOf[p] \in Ledgers /\ p \in Users(ledgerOf[p])
<1>1. p \in Processes /\ own[p] \in Nat /\ ledgerOf[p] \in Ledgers
  BY DEF Ruling, Ledgers, Account
<1>2. p \in Users(ledgerOf[p])
  BY <1>1 DEF Users, Ruling
<1>3. own[p] <= file[ledgerOf[p]] /\ file[ledgerOf[p]] \in Nat
  <2>1. \A q \in Users(ledgerOf[p]) : own[q] \in Nat
    BY FiniteParts DEF Account
  <2>2. own[p] <= Total(own, Users(ledgerOf[p]))
    BY <1>2, <2>1, FiniteParts, TotalBoundsElement
  <2>3. QED
    BY <1>1, <2>2 DEF Account, LedgerTypes
<1>4. memory[p] \in Nat \union {Unread} /\ (memory[p] # Unread => own[p] <= memory[p])
  BY <1>1 DEF Account, LedgerTypes
<1>5. QED
  BY <1>1, <1>2, <1>3, <1>4 DEF records

LEMMA QuietKeeps ==
    ASSUME RulingsInv, NEW r \in Rulings, QuietStep(r)
    PROVE  RulingsInv'
<1> DEFINE p == processOf[r]
           cost == Cost(r, ruling[r])
<1>1. SlotsOK /\ Becomes(r, cost) /\ cost \in Nat /\ UNCHANGED <<file, memory>>
  BY CostRange DEF RulingsInv, QuietStep
<1>2. PICK own \in [Processes -> Nat] : Account(own)
  BY DEF RulingsInv
<1>3. Charges[r] = cost
  BY DEF Charges
<1> HIDE DEF cost
<1>4. ASSUME NEW q \in Processes, Ruling(q)
      PROVE  own[q] + Total(Charges', Of(q)) <= MaxCalls + Overrun(q)
  <2>1. own[q] + Total(Charges, Of(q)) <= MaxCalls + Overrun(q)
    BY <1>2, <1>4 DEF Account
  <2>2. CASE q = p
    <3>1. /\ Total(Charges', Of(p)) \in Nat
          /\ Total(Charges', Of(p)) <= Total(Charges, Of(p)) - Charges[r] + cost
      BY <1>1, OwnChange
    <3>2. Total(Charges, Of(p)) \in Nat /\ own[p] \in Nat
      BY <1>4, <2>2, ChargesType
    <3>3. MaxCalls + Overrun(q) \in Nat
      BY <1>4, OverrunType, RulingsAssumption DEF BudgetCaps
    <3> DEFINE before == Total(Charges, Of(p))
               after == Total(Charges', Of(p))
    <3>4. after \in Nat /\ before \in Nat /\ after <= before
      BY <1>1, <1>3, <3>1, <3>2
    <3> HIDE DEF before, after
    <3>5. QED
      BY <2>1, <2>2, <3>2, <3>3, <3>4 DEF before, after
  <2>3. CASE q # p
    BY <1>1, <2>1, <2>3, ChargesChange
  <2>4. QED
    BY <2>2, <2>3
<1>5. Account(own)'
  BY <1>1, <1>2, <1>4 DEF Account, Ruling
<1>6. LedgerTypes' /\ SlotsOK'
  BY <1>1, ChargesChange DEF RulingsInv, LedgerTypes
<1>7. QED
  BY <1>2, <1>5, <1>6 DEF RulingsInv

\* A recorded answer moves one call from what is owed to what is written.
LEMMA AnswerKeeps ==
    ASSUME RulingsInv, NEW r \in Rulings, AnswerStep(r)
    PROVE  RulingsInv'
<1> DEFINE p == processOf[r]
           l == ledgerOf[p]
           cost == Cost(r, ruling[r])
           most == cost - 1
<1>1. SlotsOK /\ LedgerTypes /\ Answered(r) /\ Becomes(r, most)
  BY AnsweredStep DEF RulingsInv
<1>2. most \in Nat /\ Charges[r] = cost /\ cost \in Nat
  BY <1>1, CostOfCall DEF Answered, Charges
<1>3. PICK own \in [Processes -> Nat] : Account(own)
  BY DEF RulingsInv
<1> DEFINE wrote == [own EXCEPT ![p] = @ + 1]
<1>4. /\ file' = [file EXCEPT ![l] = @ + 1]
      /\ memory' = [memory EXCEPT ![p] = records(p) + 1]
  BY <1>1 DEF Answered, record
<1>5. Ruling(p) /\ p \in Processes
  BY <1>1, <1>2, OwnChange DEF Ruling
<1>6. /\ records(p) \in Nat /\ own[p] \in Nat /\ own[p] <= records(p)
      /\ l \in Ledgers /\ p \in Users(l)
  BY <1>1, <1>3, <1>5, OwnRecorded
<1>7. /\ wrote \in [Processes -> Nat] /\ wrote[p] = own[p] + 1
      /\ \A q \in Processes : q # p => wrote[q] = own[q]
  BY <1>5, <1>6
<1>8. LedgerTypes' /\ SlotsOK'
  BY <1>1, <1>2, <1>4, <1>5, <1>6, ChargesChange DEF LedgerTypes
<1> HIDE DEF wrote, l, p, cost, most
<1>9. ASSUME NEW k \in Ledgers
      PROVE  file'[k] = Total(wrote, Users(k))
  <2>1. /\ \A q \in Users(k) : q \in Processes /\ own[q] \in Nat /\ wrote[q] \in Nat
        /\ IsFiniteSet(Users(k)) /\ file[k] = Total(own, Users(k)) /\ file[k] \in Nat
    BY <1>1, <1>3, <1>7, FiniteParts DEF Account, LedgerTypes
  <2>2. CASE k = l
    <3>1. Total(wrote, Users(k)) = Total(own, Users(k)) - own[p] + wrote[p]
      BY <1>6, <1>7, <2>1, <2>2, TotalUpdate
    <3>2. file'[k] = file[k] + 1
      BY <1>1, <1>4, <1>6, <2>2 DEF LedgerTypes
    <3>3. QED
      BY <1>6, <1>7, <2>1, <3>1, <3>2
  <2>3. CASE k # l
    <3>1. p \notin Users(k)
      BY <2>3 DEF Users, l
    <3>2. \A q \in Users(k) : wrote[q] = own[q]
      BY <1>7, <2>1, <3>1
    <3>3. Total(wrote, Users(k)) = Total(own, Users(k))
      BY <3>2, TotalSame
    <3>4. file'[k] = file[k]
      BY <1>1, <1>4, <2>3 DEF LedgerTypes
    <3>5. QED
      BY <2>1, <3>3, <3>4
  <2>4. QED
    BY <2>2, <2>3
<1>10. ASSUME NEW q \in Processes, Ruling(q)
       PROVE  /\ memory'[q] # Unread => wrote[q] <= memory'[q]
              /\ wrote[q] + Total(Charges', Of(q)) <= MaxCalls + Overrun(q)
  <2>1. /\ own[q] + Total(Charges, Of(q)) <= MaxCalls + Overrun(q)
        /\ memory[q] # Unread => own[q] <= memory[q]
    BY <1>3, <1>10 DEF Account
  <2>2. CASE q = p
    <3> DEFINE before == Total(Charges, Of(p))
               after == Total(Charges', Of(p))
    <3>1. after \in Nat /\ after <= before - Charges[r] + most
      BY <1>1, <1>2, OwnChange DEF p
    <3>2. before \in Nat
      BY ChargesType
    <3>3. MaxCalls + Overrun(q) \in Nat
      BY <1>10, OverrunType, RulingsAssumption DEF BudgetCaps
    <3> HIDE DEF before, after
    <3>4. after + 1 <= before
      BY <1>2, <3>1, <3>2 DEF most
    <3>5. wrote[q] + after <= MaxCalls + Overrun(q)
      BY <1>6, <1>7, <2>1, <2>2, <3>1, <3>2, <3>3, <3>4 DEF before
    <3>6. memory'[q] = records(p) + 1
      BY <1>1, <1>4, <1>5, <2>2 DEF LedgerTypes
    <3>7. wrote[q] <= memory'[q]
      BY <1>6, <1>7, <2>2, <3>6
    <3>8. QED
      BY <2>2, <3>5, <3>7 DEF after
  <2>3. CASE q # p
    <3>1. Total(Charges', Of(q)) = Total(Charges, Of(q))
      BY <1>1, <1>2, <2>3, ChargesChange DEF p
    <3>2. memory'[q] = memory[q] /\ wrote[q] = own[q]
      BY <1>1, <1>4, <1>7, <2>3 DEF LedgerTypes
    <3>3. QED
      BY <2>1, <3>1, <3>2
  <2>4. QED
    BY <2>2, <2>3
<1>11. Account(wrote)'
  BY <1>7, <1>9, <1>10 DEF Account, Ruling
<1>12. QED
  BY <1>7, <1>8, <1>11 DEF RulingsInv

\* An affordable call fits beside everything its process has written.
LEMMA CallKeeps ==
    ASSUME RulingsInv, NEW r \in Rulings, CallsStep(r)
    PROVE  RulingsInv'
<1> DEFINE p == processOf[r]
           most == IF affordable(p, kindOf[r]) THEN Calls[r] ELSE 0
<1>1. /\ SlotsOK /\ LedgerTypes /\ UNCHANGED file
      /\ memory' = [memory EXCEPT ![p] = records(p)]
      /\ Becomes(r, most) /\ most \in Nat
  BY CostRange DEF RulingsInv, CallsStep
<1>2. PICK own \in [Processes -> Nat] : Account(own)
  BY DEF RulingsInv
<1>3. Ruling(p) /\ p \in Processes /\ r \in Of(p)
  BY <1>1, OwnChange DEF Ruling
<1>4. records(p) \in Nat /\ own[p] \in Nat /\ own[p] <= records(p)
  BY <1>1, <1>2, <1>3, OwnRecorded
<1>5. LedgerTypes' /\ SlotsOK'
  BY <1>1, <1>3, <1>4, ChargesChange DEF LedgerTypes
<1>6. affordable(p, kindOf[r]) => records(p) + Calls[r] <= MaxCalls
  <2>1. MaxCalls \in Nat /\ Calls[r] \in {1, 2} /\ Calls[r] = CallsOf(kindOf[r])
    BY RulingsAssumption, CostRange DEF BudgetCaps
  <2>2. QED
    BY <1>4, <2>1 DEF affordable, callsRemaining
<1> DEFINE after == Total(Charges', Of(p))
           before == Total(Charges, Of(p))
           all == Total(Calls, Of(p))
<1>7. /\ after \in Nat /\ before \in Nat /\ all \in Nat /\ after <= all
      /\ after <= before - Charges[r] + most
      /\ Charges[r] \in Nat /\ Calls[r] \in Nat
  BY <1>1, OwnChange, ChargesType
<1>8. Overrun(p) \in Nat /\ all - Calls[r] <= Overrun(p) /\ MaxCalls \in Nat
  BY <1>3, OverrunType, RulingsAssumption DEF BudgetCaps
<1>9. own[p] + before <= MaxCalls + Overrun(p)
  BY <1>2, <1>3 DEF Account
<1> HIDE DEF after, before, all
<1>10. own[p] + after <= MaxCalls + Overrun(p)
  <2>1. CASE affordable(p, kindOf[r])
    BY <1>4, <1>6, <1>7, <1>8, <2>1
  <2>2. CASE ~ affordable(p, kindOf[r])
    BY <1>4, <1>7, <1>8, <1>9, <2>2
  <2>3. QED
    BY <2>1, <2>2
<1> HIDE DEF p, most
<1>11. ASSUME NEW q \in Processes, Ruling(q)
       PROVE  /\ memory'[q] # Unread => own[q] <= memory'[q]
              /\ own[q] + Total(Charges', Of(q)) <= MaxCalls + Overrun(q)
  <2>1. CASE q = p
    <3>1. memory'[q] = records(p)
      BY <1>1, <1>3, <2>1 DEF LedgerTypes
    <3>2. QED
      BY <1>4, <1>10, <2>1, <3>1 DEF after
  <2>2. CASE q # p
    <3>1. Total(Charges', Of(q)) = Total(Charges, Of(q))
      BY <1>1, <2>2, ChargesChange DEF p
    <3>2. memory'[q] = memory[q]
      BY <1>1, <2>2 DEF LedgerTypes
    <3>3. QED
      BY <1>2, <1>11, <3>1, <3>2 DEF Account
  <2>3. QED
    BY <2>1, <2>2
<1>12. Account(own)'
  BY <1>1, <1>2, <1>11 DEF Account, Ruling
<1>13. QED
  BY <1>2, <1>5, <1>12 DEF RulingsInv

LEMMA IdleOK ==
    ASSUME NEW r \in Rulings
    PROVE  SlotOK(r, Idle) /\ Cost(r, Idle) = 0
<1>1. 0 \in 0 .. Attempts - 1
  BY RulingsAssumption
<1>2. Idle \in Slot /\ Idle.stage = "idle" /\ Idle.verdict = "None"
  BY <1>1 DEF Idle, Slot
<1>3. OnTheWay(r, Idle)
  BY <1>2 DEF OnTheWay
<1>4. QED
  BY <1>2, <1>3, Undecided DEF Cost

\* What a dead process had out it will not record; its lines stay its own.
LEMMA RestartKeeps ==
    ASSUME RulingsInv, NEW p \in Processes, Restart(p)
    PROVE  RulingsInv'
<1>1. /\ SlotsOK /\ LedgerTypes /\ UNCHANGED file
      /\ memory' = [memory EXCEPT ![p] = Unread]
      /\ ruling' = [r \in Rulings |-> IF processOf[r] = p THEN Idle ELSE ruling[r]]
  BY DEF RulingsInv, Restart
<1>2. PICK own \in [Processes -> Nat] : Account(own)
  BY DEF RulingsInv
<1>3. SlotsOK'
  <2>1. \A r \in Rulings : SlotOK(r, ruling'[r]) /\ ruling'[r] \in Slot
    BY <1>1, IdleOK DEF SlotsOK, SlotOK
  <2>2. ruling' \in [Rulings -> Slot]
    BY <1>1, <2>1
  <2>3. QED
    BY <2>1, <2>2 DEF SlotsOK, SlotOK, OnTheWay, Bound, Outranked
<1>4. LedgerTypes'
  BY <1>1 DEF LedgerTypes, Unread
<1>5. \A r \in Rulings : Charges'[r] \in Nat /\ Charges'[r] <= Charges[r]
  <2>1. \A r \in Rulings : Charges'[r] = IF processOf[r] = p THEN 0 ELSE Charges[r]
    <3>1. \A r \in Rulings : Charges'[r] = Cost(r, ruling'[r])
      BY DEF Charges, Cost
    <3>2. QED
      BY <1>1, <3>1, IdleOK DEF Charges
  <2>2. QED
    BY <2>1, ChargesType
<1>6. ASSUME NEW q \in Processes, Ruling(q)
      PROVE  /\ memory'[q] # Unread => own[q] <= memory'[q]
             /\ own[q] + Total(Charges', Of(q)) <= MaxCalls + Overrun(q)
  <2> DEFINE after == Charges'
  <2>1. /\ IsFiniteSet(Of(q))
        /\ \A r \in Of(q) : after[r] \in Nat /\ Charges[r] \in Nat /\ after[r] <= Charges[r]
    BY <1>5, FiniteParts, ChargesType
  <2> HIDE DEF after
  <2>2. /\ Total(after, Of(q)) <= Total(Charges, Of(q))
        /\ Total(after, Of(q)) \in Nat /\ Total(Charges, Of(q)) \in Nat
    BY <2>1, TotalMonotone, TotalType
  <2>3. /\ own[q] + Total(Charges, Of(q)) <= MaxCalls + Overrun(q)
        /\ memory[q] # Unread => own[q] <= memory[q]
    BY <1>2, <1>6 DEF Account
  <2>4. own[q] \in Nat /\ MaxCalls + Overrun(q) \in Nat
    BY <1>2, <1>6, OverrunType, RulingsAssumption DEF BudgetCaps
  <2>5. own[q] + Total(after, Of(q)) <= MaxCalls + Overrun(q)
    BY <2>2, <2>3, <2>4
  <2>6. memory'[q] # Unread => memory'[q] = memory[q] /\ memory[q] # Unread
    BY <1>1 DEF LedgerTypes
  <2>7. QED
    BY <2>3, <2>5, <2>6 DEF after
<1>7. Account(own)'
  BY <1>1, <1>2, <1>6 DEF Account, Ruling
<1>8. QED
  BY <1>2, <1>3, <1>4, <1>7 DEF RulingsInv

LEMMA RulingsStart ==
    ASSUME RulingsInit
    PROVE  RulingsInv
<1>1. LedgerTypes
  BY DEF RulingsInit, LedgerTypes
<1>2. SlotsOK
  <2>1. \A r \in Rulings : ruling[r] = Idle
    BY DEF RulingsInit
  <2>2. \A r \in Rulings : SlotOK(r, ruling[r]) /\ Idle \in Slot
    BY <2>1, IdleOK DEF SlotOK
  <2>3. QED
    BY <2>2 DEF RulingsInit, SlotsOK
<1> DEFINE own == [p \in Processes |-> 0]
<1>3. own \in [Processes -> Nat]
  OBVIOUS
<1>4. ASSUME NEW l \in Ledgers PROVE file[l] = Total(own, Users(l))
  <2>1. \A p \in Users(l) : own[p] = 0
    BY FiniteParts
  <2> HIDE DEF own
  <2>2. Total(own, Users(l)) = 0
    BY <2>1, TotalZero
  <2>3. QED
    BY <2>2 DEF RulingsInit
<1>5. ASSUME NEW p \in Processes, Ruling(p)
      PROVE  /\ memory[p] = Unread
             /\ own[p] + Total(Charges, Of(p)) <= MaxCalls + Overrun(p)
  <2>1. \A r \in Of(p) : Charges[r] = 0
    BY IdleOK, FiniteParts DEF RulingsInit, Charges
  <2>2. Total(Charges, Of(p)) = 0
    BY <2>1, TotalZero
  <2>3. MaxCalls \in Nat /\ Overrun(p) \in Nat
    BY <1>5, OverrunType, RulingsAssumption DEF BudgetCaps
  <2>4. QED
    BY <2>2, <2>3 DEF RulingsInit
<1> HIDE DEF own
<1>6. Account(own)
  BY <1>3, <1>4, <1>5 DEF Account
<1>7. QED
  BY <1>1, <1>2, <1>3, <1>6 DEF RulingsInv

LEMMA RulingsKept ==
    ASSUME RulingsInv, [RulingsNext]_rulingVars
    PROVE  RulingsInv'
<1>1. ASSUME NEW r \in Rulings, Progress(r) \/ Run(r) \/ AskHs(r) \/ AskCarbon(r)
      PROVE  RulingsInv'
  <2>1. AnswerStep(r) \/ QuietStep(r) \/ CallsStep(r)
    BY <1>1, RulingStep DEF RulingsInv
  <2>2. QED
    BY <2>1, AnswerKeeps, QuietKeeps, CallKeeps
<1>2. ASSUME NEW p \in Processes, Restart(p)
      PROVE  RulingsInv'
  BY <1>2, RestartKeeps
<1>3. CASE UNCHANGED rulingVars
  <2>1. UNCHANGED <<file, memory, ruling>>
    BY <1>3 DEF rulingVars
  <2>2. LedgerTypes' /\ SlotsOK' /\ Charges' = Charges
    BY <2>1 DEF RulingsInv, LedgerTypes, SlotsOK, SlotOK, OnTheWay, Bound, Outranked,
                Charges, Cost
  <2>3. \A own \in [Processes -> Nat] : Account(own) => Account(own)'
    BY <2>1, <2>2 DEF Account, Ruling
  <2>4. QED
    BY <2>2, <2>3 DEF RulingsInv
<1>4. QED
  BY <1>1, <1>2, <1>3 DEF RulingsNext

-----------------------------------------------------------------------------
(* The theorems                                                            *)

\* The inductive invariant: every slot is in order, and every ledger can be
\* divided among its processes.
THEOREM RulingsCorrect == RulingsSpec => []RulingsInv
<1>1. RulingsInit => RulingsInv
  BY RulingsStart
<1>2. RulingsInv /\ [RulingsNext]_rulingVars => RulingsInv'
  BY RulingsKept
<1>3. QED
  BY <1>1, <1>2, PTL DEF RulingsSpec

\* Ledgers, memories and slots have their types (budget.ts, rule.ts).
THEOREM RulingsTypesCorrect == RulingsSpec => []RulingsTypeOK
<1>1. RulingsInv => RulingsTypeOK
  BY DEF RulingsInv, LedgerTypes, SlotsOK, SlotOK, OnTheWay, Slot, RulingsTypeOK
<1>2. QED
  BY <1>1, RulingsCorrect, PTL

\* What is wrong with an answer binds the whole ruling, for every answer a model
\* may give to either pass (decide.ts, ground.ts, the parsers).
THEOREM AnswersAlwaysBind == RulingsSpec => []AnswersBind
<1>1. RulingsInv => AnswersBind
  BY DEF RulingsInv, SlotsOK, SlotOK, Bound, Binding, AnswersBind
<1>2. QED
  BY <1>1, RulingsCorrect, PTL

\* No answer approves a class its listing speaks against, however many credits
\* and vintages it has, nor goods the carrier excludes (carbon/decide.ts, policy.ts).
THEOREM FactsAlwaysOutrankModel == RulingsSpec => []FactsOutrankModel
<1>1. RulingsInv => FactsOutrankModel
  BY DEF RulingsInv, SlotsOK, SlotOK, Outranked, Allows, isAcceptable,
         FactsOutrankModel
<1>2. QED
  BY <1>1, RulingsCorrect, PTL

\* No number of overlapping rulings, failures, retries and restarts takes a ledger
\* past what its processes' caps and their calls under way allow (budget.ts).
THEOREM OverrunAlwaysBounded == RulingsSpec => []OverrunBounded
<1>1. RulingsInv => OverrunBounded
  <2> SUFFICES ASSUME RulingsInv, NEW l \in Ledgers PROVE file[l] <= LedgerBound(l)
    BY DEF OverrunBounded
  <2>1. PICK own \in [Processes -> Nat] : Account(own)
    BY DEF RulingsInv
  <2> DEFINE share == [p \in Users(l) |-> MaxCalls + Overrun(p)]
  <2>2. ASSUME NEW p \in Users(l)
        PROVE  own[p] \in Nat /\ share[p] \in Nat /\ own[p] <= share[p]
    <3>1. p \in Processes /\ Ruling(p)
      BY DEF Users, Ruling
    <3>2. Overrun(p) \in Nat /\ MaxCalls \in Nat /\ Total(Charges, Of(p)) \in Nat
      BY <3>1, OverrunType, ChargesType, RulingsAssumption DEF BudgetCaps
    <3>3. own[p] + Total(Charges, Of(p)) <= MaxCalls + Overrun(p) /\ own[p] \in Nat
      BY <2>1, <3>1 DEF Account
    <3>4. QED
      BY <3>2, <3>3
  <2> HIDE DEF share
  <2>3. Total(own, Users(l)) <= Total(share, Users(l))
    BY <2>2, FiniteParts, TotalMonotone
  <2>4. QED
    BY <2>1, <2>3 DEF Account, LedgerBound, share
<1>2. QED
  BY <1>1, RulingsCorrect, PTL

=============================================================================
