------------------------- MODULE MCInferenceRulings -------------------------
(* Three codes (one prohibited by heading, one by chapter); a served API with *)
(* a classification and a carbon ruling on its own ledger; two of the         *)
(* operator's scripts on theirs.                                              *)
EXTENDS InferenceRulings, TLC

CONSTANTS server, e2e, computeE2e, goods, credit, retired, lease

MCProcesses == {server, e2e, computeE2e}
MCLedgerOf == [p \in MCProcesses |-> IF p = server THEN "served" ELSE "operator"]
MCRulings == {goods, credit, retired, lease}
MCProcessOf == (goods :> server) @@ (credit :> server) @@ (retired :> e2e)
               @@ (lease :> computeE2e)
MCKindOf == (goods :> "hs") @@ (credit :> "carbon") @@ (retired :> "carbon")
            @@ (lease :> "compute")

MCHsCodes == {"610910", "360410", "930100"}
MCChapterOf == [c \in MCHsCodes |->
    CASE c = "610910" -> "61" [] c = "360410" -> "36" [] c = "930100" -> "93"]
MCHeadingOf == [c \in MCHsCodes |->
    CASE c = "610910" -> "6109" [] c = "360410" -> "3604" [] c = "930100" -> "9301"]
\* Either side of the thresholds, of the rounding and of the range.
MCRawConfidences == {-1, 5994, 5995, 8494, 8495, 8995, 20000}

\* A good answer, and each way of not being one.
MCHsAnswers ==
    LET good == [hs6 |-> "610910", confidence |-> 8495, missing |-> {}, flags |-> {},
                 chapters |-> {}]
    IN  {good, [good EXCEPT !.hs6 = "360410"], [good EXCEPT !.missing = {"question"}],
         [good EXCEPT !.hs6 = Malformed, !.chapters = {"61"}],
         [good EXCEPT !.flags = PurposeFlags \union {Invented}]}
MCGroundAnswers ==
    {[hs6 |-> "610910", confidence |-> 8995], [hs6 |-> "610910", confidence |-> Malformed]}
MCCarbonAnswers ==
    LET good == [flags |-> {}, confidence |-> 5995, rationale |-> "text"] IN
    {good, [good EXCEPT !.flags = IntegrityFlags],
     [good EXCEPT !.flags = Malformed, !.rationale = Malformed]}
MCComputeAnswers ==
    {[conflicts |-> {}, missing |-> {}, confidence |-> 8495],
     [conflicts |-> {}, missing |-> {}, confidence |-> Malformed]}
\* A good class whose vintage is written as a date, one whose only credit is on no
\* recognised registry, and one with an old credit too.
MCClasses ==
    LET new == [registry |-> "VCS", vintage |-> 20240430, liquidity |-> 1]
        old == [registry |-> "CMARK", vintage |-> 2015, liquidity |-> 0]
        class == [identified |-> TRUE, isRegistered |-> TRUE, credits |-> {new}]
    IN  {class, [class EXCEPT !.credits = {[new EXCEPT !.registry = "CMARK"]}],
         [class EXCEPT !.credits = {new, old}]}
=============================================================================
