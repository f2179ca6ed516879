-------------------------- MODULE InferenceRulings --------------------------
(***************************************************************************)
(* Rulings and what they cost: the inference budget                        *)
(* (packages/compliance/src/carbon/budget.ts), the calls it limits, and    *)
(* the served API that starts them (apps/api/src/rule.ts, spend.ts).       *)
(*                                                                         *)
(* A process reads its ledger file once and then trusts its memory.  A     *)
(* ruling checks the ledger, asks the model - and waits - and records the  *)
(* call when the answer is there, so rulings of one process and processes  *)
(* of one ledger overlap between the check and the record.                 *)
(*                                                                         *)
(* A ruling is one request slot: classification ("hs", two passes), carbon *)
(* quality ("carbon") or compute policy ("compute").  The model's answer   *)
(* is any member of the answer sets; a call may also fail, with or without *)
(* having been charged.                                                    *)
(***************************************************************************)
EXTENDS ComplianceGates

CONSTANTS
    Processes,          \* the server and the operator's scripts
    ledgerOf,           \* the ledger file of a process
    Rulings,
    processOf, kindOf,  \* who makes a ruling, and of which kind
    Served,             \* the process that serves the API
    MaxCalls,           \* caps.maxCalls
    Attempts,           \* withRetry: attempts at one call
    HsAnswers, GroundAnswers, CarbonAnswers, ComputeAnswers, Classes,
                        \* bound: the answers and carbon classes explored
    Tonnes              \* what a carbon ruling is asked for

Ledgers == {ledgerOf[p] : p \in Processes}
Of(p) == {r \in Rulings : processOf[r] = p}

\* capsFromEnv refuses to start with any other.
BudgetCaps == Nat \ {0}

ASSUME RulingsAssumption ==
    /\ IsFiniteSet(Processes) /\ IsFiniteSet(Rulings)
    /\ Served \in Processes
    /\ processOf \in [Rulings -> Processes]
    /\ kindOf \in [Rulings -> {"hs", "carbon", "compute"}]
    /\ MaxCalls \in BudgetCaps /\ Attempts \in Nat \ {0}
    /\ HsAnswers \subseteq HsAnswer /\ GroundAnswers \subseteq GroundAnswer
    /\ CarbonAnswers \subseteq CarbonAnswer /\ ComputeAnswers \subseteq ComputeAnswer
    /\ Tonnes \in Nat /\ Classes \subseteq CarbonClass
    /\ \A class \in Classes : IsFiniteSet(class.credits)

VARIABLES
    file,               \* lines in each ledger file
    memory,             \* #records: what a process has read and added
    ruling              \* the rulings

rulingVars == <<file, memory, ruling>>

Unread == -1
NoProposal == [flags |-> {}]
NoClass == [isRegistered |-> FALSE]
Idle == [stage |-> "idle", attempt |-> 0, class |-> NoClass, first |-> NoProposal,
         code |-> NoCode, unread |-> {}, verdict |-> "None"]

InFlight == {"facts", "first", "ground"}
Waiting(r) == ruling[r].stage \in InFlight

-----------------------------------------------------------------------------
RulingsInit ==
    /\ file = [l \in Ledgers |-> 0]
    /\ memory = [p \in Processes |-> Unread]
    /\ ruling = [r \in Rulings |-> Idle]

(* The budget                                                              *)

\* Mutant: a process starts counting at nothing.
RecordsFromNothing(p) == IF memory[p] = Unread THEN 0 ELSE memory[p]

\* records(), once per process.
records(p) == IF memory[p] = Unread THEN file[ledgerOf[p]] ELSE memory[p]

callsRemaining(p) == IF records(p) >= MaxCalls THEN 0 ELSE MaxCalls - records(p)

CallsOf(kind) == IF kind = "hs" THEN 2 ELSE 1

\* assertCallAllowed, and the engine's assertAffordable for two passes.
affordable(p, kind) == callsRemaining(p) >= CallsOf(kind)

\* record: the ledger is read before the line is appended.
record(p) ==
    /\ file' = [file EXCEPT ![ledgerOf[p]] = @ + 1]
    /\ memory' = [memory EXCEPT ![p] = records(p) + 1]

(* A ruling                                                                *)

To(r, stage) == ruling' = [ruling EXCEPT ![r] = [Idle EXCEPT !.stage = stage]]

\* The ruling keeps what it rests on: the first pass's flags and questions, the
\* class, the code, and which fields of the answer could not be read.
Decided(r, first, code, missed, verdict) ==
    ruling' = [ruling EXCEPT ![r] =
        [Idle EXCEPT !.stage = "ruled", !.class = ruling[r].class, !.first = first,
                     !.code = code, !.unread = missed, !.verdict = verdict]]

DecidedHs(r, first, p, missed) ==
    \E crossBorder \in BOOLEAN :
        Decided(r, [flags |-> first.flags, missing |-> first.missing], p.hs6, missed,
                decide(p, crossBorder).verdict)

\* The budget is read into memory by the check, which throws, or the call is sent.
Call(r, class) ==
    LET p == processOf[r]
        stage == IF affordable(p, kindOf[r]) THEN "first" ELSE "failed"
    IN  /\ memory' = [memory EXCEPT ![p] = records(p)]
        /\ ruling' = [ruling EXCEPT ![r] =
                [Idle EXCEPT !.stage = stage, !.class = class]]

\* ruleOnGoods checks the budget and calls at once.
AskHs(r) ==
    /\ processOf[r] = Served /\ kindOf[r] = "hs" /\ ~Waiting(r)
    /\ Call(r, NoClass)
    /\ UNCHANGED file

\* ruleOnCarbon first awaits the inventory and the class's facts.
AskCarbon(r) ==
    /\ processOf[r] = Served /\ kindOf[r] = "carbon" /\ ~Waiting(r)
    /\ To(r, "facts")
    /\ UNCHANGED <<file, memory>>

\* A script of the operator's: one ruling at a time.
Run(r) ==
    /\ processOf[r] # Served /\ \A s \in Of(processOf[r]) : ~Waiting(s)
    /\ IF kindOf[r] = "carbon" THEN To(r, "facts") /\ UNCHANGED memory
       ELSE Call(r, NoClass)
    /\ UNCHANGED file

\* The class is not in inventory.
NotOnSale(r) ==
    /\ ruling[r].stage = "facts"
    /\ To(r, "failed")
    /\ UNCHANGED <<file, memory>>

\* The served rulings ask the model whatever the facts say.
AssessServed(r) ==
    /\ ruling[r].stage = "facts" /\ processOf[r] = Served
    /\ \E c \in Classes : Call(r, c)
    /\ UNCHANGED file

\* The operator's do not ask it when the facts decide.
AssessScript(r) ==
    /\ ruling[r].stage = "facts" /\ processOf[r] # Served
    /\ \E c \in Classes : LET q == assess(c, Tonnes) IN
         \/ ~deterministicGround(q) /\ Call(r, c)
         \/ /\ deterministicGround(q)
            /\ ruling' = [ruling EXCEPT ![r] =
                    [Idle EXCEPT !.stage = "ruled", !.class = c,
                        !.verdict = decideCarbon(q, unassessedProposal).verdict]]
            /\ UNCHANGED memory
    /\ UNCHANGED file

\* An answer is recorded before anything is made of it.
Answered(r) ==
    /\ ruling[r].stage \in {"first", "ground"}
    /\ record(processOf[r])

\* First pass of a classification: flags or nothing to look up end it here.
AnswerHs(r) ==
    /\ kindOf[r] = "hs" /\ ruling[r].stage = "first" /\ Answered(r)
    /\ \E input \in HsAnswers :
         LET first == parseProposal(input) IN
         IF first.flags = {} /\ first.chapters # {}
         THEN ruling' = [ruling EXCEPT ![r].stage = "ground", ![r].attempt = 0,
                                       ![r].first = first, ![r].unread = unread(input)]
         ELSE DecidedHs(r, first, first, unread(input))

\* The first proposal stands when the second pass gives nothing usable.
FirstStands(r) ==
    /\ ruling[r].stage = "ground"
    /\ DecidedHs(r, ruling[r].first, ruling[r].first, ruling[r].unread)

AnswerGround(r) ==
    /\ ruling[r].stage = "ground" /\ Answered(r)
    /\ \E input \in GroundAnswers :
         LET first == ruling[r].first
             p == grounded(first, input)
         IN  DecidedHs(r, first, p, IF p = first THEN ruling[r].unread ELSE unread(input))

AnswerCarbon(r) ==
    /\ kindOf[r] = "carbon" /\ ruling[r].stage = "first" /\ Answered(r)
    /\ \E input \in CarbonAnswers :
         LET p == parseCarbonProposal(input) IN
         Decided(r, NoProposal, NoCode, unread(input),
                 decideCarbon(assess(ruling[r].class, Tonnes), p).verdict)

AnswerCompute(r) ==
    /\ kindOf[r] = "compute" /\ ruling[r].stage = "first" /\ Answered(r)
    /\ \E input \in ComputeAnswers :
         LET p == parseComputePolicyProposal(input) IN
         Decided(r, NoProposal, NoCode, unread(input), decideCompute(p).verdict)

\* A 200 without the forced tool call is paid for and not tried again.
AnswerWithoutTool(r) ==
    /\ Answered(r)
    /\ \/ ruling[r].stage = "first" /\ To(r, "failed")
       \/ FirstStands(r)

\* The second pass is refused by the model's API, and not charged.
GroundRefused(r) ==
    /\ FirstStands(r)
    /\ UNCHANGED <<file, memory>>

\* withRetry.  Only compute asks the budget again before each attempt; the
\* carbon rulings are not retried at all.
AttemptFails(r) ==
    /\ ruling[r].stage \in {"first", "ground"}
    /\ IF kindOf[r] = "carbon" \/ ruling[r].attempt = Attempts - 1
            \/ (kindOf[r] = "compute" /\ ~affordable(processOf[r], "compute"))
       THEN To(r, "failed")
       ELSE ruling' = [ruling EXCEPT ![r].attempt = @ + 1]
    /\ UNCHANGED <<file, memory>>

\* A process dies with its rulings and its memory; the file stays.
Restart(p) ==
    /\ memory' = [memory EXCEPT ![p] = Unread]
    /\ ruling' = [r \in Rulings |-> IF processOf[r] = p THEN Idle ELSE ruling[r]]
    /\ UNCHANGED file

Progress(r) ==
    \/ NotOnSale(r) \/ AssessServed(r) \/ AssessScript(r)
    \/ AnswerHs(r) \/ AnswerGround(r) \/ AnswerCarbon(r) \/ AnswerCompute(r)
    \/ AnswerWithoutTool(r) \/ GroundRefused(r) \/ AttemptFails(r)

RulingsNext ==
    \/ \E r \in Rulings : Progress(r) \/ Run(r) \/ AskHs(r) \/ AskCarbon(r)
    \/ \E p \in Processes : Restart(p)

RulingsSpec == RulingsInit /\ [][RulingsNext]_rulingVars

-----------------------------------------------------------------------------
(* Properties                                                              *)

\* Type invariant: the ledgers, what each process holds of them, and how far
\* each ruling has come.
RulingsTypeOK ==
    /\ file \in [Ledgers -> Nat]
    /\ memory \in [Processes -> Nat \union {Unread}]
    /\ \A r \in Rulings :
         /\ ruling[r].stage \in InFlight \union {"idle", "ruled", "failed"}
         /\ ruling[r].attempt \in 0 .. Attempts - 1
         /\ (ruling[r].verdict = "None") <=> (ruling[r].stage # "ruled")

\* What a ledger can come to: each process spends the cap, plus whatever its
\* other rulings already had under way when the last one was let through.  The
\* caps bound neither the processes of a ledger together nor, with two rulings
\* at once, a single process; what they do bound survives any restart.
Calls == [r \in Rulings |-> CallsOf(kindOf[r])]

Overrun(p) == Total(Calls, Of(p)) - Min({Calls[r] : r \in Of(p)})

\* The processes that rule on a ledger's budget.
Users(l) == {p \in Processes : ledgerOf[p] = l /\ Of(p) # {}}

LedgerBound(l) == Total([p \in Users(l) |-> MaxCalls + Overrun(p)], Users(l))

OverrunBounded == \A l \in Ledgers : file[l] <= LedgerBound(l)

\* What is wrong with an answer binds the whole ruling.  What the first pass
\* found wrong with the goods is not talked away by the second, which is asked
\* for a code only, and a code, a confidence or a reason that could not be read,
\* in either pass, never ends in an approval.
AnswersBind ==
    \A r \in Rulings : ruling[r].stage = "ruled" =>
        /\ kindOf[r] = "hs" =>
             /\ ruling[r].first.flags # {} => ruling[r].verdict = "Refused"
             /\ ruling[r].first.missing # {} => ruling[r].verdict # "Approved"
        /\ ruling[r].verdict = "Approved" =>
             ruling[r].unread \intersect {"hs6", "confidence", "rationale"} = {}

\* The listing outranks the model: no answer approves a class that is unknown,
\* unregistered, registered nowhere recognised, short of the tonnes wanted or with
\* a credit past the age limit however its vintage is written, nor goods the
\* carrier excludes.
FactsOutrankModel ==
    \A r \in Rulings : ruling[r].verdict = "Approved" =>
        LET class == ruling[r].class  code == ruling[r].code IN
        /\ kindOf[r] = "carbon" =>
             /\ class.identified /\ class.isRegistered
             /\ Tonnes <= Total([c \in class.credits |-> c.liquidity], class.credits)
             /\ \E c \in class.credits : c.registry \in RecognisedRegistries
             /\ \A c \in class.credits :
                  \/ c.vintage \in {0} \union (ThisYear - MAX_VINTAGE_AGE_YEARS .. 9999)
                  \/ c.vintage >= 10000 * (ThisYear - MAX_VINTAGE_AGE_YEARS)
        /\ kindOf[r] = "hs" =>
             /\ headingOf[code] \notin ProhibitedHeadings
             /\ chapterOf[code] \notin ProhibitedChapters

=============================================================================
