------------------------ MODULE ListingTextModeration ------------------------
(***************************************************************************)
(* ListingTextModerationService.evaluate: whether a title and a            *)
(* description may be saved or published.  The rules look at the two       *)
(* together; how they score a text is left out, what they found in it is   *)
(* given.  A language model may be asked, may fail, and may answer         *)
(* anything.  Of the decision only its status matters to its callers.      *)
(***************************************************************************)
EXTENDS Integers, FiniteSets

CONSTANTS
    Title, Description,
    Found,                      \* what the rules find in each text
    NoVerdict,                  \* the model was not asked, or its answer is no verdict
    Enabled,                    \* texts are moderated at all
    HardBlockEnabled,
    MaxConfidence,              \* confidences, as multiples of a smallest one
    BlockThreshold, WarnThreshold, GibberishBlockConfidence

Text == [title : Title, description : Description]

Flag == {"profanity", "gibberish", "spamLike"}

Findings == [flags : SUBSET Flag, insufficient : BOOLEAN]

Phase == {"draft", "publish"}

Verdict == [status : {"allow", "warn", "block"}, confidence : 0..MaxConfidence,
            flags : SUBSET Flag]

ASSUME ModerationAssumption ==
    /\ Found \in [Text -> Findings]
    /\ NoVerdict \notin Verdict
    /\ Enabled \in BOOLEAN /\ HardBlockEnabled \in BOOLEAN
    /\ MaxConfidence \in Nat
    /\ BlockThreshold \in Nat /\ WarnThreshold \in Nat /\ GibberishBlockConfidence \in Nat

-----------------------------------------------------------------------------

\* RulesEngine.evaluate, from what it found.
Severity(found) ==
    IF "profanity" \in found.flags THEN "hard_block"
    ELSE IF found.flags # {} \/ found.insufficient THEN "warn"
    ELSE "none"

\* What a block becomes.
Blocked == IF HardBlockEnabled THEN "block" ELSE "warn"

\* rulesContentPublishBlock
BlocksPublication(phase, found) ==
    /\ phase = "publish" /\ HardBlockEnabled
    /\ "profanity" \notin found.flags
    /\ "gibberish" \in found.flags \/ found.insufficient

Flagged(phase, found) == IF BlocksPublication(phase, found) THEN "block" ELSE "warn"

\* The model blocks what the rules see nothing in.
OverBlocks(found, llm) == /\ Severity(found) = "none"
                          /\ llm.status = "block"
                          /\ llm.confidence >= WarnThreshold

GibberishAgreed(found, llm) == /\ "gibberish" \in llm.flags
                               /\ llm.confidence >= GibberishBlockConfidence
                               /\ Severity(found) = "warn"

\* The model blocks, and is not overruled.
ModelBlocks(phase, found, llm) ==
    IF GibberishAgreed(found, llm) THEN IF phase = "publish" THEN Blocked ELSE "warn"
    ELSE IF llm.confidence >= BlockThreshold THEN Blocked
    ELSE "warn"

\* The model warns of nothing in particular and the rules see nothing.
VagueWarning(found, llm) ==
    llm.status = "warn" /\ Severity(found) = "none" /\ llm.flags = {}

\* Mutant: the model has the last word.
DecisionOfModel(phase, found, llm) ==
    IF Severity(found) = "hard_block" THEN Blocked
    ELSE IF llm = NoVerdict
         THEN IF Severity(found) = "warn" THEN Flagged(phase, found) ELSE "allow"
    ELSE IF llm.status = "block" THEN ModelBlocks(phase, found, llm)
    ELSE llm.status

\* fuseModeration
Decision(phase, found, llm) ==
    IF Severity(found) = "hard_block" THEN Blocked
    ELSE IF llm = NoVerdict
         THEN IF Severity(found) = "warn" THEN Flagged(phase, found) ELSE "allow"
    ELSE IF OverBlocks(found, llm) THEN "allow"
    ELSE IF llm.status = "block" THEN ModelBlocks(phase, found, llm)
    ELSE IF VagueWarning(found, llm) THEN "allow"
    ELSE IF llm.status = "warn" \/ Severity(found) = "warn" THEN Flagged(phase, found)
    ELSE "allow"

\* What evaluate may come to for each text, as the model may say anything.
Outcomes ==
    [phase \in Phase |-> [text \in Text |->
        IF Enabled
        THEN {Decision(phase, Found[text], llm) : llm \in Verdict \cup {NoVerdict}}
        ELSE {"allow"}]]

\* throwIfModerationRejects: a text goes through when the decision is "allow" and
\* is rejected otherwise.  Both may happen to one text.
Allows(phase, text) == "allow" \in Outcomes[phase][text]
Rejects(phase, text) == Outcomes[phase][text] # {"allow"}
=============================================================================
