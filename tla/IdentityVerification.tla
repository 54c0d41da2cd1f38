------------------------- MODULE IdentityVerification -------------------------
(***************************************************************************)
(* The verification of a user's identity by an outside provider:           *)
(* VerificationService and its controller.  There is one row for all       *)
(* attempts, and an answer of the provider names the row.                  *)
(***************************************************************************)
EXTENDS AccountTable

tablesButVerification == <<cards, deals, score, profile>>

Initiate(p) ==
    /\ At(p, "idle")
    /\ Begin(p, Request("initiate", Nobody,
                        IF verification.status = "VERIFIED" THEN "answer" ELSE "initiate_write"))
    /\ UNCHANGED tableVars

WritePending(p) ==
    /\ At(p, "initiate_write")
    /\ verification' = [status |-> "PENDING", expired |-> FALSE]
    /\ Answer(p, TRUE)
    /\ UNCHANGED tablesButVerification

\* The provider sends the user back with a code or with an error.  A callback that
\* finds the user verified goes on as if it had verified him.
Callback(p, isError) ==
    /\ At(p, "idle") /\ verification.status # "NONE"
    /\ LET outcome == IF verification.status = "VERIFIED" THEN "VERIFIED"
                      ELSE IF isError THEN "REJECTED"
                      ELSE IF verification.expired THEN "EXPIRED" ELSE "VERIFIED"
           next == IF verification.status = "VERIFIED" THEN "read_verification" ELSE "callback_write"
       IN  Begin(p, [Request("callback", Nobody, next) EXCEPT !.outcome = outcome])
    /\ UNCHANGED tableVars

\* Once verified, the score is calculated anew; else it is read only.
AfterCallback(p) == IF process[p].outcome = "VERIFIED" THEN "read_verification" ELSE "read_score"

WriteOutcome(p) ==
    /\ At(p, "callback_write")
    /\ verification' = [verification EXCEPT !.status = process[p].outcome]
    /\ GoTo(p, AfterCallback(p))
    /\ UNCHANGED tablesButVerification

Escalate(p) ==
    /\ At(p, "idle")
    /\ Begin(p, Request("escalate", Nobody, "escalate"))
    /\ UNCHANGED tableVars

\* The update leaves expiresAt alone.
WriteEscalation(p) ==
    /\ At(p, "escalate")
    /\ verification' = IF verification.status = "NONE"
                       THEN [status |-> "PENDING", expired |-> FALSE]
                       ELSE [verification EXCEPT !.status = "PENDING"]
    /\ Answer(p, TRUE)
    /\ UNCHANGED tablesButVerification

\* Ten minutes pass.
ExpireAttempt ==
    /\ verification.status = "PENDING" /\ ~verification.expired
    /\ verification' = [verification EXCEPT !.expired = TRUE]
    /\ UNCHANGED <<tablesButVerification, process>>

ContinueVerification(p) == WritePending(p) \/ WriteOutcome(p) \/ WriteEscalation(p)
=============================================================================
