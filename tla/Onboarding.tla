----------------------------- MODULE Onboarding -----------------------------
(***************************************************************************)
(* One onboarding session of a customer (apps/api modules/onboarding       *)
(* service.ts, steps.ts, checks.ts and domain/onboarding).  A request      *)
(* loads the session, does its work, validates the configuration where it  *)
(* must, and writes by id what it computed from the session it loaded:     *)
(* requests interleave between the three.  The configuration a step writes *)
(* is its findings only, and anybody may change it elsewhere.              *)
(***************************************************************************)
EXTENDS Naturals

CONSTANTS
    LastConfigStep,     \* NOTIFICATIONS, the twelfth in the code
    OnboardingRequest,  \* requests in flight
    MaxConfigChanges    \* bound on changes of the configuration

ASSUME OnboardingAssumption == LastConfigStep \in Nat \ {0} /\ MaxConfigChanges \in Nat

VALIDATION      == LastConfigStep + 1
PILOT_READINESS == LastConfigStep + 2
StepKey == 1..PILOT_READINESS

VARIABLES
    session,      \* the row: status, completedSteps, currentStep,
                  \* lastValidation, and whether its warnings are accepted
    findings,     \* what a validation of the configuration would find
    requests,     \* what each request has loaded and found
    configChanges

onboardingVars == <<session, findings, requests, configChanges>>

Finding == {"PASS", "WARNING", "ERROR"}
OpenSession == {"DRAFT", "IN_PROGRESS", "READY_FOR_VALIDATION", "BLOCKED"}
NoRequest == [op |-> "none"]

OnboardingInit ==
    /\ session = [status |-> "DRAFT", completedSteps |-> {}, currentStep |-> 1,
                  lastValidation |-> "none", accepted |-> FALSE]
    /\ findings \in Finding
    /\ requests = [q \in OnboardingRequest |-> NoRequest]
    /\ configChanges = 0

Proceeds(q, request) == requests' = [requests EXCEPT ![q] = request]
Ends(q) == Proceeds(q, NoRequest)

frontierStep(steps) ==
    IF steps = StepKey THEN PILOT_READINESS
    ELSE CHOOSE s \in StepKey \ steps : 1..(s - 1) \subseteq steps

canCompleteStep(steps, step) == 1..(step - 1) \subseteq steps
canVisitStep(steps, step) == step = 1 \/ step - 1 \in steps
-----------------------------------------------------------------------------
(* Loading                                                                 *)

\* loadMutableSession and the checks of applyOnboardingStep.  The payload of
\* VALIDATION, if there is one, says which warnings are accepted.
LoadStep(q, step, complete, payload) ==
    /\ requests[q] = NoRequest
    /\ session.status \in OpenSession
    /\ IF complete THEN canCompleteStep(session.completedSteps, step)
                   ELSE canVisitStep(session.completedSteps, step) \/ step = session.currentStep
    /\ step # VALIDATION => payload = "none"
    /\ Proceeds(q, [op |-> IF step = VALIDATION THEN "check step" ELSE "step", row |-> session,
                    step |-> step, complete |-> complete, payload |-> payload,
                    found |-> "none"])
    /\ UNCHANGED <<session, findings, configChanges>>

\* validateOnboarding and cancelOnboarding load any session, and
\* completeOnboarding one whose steps are all completed.
LoadSession(q, op) ==
    /\ requests[q] = NoRequest
    /\ op = "check complete" =>
          session.status \in OpenSession /\ session.completedSteps = StepKey
    /\ op = "cancel" => session.status \in OpenSession
    /\ Proceeds(q, [op |-> op, row |-> session, found |-> "none"])
    /\ UNCHANGED <<session, findings, configChanges>>
-----------------------------------------------------------------------------
(* runValidation, and what the request does about the findings             *)

Accepted(payload, accepted) == payload = "accept" \/ (payload = "none" /\ accepted)

CheckStep(q) ==
    /\ requests[q].op = "check step"
    /\ IF /\ requests[q].complete
          /\ \/ findings = "ERROR"
             \/ findings = "WARNING" /\ ~Accepted(requests[q].payload, requests[q].row.accepted)
       THEN Ends(q)
       ELSE Proceeds(q, [requests[q] EXCEPT !.op = "step", !.found = findings])
    /\ UNCHANGED <<session, findings, configChanges>>

CheckSession(q) ==
    /\ requests[q].op = "check"
    /\ Proceeds(q, [requests[q] EXCEPT !.op = "validate", !.found = findings])
    /\ UNCHANGED <<session, findings, configChanges>>

CheckComplete(q) ==
    /\ requests[q].op = "check complete"
    /\ IF findings = "WARNING" /\ ~requests[q].row.accepted
       THEN Ends(q)
       ELSE Proceeds(q, [requests[q] EXCEPT !.op = "complete", !.found = findings])
    /\ UNCHANGED <<session, findings, configChanges>>
-----------------------------------------------------------------------------
(* Writing                                                                 *)

\* applyOnboardingStep: steps, status and current step all come from the row
\* that was loaded.
ApplyStep(q) ==
    LET request == requests[q]
        row == request.row
        steps == IF request.complete THEN row.completedSteps \cup {request.step}
                                     ELSE row.completedSteps
    IN
    /\ request.op = "step"
    /\ session' = [session EXCEPT
          !.completedSteps = steps,
          !.currentStep = IF request.complete THEN frontierStep(steps) ELSE row.currentStep,
          !.status = IF LastConfigStep \in steps THEN "READY_FOR_VALIDATION"
                     ELSE IF row.status \in {"DRAFT", "BLOCKED"} THEN "IN_PROGRESS" ELSE row.status,
          !.accepted = Accepted(request.payload, @),
          !.lastValidation = IF request.step = VALIDATION THEN request.found ELSE @]
    /\ Ends(q)
    /\ UNCHANGED <<findings, configChanges>>

\* Mutant: a closed session keeps its status whatever is found.
ValidateClosed(q) ==
    LET request == requests[q] IN
    /\ request.op = "validate"
    /\ session' = [session EXCEPT
          !.lastValidation = request.found,
          !.status = IF request.row.status \in {"COMPLETED", "CANCELLED"} THEN request.row.status
                     ELSE IF request.found = "ERROR" THEN "BLOCKED"
                     ELSE "READY_FOR_VALIDATION"]
    /\ Ends(q)
    /\ UNCHANGED <<findings, configChanges>>

ValidateOnboarding(q) ==
    LET request == requests[q] IN
    /\ request.op = "validate"
    /\ session' = [session EXCEPT
          !.lastValidation = request.found,
          !.status = IF request.found = "ERROR" THEN "BLOCKED"
                     ELSE IF request.row.status \in {"COMPLETED", "CANCELLED"} THEN request.row.status
                     ELSE "READY_FOR_VALIDATION"]
    /\ Ends(q)
    /\ UNCHANGED <<findings, configChanges>>

CompleteOnboarding(q) ==
    LET request == requests[q] IN
    /\ request.op = "complete"
    /\ session' = [session EXCEPT
          !.lastValidation = request.found,
          !.status = IF request.found = "ERROR" THEN "BLOCKED" ELSE "COMPLETED"]
    /\ Ends(q)
    /\ UNCHANGED <<findings, configChanges>>

CancelOnboarding(q) ==
    /\ requests[q].op = "cancel"
    /\ session' = [session EXCEPT !.status = "CANCELLED"]
    /\ Ends(q)
    /\ UNCHANGED <<findings, configChanges>>
-----------------------------------------------------------------------------
\* A step whose configuration is not there is refused, a request is cut off.
RequestRefused(q) ==
    /\ requests[q] # NoRequest
    /\ Ends(q)
    /\ UNCHANGED <<session, findings, configChanges>>

ConfigurationChanges ==
    /\ configChanges < MaxConfigChanges
    /\ configChanges' = configChanges + 1
    /\ findings' \in Finding \ {findings}
    /\ UNCHANGED <<session, requests>>

OnboardingNext ==
    \/ \E q \in OnboardingRequest :
          \/ \E step \in StepKey, complete \in BOOLEAN, payload \in {"none", "accept", "withdraw"} :
                LoadStep(q, step, complete, payload)
          \/ \E op \in {"check", "check complete", "cancel"} : LoadSession(q, op)
          \/ CheckStep(q) \/ CheckSession(q) \/ CheckComplete(q)
          \/ ApplyStep(q) \/ ValidateOnboarding(q) \/ CompleteOnboarding(q)
          \/ CancelOnboarding(q) \/ RequestRefused(q)
    \/ ConfigurationChanges

OnboardingSpec == OnboardingInit /\ [][OnboardingNext]_onboardingVars
-----------------------------------------------------------------------------
\* The columns have their values; the steps are completed in their order and
\* the current one is the first that is missing, even where a slower request
\* writes back what an earlier session looked like.
OnboardingTypeOK ==
    /\ session \in [status : OpenSession \cup {"COMPLETED", "CANCELLED"}, completedSteps : SUBSET StepKey,
                   currentStep : StepKey, lastValidation : Finding \cup {"none"}, accepted : BOOLEAN]
    /\ \A s \in session.completedSteps : 1..s \subseteq session.completedSteps
    /\ session.currentStep = frontierStep(session.completedSteps)
    /\ findings \in Finding
    /\ configChanges \in 0..MaxConfigChanges

\* docs/customer-onboarding-guide.md: onboarding is completed only after its
\* validation has no errors.  Whatever requests race, the session never shows
\* itself COMPLETED beside a validation that found an error: the two are
\* written together, from findings of the same moment.
CompletedIsValidated ==
    session.status = "COMPLETED" => session.lastValidation \in {"PASS", "WARNING"}
=============================================================================
