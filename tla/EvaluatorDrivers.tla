---------------------------- MODULE EvaluatorDrivers ----------------------------
(***************************************************************************)
(* The drivers of one run: continue_evaluation_v22 and the loop it runs    *)
(* (attorney_v22_workflow.py).  Several callers may drive a run at once;   *)
(* each holds a request while its evaluator drafts, and the run may have   *)
(* moved on when it submits.                                               *)
(***************************************************************************)
EXTENDS EvaluatorRun

CONSTANTS
    Drivers,
    ExternalWriter  \* whether strict envelopes are also submitted by hand

ASSUME ExternalWriterAssumption == ExternalWriter \in BOOLEAN

VARIABLES
    pc,         \* where each driver is
    request,    \* the request it holds
    attempt,    \* which draft of the fragment it asked for
    draft,      \* the compiled answer, as a sequence of at most one
    outcome     \* what its last invocation returned

driverVars == <<pc, request, attempt, draft, outcome>>
vars == <<runVars, driverVars>>

PauseReasons == {"CLARIFICATION_EXHAUSTED", "COMPILER_INVARIANT",
                 "COMPILER_PREFLIGHT_DISAGREEMENT", "DRAFT_LIMIT_EXCEEDED"}
NoDraft == <<>>

Returned(kind, reason, exitCode) ==
    [kind |-> kind, reason |-> reason, exitCode |-> exitCode,
     pendingRequest |-> NoCall, currentCall |-> NoCall]
NoOutcome == Returned("none", "none", 0)

Init ==
    /\ RunInit
    /\ pc = [d \in Drivers |-> "idle"]
    /\ request = [d \in Drivers |-> NoCall]
    /\ attempt = [d \in Drivers |-> 1]
    /\ draft = [d \in Drivers |-> NoDraft]
    /\ outcome = [d \in Drivers |-> NoOutcome]

Goto(d, where) == pc' = [pc EXCEPT ![d] = where]

Return(d, value) ==
    /\ Goto(d, "idle")
    /\ outcome' = [outcome EXCEPT ![d] = value]
    /\ request' = [request EXCEPT ![d] = NoCall]
    /\ attempt' = [attempt EXCEPT ![d] = 1]
    /\ draft' = [draft EXCEPT ![d] = NoDraft]

(* A pause is prepared: the reason is known, the state is still to be read. *)
Pausing(d, reason) ==
    /\ Goto(d, "pause")
    /\ outcome' = [outcome EXCEPT ![d] = Returned("none", reason, 6)]
    /\ UNCHANGED <<request, attempt, draft>>

(***************************************************************************)
(* The drafts of an evaluator, which the compiler turns into an answer it  *)
(* can check against the request alone: one fragment without conflict,     *)
(* dependencies and targets among the proposals the request lists.  For a  *)
(* request that is no longer pending the list is older than proposals; its *)
(* answer is refused whatever it holds.                                    *)
(***************************************************************************)
Known(p) ==
    \/ p = NoProposal
    \/ Dependency[p] = NoStatement
    \/ \E t \in DOMAIN proposals : Statement[proposals[t]] = Dependency[p]

Compiled(call) ==
    {a \in Answers(call) :
        /\ call.operation = "source_review_fragment" =>
            /\ ProposalsDistinct(a.items)
            /\ \A k \in DOMAIN a.items : Known(a.items[k])
        /\ call.operation = "source_audit_fragment" =>
            /\ ConcernsDistinct(a.items)
            /\ \A k \in DOMAIN a.items :
                a.items[k].target <= Len(proposals) /\ Known(a.items[k].correction)}

(***************************************************************************)
(* The steps of one invocation.                                            *)
(***************************************************************************)
Continue(d) ==
    /\ pc[d] = "idle"
    /\ Goto(d, "load")
    /\ outcome' = [outcome EXCEPT ![d] = NoOutcome]
    /\ UNCHANGED <<runVars, request, attempt, draft>>

(* _completed_driver_outcome_v22 *)
ExitCode ==
    IF result.status = "INCONCLUSIVE" THEN 3
    ELSE IF \E l \in DOMAIN sensitivities : sensitivities[l].disposition = "FAIL" THEN 4
    ELSE 0

(* The loop condition and next_evaluator_request_v22; the run moves only
   forward, so a run that ends between the two reads is seen as ended. *)
Load(d) ==
    /\ pc[d] = "load"
    /\ IF Ended
       THEN Return(d, Returned("completed", "none", ExitCode))
       ELSE /\ request' = [request EXCEPT ![d] = pending]
            /\ attempt' = [attempt EXCEPT ![d] = 1]
            /\ Goto(d, "draft")
            /\ UNCHANGED <<draft, outcome>>
    /\ UNCHANGED runVars

DraftUnclearThrice(d) ==
    /\ pc[d] = "draft"
    /\ IF attempt[d] < 3
       THEN /\ attempt' = [attempt EXCEPT ![d] = @ + 1]
            /\ UNCHANGED <<pc, request, draft, outcome>>
       ELSE Pausing(d, "CLARIFICATION_EXHAUSTED")
    /\ UNCHANGED runVars

(* The compiler asks for one clarification of a fragment. *)
DraftUnclear(d) ==
    /\ pc[d] = "draft"
    /\ IF attempt[d] = 1
       THEN /\ attempt' = [attempt EXCEPT ![d] = 2]
            /\ UNCHANGED <<pc, request, draft, outcome>>
       ELSE Pausing(d, "CLARIFICATION_EXHAUSTED")
    /\ UNCHANGED runVars

DraftDefective(d) ==
    /\ pc[d] = "draft"
    /\ Pausing(d, "COMPILER_INVARIANT")
    /\ UNCHANGED runVars

DraftCompiled(d) ==
    /\ pc[d] = "draft"
    /\ \E a \in Compiled(request[d]) : draft' = [draft EXCEPT ![d] = <<a>>]
    /\ Goto(d, "submit")
    /\ UNCHANGED <<runVars, request, attempt, outcome>>

(* guarded_submit_evaluator_response_v22, and what the driver makes of it:
   only DRAFT_LIMIT_EXCEEDED is caught, another error leaves the driver. *)
SubmitDraft(d) ==
    /\ pc[d] = "submit"
    /\ \/ /\ Refused(request[d], Head(draft[d]))
          /\ Goto(d, "recheck")
          /\ UNCHANGED <<runVars, request, attempt, draft, outcome>>
       \/ /\ ~Refused(request[d], Head(draft[d]))
          /\ LimitExceeded(request[d], Head(draft[d]))
          /\ Pausing(d, "DRAFT_LIMIT_EXCEEDED")
          /\ UNCHANGED runVars
       \/ /\ ~Refused(request[d], Head(draft[d]))
          /\ CompilerRaises(request[d], Head(draft[d]))
          /\ Return(d, Returned("raised", "none", 0))
          /\ UNCHANGED runVars
       \/ /\ Accepts(request[d], Head(draft[d]))
          /\ Advance(Head(draft[d]))
          /\ Goto(d, "load")
          /\ request' = [request EXCEPT ![d] = NoCall]
          /\ draft' = [draft EXCEPT ![d] = NoDraft]
          /\ UNCHANGED <<attempt, outcome>>

RecheckBlames(d) ==
    /\ pc[d] = "recheck"
    /\ Pausing(d, "COMPILER_PREFLIGHT_DISAGREEMENT")
    /\ UNCHANGED runVars

RecheckRetries(d) ==
    /\ pc[d] = "recheck"
    /\ Goto(d, "load")
    /\ request' = [request EXCEPT ![d] = NoCall]
    /\ draft' = [draft EXCEPT ![d] = NoDraft]
    /\ UNCHANGED <<runVars, attempt, outcome>>

(* _outcome_after_stale_request: under the guard again, the driver learns
   whether its request was answered by another caller. *)
Recheck(d) ==
    /\ pc[d] = "recheck"
    /\ IF pending = request[d]
       THEN Pausing(d, "COMPILER_PREFLIGHT_DISAGREEMENT")
       ELSE /\ Goto(d, "load")
            /\ request' = [request EXCEPT ![d] = NoCall]
            /\ draft' = [draft EXCEPT ![d] = NoDraft]
            /\ UNCHANGED <<attempt, outcome>>
    /\ UNCHANGED runVars

(* _pause_outcome: the state is read now, the request is the one held. *)
Pause(d) ==
    /\ pc[d] = "pause"
    /\ Return(d, [Returned("paused", outcome[d].reason, 6) EXCEPT
                    !.pendingRequest = request[d], !.currentCall = pending])
    /\ UNCHANGED runVars

(* The evaluator raises, the task is cancelled or the process dies. *)
Interrupt(d) ==
    /\ pc[d] # "idle"
    /\ Return(d, NoOutcome)
    /\ UNCHANGED runVars

SubmitByHand ==
    /\ ExternalWriter
    /\ RunNext
    /\ UNCHANGED driverVars

DriverStep(d) ==
    \/ Load(d)
    \/ DraftUnclear(d) \/ DraftDefective(d) \/ DraftCompiled(d)
    \/ SubmitDraft(d) \/ Recheck(d) \/ Pause(d)

Next ==
    \/ \E d \in Drivers : Continue(d) \/ DriverStep(d) \/ Interrupt(d)
    \/ SubmitByHand

Spec == Init /\ [][Next]_vars

(* Evaluators answer: an invocation under way is never left standing. *)
FairSpec == Spec /\ \A d \in Drivers : WF_vars(DriverStep(d))

(***************************************************************************)
(* Properties.                                                             *)
(***************************************************************************)
TypeOK ==
    /\ RunTypeOK
    /\ pc \in [Drivers -> {"idle", "load", "draft", "submit", "recheck", "pause"}]
    /\ request \in [Drivers -> Calls]
    /\ attempt \in [Drivers -> {1, 2}]
    /\ \A d \in Drivers :
        pc[d] \in {"submit", "recheck"} => Head(draft[d]) \in Answers(request[d])
    /\ \A d \in Drivers :
        /\ outcome[d].kind \in {"none", "completed", "paused", "raised"}
        /\ outcome[d].reason \in PauseReasons \cup {"none"}
        /\ outcome[d].exitCode \in {0, 3, 4, 6}

(* A draft made for a request that another caller has answered meanwhile
   changes nothing in the run. *)
StaleDraftChangesNothing ==
    [][\A d \in Drivers :
        (pc[d] = "submit" /\ pc'[d] # "submit" /\ request[d] # pending) => UNCHANGED runVars]_vars

(* A driver reports that its compiler and the preflight disagree only if
   they do: what it drafted for the pending request is refused, and it did
   not merely lose a race. *)
DisagreementIsReal ==
    [][\A d \in Drivers :
        (pc[d] = "recheck" /\ pc'[d] = "pause") =>
            pending = request[d] /\ ~Preflight(request[d], Head(draft[d]))]_vars

(* Every invocation returns: each turn of the loop is paid for by a call
   that some caller got accepted, and a run has finitely many. *)
InvocationReturns ==
    \A d \in Drivers : pc[d] # "idle" ~> pc[d] = "idle"
================================================================================
