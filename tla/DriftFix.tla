------------------------------ MODULE DriftFix ------------------------------
(***************************************************************************)
(* The drift-convergence loop of cmd/insideout-import/driftfix: plan one   *)
(* Terraform stack, drop the attributes the plan wants to change from      *)
(* generated.tf, move those that come back to lifecycle.ignore_changes,    *)
(* plan again, until a plan has nothing left to do.                        *)
(*                                                                         *)
(* A drift is a set of (resource address, top-level attribute) pairs.      *)
(* generated.tf is abstracted to the pairs it still assigns (`present')    *)
(* and the pairs its ignore_changes lists name (`ignored').  Terraform is  *)
(* the environment: when the cloud is not steady, every plan may report    *)
(* any drift a changing cloud could cause; when it is, the drift is the    *)
(* one that the file and each attribute's kind determine.                  *)
(***************************************************************************)
EXTENDS Naturals

CONSTANTS
  Pair,           \* the (address, attribute) pairs of the stack
  MaxIterations   \* Options.MaxIterations after its default

ASSUME DriftFixAssumption == MaxIterations \in Nat \ {0}

(***************************************************************************)
(* What Terraform does with an attribute: never drifts; drifts while the   *)
(* file assigns it; drifts until it is ignored (a CREATE-only attribute    *)
(* with a schema default); cannot be dropped; drifts whatever the file     *)
(* says, ignore_changes included; or sits at an address that no two-label  *)
(* resource block of the file has, so no patch reaches it.                 *)
(***************************************************************************)
Kind == {"clean", "default", "createOnly", "required", "stuck", "unreachable"}

VARIABLES
  kind,       \* the kind of each pair (environment)
  steady,     \* the cloud does not change between two plans (environment)
  present,    \* pairs assigned in generated.tf
  ignored,    \* pairs named by an ignore_changes list of generated.tf
  pc,         \* "plan", "patch", "validate" or "done"
  iter,       \* the loop counter
  plan,       \* classifyPlan of the last plan
  prevDrift,  \* the drift of the iteration before; NoDrift is Go's nil
  escalated,  \* alreadyEscalated
  outcome,    \* how runStack returned
  dropped,    \* history: pairs some applyDriftPatches call named
  plannedOn   \* history: the file the last plan was made from

file == <<present, ignored>>
vars == <<kind, steady, present, ignored, pc, iter, plan, prevDrift, escalated,
          outcome, dropped, plannedOn>>

NoDrift == [nil |-> TRUE]
Drift(D) == [nil |-> FALSE, pairs |-> D]
Plan == [drift: SUBSET Pair, create: BOOLEAN, fatal: BOOLEAN]
NoChanges == [drift |-> {}, create |-> FALSE, fatal |-> FALSE]

Unreachable == {p \in Pair : kind[p] = "unreachable"}

(* What drifts after both patches, as long as the cloud holds still. *)
Hopeless == Unreachable \cup {p \in Pair : kind[p] = "stuck"}

(* classifyPlan keeps the changes that are not no-ops. *)
Actionable(pl) == pl.drift # {} \/ pl.create \/ pl.fatal

(* classificationFatal. *)
Fatal(pl) == pl.fatal

(***************************************************************************)
(* The drifts a plan may report.  The loop trusts neither patch: a dropped *)
(* pair may come back, and so may an ignored one.                          *)
(***************************************************************************)
SteadyDrift ==
  Hopeless \cup
  {p \in Pair \ ignored : \/ kind[p] \in {"default", "required"} /\ p \in present
                          \/ kind[p] = "createOnly"}

PlannedDrifts == IF steady THEN {SteadyDrift} ELSE SUBSET Pair

Plans == [drift: PlannedDrifts,
          create: IF steady THEN {FALSE} ELSE BOOLEAN,
          fatal: IF steady THEN {FALSE} ELSE BOOLEAN]

Valid == {p \in Pair : kind[p] = "required"} \subseteq present
-----------------------------------------------------------------------------
Init ==
  /\ kind \in [Pair -> Kind]
  /\ steady \in BOOLEAN
  /\ present = Pair
  /\ ignored = {}
  /\ pc = "plan"
  /\ iter = 1
  /\ plan = NoChanges
  /\ prevDrift = NoDrift
  /\ escalated = {}
  /\ outcome = "running"
  /\ dropped = {}
  /\ plannedOn = file

Return(o) ==
  /\ outcome' = o
  /\ pc' = "done"

(* PlanTo, ShowPlan and classifyPlan, with the returns between them. *)
PlanStack ==
  /\ pc = "plan"
  /\ plan' \in Plans
  /\ plannedOn' = file
  /\ \/ ~Actionable(plan') /\ Return("converged")
     \/ Fatal(plan') /\ Return("fatal")
     \/ /\ Actionable(plan') /\ ~Fatal(plan')
        /\ pc' = "patch"
        /\ UNCHANGED outcome
  /\ UNCHANGED <<kind, steady, present, ignored, iter, prevDrift, escalated,
                 dropped>>

(* A command or a file operation fails (or the context is cancelled). *)
StepFails ==
  /\ ~steady
  /\ pc \in {"plan", "patch"}
  /\ Return("error")
  /\ UNCHANGED <<kind, steady, present, ignored, iter, plan, prevDrift,
                 escalated, dropped, plannedOn>>

(* Faults: any second iteration counts as a recurrence; none does. *)
AnyDriftRecurs == iter > 1
NoDriftRecurs == FALSE
(* The stability test: the same drift in two consecutive iterations. *)
DriftRecurs == iter > 1 /\ prevDrift = Drift(plan.drift)

(* Fault: the first recurrence is fatal. *)
FirstRecurrenceGivesUp == TRUE
(* everyDriftAttrAlreadyEscalated; an empty drift qualifies. *)
EveryDriftAttrAlreadyEscalated == plan.drift \subseteq escalated

(* applyDriftPatches and the write of generated.tf. *)
DropDrift ==
  /\ pc = "patch"
  /\ ~DriftRecurs
  /\ present' = present \ (plan.drift \ Unreachable)
  /\ dropped' = dropped \cup plan.drift
  /\ prevDrift' = Drift(plan.drift)
  /\ pc' = "validate"
  /\ UNCHANGED <<kind, steady, ignored, iter, plan, escalated, outcome,
                 plannedOn>>

(* applyIgnoreChangesEscalation, the write, and markEscalated. *)
Escalate ==
  /\ pc = "patch"
  /\ DriftRecurs
  /\ ~EveryDriftAttrAlreadyEscalated
  /\ ignored' = ignored \cup (plan.drift \ Unreachable)
  /\ escalated' = escalated \cup plan.drift
  /\ prevDrift' = Drift(plan.drift)
  /\ pc' = "validate"
  /\ UNCHANGED <<kind, steady, present, iter, plan, outcome, dropped,
                 plannedOn>>

(* errStableUnresolved. *)
GiveUp ==
  /\ pc = "patch"
  /\ DriftRecurs
  /\ EveryDriftAttrAlreadyEscalated
  /\ Return("stable")
  /\ UNCHANGED <<kind, steady, present, ignored, iter, plan, prevDrift,
                 escalated, dropped, plannedOn>>

(* Faults: the last patch is trusted without a plan; the loop counter
   stands still. *)
TrustLastPatch ==
  IF iter < MaxIterations
  THEN iter' = iter + 1 /\ pc' = "plan" /\ UNCHANGED outcome
  ELSE Return("converged") /\ UNCHANGED iter
IterateForever == pc' = "plan" /\ UNCHANGED <<iter, outcome>>
(* The head of the for loop. *)
NextIteration ==
  IF iter < MaxIterations
  THEN iter' = iter + 1 /\ pc' = "plan" /\ UNCHANGED outcome
  ELSE Return("exhausted") /\ UNCHANGED iter

(* The validate call that ends an iteration; a failing one is returned. *)
Validate ==
  /\ pc = "validate"
  /\ \/ /\ ~steady \/ ~Valid
        /\ Return("invalid")
        /\ UNCHANGED iter
     \/ /\ ~steady \/ Valid
        /\ NextIteration
  /\ UNCHANGED <<kind, steady, present, ignored, plan, prevDrift, escalated,
                 dropped, plannedOn>>

Next == PlanStack \/ StepFails \/ DropDrift \/ Escalate \/ GiveUp \/ Validate

Spec == Init /\ [][Next]_vars
FairSpec == Spec /\ WF_vars(Next)
-----------------------------------------------------------------------------
Outcome == {"running", "converged", "fatal", "error", "stable", "invalid",
            "exhausted"}

(* Every variable stays in its range. *)
TypeOK ==
  /\ kind \in [Pair -> Kind]
  /\ steady \in BOOLEAN
  /\ present \in SUBSET Pair
  /\ ignored \in SUBSET Pair
  /\ pc \in {"plan", "patch", "validate", "done"}
  /\ iter \in 1..MaxIterations
  /\ plan \in Plan
  /\ prevDrift \in {NoDrift} \cup [nil: {FALSE}, pairs: SUBSET Pair]
  /\ escalated \in SUBSET Pair
  /\ outcome \in Outcome
  /\ dropped \in SUBSET Pair
  /\ plannedOn \in (SUBSET Pair) \X (SUBSET Pair)

(* A stack is reported converged only when the generated.tf on disk is the  *)
(* one the last plan read: no patch is ever left unplanned.                 *)
ConvergedFileWasPlanned ==
  outcome = "converged" => plannedOn = file /\ ~Actionable(plan)

(* ignore_changes hides drift from every later plan, so it is the second    *)
(* resort: no pair enters it that an earlier iteration did not try to drop. *)
DropComesBeforeIgnore == escalated \subseteq dropped

(* The loop gives a drift up as stable only as the last resort: it dropped  *)
(* and it ignored every pair of the drift, and the file that Terraform      *)
(* planned last holds both patches wherever a patch reaches.  On a cloud    *)
(* that holds still, what it gives up on is all that neither patch cures.   *)
GivesUpAsTheLastResort ==
  outcome = "stable" =>
    /\ plan.drift \subseteq dropped \cap escalated
    /\ plan.drift \ Unreachable \subseteq ignored \ present
    /\ plannedOn = file
    /\ steady => plan.drift = Hopeless

(* generated.tf is never rewritten on the strength of a plan that replaces  *)
(* or deletes a resource.                                                   *)
NoWriteUnderFatalPlan == [][file' # file => ~plan.fatal]_vars

(* Each escalation puts at least one pair into ignore_changes for the first *)
(* time, so escalations cannot alternate for ever.                          *)
EscalationProgresses ==
  [][Escalate => escalated \subseteq escalated' /\ escalated # escalated']_vars

(* The strengthening of the three invariants that the loop preserves: what  *)
(* the last iteration drifted on was dropped, each patch is in the file     *)
(* wherever it reaches, and a plan is patched before the file changes.      *)
LoopInv ==
  /\ prevDrift # NoDrift => prevDrift.pairs \subseteq dropped
  /\ DropComesBeforeIgnore
  /\ dropped \ Unreachable \subseteq Pair \ present
  /\ escalated \ Unreachable \subseteq ignored
  /\ pc = "patch" => plannedOn = file
  /\ pc = "patch" /\ steady => plan.drift = SteadyDrift
  /\ outcome # "running" => pc = "done"
  /\ ConvergedFileWasPlanned
  /\ GivesUpAsTheLastResort

(* With a cloud that holds still and attributes that can be dropped or      *)
(* ignored, the loop converges: the default bound of five is enough.        *)
Patchable == \A p \in Pair : kind[p] \in {"clean", "default", "createOnly"}
SteadyConverges == steady /\ Patchable ~> outcome = "converged"

(* Whatever Terraform answers, the loop returns.                            *)
Returns == <>(pc = "done")
=============================================================================
