------------------------------ MODULE Discover ------------------------------
(***************************************************************************)
(* AWSDiscoverer.DiscoverTypes: the resources of several types are listed  *)
(* by one goroutine per type under a limit.  A failing type cancels its    *)
(* siblings; under a time budget per type, one that only times out is      *)
(* downgraded to an empty result, and a deadline error is all the code     *)
(* asks for.  Every type that completes is counted (progressBridge)        *)
(* and handed to the caller's callback while the others still run, and the *)
(* passes after the join go on changing the rows that are returned.        *)
(*                                                                         *)
(* A type is its position in the selection.  A request with an unknown     *)
(* type is refused before anything of this starts.  What one listing does  *)
(* with regions, pages and tags is its answer here: some set of rows.      *)
(***************************************************************************)
EXTENDS Naturals, FiniteSets, Caller

CONSTANTS
  NumTypes,      \* the selection
  DiscoverLimit, \* DiscoverTypesConcurrency
  Row,
  TypeOf,        \* the type a row is found under
  VpcChild       \* rows whose VPC only the pass after the join finds out

ASSUME DiscoverAssumption ==
  /\ NumTypes \in Nat \ {0} /\ DiscoverLimit \in Nat \ {0}
  /\ TypeOf \in [Row -> 1..NumTypes]
  /\ VpcChild \subseteq Row

Type == 1..NumTypes

VARIABLES
  phase,       \* "prefetch", "fanout", "augment", "done" or "failed"
  bounded,     \* PerTypeTimeout > 0
  task,        \* the goroutine of each type
  problem,     \* the error its listing returned
  found,       \* results[i]
  completed,   \* the counter of the progress bridge
  seen,        \* the last CompletedTypes its sink was given
  handed,      \* what the callback holds: nothing, a copy, or the rows
  stamped,     \* rows whose NativeIDs got the vpc_id
  spent,       \* history: types that used up their own budget
  downgraded,  \* history: types reported empty for a deadline error
  faulty       \* history: types whose listing failed of itself

discoverVars == <<ctx, phase, bounded, task, problem, found, completed, seen,
                  handed, stamped, spent, downgraded, faulty>>
history == <<spent, downgraded, faulty>>
telling == <<completed, seen, handed>>

DiscoverInit ==
  /\ ContextInit
  /\ phase = "prefetch" /\ bounded \in BOOLEAN
  /\ task = [t \in Type |-> "idle"] /\ problem = [t \in Type |-> "none"]
  /\ found = [t \in Type |-> {}]
  /\ completed = 0 /\ seen = 0
  /\ handed = [t \in Type |-> "nothing"] /\ stamped = {}
  /\ spent = {} /\ downgraded = {} /\ faulty = {}

Rows(t) == {r \in Row : TypeOf[r] = t}

Running == {t \in Type : task[t] \notin {"idle", "ok", "err"}}
Cancelled == ContextOver \/ \E t \in Type : task[t] = "err"
-----------------------------------------------------------------------------
(* The tag prefetch fails only with the context.  Neither it nor the pass   *)
(* after the join is under the per-type budget.                             *)
PrefetchReturns ==
  /\ phase = "prefetch"
  /\ phase' = "fanout"
  /\ UNCHANGED <<ctx, bounded, task, problem, found, telling, stamped, history>>

PrefetchFails ==
  /\ phase = "prefetch" /\ ContextOver
  /\ phase' = "failed"
  /\ UNCHANGED <<ctx, bounded, task, problem, found, telling, stamped, history>>

Goes(t, to) ==
  /\ task' = [task EXCEPT ![t] = to]
  /\ UNCHANGED <<ctx, phase, bounded, stamped>>

(* Fault: a goroutine that returned keeps its slot. *)
SlotLeak == Cardinality({t \in Type : task[t] # "idle"}) < DiscoverLimit
Slot == Cardinality(Running) < DiscoverLimit

(* The loop starts them in the order of the selection; Go waits for a slot. *)
Start(t) ==
  /\ phase = "fanout" /\ task[t] = "idle"
  /\ \A u \in Type : u < t => task[u] # "idle"
  /\ Slot
  /\ Goes(t, "jitter")
  /\ UNCHANGED <<problem, found, telling, history>>

Awake(t) ==
  /\ task[t] = "jitter"
  /\ Goes(t, IF Cancelled THEN "err" ELSE "calling")
  /\ UNCHANGED <<problem, found, telling, history>>

(* The listing answers. *)
Answer(t, R) ==
  /\ task[t] = "calling"
  /\ found' = [found EXCEPT ![t] = R]
  /\ Goes(t, "count")
  /\ UNCHANGED <<problem, telling, history>>

(* It fails of itself; a timeout of its transport is a deadline error too,  *)
(* whatever is left of the budget ...                                       *)
Fails(t) ==
  /\ task[t] = "calling"
  /\ \E e \in {"deadline", "other"} : problem' = [problem EXCEPT ![t] = e]
  /\ faulty' = faulty \cup {t}
  /\ Goes(t, "judge")
  /\ UNCHANGED <<found, telling, spent, downgraded>>

(* ... because its own budget is used up ... *)
Expires(t) ==
  /\ task[t] = "calling" /\ bounded
  /\ problem' = [problem EXCEPT ![t] = "deadline"]
  /\ spent' = spent \cup {t}
  /\ Goes(t, "judge")
  /\ UNCHANGED <<found, telling, downgraded, faulty>>

(* ... or because its context ended: with a deadline error if that is how   *)
(* the caller's ended.                                                      *)
Interrupted(t) ==
  /\ task[t] = "calling" /\ Cancelled
  /\ \E e \in (IF ContextOver THEN {"deadline", "other"} ELSE {"other"}) :
       problem' = [problem EXCEPT ![t] = e]
  /\ Goes(t, "judge")
  /\ UNCHANGED <<found, telling, history>>

(* Fault: any expired deadline is taken for the type's own. *)
AnyDeadline(t) == bounded /\ problem[t] = "deadline"
OwnDeadline(t) == bounded /\ problem[t] = "deadline" /\ ~Cancelled

TellOfNothing == "count"

Downgrade(t) ==
  /\ task[t] = "judge" /\ OwnDeadline(t)
  /\ found' = [found EXCEPT ![t] = {}]
  /\ downgraded' = downgraded \cup {t}
  /\ Goes(t, TellOfNothing)
  /\ UNCHANGED <<problem, telling, spent, faulty>>

GiveUp(t) ==
  /\ task[t] = "judge" /\ ~OwnDeadline(t)
  /\ Goes(t, "err")
  /\ UNCHANGED <<problem, found, telling, history>>
-----------------------------------------------------------------------------
(* Fault: the counter is not locked. *)
NoLock == TRUE
BridgeFree == \A t \in Type : task[t] # "counting"

(* TypeDone: count under the bridge's lock, tell the sink, unlock. *)
Count(t) ==
  /\ task[t] = "count" /\ BridgeFree
  /\ completed' = completed + 1
  /\ Goes(t, "counting")
  /\ UNCHANGED <<problem, found, seen, handed, history>>

TellSink(t) ==
  /\ task[t] = "counting"
  /\ seen' = completed
  /\ Goes(t, "deliver")
  /\ UNCHANGED <<problem, found, completed, handed, history>>

(* Fault: the callback gets the rows themselves. *)
AliasForCallback == "rows"
SnapshotForCallback == "copy"

(* OnTypeDiscovered, under its lock. *)
Deliver(t) ==
  /\ task[t] = "deliver"
  /\ handed' = [handed EXCEPT ![t] = SnapshotForCallback]
  /\ Goes(t, "ok")
  /\ UNCHANGED <<problem, found, completed, seen, history>>
-----------------------------------------------------------------------------
AllReturned == \A t \in Type : task[t] \in {"ok", "err"}

Joined ==
  /\ phase = "fanout" /\ AllReturned
  /\ phase' = IF \E t \in Type : task[t] = "err" THEN "failed" ELSE "augment"
  /\ UNCHANGED <<ctx, bounded, task, problem, found, telling, stamped, history>>

Returned == UNION {found[t] : t \in Type}

(* resolveVPCChildVPCIDs stamps what the describe calls return; an error    *)
(* in them is a warning.                                                    *)
Augment(S) ==
  /\ phase = "augment"
  /\ stamped' = S
  /\ phase' = "done"
  /\ UNCHANGED <<ctx, bounded, task, problem, found, telling, history>>

DiscoverStep ==
  \/ PrefetchReturns \/ PrefetchFails
  \/ \E t \in Type :
       \/ Start(t) \/ Awake(t)
       \/ \E R \in SUBSET Rows(t) : Answer(t, R)
       \/ Fails(t) \/ Expires(t) \/ Interrupted(t)
       \/ Downgrade(t) \/ GiveUp(t)
       \/ Count(t) \/ TellSink(t) \/ Deliver(t)
  \/ Joined
  \/ \E S \in SUBSET (Returned \cap VpcChild) : Augment(S)

DiscoverNext ==
  \/ DiscoverStep
  \/ ContextEnds /\ UNCHANGED <<phase, bounded, task, problem, found, telling, stamped, history>>

(* Fairness: the scheduler runs a goroutine that can run, a budget runs     *)
(* out, and the SDK's calls return once their context has ended.  Nothing   *)
(* makes a call answer.                                                     *)
DiscoverFair ==
  /\ \A t \in Type :
       /\ WF_discoverVars(Start(t)) /\ WF_discoverVars(Awake(t))
       /\ WF_discoverVars(Expires(t)) /\ WF_discoverVars(Interrupted(t))
       /\ WF_discoverVars(Downgrade(t)) /\ WF_discoverVars(GiveUp(t))
       /\ WF_discoverVars(Count(t)) /\ WF_discoverVars(TellSink(t))
       /\ WF_discoverVars(Deliver(t))
  /\ WF_discoverVars(Joined)
  /\ WF_discoverVars(PrefetchFails)
  /\ WF_discoverVars(\E S \in SUBSET (Returned \cap VpcChild) : ContextOver /\ Augment(S))

DiscoverSpec == DiscoverInit /\ [][DiscoverNext]_discoverVars
-----------------------------------------------------------------------------
DiscoverTypeOK ==
  /\ ContextTypeOK
  /\ phase \in {"prefetch", "fanout", "augment", "done", "failed"}
  /\ bounded \in BOOLEAN
  /\ task \in [Type -> {"idle", "jitter", "calling", "judge", "count", "counting",
                        "deliver", "ok", "err"}]
  /\ problem \in [Type -> {"none", "deadline", "other"}]
  /\ found \in [Type -> SUBSET Row]
  /\ completed \in 0..NumTypes /\ seen \in 0..NumTypes
  /\ handed \in [Type -> {"nothing", "copy", "rows"}]
  /\ stamped \subseteq Row
  /\ spent \subseteq Type /\ downgraded \subseteq Type /\ faulty \subseteq Type

(* The progress a caller sees counts 1, 2, 3, ... whatever the goroutines   *)
(* do at the same time: the promise of progressBridge.TypeDone.             *)
ProgressInOrder == [][seen' = seen \/ seen' = seen + 1]_discoverVars

(* When DiscoverTypes returns rows, every type was delivered, the empty and *)
(* the downgraded ones too, and the count reached the total; a type that    *)
(* failed was never delivered, and nothing is delivered after the return.   *)
DeliveriesMatchResults ==
  /\ phase \in {"augment", "done"} =>
       /\ \A t \in Type : handed[t] # "nothing"
       /\ seen = NumTypes
  /\ \A t \in Type : task[t] = "err" => handed[t] = "nothing"
  /\ phase = "failed" => \A t \in Type : task[t] \in {"idle", "ok", "err"}

(* What the callback of a type can read of its rows: the vpc_id of an       *)
(* aliased row appears under its hands.                                     *)
View(t) == IF handed[t] = "rows" THEN stamped \cap found[t] ELSE {}

(* A delivered batch never changes, although the passes after the join      *)
(* write to the rows that were delivered.                                   *)
DeliveriesFrozen ==
  [][\A t \in Type : handed[t] # "nothing" => found'[t] = found[t] /\ View(t)' = View(t)]_discoverVars

(* A type comes back empty without an error only for a timeout of its own,  *)
(* of its budget or of its calls, and only when a budget was set: the end   *)
(* of the caller's context, or a sibling's failure, is never turned into a  *)
(* result that looks complete.                                              *)
OnlyTimeoutsDowngrade ==
  \A t \in Type : t \in downgraded \/ (task[t] = "ok" /\ problem[t] # "none") =>
    /\ bounded /\ problem[t] = "deadline"
    /\ t \in spent \cup faulty

(* The whole discovery fails only for the caller's context or for a type    *)
(* that failed of itself and was not downgraded: no other timeout costs     *)
(* the siblings their results.                                              *)
Culprits == {t \in faulty : task[t] = "err"}
FailureHasACause == phase = "failed" => ContextOver \/ Culprits # {}

(* Rows, callbacks, counts and errors tell the same story of a discovery,   *)
(* whatever times out, fails or is cancelled while others still run.        *)
DiscoveryIsTruthful ==
  DeliveriesMatchResults /\ OnlyTimeoutsDowngrade /\ FailureHasACause

(* The goroutines of a discovery are a bounded group that is joined.        *)
DiscoverGroup == INSTANCE FanOut WITH
  Task <- Type, Limit <- DiscoverLimit,
  todo <- IF phase = "fanout" THEN {t \in Type : task[t] = "idle"} ELSE {},
  active <- Running,
  joined <- phase # "fanout"
DiscoverIsAFanOut == DiscoverGroup!Spec

(* With a budget per type the fan-out ends whatever the listings do: one    *)
(* stalled call does not hold the others' results.                          *)
BudgetEndsTheFanOut == (phase = "fanout" /\ bounded) ~> (phase # "fanout")
=============================================================================
