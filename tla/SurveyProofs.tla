---------------------------- MODULE SurveyProofs ----------------------------
(***************************************************************************)
(* Proofs about a survey, for every selection, batch, limit and retry      *)
(* budget: of a discovery by itself, of an enrichment by itself, and of    *)
(* the two together, each of which implements a bounded group (FanOut).    *)
(***************************************************************************)
EXTENDS Survey, FiniteSetTheorems, WellFoundedInduction, TLAPS

TaskStates == {"idle", "jitter", "calling", "judge", "count", "counting", "deliver", "ok", "err"}

(* Types the bridge has counted, and whose callers were told the count. *)
Counted == {t \in Type : task[t] \in {"counting", "deliver", "ok"}}

DiscoverTypes ==
  /\ ContextTypeOK
  /\ phase \in {"prefetch", "fanout", "augment", "done", "failed"}
  /\ bounded \in BOOLEAN
  /\ task \in [Type -> TaskStates]
  /\ problem \in [Type -> {"none", "deadline", "other"}]
  /\ found \in [Type -> SUBSET Row]
  /\ handed \in [Type -> {"nothing", "copy"}]
  /\ stamped \subseteq Row
  /\ spent \subseteq Type /\ downgraded \subseteq Type /\ faulty \subseteq Type

(* The counter is the number of the types counted, and the sink lags behind *)
(* it only while the one goroutine under the lock is telling it.            *)
Progress ==
  /\ completed = Cardinality(Counted)
  /\ \A t, u \in Type : task[t] = "counting" /\ task[u] = "counting" => t = u
  /\ IF \E t \in Type : task[t] = "counting" THEN completed = seen + 1 ELSE seen = completed
  /\ seen \in Nat

(* Where a type is says what is known of its listing. *)
Careers ==
  \A t \in Type :
    /\ (handed[t] # "nothing") = (task[t] = "ok")
    /\ task[t] \in {"idle", "jitter", "calling"} => problem[t] = "none"
    /\ task[t] = "judge" => problem[t] # "none"
    /\ task[t] \in {"count", "counting", "deliver", "ok"} /\ problem[t] # "none" => t \in downgraded
    /\ problem[t] = "deadline" => ContextOver \/ (bounded /\ t \in spent) \/ t \in faulty
    /\ problem[t] = "other" => ContextOver \/ t \in faulty \/ Culprits # {}
    /\ t \in downgraded => /\ bounded /\ problem[t] = "deadline" /\ t \in spent \cup faulty
                           /\ found[t] = {} /\ task[t] \in {"count", "counting", "deliver", "ok"}
    /\ task[t] = "err" => ContextOver \/ Culprits # {}

(* A discovery is in no phase early. *)
Phases ==
  /\ phase = "prefetch" => \A t \in Type : task[t] = "idle"
  /\ phase \in {"augment", "done"} => \A t \in Type : task[t] = "ok"
  /\ phase = "failed" => /\ \A t \in Type : task[t] \in {"idle", "ok", "err"}
                         /\ ContextOver \/ \E t \in Type : task[t] = "err"

DiscoverInv == DiscoverTypes /\ Progress /\ Careers /\ Phases
-----------------------------------------------------------------------------
(* The steps of one type, and the steps that change no task. *)
TypeStep(t) ==
  \/ Start(t) \/ Awake(t)
  \/ \E R \in SUBSET Rows(t) : Answer(t, R)
  \/ Fails(t) \/ Expires(t) \/ Interrupted(t)
  \/ Downgrade(t) \/ GiveUp(t)
  \/ Count(t) \/ TellSink(t) \/ Deliver(t)

Outside ==
  \/ PrefetchReturns \/ PrefetchFails \/ Joined
  \/ \E S \in SUBSET (Returned \cap VpcChild) : Augment(S)
  \/ ContextEnds /\ UNCHANGED <<phase, bounded, task, problem, found, telling, stamped, history>>
  \/ UNCHANGED discoverVars

LEMMA DiscoverSplit ==
  ASSUME [DiscoverNext]_discoverVars
  PROVE  Outside \/ \E t \in Type : TypeStep(t)
BY DEF DiscoverNext, DiscoverStep, Outside, TypeStep

LEMMA OutsideTouchesNoTask ==
  ASSUME Outside
  PROVE  /\ UNCHANGED <<bounded, task, problem, found, telling, history>>
         /\ ContextOver => ContextOver'
BY DEF Outside, PrefetchReturns, PrefetchFails, Joined, Augment, ContextEnds, ContextOver,
       discoverVars, telling, history

LEMMA TypesFinite == IsFiniteSet(Type) /\ Cardinality(Type) = NumTypes
BY DiscoverAssumption, FS_Interval DEF Type

LEMMA CountedFinite == IsFiniteSet(Counted) /\ Cardinality(Counted) \in Nat
BY TypesFinite, FS_Subset, FS_CardinalityType DEF Counted

LEMMA DiscoverTypesStep ==
  ASSUME DiscoverTypes, [DiscoverNext]_discoverVars
  PROVE  DiscoverTypes'
<1> USE DEF DiscoverTypes, ContextTypeOK
<1>1. CASE Outside
    <2>1. Returned \subseteq Row
        BY DEF Returned
    <2>2. UNCHANGED <<bounded, task, problem, found, telling, history>>
        BY <1>1, OutsideTouchesNoTask
    <2> QED
        BY <1>1, <2>1, <2>2
           DEF Outside, PrefetchReturns, PrefetchFails, Joined, Augment, ContextEnds, discoverVars,
               telling, history
<1>2. ASSUME NEW t \in Type, TypeStep(t) PROVE DiscoverTypes'
    <2> USE DEF Goes, TaskStates, telling, history
    <2>1. CASE Start(t) \/ Awake(t) \/ GiveUp(t)
        BY <2>1 DEF Start, Awake, GiveUp
    <2>2. ASSUME NEW R \in SUBSET Rows(t), Answer(t, R) PROVE DiscoverTypes'
        BY <2>2 DEF Answer, Rows
    <2>3. CASE Fails(t) \/ Expires(t) \/ Downgrade(t)
        BY <2>3 DEF Fails, Expires, Downgrade, TellOfNothing
    <2>4. CASE Interrupted(t)
        BY <2>4 DEF Interrupted
    <2>5. CASE Count(t) \/ TellSink(t) \/ Deliver(t)
        BY <2>5 DEF Count, TellSink, Deliver, SnapshotForCallback
    <2> QED BY <1>2, <2>1, <2>2, <2>3, <2>4, <2>5 DEF TypeStep
<1> QED BY <1>1, <1>2, DiscoverSplit

LEMMA ProgressStep ==
  ASSUME DiscoverTypes, Progress, [DiscoverNext]_discoverVars
  PROVE  Progress'
<1> USE DEF Progress
<1>1. ASSUME UNCHANGED <<task, completed, seen>> PROVE Progress'
    BY <1>1 DEF Counted
<1>2. CASE Outside
    BY <1>1, <1>2, OutsideTouchesNoTask DEF telling
<1>3. ASSUME NEW t \in Type, NEW to \in TaskStates \ {"counting", "deliver", "ok"},
             task[t] \notin {"counting", "deliver", "ok"},
             task' = [task EXCEPT ![t] = to], UNCHANGED <<completed, seen>>
      PROVE  Progress'
    <2>1. Counted' = Counted
        BY <1>3 DEF Counted, DiscoverTypes
    <2>2. \A u \in Type : (task'[u] = "counting") = (task[u] = "counting")
        BY <1>3 DEF DiscoverTypes
    <2> QED BY <1>3, <2>1, <2>2
<1>4. ASSUME NEW t \in Type,
             \/ Start(t) \/ Awake(t) \/ GiveUp(t) \/ \E R \in SUBSET Rows(t) : Answer(t, R)
             \/ Fails(t) \/ Expires(t) \/ Interrupted(t) \/ Downgrade(t)
      PROVE  Progress'
    <2>1. /\ \E to \in TaskStates \ {"counting", "deliver", "ok"} : task' = [task EXCEPT ![t] = to]
          /\ task[t] \notin {"counting", "deliver", "ok"}
        BY <1>4 DEF Start, Awake, GiveUp, Answer, Fails, Expires, Interrupted, Downgrade, Goes,
                    TellOfNothing, TaskStates
    <2>2. UNCHANGED <<completed, seen>>
        BY <1>4 DEF Start, Awake, GiveUp, Answer, Fails, Expires, Interrupted, Downgrade, telling
    <2> QED BY <1>3, <2>1, <2>2
<1>5. ASSUME NEW t \in Type, Count(t) PROVE Progress'
    <2>1. Counted' = Counted \cup {t} /\ t \notin Counted
        BY <1>5 DEF Count, Goes, Counted, DiscoverTypes
    <2>2. Cardinality(Counted') = Cardinality(Counted) + 1
        BY <2>1, CountedFinite, FS_AddElement
    <2>3. \A u \in Type : (task'[u] = "counting") = (u = t)
        BY <1>5 DEF Count, Goes, BridgeFree, DiscoverTypes
    <2> QED BY <1>5, <2>2, <2>3 DEF Count, BridgeFree
<1>6. ASSUME NEW t \in Type, TellSink(t) PROVE Progress'
    <2>1. Counted' = Counted
        BY <1>6 DEF TellSink, Goes, Counted, DiscoverTypes
    <2>2. \A u \in Type : task'[u] # "counting"
        BY <1>6 DEF TellSink, Goes, DiscoverTypes
    <2> QED BY <1>6, <2>1, <2>2 DEF TellSink
<1>7. ASSUME NEW t \in Type, Deliver(t) PROVE Progress'
    <2>1. Counted' = Counted
        BY <1>7 DEF Deliver, Goes, Counted, DiscoverTypes
    <2>2. \A u \in Type : (task'[u] = "counting") = (task[u] = "counting")
        BY <1>7 DEF Deliver, Goes, DiscoverTypes
    <2> QED BY <1>7, <2>1, <2>2 DEF Deliver
<1> QED BY <1>2, <1>4, <1>5, <1>6, <1>7, DiscoverSplit DEF TypeStep

(* What a step of a type leaves of the others. *)
LEMMA OthersUntouched ==
  ASSUME DiscoverTypes, NEW t \in Type, TypeStep(t)
  PROVE  /\ \A u \in Type \ {t} : task'[u] = task[u] /\ problem'[u] = problem[u]
                                   /\ found'[u] = found[u] /\ handed'[u] = handed[u]
         /\ spent \subseteq spent' /\ downgraded \subseteq downgraded' /\ faulty \subseteq faulty'
         /\ downgraded' \subseteq downgraded \cup {t}
         /\ UNCHANGED <<ctx, phase, bounded, stamped>>
<1> USE DEF DiscoverTypes, Goes, telling, history
<1>1. ASSUME NEW R \in SUBSET Rows(t), Answer(t, R)
      PROVE  found' = [found EXCEPT ![t] = R]
    BY <1>1 DEF Answer
<1> QED
    BY <1>1 DEF TypeStep, Start, Awake, GiveUp, Answer, Fails, Expires, Interrupted, Downgrade,
                Count, TellSink, Deliver

(* Who failed the discovery stays known. *)
LEMMA CulpritsStay ==
  ASSUME DiscoverTypes, NEW t \in Type, TypeStep(t)
  PROVE  Culprits \subseteq Culprits'
<1>1. task[t] # "err"
    BY DEF TypeStep, Start, Awake, Answer, Fails, Expires, Interrupted, Downgrade, GiveUp, Count,
           TellSink, Deliver
<1>2. faulty \subseteq Type
    BY DEF DiscoverTypes
<1> QED BY <1>1, <1>2, OthersUntouched DEF Culprits

(* What is known of one type. *)
Career(t) ==
  /\ (handed[t] # "nothing") = (task[t] = "ok")
  /\ task[t] \in {"idle", "jitter", "calling"} => problem[t] = "none"
  /\ task[t] = "judge" => problem[t] # "none"
  /\ task[t] \in {"count", "counting", "deliver", "ok"} /\ problem[t] # "none" => t \in downgraded
  /\ problem[t] = "deadline" => ContextOver \/ (bounded /\ t \in spent) \/ t \in faulty
  /\ problem[t] = "other" => ContextOver \/ t \in faulty \/ Culprits # {}
  /\ t \in downgraded => /\ bounded /\ problem[t] = "deadline" /\ t \in spent \cup faulty
                         /\ found[t] = {} /\ task[t] \in {"count", "counting", "deliver", "ok"}
  /\ task[t] = "err" => ContextOver \/ Culprits # {}

LEMMA CancelledHasACause ==
  ASSUME \A t \in Type : Career(t), Cancelled
  PROVE  ContextOver \/ Culprits # {}
BY DEF Career, Cancelled

LEMMA CareerStep ==
  ASSUME DiscoverTypes, \A u \in Type : Career(u), NEW t \in Type, TypeStep(t)
  PROVE  Career(t)'
<1> USE DEF DiscoverTypes, Goes, telling, history, Career
<1>0. /\ \A to : task' = [task EXCEPT ![t] = to] => task'[t] = to
      /\ ContextOver' = ContextOver
      /\ Culprits # {} => Culprits' # {}
    BY OthersUntouched, CulpritsStay DEF ContextOver
<1>1. CASE Start(t)
    BY <1>0, <1>1 DEF Start
<1>2. CASE Awake(t)
    BY <1>0, <1>2, CancelledHasACause DEF Awake
<1>3. ASSUME NEW R \in SUBSET Rows(t), Answer(t, R) PROVE Career(t)'
    BY <1>0, <1>3 DEF Answer
<1>4. CASE Fails(t)
    <2>1. PICK e \in {"deadline", "other"} : problem' = [problem EXCEPT ![t] = e]
        BY <1>4 DEF Fails
    <2>2. problem'[t] = e
        BY <2>1
    <2> QED BY <1>0, <1>4, <2>2 DEF Fails
<1>5. CASE Expires(t)
    BY <1>0, <1>5 DEF Expires
<1>6. CASE Interrupted(t)
    <2>1. PICK e \in (IF ContextOver THEN {"deadline", "other"} ELSE {"other"}) :
            problem' = [problem EXCEPT ![t] = e]
        BY <1>6 DEF Interrupted
    <2>2. problem'[t] = e
        BY <2>1
    <2> QED BY <1>0, <1>6, <2>1, <2>2, CancelledHasACause DEF Interrupted
<1>7. CASE Downgrade(t)
    BY <1>0, <1>7 DEF Downgrade, OwnDeadline, TellOfNothing, Cancelled
<1>8. CASE GiveUp(t)
    <2>1. task'[t] = "err" /\ faulty' = faulty /\ task[t] = "judge" /\ ~OwnDeadline(t)
        BY <1>0, <1>8 DEF GiveUp
    <2>2. ContextOver \/ Culprits # {} \/ t \in faulty
        BY <2>1, CancelledHasACause DEF OwnDeadline
    <2>3. t \in faulty => Culprits' # {}
        BY <2>1 DEF Culprits
    <2> QED BY <1>0, <1>8, <2>1, <2>2, <2>3 DEF GiveUp
<1>9. CASE Count(t)
    BY <1>0, <1>9 DEF Count
<1>10. CASE TellSink(t)
    BY <1>0, <1>10 DEF TellSink
<1>11. CASE Deliver(t)
    BY <1>0, <1>11 DEF Deliver, SnapshotForCallback
<1> QED
    BY <1>1, <1>2, <1>3, <1>4, <1>5, <1>6, <1>7, <1>8, <1>9, <1>10, <1>11 DEF TypeStep

LEMMA CareersStep ==
  ASSUME DiscoverTypes, Careers, [DiscoverNext]_discoverVars
  PROVE  Careers'
<1>1. \A u \in Type : Career(u)
    BY DEF Careers, Career
<1>2. CASE Outside
    BY <1>1, <1>2, OutsideTouchesNoTask DEF Careers, Career, Culprits, telling, history
<1>3. ASSUME NEW t \in Type, TypeStep(t) PROVE Careers'
    <2>1. Career(t)'
        BY <1>1, <1>3, CareerStep
    <2>2. ASSUME NEW u \in Type \ {t} PROVE Career(u)'
        BY <1>1, <1>3, OthersUntouched, CulpritsStay DEF Career, ContextOver
    <2>3. \A u \in Type : Career(u)'
        BY <2>1, <2>2
    <2> QED BY <2>3 DEF Careers, Career
<1> QED BY <1>2, <1>3, DiscoverSplit

LEMMA PhasesStep ==
  ASSUME DiscoverTypes, Phases, [DiscoverNext]_discoverVars
  PROVE  Phases'
<1> USE DEF Phases
<1>1. CASE Outside
    <2>1. task' = task /\ (ContextOver => ContextOver')
        BY <1>1, OutsideTouchesNoTask
    <2> QED
        BY <1>1, <2>1 DEF Outside, PrefetchReturns, PrefetchFails, Joined, AllReturned, Augment,
                          discoverVars, DiscoverTypes
<1>2. ASSUME NEW t \in Type, TypeStep(t) PROVE Phases'
    <2>1. phase = "fanout" /\ phase' = phase
        BY <1>2, OthersUntouched
           DEF TypeStep, Start, Awake, GiveUp, Answer, Fails, Expires, Interrupted, Downgrade, Count,
               TellSink, Deliver, DiscoverTypes
    <2> QED BY <2>1
<1> QED BY <1>1, <1>2, DiscoverSplit

(* The inductive invariant of a discovery: progress is counted one type at  *)
(* a time, every goroutine is at a stage its error, its rows and its        *)
(* delivery fit, and the phases follow the join.                            *)
THEOREM DiscoverInvariant == DiscoverSpec => []DiscoverInv
<1>1. DiscoverInit => DiscoverInv
    <2> SUFFICES ASSUME DiscoverInit PROVE DiscoverInv
        OBVIOUS
    <2>1. Counted = {}
        BY DEF DiscoverInit, Counted
    <2>2. DiscoverTypes
        BY DEF DiscoverInit, DiscoverTypes, ContextInit, ContextTypeOK, TaskStates
    <2>3. Progress
        BY <2>1, FS_EmptySet DEF DiscoverInit, Progress
    <2> QED BY <2>2, <2>3 DEF DiscoverInit, DiscoverInv, Careers, Phases
<1>2. DiscoverInv /\ [DiscoverNext]_discoverVars => DiscoverInv'
    BY DiscoverTypesStep, ProgressStep, CareersStep, PhasesStep DEF DiscoverInv
<1> QED BY <1>1, <1>2, PTL DEF DiscoverSpec
-----------------------------------------------------------------------------
(* Every variable stays in its range; the counter of the progress bridge    *)
(* and what its sink sees never exceed the number of types.                 *)
THEOREM DiscoverTypeCorrect == DiscoverSpec => []DiscoverTypeOK
<1>1. DiscoverInv => DiscoverTypeOK
    <2> SUFFICES ASSUME DiscoverInv PROVE DiscoverTypeOK
        OBVIOUS
    <2>1. completed \in 0..NumTypes
        BY TypesFinite, CountedFinite, FS_Subset, DiscoverAssumption
           DEF Counted, DiscoverInv, Progress
    <2>2. seen \in 0..NumTypes
        BY <2>1, DiscoverAssumption DEF DiscoverInv, Progress
    <2> QED BY <2>1, <2>2 DEF DiscoverInv, DiscoverTypes, DiscoverTypeOK, TaskStates
<1> QED BY <1>1, DiscoverInvariant, PTL

(* A type that timed out of itself under a budget, and no other, comes back *)
(* empty without an error: the two guards of the downgrade in DiscoverTypes *)
(* tell its own deadlines from the caller's and from a sibling's failure.   *)
THEOREM OnlyTimeouts == DiscoverSpec => []OnlyTimeoutsDowngrade
<1>1. DiscoverInv => OnlyTimeoutsDowngrade
    BY DEF DiscoverInv, DiscoverTypes, Careers, OnlyTimeoutsDowngrade
<1> QED BY <1>1, DiscoverInvariant, PTL

(* DiscoverTypes fails only when its context ended or a listing failed of   *)
(* itself and was not downgraded.                                           *)
THEOREM FailuresHaveACause == DiscoverSpec => []FailureHasACause
<1>1. DiscoverInv => FailureHasACause
    BY DEF DiscoverInv, Careers, Phases, FailureHasACause
<1> QED BY <1>1, DiscoverInvariant, PTL

(* When DiscoverTypes returns rows, OnTypeDiscovered ran for every type and *)
(* the progress reached the total.                                          *)
THEOREM DeliveriesMatch == DiscoverSpec => []DeliveriesMatchResults
<1>1. DiscoverInv => DeliveriesMatchResults
    <2> SUFFICES ASSUME DiscoverInv PROVE DeliveriesMatchResults
        OBVIOUS
    <2>1. ASSUME phase \in {"augment", "done"} PROVE seen = NumTypes
        <3>1. \A t \in Type : task[t] = "ok"
            BY <2>1 DEF DiscoverInv, Phases
        <3>2. Counted = Type
            BY <3>1 DEF Counted
        <3> QED BY <3>1, <3>2, TypesFinite DEF DiscoverInv, Progress
    <2> QED BY <2>1 DEF DiscoverInv, Careers, Phases, DeliveriesMatchResults
<1> QED BY <1>1, DiscoverInvariant, PTL

(* The sink sees 1, 2, 3, ...: progressBridge counts and tells under one    *)
(* lock.                                                                    *)
THEOREM ProgressIsInOrder == DiscoverSpec => ProgressInOrder
<1>1. DiscoverInv /\ [DiscoverNext]_discoverVars => [seen' = seen \/ seen' = seen + 1]_discoverVars
    <2> SUFFICES ASSUME DiscoverInv, [DiscoverNext]_discoverVars
                 PROVE  seen' = seen \/ seen' = seen + 1
        OBVIOUS
    <2>1. ASSUME NEW t \in Type, TellSink(t) PROVE seen' = seen + 1
        BY <2>1 DEF TellSink, DiscoverInv, Progress
    <2>2. CASE Outside
        BY <2>2, OutsideTouchesNoTask DEF telling
    <2>3. ASSUME NEW t \in Type, TypeStep(t), ~TellSink(t) PROVE seen' = seen
        BY <2>3 DEF TypeStep, Start, Awake, GiveUp, Answer, Fails, Expires, Interrupted, Downgrade,
                    Count, Deliver, telling
    <2> QED BY <2>1, <2>2, <2>3, DiscoverSplit
<1> QED BY <1>1, DiscoverInvariant, PTL DEF DiscoverSpec, ProgressInOrder

(* What OnTypeDiscovered was given never changes: it is a copy, taken after *)
(* the last write to the type's result.                                     *)
THEOREM DeliveriesAreFrozen == DiscoverSpec => DeliveriesFrozen
<1>1. DiscoverInv /\ [DiscoverNext]_discoverVars =>
        [\A t \in Type : handed[t] # "nothing" =>
            found'[t] = found[t] /\ View(t)' = View(t)]_discoverVars
    <2> SUFFICES ASSUME DiscoverInv, [DiscoverNext]_discoverVars, NEW u \in Type,
                        handed[u] # "nothing"
                 PROVE  found'[u] = found[u] /\ View(u)' = View(u)
        OBVIOUS
    <2>1. View(u) = {} /\ View(u)' = {}
        <3>1. DiscoverTypes'
            BY DiscoverTypesStep DEF DiscoverInv
        <3> QED BY <3>1 DEF View, DiscoverInv, DiscoverTypes
    <2>2. task[u] = "ok"
        BY DEF DiscoverInv, Careers
    <2>3. ASSUME NEW t \in Type, TypeStep(t) PROVE found'[u] = found[u]
        <3>1. task[t] # "ok"
            BY <2>3 DEF TypeStep, Start, Awake, GiveUp, Answer, Fails, Expires, Interrupted,
                        Downgrade, Count, TellSink, Deliver
        <3> QED BY <2>2, <2>3, <3>1, OthersUntouched DEF DiscoverInv
    <2> QED BY <2>1, <2>3, OutsideTouchesNoTask, DiscoverSplit
<1> QED BY <1>1, DiscoverInvariant, PTL DEF DiscoverSpec, DeliveriesFrozen
-----------------------------------------------------------------------------
LEMMA DiscoverStepOfTheGroup ==
  ASSUME DiscoverInv, [DiscoverNext]_discoverVars
  PROVE  [DiscoverGroup!Next]_(DiscoverGroup!vars)
<1> DEFINE Todo == IF phase = "fanout" THEN {t \in Type : task[t] = "idle"} ELSE {}
           Joins == phase # "fanout"
<1> USE DEF DiscoverGroup!vars, DiscoverGroup!Next
<1>0. task \in [Type -> TaskStates]
    BY DEF DiscoverInv, DiscoverTypes
<1>1. ASSUME Todo' = Todo, Running' = Running, Joins' = Joins
      PROVE  UNCHANGED DiscoverGroup!vars
    BY <1>1
<1>2. ASSUME UNCHANGED <<task, phase>> PROVE UNCHANGED DiscoverGroup!vars
    BY <1>1, <1>2 DEF Running
<1>3. CASE Outside
    <2>1. task' = task /\ Running' = Running
        BY <1>3, OutsideTouchesNoTask DEF Running
    <2>2. ASSUME PrefetchReturns PROVE \E T \in SUBSET Type : DiscoverGroup!Open(T)
        <3>1. PICK T \in SUBSET Type : T = Todo'
            OBVIOUS
        <3>2. DiscoverGroup!Open(T)
            BY <2>1, <2>2, <3>1 DEF PrefetchReturns, DiscoverGroup!Open
        <3> QED BY <3>2
    <2>3. ASSUME Joined PROVE DiscoverGroup!Join
        <3>1. Running = {} /\ Todo = {} /\ Todo' = {}
            BY <2>1, <2>3 DEF Joined, AllReturned, Running
        <3> QED BY <2>1, <2>3, <3>1 DEF Joined, DiscoverGroup!Join
    <2>4. ASSUME PrefetchFails \/ \E S \in SUBSET (Returned \cap VpcChild) : Augment(S)
          PROVE  UNCHANGED DiscoverGroup!vars
        BY <1>1, <2>1, <2>4 DEF PrefetchFails, Augment
    <2>5. ASSUME \/ ContextEnds /\ UNCHANGED <<phase, bounded, task, problem, found, telling, stamped, history>>
                 \/ UNCHANGED discoverVars
          PROVE  UNCHANGED DiscoverGroup!vars
        BY <1>2, <2>5 DEF discoverVars
    <2> QED BY <1>3, <2>2, <2>3, <2>4, <2>5 DEF Outside
<1>4. ASSUME NEW t \in Type, TypeStep(t) PROVE [DiscoverGroup!Next]_(DiscoverGroup!vars)
    <2>1. phase' = phase
        BY <1>4, OthersUntouched DEF DiscoverInv
    <2>2. ASSUME Start(t) PROVE DiscoverGroup!Start(t)
        <3>1. task' = [task EXCEPT ![t] = "jitter"] /\ task[t] = "idle" /\ phase = "fanout"
            BY <2>2 DEF Start, Goes
        <3>2. Running' = Running \cup {t}
            BY <1>0, <3>1 DEF Running
        <3>3. Todo' = Todo \ {t} /\ t \in Todo
            BY <1>0, <2>1, <3>1
        <3>4. Cardinality(Running) < DiscoverLimit /\ Joins' = Joins
            BY <2>1, <2>2 DEF Start, Slot
        <3> QED BY <3>2, <3>3, <3>4 DEF DiscoverGroup!Start, Cardinality, DiscoverGroup!Cardinality
    <2>3. ASSUME NEW to \in {"ok", "err"}, task' = [task EXCEPT ![t] = to],
                 task[t] \notin {"idle", "ok", "err"}
          PROVE  DiscoverGroup!Finish(t)
        <3>1. Running' = Running \ {t} /\ t \in Running /\ Todo' = Todo
            BY <1>0, <2>1, <2>3 DEF Running
        <3> QED BY <2>1, <3>1 DEF DiscoverGroup!Finish
    <2>4. ASSUME NEW to \in TaskStates \ {"idle", "ok", "err"}, task' = [task EXCEPT ![t] = to],
                 task[t] \notin {"idle", "ok", "err"}
          PROVE  UNCHANGED DiscoverGroup!vars
        <3>1. Running' = Running /\ Todo' = Todo
            BY <1>0, <2>1, <2>4 DEF Running
        <3> QED BY <1>1, <2>1, <3>1
    <2>5. ASSUME ~Start(t)
          PROVE  /\ \E to \in TaskStates \ {"idle"} : task' = [task EXCEPT ![t] = to]
                 /\ task[t] \notin {"idle", "ok", "err"}
        BY <1>4, <2>5 DEF TypeStep, Awake, GiveUp, Answer, Fails, Expires, Interrupted, Downgrade,
                          Count, TellSink, Deliver, Goes, TellOfNothing, TaskStates
    <2> QED BY <2>2, <2>3, <2>4, <2>5
<1> QED BY <1>3, <1>4, DiscoverSplit

(* The goroutines of DiscoverTypes are a bounded group, and it does not     *)
(* look at their results before all have returned.                          *)
THEOREM DiscoverImplementsFanOut == DiscoverSpec => DiscoverIsAFanOut
<1>1. DiscoverInit => DiscoverGroup!Init
    BY DEF DiscoverInit, DiscoverGroup!Init, Running
<1>2. DiscoverInv /\ [DiscoverNext]_discoverVars => [DiscoverGroup!Next]_(DiscoverGroup!vars)
    BY DiscoverStepOfTheGroup
<1> QED BY <1>1, <1>2, DiscoverInvariant, PTL DEF DiscoverSpec, DiscoverIsAFanOut, DiscoverGroup!Spec
-----------------------------------------------------------------------------
Outcomes == {"nil", "no client", "not found", "throttle", "other"}
Worker == {"none", "waiting", "jitter", "calling", "backoff", "returned"}
KindsOf(R) == {KindOf[r] : r \in R}
RowsOf(k) == {r \in idx : KindOf[r] = k}

EnrichTypes ==
  /\ ContextTypeOK
  /\ stage \in {"off", "workers", "report", "done"}
  /\ idx \subseteq Rank
  /\ worker \in [Rank -> Worker]
  /\ tries \in [Rank -> Nat]
  /\ results \in [Rank -> Outcomes \cup {"none"}]
  /\ attrs \subseteq idx
  /\ status \in [Rank -> {"none", "full", "failed"}]
  /\ cursor \in 0..NumRows
  /\ warned \subseteq idx /\ errs \subseteq idx
  /\ announced \in [KindsOf(Rank) -> Nat]

(* How far a worker got with its row. *)
WorkOn(r) ==
  /\ worker[r] = "none" <=> r \notin idx
  /\ worker[r] \in {"none", "waiting", "jitter"} => tries[r] = 0
  /\ worker[r] = "calling" => tries[r] < MaxAttempts
  /\ worker[r] = "backoff" => tries[r] \in 1..MaxAttempts
  /\ worker[r] = "backoff" => tries[r] # MaxAttempts
  /\ worker[r] = "returned" => tries[r] \in 1..MaxAttempts /\ results[r] # "none"
  /\ r \in attrs <=> worker[r] = "returned" /\ results[r] = "nil"

Workers ==
  /\ \A r \in Rank : WorkOn(r)
  /\ stage = "off" => idx = {}
  /\ stage \in {"report", "done"} => \A r \in idx : worker[r] = "returned"

(* The serial pass: up to the cursor the reports agree with the results,    *)
(* behind it there are none.                                                *)
ReportOn(r) ==
  IF r \in idx /\ r <= cursor
  THEN /\ status[r] = (IF results[r] = "nil" THEN "full" ELSE "failed")
       /\ r \in warned <=> results[r] \in {"no client", "not found"}
       /\ r \in errs <=> results[r] \in {"throttle", "other"}
  ELSE status[r] = "none" /\ r \notin warned /\ r \notin errs

Announcement(k) ==
  announced[k] = IF \E r \in RowsOf(k) : r <= cursor /\ LastOfType(r)
                 THEN Cardinality(RowsOf(k)) ELSE 0

Reports ==
  /\ stage \in {"off", "workers"} => cursor = 0
  /\ stage = "done" => Ahead = {}
  /\ \A r \in Rank : ReportOn(r)
  /\ \A k \in KindsOf(Rank) : Announcement(k)

EnrichInv == EnrichTypes /\ Workers /\ Reports

LEMMA RowsFinite == \A S \in SUBSET Rank : IsFiniteSet(S) /\ Cardinality(S) \in Nat
<1>1. IsFiniteSet(Rank)
    BY EnrichAssumption, FS_Interval DEF Rank
<1> QED BY <1>1, FS_Subset, FS_CardinalityType

(* A set of rows has a first one and a last one. *)
LEMMA FirstAndLast ==
  ASSUME NEW S \in SUBSET Rank, S # {}
  PROVE  /\ \E x \in S : \A y \in S : x <= y
         /\ \E x \in S : \A y \in S : y <= x
<1> DEFINE Below == {{y \in S : y <= x} : x \in S}
           Above == {{y \in S : x <= y} : x \in S}
<1> HIDE DEF Below, Above
<1>0. S \subseteq Nat
    BY EnrichAssumption DEF Rank
<1>1. ASSUME NEW F \in SUBSET SUBSET S, F # {}
      PROVE  \E U \in F : \A V \in F : V \subseteq U => V = U
    <2>1. IsFiniteSet(S)
        BY RowsFinite
    <2>2. F \subseteq FiniteSubsetsOf(S)
        BY <2>1, FS_FiniteSubsetsOfFinite
    <2>3. \E U \in F : \A V \in F : ~(<<V, U>> \in StrictSubsetOrdering(S))
        BY <1>1, <2>2, FS_StrictSubsetOrderingWellFounded, WFMin
    <2>4. \A U, V \in F : V \subseteq U /\ V # U => <<V, U>> \in StrictSubsetOrdering(S)
        BY DEF StrictSubsetOrdering
    <2> QED BY <2>3, <2>4
<1>2. \E x \in S : \A y \in S : x <= y
    <2>1. Below \in SUBSET SUBSET S /\ Below # {}
        BY DEF Below
    <2>2. PICK U \in Below : \A V \in Below : V \subseteq U => V = U
        BY <1>1, <2>1
    <2>3. PICK x \in S : U = {y \in S : y <= x}
        BY DEF Below
    <2>4. ASSUME NEW y \in S, ~(x <= y) PROVE FALSE
        <3>a. \A z \in S : z <= y => z <= x
            BY <1>0, <2>4
        <3>b. {z \in S : z <= y} \in Below
            BY DEF Below
        <3>1. {z \in S : z <= y} \in Below /\ {z \in S : z <= y} \subseteq U
            BY <2>3, <3>a, <3>b
        <3>2. {z \in S : z <= y} = U
            BY <2>2, <3>1
        <3>3. x \in U
            BY <1>0, <2>3
        <3> QED BY <2>4, <3>2, <3>3
    <2> QED BY <2>4
<1>3. \E x \in S : \A y \in S : y <= x
    <2>1. Above \in SUBSET SUBSET S /\ Above # {}
        BY DEF Above
    <2>2. PICK U \in Above : \A V \in Above : V \subseteq U => V = U
        BY <1>1, <2>1
    <2>3. PICK x \in S : U = {y \in S : x <= y}
        BY DEF Above
    <2>4. ASSUME NEW y \in S, ~(y <= x) PROVE FALSE
        <3>a. \A z \in S : y <= z => x <= z
            BY <1>0, <2>4
        <3>b. {z \in S : y <= z} \in Above
            BY DEF Above
        <3>1. {z \in S : y <= z} \in Above /\ {z \in S : y <= z} \subseteq U
            BY <2>3, <3>a, <3>b
        <3>2. {z \in S : y <= z} = U
            BY <2>2, <3>1
        <3>3. x \in U
            BY <1>0, <2>3
        <3> QED BY <2>4, <3>2, <3>3
    <2> QED BY <2>4
<1> QED BY <1>2, <1>3

(* The library's minimum is one. *)
LEMMA MinIsLeast ==
  ASSUME NEW S \in SUBSET Rank, S # {}
  PROVE  Min(S) \in S /\ \A x \in S : Min(S) <= x
BY FirstAndLast DEF Min
-----------------------------------------------------------------------------
(* The steps of one worker. *)
RowStep(r) ==
  \/ Hire(r) \/ JitterEnds(r)
  \/ \E result \in {"nil", "no client", "not found", "other"} : Settles(r, result)
  \/ Throttled(r) \/ BackoffEnds(r) \/ BackoffCancelled(r)

EnrichContextEnds == ContextEnds /\ UNCHANGED <<stage, idx, pool, report>>

LEMMA EnrichSplit ==
  ASSUME [EnrichNext]_enrichVars
  PROVE  \/ \E batch \in SUBSET Rank : Begin(batch)
         \/ \E r \in Rank : RowStep(r) \/ ReportRow(r)
         \/ PoolJoined \/ ReportEnds \/ EnrichContextEnds \/ UNCHANGED enrichVars
BY DEF EnrichNext, EnrichWork, RowStep, EnrichContextEnds

(* What a worker does concerns its row only. *)
LEMMA OtherRowsUntouched ==
  ASSUME EnrichTypes, NEW r \in Rank, RowStep(r)
  PROVE  /\ \A q \in Rank \ {r} : worker'[q] = worker[q] /\ tries'[q] = tries[q]
                                   /\ results'[q] = results[q] /\ (q \in attrs' <=> q \in attrs)
         /\ UNCHANGED <<ctx, stage, idx, report>>
<1> USE DEF EnrichTypes, Turns
<1>1. ASSUME NEW result, Settles(r, result)
      PROVE  /\ \A q \in Rank \ {r} : worker'[q] = worker[q] /\ tries'[q] = tries[q]
                                       /\ results'[q] = results[q] /\ (q \in attrs' <=> q \in attrs)
             /\ UNCHANGED <<ctx, stage, idx, report>>
    BY <1>1 DEF Settles, Attempt
<1> QED BY <1>1 DEF RowStep, Hire, JitterEnds, Throttled, Attempt, BackoffEnds, BackoffCancelled

(* A settled row stays as it is. *)
LEMMA SettledStays ==
  ASSUME EnrichTypes, Workers, NEW r \in Rank, RowStep(r)
  PROVE  r \in idx /\ worker[r] # "returned" /\ stage = "workers"
<1>1. worker[r] \in {"waiting", "jitter", "calling", "backoff"}
    BY DEF RowStep, Hire, JitterEnds, Settles, Throttled, Attempt, BackoffEnds, BackoffCancelled
<1>2. r \in idx
    BY <1>1 DEF Workers, WorkOn
<1> QED BY <1>1, <1>2 DEF Workers, EnrichTypes

LEMMA OneMoreTry ==
  ASSUME NEW n \in Nat, n < MaxAttempts
  PROVE  n + 1 \in 1..MaxAttempts
BY EnrichAssumption

LEMMA WorkStep ==
  ASSUME EnrichTypes, Workers, NEW r \in Rank, RowStep(r)
  PROVE  /\ WorkOn(r)'
         /\ tries' \in [Rank -> Nat]
         /\ results' \in [Rank -> Outcomes \cup {"none"}]
         /\ worker' \in [Rank -> Worker]
         /\ attrs' \subseteq idx
<1>0. WorkOn(r) /\ r \in idx /\ r \in idx'
    BY SettledStays, OtherRowsUntouched DEF Workers
<1>1. /\ worker \in [Rank -> Worker] /\ tries \in [Rank -> Nat] /\ attrs \subseteq idx
      /\ results \in [Rank -> Outcomes \cup {"none"}]
    BY DEF EnrichTypes, Worker
<1>2. CASE Hire(r) \/ JitterEnds(r)
    <2>1. /\ worker'[r] \in {"jitter", "calling"} /\ worker' \in [Rank -> Worker]
          /\ UNCHANGED <<tries, results, attrs>>
        BY <1>1, <1>2 DEF Hire, JitterEnds, Turns, AfterJitter, Worker
    <2>2. tries[r] = 0 /\ r \notin attrs /\ 0 < MaxAttempts
        BY <1>0, <1>2, EnrichAssumption DEF Hire, JitterEnds, WorkOn
    <2> QED BY <1>0, <1>1, <2>1, <2>2 DEF WorkOn
<1>3. ASSUME NEW result \in Outcomes, Attempt(r, result)
      PROVE  /\ tries'[r] \in 1..MaxAttempts /\ tries' \in [Rank -> Nat]
             /\ results'[r] = result /\ results' \in [Rank -> Outcomes \cup {"none"}]
             /\ r \notin attrs
    <2>1. tries[r] \in Nat /\ tries[r] < MaxAttempts /\ r \notin attrs
        BY <1>0, <1>1, <1>3 DEF Attempt, WorkOn
    <2>2. tries[r] + 1 \in 1..MaxAttempts
        BY <2>1, OneMoreTry
    <2>3. tries' = [tries EXCEPT ![r] = tries[r] + 1] /\ results' = [results EXCEPT ![r] = result]
        BY <1>3 DEF Attempt
    <2> QED BY <1>1, <2>1, <2>2, <2>3
<1>4. ASSUME NEW result \in {"nil", "no client", "not found", "other"}, Settles(r, result)
      PROVE  WorkOn(r)' /\ worker' \in [Rank -> Worker] /\ attrs' \subseteq idx
             /\ tries' \in [Rank -> Nat] /\ results' \in [Rank -> Outcomes \cup {"none"}]
    <2>1. result \in Outcomes /\ result # "none" /\ Attempt(r, result)
        BY <1>4 DEF Outcomes, Settles
    <2>2. worker'[r] = "returned" /\ worker' \in [Rank -> Worker]
        BY <1>1, <1>4 DEF Settles, Turns, Worker
    <2>3. (r \in attrs' <=> result = "nil") /\ attrs' \subseteq idx
        BY <1>0, <1>1, <1>3, <1>4, <2>1 DEF Settles
    <2> QED BY <1>0, <1>3, <2>1, <2>2, <2>3 DEF WorkOn
<1>5. CASE Throttled(r)
    <2>1. "throttle" \in Outcomes /\ Attempt(r, "throttle") /\ attrs' = attrs
        BY <1>5 DEF Throttled, Outcomes
    <2>2. worker'[r] = (IF tries'[r] >= MaxAttempts THEN "returned" ELSE "backoff")
          /\ worker' \in [Rank -> Worker]
        BY <1>1, <1>5 DEF Throttled, Turns, LastAttempt, Worker
    <2>3. worker'[r] = "backoff" => tries'[r] # MaxAttempts
        BY <1>3, <2>1, <2>2
    <2> QED BY <1>0, <1>1, <1>3, <2>1, <2>2, <2>3 DEF WorkOn
<1>6. CASE BackoffEnds(r) \/ BackoffCancelled(r)
    <2>1. tries[r] \in 1..MaxAttempts /\ tries[r] # MaxAttempts /\ r \notin attrs
        BY <1>0, <1>6 DEF BackoffEnds, BackoffCancelled, WorkOn
    <2>2. tries[r] < MaxAttempts
        BY <2>1, EnrichAssumption
    <2>3. \/ worker'[r] = "calling" /\ results' = results
          \/ worker'[r] = "returned" /\ results' = [results EXCEPT ![r] = "other"]
        BY <1>1, <1>6 DEF BackoffEnds, BackoffCancelled, Turns
    <2>4. worker' \in [Rank -> Worker] /\ tries' = tries /\ attrs' = attrs
        BY <1>1, <1>6 DEF BackoffEnds, BackoffCancelled, Turns, Worker
    <2>5. results' \in [Rank -> Outcomes \cup {"none"}]
          /\ (worker'[r] = "returned" => results'[r] = "other")
        BY <1>1, <2>3 DEF Outcomes
    <2> QED BY <1>0, <1>1, <2>1, <2>2, <2>3, <2>4, <2>5 DEF WorkOn
<1> QED BY <1>1, <1>2, <1>4, <1>5, <1>6 DEF RowStep, Hire, JitterEnds, Turns, AfterJitter

LEMMA WorkersStep ==
  ASSUME EnrichTypes, Workers, [EnrichNext]_enrichVars
  PROVE  Workers'
<1>1. ASSUME NEW r \in Rank, RowStep(r) PROVE Workers'
    <2>1. \A q \in Rank \ {r} : WorkOn(q)'
        BY <1>1, OtherRowsUntouched DEF Workers, WorkOn
    <2>2. \A q \in Rank : WorkOn(q)'
        BY <1>1, <2>1, WorkStep
    <2> QED BY <1>1, <2>2, SettledStays, OtherRowsUntouched DEF Workers
<1>2. ASSUME UNCHANGED <<idx, worker, tries, results, attrs>>,
             stage' = "off" => stage = "off",
             stage' \in {"report", "done"} => \A r \in idx : worker[r] = "returned"
      PROVE  Workers'
    BY <1>2 DEF Workers, WorkOn
<1>3. CASE PoolJoined \/ ReportEnds \/ EnrichContextEnds \/ UNCHANGED enrichVars
    BY <1>2, <1>3
       DEF PoolJoined, ReportEnds, EnrichContextEnds, enrichVars, pool, Workers
<1>4. ASSUME NEW r \in Rank, ReportRow(r) PROVE Workers'
    BY <1>2, <1>4 DEF ReportRow, pool, Workers
<1>5. ASSUME NEW batch \in SUBSET Rank, Begin(batch) PROVE Workers'
    <2>1. stage' = "workers" /\ idx' \subseteq Rank /\ UNCHANGED <<tries, results, attrs>>
          /\ worker' = [r \in Rank |-> IF r \in idx' THEN "waiting" ELSE "none"]
        BY <1>5 DEF Begin
    <2>2. \A r \in Rank : worker[r] = "none" /\ tries[r] = 0 /\ r \notin attrs
        BY <1>5 DEF Begin, Workers, WorkOn
    <2>3. \A r \in Rank : WorkOn(r)'
        BY <2>1, <2>2 DEF WorkOn
    <2> QED BY <2>1, <2>3 DEF Workers
<1> QED BY <1>1, <1>3, <1>4, <1>5, EnrichSplit

LEMMA EnrichTypesStep ==
  ASSUME EnrichTypes, Workers, [EnrichNext]_enrichVars
  PROVE  EnrichTypes'
<1>1. ASSUME NEW r \in Rank, RowStep(r) PROVE EnrichTypes'
    BY <1>1, WorkStep, OtherRowsUntouched DEF EnrichTypes, report, ContextTypeOK
<1>2. CASE PoolJoined \/ ReportEnds \/ EnrichContextEnds \/ UNCHANGED enrichVars
    BY <1>2 DEF EnrichTypes, PoolJoined, ReportEnds, EnrichContextEnds, ContextEnds, enrichVars,
                pool, report, ContextTypeOK
<1>3. ASSUME NEW batch \in SUBSET Rank, Begin(batch) PROVE EnrichTypes'
    <2>1. warned = {} /\ errs = {} /\ attrs = {}
        BY <1>3 DEF Begin, Workers, EnrichTypes
    <2>2. worker' \in [Rank -> Worker]
        BY <1>3 DEF Begin, Worker
    <2> QED BY <1>3, <2>1, <2>2 DEF Begin, EnrichTypes, report, ContextTypeOK
<1>4. ASSUME NEW r \in Rank, ReportRow(r) PROVE EnrichTypes'
    <2>1. r \in idx /\ UNCHANGED <<ctx, stage, idx, pool>>
        <3>1. Ahead \subseteq Rank
            BY DEF Ahead, EnrichTypes
        <3> QED BY <1>4, <3>1, MinIsLeast DEF ReportRow, Ahead
    <2>2. cursor' \in 0..NumRows
        <3>1. cursor' = r
            BY <1>4 DEF ReportRow
        <3>2. r \in 0..NumRows
            BY EnrichAssumption DEF Rank
        <3> QED BY <3>1, <3>2
    <2>3. status' \in [Rank -> {"none", "full", "failed"}]
        BY <1>4 DEF ReportRow, EnrichTypes
    <2>4. warned' \subseteq idx' /\ errs' \subseteq idx'
        BY <1>4, <2>1 DEF ReportRow, EnrichTypes
    <2>5. announced' \in [KindsOf(Rank) -> Nat]
        <3>1. Cardinality({q \in idx : KindOf[q] = KindOf[r]}) \in Nat
            BY RowsFinite DEF EnrichTypes
        <3>2. announced \in [KindsOf(Rank) -> Nat]
            BY DEF EnrichTypes
        <3> QED BY <1>4, <3>1, <3>2 DEF ReportRow
    <2> QED BY <2>1, <2>2, <2>3, <2>4, <2>5 DEF EnrichTypes, pool, ContextTypeOK
<1> QED BY <1>1, <1>2, <1>3, <1>4, EnrichSplit

LEMMA ReportsStep ==
  ASSUME EnrichTypes, Workers, Reports, [EnrichNext]_enrichVars
  PROVE  Reports'
<1>1. ASSUME cursor = 0, UNCHANGED report, stage' # "done" PROVE Reports'
    <2>1. \A r \in Rank : ~(r <= cursor) /\ cursor' = cursor
        BY <1>1, EnrichAssumption DEF Rank, report
    <2>2. \A r \in Rank : status[r] = "none" /\ r \notin warned /\ r \notin errs
        BY <2>1 DEF Reports, ReportOn
    <2>3. \A r \in Rank : ReportOn(r)'
        BY <1>1, <2>1, <2>2 DEF ReportOn, report
    <2>4. idx \subseteq Rank /\ idx' \subseteq Rank
        BY EnrichTypesStep DEF EnrichTypes
    <2>5. \A k \in KindsOf(Rank) : announced[k] = 0
        BY <2>1, <2>4 DEF Reports, Announcement, RowsOf
    <2>6. \A k \in KindsOf(Rank) : Announcement(k)'
        BY <1>1, <2>1, <2>4, <2>5 DEF Announcement, RowsOf, report
    <2> QED BY <1>1, <2>3, <2>6 DEF Reports, report
<1>2. ASSUME UNCHANGED <<idx, results, report>>,
             stage' \in {"off", "workers"} => stage \in {"off", "workers"},
             stage' = "done" => Ahead = {}
      PROVE  Reports'
    <2>1. \A r \in Rank : ReportOn(r)'
        BY <1>2 DEF Reports, ReportOn, report
    <2>2. \A k \in KindsOf(Rank) : Announcement(k)'
        BY <1>2 DEF Reports, Announcement, RowsOf, LastOfType, report
    <2> QED BY <1>2, <2>1, <2>2 DEF Reports, Ahead, report
<1>3. ASSUME NEW r \in Rank, RowStep(r) PROVE Reports'
    <2>1. stage = "workers" /\ UNCHANGED <<stage, report>>
        BY <1>3, SettledStays, OtherRowsUntouched
    <2> QED BY <1>1, <2>1 DEF Reports
<1>4. ASSUME NEW batch \in SUBSET Rank, Begin(batch) PROVE Reports'
    BY <1>1, <1>4 DEF Begin, Reports
<1>5. CASE PoolJoined \/ ReportEnds \/ EnrichContextEnds \/ UNCHANGED enrichVars
    BY <1>2, <1>5 DEF PoolJoined, ReportEnds, EnrichContextEnds, enrichVars, pool, report, Reports
<1>6. ASSUME NEW r \in Rank, ReportRow(r) PROVE Reports'
    <2>0. Ahead \in SUBSET Rank /\ idx \subseteq Rank /\ Rank \subseteq Nat /\ cursor \in Nat
        <3>1. Rank \subseteq Nat /\ 0..NumRows \subseteq Nat
            BY EnrichAssumption DEF Rank
        <3> QED BY <3>1 DEF Ahead, EnrichTypes
    <2>1. r \in Ahead /\ (\A q \in Ahead : r <= q) /\ stage = "report" /\ cursor' = r
        BY <1>6, <2>0, MinIsLeast DEF ReportRow
    <2>2. r \in idx /\ r > cursor /\ UNCHANGED <<stage, idx, results>>
        BY <1>6, <2>1 DEF Ahead, ReportRow, pool
    <2>3. \A q \in idx : q # r => (q <= cursor' <=> q <= cursor)
        BY <2>0, <2>1, <2>2 DEF Ahead
    <2>4. ReportOn(r)'
        <3>1. status[r] = "none" /\ r \notin warned /\ r \notin errs
            <4>1. ~(r <= cursor)
                BY <2>0, <2>2
            <4> QED BY <4>1 DEF Reports, ReportOn
        <3>2. status'[r] = IF results[r] = "nil" THEN "full" ELSE "failed"
            BY <1>6 DEF ReportRow, Result, EnrichTypes
        <3>3. r \in warned' <=> results[r] \in {"no client", "not found"}
            BY <1>6, <3>1 DEF ReportRow, Result
        <3>4. r \in errs' <=> results[r] \in {"throttle", "other"}
            BY <1>6, <3>1 DEF ReportRow, Result
        <3>5. r <= cursor'
            BY <2>0, <2>1
        <3> QED BY <2>2, <3>2, <3>3, <3>4, <3>5 DEF ReportOn
    <2>5. ASSUME NEW q \in Rank, q # r PROVE ReportOn(q)'
        <3>1. status'[q] = status[q] /\ (q \in warned' <=> q \in warned) /\ (q \in errs' <=> q \in errs)
            BY <1>6, <2>5 DEF ReportRow, EnrichTypes
        <3>2. ReportOn(q)
            BY DEF Reports
        <3> QED BY <2>2, <2>3, <2>5, <3>1, <3>2 DEF ReportOn
    <2>6. ASSUME NEW k \in KindsOf(Rank) PROVE Announcement(k)'
        <3>1. \A q : LastOfType(q)' <=> LastOfType(q)
            BY <2>2 DEF LastOfType
        <3>2. RowsOf(k)' = RowsOf(k) /\ RowsOf(k) \subseteq idx
            BY <2>2 DEF RowsOf
        <3>3. Announcement(k)
            BY DEF Reports
        <3>4. announced' = IF LastOfType(r)
                THEN [announced EXCEPT ![KindOf[r]] = Cardinality({q \in idx : KindOf[q] = KindOf[r]})]
                ELSE announced
            BY <1>6 DEF ReportRow
        <3>5. CASE LastOfType(r) /\ k = KindOf[r]
            <4>1. announced'[k] = Cardinality(RowsOf(k))
                BY <3>4, <3>5 DEF RowsOf, EnrichTypes
            <4>2. r \in RowsOf(k) /\ r <= cursor'
                BY <2>0, <2>1, <2>2, <3>5 DEF RowsOf
            <4> QED BY <3>1, <3>2, <3>5, <4>1, <4>2 DEF Announcement
        <3>6. CASE ~(LastOfType(r) /\ k = KindOf[r])
            <4>1. announced'[k] = announced[k]
                BY <3>4, <3>6 DEF EnrichTypes
            <4>2. \A q \in RowsOf(k) : (q <= cursor' /\ LastOfType(q)) <=> (q <= cursor /\ LastOfType(q))
                <5>1. r \in RowsOf(k) => ~LastOfType(r)
                    BY <3>6 DEF RowsOf
                <5> QED BY <2>3, <3>2, <5>1
            <4> QED BY <3>1, <3>2, <3>3, <4>1, <4>2 DEF Announcement
        <3> QED BY <3>5, <3>6
    <2> QED BY <2>1, <2>2, <2>4, <2>5, <2>6 DEF Reports
<1> QED BY <1>3, <1>4, <1>5, <1>6, EnrichSplit

(* The inductive invariant of an enrichment: how far each worker has got    *)
(* with its row, and how far the serial pass has got with the report.       *)
THEOREM EnrichInvariant == EnrichSpec => []EnrichInv
<1>1. EnrichInit => EnrichInv
    <2> SUFFICES ASSUME EnrichInit PROVE EnrichInv
        OBVIOUS
    <2>1. EnrichTypes
        BY EnrichAssumption
           DEF EnrichInit, EnrichTypes, ContextInit, ContextTypeOK, Worker, Outcomes, KindsOf
    <2>2. Workers
        BY DEF EnrichInit, Workers, WorkOn
    <2>3. \A k : RowsOf(k) = {}
        BY DEF EnrichInit, RowsOf
    <2>4. \A k \in KindsOf(Rank) : Announcement(k)
        BY <2>3 DEF EnrichInit, Announcement, KindsOf
    <2>5. Reports
        BY <2>4 DEF EnrichInit, Reports, ReportOn
    <2> QED BY <2>1, <2>2, <2>5 DEF EnrichInv
<1>2. EnrichInv /\ [EnrichNext]_enrichVars => EnrichInv'
    BY EnrichTypesStep, WorkersStep, ReportsStep DEF EnrichInv
<1> QED BY <1>1, <1>2, PTL DEF EnrichSpec
-----------------------------------------------------------------------------
(* withEnrichRetry makes no attempt more than it may. *)
LEMMA TriesBounded ==
  ASSUME EnrichTypes, Workers, NEW r \in Rank
  PROVE  tries[r] \in 0..MaxAttempts
<1>1. WorkOn(r) /\ tries[r] \in Nat /\ worker[r] \in Worker
    BY DEF Workers, EnrichTypes
<1>2. CASE worker[r] = "calling"
    <2>1. tries[r] < MaxAttempts
        BY <1>1, <1>2 DEF WorkOn
    <2> QED BY <1>1, <2>1, EnrichAssumption
<1>3. CASE worker[r] # "calling"
    <2>1. tries[r] = 0 \/ tries[r] \in 1..MaxAttempts
        BY <1>1, <1>3 DEF WorkOn, Worker
    <2> QED BY <2>1, EnrichAssumption
<1> QED BY <1>2, <1>3

(* Every variable stays in its range; withEnrichRetry makes no attempt more *)
(* than it may.                                                             *)
THEOREM EnrichTypeCorrect == EnrichSpec => []EnrichTypeOK
<1>1. EnrichInv => EnrichTypeOK
    <2> SUFFICES ASSUME EnrichInv PROVE EnrichTypeOK
        OBVIOUS
    <2>1. \A r \in Rank : tries[r] \in 0..MaxAttempts
        BY TriesBounded DEF EnrichInv
    <2>2. tries \in [Rank -> 0..MaxAttempts]
        BY <2>1 DEF EnrichInv, EnrichTypes
    <2> QED BY <2>2 DEF EnrichInv, EnrichTypes, EnrichTypeOK, Worker, Outcomes, KindsOf
<1> QED BY <1>1, EnrichInvariant, PTL

(* EnrichAttributes returns with a status on every row it had an enricher   *)
(* for, and discloses every row without attributes exactly once.            *)
THEOREM StatusesAreTruthful == EnrichSpec => []StatusIsTruthful
<1>1. EnrichInv => StatusIsTruthful
    <2> SUFFICES ASSUME EnrichInv, stage = "done", NEW r \in Rank
                 PROVE  IF r \notin idx THEN status[r] = "none"
                        ELSE /\ status[r] = (IF r \in attrs THEN "full" ELSE "failed")
                             /\ (r \in attrs) = (r \notin warned \cup errs)
                             /\ r \notin warned \cap errs
        BY DEF StatusIsTruthful
    <2>1. ReportOn(r) /\ WorkOn(r) /\ Ahead = {} /\ results[r] \in Outcomes \cup {"none"}
        BY DEF EnrichInv, EnrichTypes, Workers, Reports
    <2>2. CASE r \notin idx
        BY <2>1, <2>2 DEF ReportOn
    <2>3. CASE r \in idx
        <3>1. r <= cursor
            BY <2>1, <2>3, EnrichAssumption DEF Ahead, Rank, EnrichInv, EnrichTypes
        <3>2. worker[r] = "returned" /\ results[r] # "none"
            BY <2>1, <2>3 DEF EnrichInv, Workers, WorkOn
        <3>3. r \in attrs <=> results[r] = "nil"
            BY <2>1, <3>2 DEF WorkOn
        <3>4. status[r] = (IF results[r] = "nil" THEN "full" ELSE "failed")
              /\ (r \in warned <=> results[r] \in {"no client", "not found"})
              /\ (r \in errs <=> results[r] \in {"throttle", "other"})
            BY <2>1, <2>3, <3>1 DEF ReportOn
        <3>5. status[r] = (IF r \in attrs THEN "full" ELSE "failed")
            BY <3>3, <3>4
        <3>6. r \notin warned \cap errs
            BY <3>4
        <3>7. r \in attrs <=> r \notin warned \cup errs
            BY <2>1, <3>2, <3>3, <3>4 DEF Outcomes
        <3>8. (r \in attrs) = (r \notin warned \cup errs)
            BY <3>7
        <3> QED BY <2>3, <3>5, <3>6, <3>8
    <2> QED BY <2>2, <2>3
<1> QED BY <1>1, EnrichInvariant, PTL

(* No failure, throttle or end of the context keeps EnrichAttributes from   *)
(* attempting a row, and none is attempted beyond the budget.               *)
THEOREM EveryRowIsAttempted == EnrichSpec => []EveryRowAttempted
<1>1. EnrichInv => EveryRowAttempted
    BY DEF EnrichInv, EnrichTypes, Workers, WorkOn, EveryRowAttempted
<1> QED BY <1>1, EnrichInvariant, PTL

(* Every type is announced with the number of its rows: the serial pass     *)
(* flushes the last type too.                                               *)
THEOREM AllTypesAreAnnounced == EnrichSpec => []AllTypesAnnounced
<1>1. EnrichInv => AllTypesAnnounced
    <2> SUFFICES ASSUME EnrichInv, stage = "done", NEW k \in KindsOf(Rank)
                 PROVE  announced[k] = Cardinality(RowsOf(k))
        BY DEF AllTypesAnnounced, EnrichInv, EnrichTypes, RowsOf
    <2>1. Announcement(k) /\ Ahead = {} /\ RowsOf(k) \in SUBSET Rank
        BY DEF EnrichInv, EnrichTypes, Reports, RowsOf
    <2>2. CASE RowsOf(k) = {}
        BY <2>1, <2>2, FS_EmptySet DEF Announcement
    <2>3. CASE RowsOf(k) # {}
        <3>1. PICK x \in RowsOf(k) : \A y \in RowsOf(k) : y <= x
            BY <2>1, <2>3, FirstAndLast
        <3>2. x <= cursor
            BY <2>1, <3>1, EnrichAssumption DEF Ahead, Rank, RowsOf, EnrichInv, EnrichTypes
        <3>3. LastOfType(x)
            <4> SUFFICES ASSUME NEW q \in idx, q > x, KindOf[q] = KindOf[x] PROVE FALSE
                BY DEF LastOfType
            <4>1. q \in RowsOf(k)
                BY DEF RowsOf
            <4>2. q <= x /\ q \in Rank /\ x \in Rank
                BY <2>1, <3>1, <4>1
            <4> QED BY <4>2, EnrichAssumption DEF Rank
        <3> QED BY <2>1, <3>1, <3>2, <3>3 DEF Announcement
    <2> QED BY <2>2, <2>3
<1> QED BY <1>1, EnrichInvariant, PTL
-----------------------------------------------------------------------------
LEMMA EnrichStepOfTheGroup ==
  ASSUME EnrichInv, [EnrichNext]_enrichVars
  PROVE  [EnrichGroup!Next]_(EnrichGroup!vars)
<1> DEFINE Todo == {r \in Rank : worker[r] = "waiting"}
           Joins == stage # "workers"
<1> USE DEF EnrichGroup!vars, EnrichGroup!Next
<1>0. worker \in [Rank -> Worker]
    BY DEF EnrichInv, EnrichTypes
<1>1. ASSUME Todo' = Todo, Busy' = Busy, Joins' = Joins PROVE UNCHANGED EnrichGroup!vars
    BY <1>1
<1>2. ASSUME NEW batch \in SUBSET Rank, Begin(batch) PROVE \E T \in SUBSET Rank : EnrichGroup!Open(T)
    <2>1. PICK T \in SUBSET Rank : T = Todo'
        OBVIOUS
    <2>2. Busy' = {} /\ Busy = {}
        BY <1>2 DEF Begin, Busy, EnrichInv, EnrichTypes, Workers, WorkOn
    <2>3. EnrichGroup!Open(T)
        BY <1>2, <2>1, <2>2 DEF Begin, EnrichGroup!Open
    <2> QED BY <2>3
<1>3. ASSUME NEW r \in Rank, RowStep(r)
      PROVE  EnrichGroup!Start(r) \/ EnrichGroup!Finish(r) \/ UNCHANGED EnrichGroup!vars
    <2>1. Joins' = Joins
        BY <1>3, OtherRowsUntouched DEF EnrichInv
    <2>2. CASE Hire(r)
        <3>1. PICK to \in {"jitter", "calling"} : worker' = [worker EXCEPT ![r] = to]
            BY <2>2 DEF Hire, Turns
        <3>2. worker[r] = "waiting"
            BY <2>2 DEF Hire
        <3>3. Busy' = Busy \cup {r} /\ Todo' = Todo \ {r} /\ r \in Todo
            BY <1>0, <3>1, <3>2 DEF Busy
        <3>4. Cardinality(Busy) < EnrichLimit
            BY <2>2 DEF Hire, PoolSlot
        <3> QED BY <2>1, <3>3, <3>4 DEF EnrichGroup!Start, Cardinality, EnrichGroup!Cardinality
    <2>3. CASE ~Hire(r)
        <3>1. PICK to \in {"calling", "backoff", "returned"} : worker' = [worker EXCEPT ![r] = to]
            BY <1>3, <2>3 DEF RowStep, JitterEnds, Settles, Throttled, BackoffEnds, BackoffCancelled,
                              Turns, AfterJitter
        <3>2. worker[r] \in {"jitter", "calling", "backoff"}
            BY <1>3, <2>3 DEF RowStep, JitterEnds, Settles, Throttled, Attempt, BackoffEnds,
                              BackoffCancelled
        <3>3. CASE to = "returned"
            <4>1. Busy' = Busy \ {r} /\ r \in Busy /\ Todo' = Todo
                BY <1>0, <3>1, <3>2, <3>3 DEF Busy
            <4> QED BY <2>1, <4>1 DEF EnrichGroup!Finish
        <3>4. CASE to # "returned"
            <4>1. Busy' = Busy /\ Todo' = Todo
                BY <1>0, <3>1, <3>2, <3>4 DEF Busy
            <4> QED BY <1>1, <2>1, <4>1
        <3> QED BY <3>3, <3>4
    <2> QED BY <2>2, <2>3
<1>4. ASSUME PoolJoined PROVE EnrichGroup!Join
    <2>1. worker' = worker /\ stage = "workers" /\ stage' = "report"
        BY <1>4 DEF PoolJoined, pool
    <2>2. \A r \in Rank : worker[r] \in {"none", "returned"}
        BY <1>4 DEF PoolJoined, EnrichInv, Workers, WorkOn
    <2>3. Busy = {} /\ Todo = {} /\ Busy' = {} /\ Todo' = {}
        BY <2>1, <2>2 DEF Busy
    <2> QED BY <2>1, <2>3 DEF EnrichGroup!Join
<1>5. ASSUME \/ \E r \in Rank : ReportRow(r)
             \/ ReportEnds \/ EnrichContextEnds \/ UNCHANGED enrichVars
      PROVE  UNCHANGED EnrichGroup!vars
    <2>1. worker' = worker /\ Joins' = Joins
        BY <1>5 DEF ReportRow, ReportEnds, EnrichContextEnds, enrichVars, pool
    <2> QED BY <1>1, <2>1 DEF Busy
<1> QED BY <1>2, <1>3, <1>4, <1>5, EnrichSplit

(* The workers of EnrichAttributes are a bounded group, joined before       *)
(* anything is reported.                                                    *)
THEOREM EnrichImplementsFanOut == EnrichSpec => EnrichIsAFanOut
<1>1. EnrichInit => EnrichGroup!Init
    BY DEF EnrichInit, EnrichGroup!Init, Busy
<1>2. EnrichInv /\ [EnrichNext]_enrichVars => [EnrichGroup!Next]_(EnrichGroup!vars)
    BY EnrichStepOfTheGroup
<1> QED BY <1>1, <1>2, EnrichInvariant, PTL DEF EnrichSpec, EnrichIsAFanOut, EnrichGroup!Spec
-----------------------------------------------------------------------------
(* The discovery of a survey is a discovery: what is proved of DiscoverSpec *)
(* holds of runBenchAWS.                                                    *)
THEOREM SurveyDiscovers == SurveySpec => DiscoverSpec
<1>1. [SurveyNext]_surveyVars => [DiscoverNext]_discoverVars
    BY DEF SurveyNext, surveyVars, DiscoverNext, Handover
<1>2. SurveyInit => DiscoverInit
    BY DEF SurveyInit
<1> QED BY <1>1, <1>2, PTL DEF SurveySpec, DiscoverSpec

(* And its enrichment is one, of a batch of rows the discovery returned.    *)
THEOREM SurveyEnriches == SurveySpec => EnrichSpec
<1>1. DiscoverInv /\ [SurveyNext]_surveyVars => [EnrichNext]_enrichVars
    <2> SUFFICES ASSUME DiscoverInv, [SurveyNext]_surveyVars PROVE [EnrichNext]_enrichVars
        OBVIOUS
    <2>1. Returned \in SUBSET Rank
        BY SurveyAssumption DEF Returned, DiscoverInv, DiscoverTypes
    <2> QED BY <2>1 DEF SurveyNext, surveyVars, EnrichNext, Handover
<1>2. SurveyInit => EnrichInit
    BY DEF SurveyInit
<1>3. SurveySpec => []DiscoverInv
    BY SurveyDiscovers, DiscoverInvariant, PTL
<1> QED BY <1>1, <1>2, <1>3, PTL DEF SurveySpec, EnrichSpec

(* What was handed over is what was found. *)
HandedOver ==
  stage # "off" =>
    /\ phase = "done"
    /\ idx = {r \in Returned : KindOf[r] \in Enrichable}

LEMMA HandedOverStep ==
  ASSUME DiscoverInv, EnrichInv, HandedOver, [SurveyNext]_surveyVars
  PROVE  HandedOver'
<1>1. CASE Handover
    BY <1>1 DEF Handover, Discovered, Begin, HandedOver, discoverVars, Returned
<1>2. CASE DiscoverStep /\ UNCHANGED enrichVars
    <2>1. phase = "done" => FALSE
        BY <1>2 DEF DiscoverStep, PrefetchReturns, PrefetchFails, Start, Awake, Answer, Fails, Expires,
                    Interrupted, Downgrade, GiveUp, Count, TellSink, Deliver, Joined, Augment,
                    DiscoverInv, Phases
    <2> QED BY <1>2, <2>1 DEF HandedOver, enrichVars
<1>3. CASE EnrichWork /\ UNCHANGED discoverVars
    <2>1. stage # "off" /\ idx' = idx
        <3>1. ASSUME NEW r \in Rank, RowStep(r) PROVE stage # "off" /\ idx' = idx
            BY <3>1, SettledStays, OtherRowsUntouched DEF EnrichInv
        <3>2. CASE PoolJoined \/ ReportEnds \/ \E r \in Rank : ReportRow(r)
            BY <3>2 DEF PoolJoined, ReportEnds, ReportRow
        <3> QED BY <1>3, <3>1, <3>2 DEF EnrichWork, RowStep
    <2> QED BY <1>3, <2>1 DEF HandedOver, discoverVars, Returned
<1>4. CASE \/ ContextEnds /\ UNCHANGED <<phase, bounded, task, problem, found, telling, stamped,
                                        history, stage, idx, pool, report>>
           \/ UNCHANGED surveyVars
    BY <1>4 DEF HandedOver, surveyVars, discoverVars, enrichVars, Returned
<1> QED BY <1>1, <1>2, <1>3, <1>4 DEF SurveyNext

(* An enrichment is under way only after a discovery that succeeded, and of *)
(* exactly the rows it returned.                                            *)
THEOREM EnrichmentFollowsDiscovery == SurveySpec => []HandedOver
<1>1. SurveySpec => [](DiscoverInv /\ EnrichInv)
    BY SurveyDiscovers, SurveyEnriches, DiscoverInvariant, EnrichInvariant, PTL
<1>2. SurveyInit => HandedOver
    BY DEF SurveyInit, EnrichInit, HandedOver
<1>3. DiscoverInv /\ EnrichInv /\ HandedOver /\ [SurveyNext]_surveyVars => HandedOver'
    BY HandedOverStep
<1> QED BY <1>1, <1>2, <1>3, PTL DEF SurveySpec

(* The counts of runBenchAWS are those of the account: whatever timed out,  *)
(* failed or was cancelled, an enrichment covers exactly the rows of the    *)
(* types that answered, and each of them ends with a status.                *)
THEOREM SurveyIsAccurate == SurveySpec => []SurveyAccounts
<1>1. SurveySpec => [](DiscoverInv /\ EnrichInv)
    BY SurveyDiscovers, SurveyEnriches, DiscoverInvariant, EnrichInvariant, PTL
<1>2. SurveySpec => []HandedOver
    BY EnrichmentFollowsDiscovery
<1>3. SurveySpec => []StatusIsTruthful
    BY SurveyEnriches, StatusesAreTruthful, PTL
<1>4. DiscoverInv /\ EnrichInv /\ HandedOver /\ StatusIsTruthful => SurveyAccounts
    <2> SUFFICES ASSUME DiscoverInv, EnrichInv, HandedOver, StatusIsTruthful, stage # "off"
                 PROVE  /\ idx = {r \in UNION {found[t] : t \in Type \ downgraded} : KindOf[r] \in Enrichable}
                        /\ \A t \in Type \ downgraded : handed[t] # "nothing" /\ problem[t] = "none"
                        /\ downgraded # {} => bounded
                        /\ stage = "done" => \A r \in idx : status[r] # "none"
        BY DEF SurveyAccounts
    <2>1. Returned = UNION {found[t] : t \in Type \ downgraded}
        <3>1. \A t \in Type : t \in downgraded => found[t] = {}
            BY DEF DiscoverInv, Careers
        <3> QED BY <3>1 DEF Returned
    <2>2. \A t \in Type : task[t] = "ok"
        BY DEF HandedOver, DiscoverInv, Phases
    <2>3. \A t \in Type \ downgraded : handed[t] # "nothing" /\ problem[t] = "none"
        BY <2>2 DEF DiscoverInv, Careers
    <2>4. stage = "done" => \A r \in idx : status[r] # "none"
        BY DEF StatusIsTruthful, EnrichInv, EnrichTypes
    <2>5. downgraded # {} => bounded
        BY DEF DiscoverInv, DiscoverTypes, Careers
    <2> QED BY <2>1, <2>3, <2>4, <2>5 DEF HandedOver
<1> QED BY <1>1, <1>2, <1>3, <1>4, PTL

(* A discovery tells the same story in its rows, its callbacks, its counts  *)
(* and its error.                                                           *)
THEOREM DiscoveriesAreTruthful == DiscoverSpec => []DiscoveryIsTruthful
<1>1. DeliveriesMatchResults /\ OnlyTimeoutsDowngrade /\ FailureHasACause => DiscoveryIsTruthful
  BY DEF DiscoveryIsTruthful
<1> QED BY <1>1, DeliveriesMatch, OnlyTimeouts, FailuresHaveACause, PTL

(* An enrichment attempts every row, and leaves a true status on every row  *)
(* and a true count for every type.                                         *)
THEOREM EnrichmentsAreTruthful == EnrichSpec => []EnrichmentIsTruthful
<1>1. StatusIsTruthful /\ EveryRowAttempted /\ AllTypesAnnounced => EnrichmentIsTruthful
  BY DEF EnrichmentIsTruthful
<1> QED BY <1>1, StatusesAreTruthful, EveryRowIsAttempted, AllTypesAreAnnounced, PTL

(* In a survey the discovery keeps its promise ...                          *)
THEOREM SurveysDiscoverTruthfully == SurveySpec => []DiscoveryIsTruthful
BY SurveyDiscovers, DiscoveriesAreTruthful

(* ... and so does the enrichment that follows it.                          *)
THEOREM SurveysEnrichTruthfully == SurveySpec => []EnrichmentIsTruthful
BY SurveyEnriches, EnrichmentsAreTruthful
-----------------------------------------------------------------------------
(* Both groups of a survey keep what FanOut promises: neither ever runs     *)
(* more goroutines than its limit, and none is left behind a join.          *)
THEOREM SurveyGroupsAreBounded ==
  SurveySpec => [](DiscoverGroup!FanOutSafe /\ EnrichGroup!FanOutSafe)
<1>1. /\ IsFiniteSet(Type) /\ DiscoverLimit \in Nat \ {0}
      /\ IsFiniteSet(Rank) /\ EnrichLimit \in Nat \ {0}
    BY TypesFinite, RowsFinite, DiscoverAssumption, EnrichAssumption
<1>2. /\ \A S : DiscoverGroup!IsFiniteSet(S) = IsFiniteSet(S)
      /\ \A S : EnrichGroup!IsFiniteSet(S) = IsFiniteSet(S)
    BY DEF IsFiniteSet, DiscoverGroup!IsFiniteSet, EnrichGroup!IsFiniteSet
<1>3. /\ DiscoverGroup!Init => DiscoverGroup!FanOutSafe
      /\ EnrichGroup!Init => EnrichGroup!FanOutSafe
    BY <1>1, DiscoverGroup!GroupInit, EnrichGroup!GroupInit
<1>4. DiscoverGroup!FanOutSafe /\ [DiscoverGroup!Next]_(DiscoverGroup!vars) => DiscoverGroup!FanOutSafe'
    BY <1>1, <1>2, DiscoverGroup!GroupStep
<1>5. EnrichGroup!FanOutSafe /\ [EnrichGroup!Next]_(EnrichGroup!vars) => EnrichGroup!FanOutSafe'
    BY <1>1, <1>2, EnrichGroup!GroupStep
<1>6. SurveySpec => DiscoverGroup!Spec /\ EnrichGroup!Spec
    BY SurveyDiscovers, SurveyEnriches, DiscoverImplementsFanOut, EnrichImplementsFanOut
       DEF DiscoverIsAFanOut, EnrichIsAFanOut
<1> QED BY <1>3, <1>4, <1>5, <1>6, PTL DEF DiscoverGroup!Spec, EnrichGroup!Spec

(* The two groups never overlap: a goroutine of the enrichment only runs    *)
(* when every goroutine of the discovery has returned, so that the rows it  *)
(* writes to are no longer shared, and each limit is that of the survey.    *)
OneGroupAtATime == Running = {} \/ Busy = {}

THEOREM GroupsTakeTurns == SurveySpec => []OneGroupAtATime
<1>1. SurveySpec => [](DiscoverInv /\ EnrichInv)
    BY SurveyDiscovers, SurveyEnriches, DiscoverInvariant, EnrichInvariant, PTL
<1>2. DiscoverInv /\ EnrichInv /\ HandedOver => OneGroupAtATime
    <2> SUFFICES ASSUME DiscoverInv, EnrichInv, HandedOver, Busy # {} PROVE Running = {}
        BY DEF OneGroupAtATime
    <2>1. idx # {}
        BY DEF Busy, EnrichInv, Workers, WorkOn
    <2>2. phase = "done"
        BY <2>1 DEF HandedOver, EnrichInv, Workers
    <2> QED BY <2>2 DEF DiscoverInv, Phases, Running
<1> QED BY <1>1, <1>2, EnrichmentFollowsDiscovery, PTL
-----------------------------------------------------------------------------
(* What is left to do.  A set of rungs every task is yet to descend: a step *)
(* that lets one task down takes elements out of it, so that its size is a  *)
(* measure of the whole group.                                              *)
Rungs(S, Top, h) == {p \in S \X (1..Top) : p[2] <= h[p[1]]}

LEMMA RungsFinite ==
  ASSUME NEW S, IsFiniteSet(S), NEW Top \in Nat, NEW h
  PROVE  IsFiniteSet(Rungs(S, Top, h)) /\ Cardinality(Rungs(S, Top, h)) \in 0..(Cardinality(S) * Top)
<1>1. IsFiniteSet(1..Top) /\ Cardinality(1..Top) = Top
    <2>1. 1 \in Int /\ Top \in Int
        OBVIOUS
    <2> QED BY <2>1, FS_Interval
<1>2. IsFiniteSet(S \X (1..Top)) /\ Cardinality(S \X (1..Top)) = Cardinality(S) * Top
    BY <1>1, FS_Product
<1>3. Rungs(S, Top, h) \in SUBSET (S \X (1..Top))
    BY DEF Rungs
<1>4. /\ IsFiniteSet(Rungs(S, Top, h))
      /\ Cardinality(Rungs(S, Top, h)) <= Cardinality(S \X (1..Top))
      /\ Cardinality(Rungs(S, Top, h)) \in Nat /\ Cardinality(S \X (1..Top)) \in Nat
    BY <1>2, <1>3, FS_Subset, FS_CardinalityType
<1> QED BY <1>2, <1>4

LEMMA StepDown ==
  ASSUME NEW S, IsFiniteSet(S), NEW Top \in Nat, NEW g \in [S -> 0..Top], NEW h \in [S -> 0..Top],
         \A x \in S : h[x] <= g[x], NEW y \in S, h[y] < g[y]
  PROVE  Cardinality(Rungs(S, Top, h)) < Cardinality(Rungs(S, Top, g))
<1>1. Rungs(S, Top, h) \in SUBSET Rungs(S, Top, g)
    <2> SUFFICES ASSUME NEW p \in S \X (1..Top), p[2] <= h[p[1]] PROVE p[2] <= g[p[1]]
        BY DEF Rungs
    <2>1. p[1] \in S /\ p[2] \in Nat /\ h[p[1]] \in Nat /\ g[p[1]] \in Nat /\ h[p[1]] <= g[p[1]]
        OBVIOUS
    <2> QED BY <2>1
<1>2. <<y, g[y]>> \in Rungs(S, Top, g) /\ <<y, g[y]>> \notin Rungs(S, Top, h)
    <2>1. g[y] \in 1..Top /\ ~(g[y] <= h[y])
        OBVIOUS
    <2> QED BY <2>1 DEF Rungs
<1>3. /\ IsFiniteSet(Rungs(S, Top, g))
      /\ Cardinality(Rungs(S, Top, g)) \in Nat /\ Cardinality(Rungs(S, Top, h)) \in Nat
    BY RungsFinite, FS_CardinalityType
<1>4. /\ Cardinality(Rungs(S, Top, h)) <= Cardinality(Rungs(S, Top, g))
      /\ Cardinality(Rungs(S, Top, g)) # Cardinality(Rungs(S, Top, h))
    BY <1>1, <1>2, <1>3, FS_Subset
<1> QED BY <1>3, <1>4

LEMMA NoStepUp ==
  ASSUME NEW S, IsFiniteSet(S), NEW Top \in Nat, NEW g \in [S -> 0..Top], NEW h \in [S -> 0..Top],
         \A x \in S : h[x] <= g[x]
  PROVE  Cardinality(Rungs(S, Top, h)) <= Cardinality(Rungs(S, Top, g))
<1>1. CASE \E y \in S : h[y] < g[y]
    <2>1. Cardinality(Rungs(S, Top, h)) < Cardinality(Rungs(S, Top, g))
        BY <1>1, StepDown
    <2> QED BY <2>1, RungsFinite
<1>2. CASE \A y \in S : ~(h[y] < g[y])
    <2>1. \A y \in S : h[y] = g[y]
        BY <1>2
    <2>2. h = g
        BY <2>1
    <2> QED BY <2>2, RungsFinite
<1> QED BY <1>1, <1>2

LEMMA SumsDescend ==
  ASSUME NEW a \in Nat, NEW b \in Nat, NEW c \in Nat, NEW x \in Nat, NEW y \in Nat, NEW z \in Nat,
         x <= a, y <= b, z <= c, x # a \/ y # b \/ z # c
  PROVE  x + y + z < a + b + c
OBVIOUS

LEMMA TwoDescend ==
  ASSUME NEW a \in Nat, NEW b \in Nat, NEW x \in Nat, NEW y \in Nat, x <= a, y <= b, x < a \/ y < b
  PROVE  x + y < a + b
OBVIOUS

LEMMA SerialDescends ==
  ASSUME NEW n \in Nat, NEW a \in 0..3, NEW b \in 0..3, NEW c \in Nat, NEW d \in Nat,
         b <= a, c <= d, b < a \/ c < d
  PROVE  b + (n - d) < a + (n - c)
OBVIOUS

LEMMA SumOfTwo ==
  ASSUME NEW n \in Nat, NEW a \in 0..3, NEW b \in 0..n
  PROVE  a + b \in 0..(n + 3)
OBVIOUS

LEMMA SumOfThree ==
  ASSUME NEW m \in Nat, NEW n \in Nat, NEW a \in 0..m, NEW b \in 0..(n + 3), NEW c \in 0..1
  PROVE  a + b + c \in 0..(m + n + 4)
OBVIOUS

ContextLeft == IF ContextOver THEN 0 ELSE 1

(* The stages a type still has before it ... *)
TypeLeft ==
  LET left == [idle |-> 7, jitter |-> 6, calling |-> 5, judge |-> 4, count |-> 3,
               counting |-> 2, deliver |-> 1, ok |-> 0, err |-> 0]
  IN  [t \in Type |-> left[task[t]]]

PhaseLeft ==
  CASE phase = "prefetch" -> 3 [] phase = "fanout" -> 2 [] phase = "augment" -> 1 [] OTHER -> 0

(* ... and what that makes for a discovery. *)
TypesLeft == Cardinality(Rungs(Type, 7, TypeLeft))
DiscoverLeft == TypesLeft + PhaseLeft + ContextLeft

LEMMA TypeLeftBounded ==
  ASSUME DiscoverTypes
  PROVE  /\ TypesLeft \in 0..(7 * NumTypes) /\ PhaseLeft \in 0..3 /\ ContextLeft \in 0..1
         /\ DiscoverLeft \in 0..(7 * NumTypes + 4)
<1>1. TypesLeft \in 0..(NumTypes * 7)
    BY TypesFinite, RungsFinite DEF TypesLeft
<1>2. TypesLeft \in 0..(7 * NumTypes)
    BY <1>1, DiscoverAssumption
<1>3. PhaseLeft \in 0..3 /\ ContextLeft \in 0..1
    BY DEF PhaseLeft, ContextLeft
<1> QED BY <1>2, <1>3, DiscoverAssumption DEF DiscoverLeft

LEMMA TypeStepsDown ==
  ASSUME DiscoverTypes, DiscoverTypes', NEW t \in Type, TypeStep(t)
  PROVE  TypesLeft' < TypesLeft
<1>1. \A u \in Type \ {t} : TypeLeft'[u] = TypeLeft[u]
    BY OthersUntouched DEF TypeLeft
<1>2. TypeLeft'[t] < TypeLeft[t]
    <2>1. \/ task[t] = "idle" /\ task'[t] = "jitter"
          \/ task[t] = "jitter" /\ task'[t] \in {"calling", "err"}
          \/ task[t] = "calling" /\ task'[t] \in {"count", "judge"}
          \/ task[t] = "judge" /\ task'[t] \in {"count", "err"}
          \/ task[t] = "count" /\ task'[t] = "counting"
          \/ task[t] = "counting" /\ task'[t] = "deliver"
          \/ task[t] = "deliver" /\ task'[t] = "ok"
        BY DEF DiscoverTypes, TypeStep, Start, Awake, GiveUp, Answer, Fails, Expires, Interrupted,
               Downgrade, Count, TellSink, Deliver, Goes, TellOfNothing
    <2> QED BY <2>1 DEF TypeLeft
<1>3. TypeLeft \in [Type -> 0..7] /\ TypeLeft' \in [Type -> 0..7]
    BY DEF DiscoverTypes, TypeLeft, TaskStates
<1>4. \A u \in Type : TypeLeft'[u] <= TypeLeft[u]
    BY <1>1, <1>2, <1>3
<1>5. Cardinality(Rungs(Type, 7, TypeLeft')) < Cardinality(Rungs(Type, 7, TypeLeft))
    BY <1>2, <1>3, <1>4, TypesFinite, StepDown
<1> QED BY <1>5 DEF TypesLeft, Rungs, Type

LEMMA DiscoverStepsDown ==
  ASSUME DiscoverTypes, DiscoverTypes', [DiscoverNext]_discoverVars
  PROVE  UNCHANGED discoverVars \/ DiscoverLeft' < DiscoverLeft
<1>1. /\ TypesLeft \in Nat /\ PhaseLeft \in Nat /\ ContextLeft \in Nat
      /\ TypesLeft' \in Nat /\ PhaseLeft' \in Nat /\ ContextLeft' \in Nat
    <2>1. TypesLeft \in Nat /\ PhaseLeft \in Nat /\ ContextLeft \in Nat
        BY TypeLeftBounded
    <2>2. TypeLeft' \in [Type -> 0..7] /\ PhaseLeft' \in Nat /\ ContextLeft' \in Nat
        BY DEF DiscoverTypes, TypeLeft, TaskStates, PhaseLeft, ContextLeft
    <2>3. Cardinality(Rungs(Type, 7, TypeLeft')) \in 0..(NumTypes * 7)
        BY TypesFinite, RungsFinite
    <2> QED BY <2>1, <2>2, <2>3 DEF TypesLeft, Rungs, Type
<1>2. ASSUME NEW t \in Type, TypeStep(t) PROVE DiscoverLeft' < DiscoverLeft
    <2>1. PhaseLeft' = PhaseLeft /\ ContextLeft' = ContextLeft
        BY <1>2, OthersUntouched DEF PhaseLeft, ContextLeft, ContextOver
    <2>2. TypesLeft' < TypesLeft
        BY <1>2, TypeStepsDown
    <2>3. /\ TypesLeft' <= TypesLeft /\ PhaseLeft' <= PhaseLeft /\ ContextLeft' <= ContextLeft
          /\ TypesLeft' # TypesLeft
        BY <1>1, <2>1, <2>2
    <2> QED BY <1>1, <2>3, SumsDescend DEF DiscoverLeft
<1>3. ASSUME Outside, ~UNCHANGED discoverVars PROVE DiscoverLeft' < DiscoverLeft
    <2>1. TypesLeft' = TypesLeft
        BY <1>3, OutsideTouchesNoTask DEF TypesLeft, TypeLeft, Rungs, Type
    <2>2. \/ PhaseLeft' < PhaseLeft /\ ContextLeft' = ContextLeft
          \/ PhaseLeft' = PhaseLeft /\ ContextLeft' < ContextLeft
        BY <1>3 DEF Outside, PrefetchReturns, PrefetchFails, Joined, Augment, ContextEnds,
                    ContextLeft, ContextOver, PhaseLeft
    <2>3. /\ TypesLeft' <= TypesLeft /\ PhaseLeft' <= PhaseLeft /\ ContextLeft' <= ContextLeft
          /\ PhaseLeft' # PhaseLeft \/ ContextLeft' # ContextLeft
        BY <1>1, <2>1, <2>2
    <2> QED BY <1>1, <2>3, SumsDescend DEF DiscoverLeft
<1> QED BY <1>2, <1>3, DiscoverSplit

(* A discovery has no cycle: every step of a goroutine, of the passes       *)
(* before and after them or of the caller's clock uses up one of at most    *)
(* 7 * NumTypes + 4, whatever the listings answer.                          *)
THEOREM DiscoveriesAreFinite ==
  DiscoverSpec => [][DiscoverLeft' < DiscoverLeft /\ DiscoverLeft \in 0..(7 * NumTypes + 4)]_discoverVars
<1>1. DiscoverTypes /\ DiscoverTypes' /\ [DiscoverNext]_discoverVars =>
        [DiscoverLeft' < DiscoverLeft /\ DiscoverLeft \in 0..(7 * NumTypes + 4)]_discoverVars
    BY DiscoverStepsDown, TypeLeftBounded
<1>2. DiscoverInv => DiscoverTypes
    BY DEF DiscoverInv
<1> QED BY <1>1, <1>2, DiscoverInvariant, PTL DEF DiscoverSpec

(* What a worker may still do: two steps for each attempt it has left ... *)
Climb == 2 * MaxAttempts + 3
RowLeft ==
  LET left == [none |-> 3, waiting |-> 2, jitter |-> 1, calling |-> 0, backoff |-> 1, returned |-> 0]
  IN  [r \in Rank |-> 2 * (MaxAttempts - tries[r]) + left[worker[r]]]
RowsLeft == Cardinality(Rungs(Rank, Climb, RowLeft))

StageLeft ==
  CASE stage = "off" -> 3 [] stage = "workers" -> 2 [] stage = "report" -> 1 [] OTHER -> 0
SerialLeft == StageLeft + (NumRows - cursor)

(* ... and what that makes for an enrichment. *)
EnrichLeft == RowsLeft + SerialLeft + ContextLeft

LEMMA RowLeftBounded ==
  ASSUME EnrichTypes, Workers
  PROVE  /\ Climb \in Nat /\ RowLeft \in [Rank -> 0..Climb]
         /\ RowsLeft \in 0..(NumRows * Climb) /\ SerialLeft \in 0..(NumRows + 3) /\ ContextLeft \in 0..1
         /\ EnrichLeft \in 0..(NumRows * Climb + NumRows + 4)
<1>1. Climb \in Nat
    BY EnrichAssumption DEF Climb
<1>2. ASSUME NEW r \in Rank PROVE RowLeft[r] \in 0..Climb
    <2>1. tries[r] \in 0..MaxAttempts /\ MaxAttempts \in Nat
        BY TriesBounded, EnrichAssumption
    <2>2. worker[r] \in Worker
        BY DEF EnrichTypes
    <2>3. PICK w \in 0..3 : RowLeft[r] = 2 * (MaxAttempts - tries[r]) + w
        BY <2>2 DEF RowLeft, Worker
    <2> QED BY <2>1, <2>3 DEF Climb
<1>3. RowLeft \in [Rank -> 0..Climb]
    BY <1>2 DEF RowLeft
<1>4. IsFiniteSet(Rank) /\ Cardinality(Rank) = NumRows
    BY EnrichAssumption, FS_Interval DEF Rank
<1>5. RowsLeft \in 0..(NumRows * Climb)
    BY <1>1, <1>4, RungsFinite DEF RowsLeft
<1>6. SerialLeft \in 0..(NumRows + 3)
    <2>1. StageLeft \in 0..3
        BY DEF StageLeft
    <2>2. cursor \in 0..NumRows /\ NumRows \in Nat
        BY EnrichAssumption DEF EnrichTypes
    <2>3. NumRows - cursor \in 0..NumRows
        BY <2>2
    <2> QED BY <2>1, <2>2, <2>3, SumOfTwo DEF SerialLeft
<1>7. ContextLeft \in 0..1
    BY DEF ContextLeft
<1>8. NumRows * Climb \in Nat /\ NumRows \in Nat
    BY <1>1, EnrichAssumption
<1>9. EnrichLeft \in 0..(NumRows * Climb + NumRows + 4)
    BY <1>5, <1>6, <1>7, <1>8, SumOfThree DEF EnrichLeft
<1> QED BY <1>1, <1>3, <1>5, <1>6, <1>7, <1>9

(* Within these bounds a measure is a number, after a step too. *)
EnrichBounds ==
  /\ RowLeft \in [Rank -> 0..Climb]
  /\ RowsLeft \in 0..(NumRows * Climb) /\ SerialLeft \in 0..(NumRows + 3) /\ ContextLeft \in 0..1
  /\ EnrichLeft \in 0..(NumRows * Climb + NumRows + 4)

LEMMA RowStepsDown ==
  ASSUME EnrichTypes, EnrichBounds, EnrichBounds', NEW r \in Rank, RowStep(r)
  PROVE  RowsLeft' < RowsLeft
<1>1. \A q \in Rank \ {r} : RowLeft'[q] = RowLeft[q]
    BY OtherRowsUntouched DEF RowLeft
<1>2. RowLeft'[r] < RowLeft[r]
    <2>1. tries[r] \in Nat /\ MaxAttempts \in Nat /\ worker \in [Rank -> Worker] /\ tries \in [Rank -> Nat]
        BY EnrichAssumption DEF EnrichTypes
    <2>2. CASE Hire(r) \/ JitterEnds(r)
        <3>1. \/ worker[r] = "waiting" /\ worker'[r] \in {"jitter", "calling"}
              \/ worker[r] = "jitter" /\ worker'[r] = "calling"
            BY <2>1, <2>2 DEF Hire, JitterEnds, Turns, AfterJitter
        <3>2. tries'[r] = tries[r]
            BY <2>2 DEF Hire, JitterEnds
        <3> QED BY <2>1, <3>1, <3>2 DEF RowLeft
    <2>3. ASSUME NEW result, Attempt(r, result), worker'[r] \in {"backoff", "returned"}
          PROVE  RowLeft'[r] < RowLeft[r]
        <3>1. worker[r] = "calling" /\ tries'[r] = tries[r] + 1
            BY <2>1, <2>3 DEF Attempt
        <3> QED BY <2>1, <2>3, <3>1 DEF RowLeft
    <2>4. CASE BackoffEnds(r) \/ BackoffCancelled(r)
        <3>1. worker[r] = "backoff" /\ worker'[r] \in {"calling", "returned"} /\ tries'[r] = tries[r]
            BY <2>1, <2>4 DEF BackoffEnds, BackoffCancelled, Turns
        <3> QED BY <2>1, <3>1 DEF RowLeft
    <2> QED BY <2>1, <2>2, <2>3, <2>4 DEF RowStep, Settles, Throttled, Turns
<1>3. Climb \in Nat
    BY EnrichAssumption DEF Climb
<1>4. RowLeft \in [Rank -> 0..Climb] /\ RowLeft' \in [Rank -> 0..Climb]
    BY DEF EnrichBounds
<1>5. \A q \in Rank : RowLeft'[q] <= RowLeft[q]
    BY <1>1, <1>2, <1>3, <1>4
<1>6. Cardinality(Rungs(Rank, Climb, RowLeft')) < Cardinality(Rungs(Rank, Climb, RowLeft))
    BY <1>2, <1>3, <1>4, <1>5, RowsFinite, StepDown
<1> QED BY <1>6 DEF RowsLeft, Rungs, Rank, Climb

LEMMA EnrichStepsDown ==
  ASSUME EnrichInv, EnrichBounds, EnrichBounds', [EnrichNext]_enrichVars
  PROVE  UNCHANGED enrichVars \/ EnrichLeft' < EnrichLeft
<1>1. /\ RowsLeft \in Nat /\ SerialLeft \in Nat /\ ContextLeft \in Nat
      /\ RowsLeft' \in Nat /\ SerialLeft' \in Nat /\ ContextLeft' \in Nat
    BY DEF EnrichBounds
<1>2. ASSUME RowsLeft' <= RowsLeft, SerialLeft' <= SerialLeft, ContextLeft' <= ContextLeft,
             RowsLeft' # RowsLeft \/ SerialLeft' # SerialLeft \/ ContextLeft' # ContextLeft
      PROVE  EnrichLeft' < EnrichLeft
    BY <1>1, <1>2, SumsDescend DEF EnrichLeft
<1>3. ASSUME NEW r \in Rank, RowStep(r) PROVE EnrichLeft' < EnrichLeft
    <2>1. SerialLeft' = SerialLeft /\ ContextLeft' = ContextLeft
        BY <1>3, OtherRowsUntouched DEF SerialLeft, StageLeft, ContextLeft, ContextOver, report, EnrichInv
    <2>2. RowsLeft' < RowsLeft
        BY <1>3, RowStepsDown DEF EnrichInv
    <2>3. RowsLeft' <= RowsLeft /\ RowsLeft' # RowsLeft
        BY <1>1, <2>2
    <2> QED BY <1>1, <1>2, <2>1, <2>3
<1>4. cursor \in Nat /\ NumRows \in Nat /\ cursor <= NumRows /\ StageLeft \in 0..3 /\ StageLeft' \in 0..3
    BY EnrichAssumption DEF EnrichInv, EnrichTypes, StageLeft
<1>5. ASSUME UNCHANGED <<worker, tries>>, ContextLeft' = ContextLeft,
             \/ UNCHANGED cursor /\ StageLeft' < StageLeft
             \/ UNCHANGED stage /\ cursor' \in Nat /\ cursor < cursor'
      PROVE  EnrichLeft' < EnrichLeft
    <2>1. RowsLeft' = RowsLeft
        BY <1>5 DEF RowsLeft, RowLeft, Rungs, Rank, Climb
    <2>2. SerialLeft' < SerialLeft
        <3>1. CASE UNCHANGED cursor /\ StageLeft' < StageLeft
            <4>1. StageLeft' <= StageLeft /\ cursor <= cursor' /\ cursor' \in Nat
                BY <1>4, <3>1
            <4> QED BY <1>4, <3>1, <4>1, SerialDescends DEF SerialLeft
        <3>2. CASE UNCHANGED stage /\ cursor' \in Nat /\ cursor < cursor'
            <4>1. StageLeft' = StageLeft
                BY <3>2 DEF StageLeft
            <4>2. StageLeft' <= StageLeft /\ cursor <= cursor'
                BY <1>4, <3>2, <4>1
            <4> QED BY <1>4, <3>2, <4>2, SerialDescends DEF SerialLeft
        <3> QED BY <1>5, <3>1, <3>2
    <2>3. SerialLeft' <= SerialLeft /\ SerialLeft' # SerialLeft
        BY <1>1, <2>2
    <2> QED BY <1>1, <1>2, <1>5, <2>1, <2>3
<1>6. CASE PoolJoined \/ ReportEnds
    <2>1. /\ UNCHANGED <<ctx, cursor, worker, tries>>
          /\ \/ stage = "workers" /\ stage' = "report"
             \/ stage = "report" /\ stage' = "done"
        BY <1>6 DEF PoolJoined, ReportEnds, pool, report
    <2> QED BY <1>5, <2>1 DEF StageLeft, ContextLeft, ContextOver
<1>7. ASSUME NEW r \in Rank, ReportRow(r) PROVE EnrichLeft' < EnrichLeft
    <2>1. Ahead \in SUBSET Rank /\ Ahead # {} /\ r = Min(Ahead) /\ cursor' = r
        BY <1>7 DEF ReportRow, Ahead, EnrichInv, EnrichTypes
    <2>2. r \in Ahead /\ r \in Nat
        BY <2>1, MinIsLeast, EnrichAssumption DEF Rank
    <2>3. cursor < r
        BY <1>4, <2>2 DEF Ahead
    <2> QED BY <1>5, <1>7, <2>1, <2>2, <2>3 DEF ReportRow, pool, ContextLeft, ContextOver
<1>8. ASSUME EnrichContextEnds PROVE EnrichLeft' < EnrichLeft
    <2>1. /\ RowsLeft' = RowsLeft /\ SerialLeft' = SerialLeft
          /\ ContextLeft = 1 /\ ContextLeft' = 0
        BY <1>8 DEF EnrichContextEnds, ContextEnds, ContextLeft, ContextOver, pool, report, RowsLeft,
                    RowLeft, Rungs, Rank, Climb, SerialLeft, StageLeft
    <2>2. ContextLeft' <= ContextLeft /\ ContextLeft' # ContextLeft
        BY <2>1
    <2> QED BY <1>1, <1>2, <2>1, <2>2
<1>9. ASSUME NEW batch \in SUBSET Rank, Begin(batch) PROVE EnrichLeft' < EnrichLeft
    <2>1. \A r \in Rank : RowLeft'[r] <= RowLeft[r]
        <3> SUFFICES ASSUME NEW r \in Rank PROVE RowLeft'[r] <= RowLeft[r]
            OBVIOUS
        <3>1. worker[r] = "none" /\ worker'[r] \in {"none", "waiting"} /\ tries'[r] = tries[r]
            BY <1>9 DEF Begin, EnrichInv, Workers, WorkOn
        <3>2. tries[r] \in Nat /\ MaxAttempts \in Nat
            BY EnrichAssumption DEF EnrichInv, EnrichTypes
        <3> QED BY <3>1, <3>2 DEF RowLeft
    <2>2. Climb \in Nat
        BY EnrichAssumption DEF Climb
    <2>3. RowLeft \in [Rank -> 0..Climb] /\ RowLeft' \in [Rank -> 0..Climb]
        BY DEF EnrichBounds
    <2>4. Cardinality(Rungs(Rank, Climb, RowLeft')) <= Cardinality(Rungs(Rank, Climb, RowLeft))
        BY <2>1, <2>2, <2>3, RowsFinite, NoStepUp
    <2>5. RowsLeft' <= RowsLeft
        BY <2>4 DEF RowsLeft, Rungs, Rank, Climb
    <2>6. UNCHANGED <<ctx, cursor>> /\ stage = "off" /\ stage' = "workers"
        BY <1>9 DEF Begin, report
    <2>7. ContextLeft' = ContextLeft /\ StageLeft = 3 /\ StageLeft' = 2
        BY <2>6 DEF StageLeft, ContextLeft, ContextOver
    <2>8. SerialLeft' <= SerialLeft /\ SerialLeft' # SerialLeft
        BY <1>4, <2>6, <2>7 DEF SerialLeft
    <2> QED BY <1>1, <1>2, <2>5, <2>7, <2>8
<1> QED BY <1>3, <1>6, <1>7, <1>8, <1>9, EnrichSplit

(* Nor has an enrichment: throttles are retried and rows are reported, but  *)
(* every step uses up one of a number fixed by the rows and the budget.     *)
THEOREM EnrichmentsAreFinite ==
  EnrichSpec => [][EnrichLeft' < EnrichLeft /\ EnrichLeft \in 0..(NumRows * Climb + NumRows + 4)]_enrichVars
<1>1. EnrichInv => EnrichBounds
    BY RowLeftBounded DEF EnrichInv, EnrichBounds
<1>2. EnrichInv /\ EnrichBounds /\ EnrichBounds' /\ [EnrichNext]_enrichVars =>
        [EnrichLeft' < EnrichLeft /\ EnrichLeft \in 0..(NumRows * Climb + NumRows + 4)]_enrichVars
    BY EnrichStepsDown DEF EnrichBounds
<1> QED BY <1>1, <1>2, EnrichInvariant, PTL DEF EnrichSpec

(* And so a survey, its handover included, is as long as its parts at most: *)
(* it ends, or it waits for the cloud.                                      *)
SurveyLeft == DiscoverLeft + EnrichLeft

THEOREM SurveysAreFinite ==
  SurveySpec => [][SurveyLeft' < SurveyLeft /\ SurveyLeft \in Nat]_surveyVars
<1>1. DiscoverInv => DiscoverTypes /\ DiscoverLeft \in Nat
    BY TypeLeftBounded DEF DiscoverInv
<1>2. EnrichInv => EnrichBounds
    BY RowLeftBounded DEF EnrichInv, EnrichBounds
<1>3. ASSUME DiscoverTypes, DiscoverTypes', EnrichInv, EnrichBounds, EnrichBounds',
             DiscoverLeft \in Nat, (DiscoverLeft \in Nat)', [SurveyNext]_surveyVars
      PROVE  [SurveyLeft' < SurveyLeft /\ SurveyLeft \in Nat]_surveyVars
    <2>1. EnrichLeft \in Nat /\ EnrichLeft' \in Nat /\ DiscoverLeft \in Nat /\ DiscoverLeft' \in Nat
        <3>1. NumRows * Climb + NumRows + 4 \in Nat
            BY EnrichAssumption DEF Climb
        <3> QED BY <1>3, <3>1 DEF EnrichBounds
    <2>2. SurveyLeft \in Nat
        BY <2>1 DEF SurveyLeft
    <2>3. ASSUME UNCHANGED discoverVars PROVE DiscoverLeft' = DiscoverLeft
        BY <2>3 DEF discoverVars, DiscoverLeft, TypesLeft, TypeLeft, PhaseLeft, ContextLeft, ContextOver,
                    Rungs, Type
    <2>4. ASSUME UNCHANGED enrichVars PROVE EnrichLeft' = EnrichLeft
        BY <2>4 DEF enrichVars, EnrichLeft, RowsLeft, RowLeft, SerialLeft, StageLeft, ContextLeft,
                    ContextOver, Rungs, Rank, Climb
    <2>5. [DiscoverNext]_discoverVars
        BY <1>3 DEF SurveyNext, surveyVars, DiscoverNext, Handover
    <2>6. Returned \in SUBSET Rank
        BY <1>3, SurveyAssumption DEF Returned, DiscoverTypes
    <2>7. [EnrichNext]_enrichVars
        BY <1>3, <2>6 DEF SurveyNext, surveyVars, EnrichNext, Handover
    <2>8. UNCHANGED discoverVars \/ DiscoverLeft' < DiscoverLeft
        BY <1>3, <2>5, DiscoverStepsDown
    <2>9. UNCHANGED enrichVars \/ EnrichLeft' < EnrichLeft
        BY <1>3, <2>7, EnrichStepsDown
    <2>10. UNCHANGED surveyVars \/ SurveyLeft' < SurveyLeft
        <3>1. CASE UNCHANGED discoverVars /\ UNCHANGED enrichVars
            BY <3>1 DEF surveyVars
        <3>2. CASE DiscoverLeft' < DiscoverLeft /\ EnrichLeft' <= EnrichLeft
            <4>1. DiscoverLeft' <= DiscoverLeft
                BY <2>1, <3>2
            <4> QED BY <2>1, <3>2, <4>1, TwoDescend DEF SurveyLeft
        <3>3. CASE DiscoverLeft' <= DiscoverLeft /\ EnrichLeft' < EnrichLeft
            <4>1. EnrichLeft' <= EnrichLeft
                BY <2>1, <3>3
            <4> QED BY <2>1, <3>3, <4>1, TwoDescend DEF SurveyLeft
        <3> QED BY <2>1, <2>3, <2>4, <2>8, <2>9, <3>1, <3>2, <3>3
    <2> QED BY <2>2, <2>10
<1>4. SurveySpec => [](DiscoverInv /\ EnrichInv)
    BY SurveyDiscovers, SurveyEnriches, DiscoverInvariant, EnrichInvariant, PTL
<1> QED BY <1>1, <1>2, <1>3, <1>4, PTL DEF SurveySpec
=============================================================================
