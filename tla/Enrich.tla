------------------------------- MODULE Enrich -------------------------------
(***************************************************************************)
(* EnrichAttributes of awsdiscover: the attributes of a batch of rows are  *)
(* fetched by a bounded pool of goroutines, each of which retries a        *)
(* throttled call a bounded number of times; a serial pass after the join  *)
(* turns the results into statuses, warnings, errors and one progress      *)
(* event per type.  The pool never stops early: every row is attempted,    *)
(* also after failures and after the end of the caller's context.          *)
(*                                                                         *)
(* A row is its rank in the order by type and address.                     *)
(***************************************************************************)
EXTENDS Naturals, FiniteSets, FiniteSetsExt, Caller

CONSTANTS
  NumRows,
  KindOf,       \* the type of each row, as a number that sorts like it
  Enrichable,   \* the types with an enricher
  EnrichLimit,  \* Concurrency
  MaxAttempts   \* enrichRetryMaxAttempts

ASSUME EnrichAssumption ==
  /\ NumRows \in Nat /\ EnrichLimit \in Nat \ {0} /\ MaxAttempts \in Nat \ {0}
  /\ KindOf \in [1..NumRows -> Nat]
  /\ \A r, q \in 1..NumRows : r < q => KindOf[r] <= KindOf[q]

Rank == 1..NumRows

VARIABLES
  stage,      \* "off", "workers", "report" or "done"
  idx,        \* the rows of the batch whose type has an enricher
  worker,     \* the goroutine of each row
  tries,      \* attempts made for it
  results,    \* what its last attempt returned
  attrs,      \* rows with attributes
  status,     \* EnrichmentStatus
  cursor,     \* rows the serial pass is through with
  warned,     \* rows with a warning
  errs,       \* rows in the returned error
  announced   \* per type, the count it was announced with; 0: not yet

enrichVars == <<ctx, stage, idx, worker, tries, results, attrs, status, cursor,
                warned, errs, announced>>
pool == <<worker, tries, results, attrs>>
report == <<status, cursor, warned, errs, announced>>

EnrichInit ==
  /\ ContextInit
  /\ stage = "off" /\ idx = {}
  /\ worker = [r \in Rank |-> "none"] /\ tries = [r \in Rank |-> 0]
  /\ results = [r \in Rank |-> "none"] /\ attrs = {}
  /\ status = [r \in Rank |-> "none"] /\ cursor = 0
  /\ warned = {} /\ errs = {}
  /\ announced = [k \in {KindOf[r] : r \in Rank} |-> 0]

Busy == {r \in Rank : worker[r] \in {"jitter", "calling", "backoff"}}
-----------------------------------------------------------------------------
(* Rows of other types are left untouched. *)
Begin(batch) ==
  /\ stage = "off"
  /\ stage' = "workers"
  /\ idx' = {r \in batch : KindOf[r] \in Enrichable}
  /\ worker' = [r \in Rank |-> IF r \in idx' THEN "waiting" ELSE "none"]
  /\ UNCHANGED <<ctx, tries, results, attrs, report>>

Turns(r, to) ==
  /\ worker' = [worker EXCEPT ![r] = to]
  /\ UNCHANGED <<ctx, stage, idx, report>>

(* Fault: a worker that returned keeps its slot. *)
PoolLeak == Cardinality({r \in Rank : worker[r] \notin {"none", "waiting"}}) < EnrichLimit
PoolSlot == Cardinality(Busy) < EnrichLimit

(* The goroutines of the first burst wait for a random time first. *)
Hire(r) ==
  /\ stage = "workers" /\ worker[r] = "waiting"
  /\ \A q \in idx : q < r => worker[q] # "waiting"
  /\ PoolSlot
  /\ Turns(r, IF Cardinality({q \in idx : q < r}) < EnrichLimit THEN "jitter" ELSE "calling")
  /\ UNCHANGED <<tries, results, attrs>>

(* The end of the context only ends the wait. *)
AfterJitter == "calling"

JitterEnds(r) ==
  /\ worker[r] = "jitter"
  /\ Turns(r, AfterJitter)
  /\ UNCHANGED <<tries, results, attrs>>

(* An attempt returns: nil, one of the two downgraded errors (no client,    *)
(* not found), a throttle, or another error.                                *)
Attempt(r, result) ==
  /\ worker[r] = "calling"
  /\ tries' = [tries EXCEPT ![r] = @ + 1]
  /\ results' = [results EXCEPT ![r] = result]

Settles(r, result) ==
  /\ Attempt(r, result)
  /\ attrs' = IF result = "nil" THEN attrs \cup {r} ELSE attrs
  /\ Turns(r, "returned")

LastAttempt(n) == n >= MaxAttempts

Throttled(r) ==
  /\ Attempt(r, "throttle")
  /\ Turns(r, IF LastAttempt(tries'[r]) THEN "returned" ELSE "backoff")
  /\ UNCHANGED attrs

(* A call in a finished context may return nothing but its error. *)
Refused(r) == ContextOver /\ Settles(r, "other")

BackoffEnds(r) ==
  /\ worker[r] = "backoff"
  /\ Turns(r, "calling")
  /\ UNCHANGED <<tries, results, attrs>>

BackoffCancelled(r) ==
  /\ worker[r] = "backoff" /\ ContextOver
  /\ results' = [results EXCEPT ![r] = "other"]
  /\ Turns(r, "returned")
  /\ UNCHANGED <<tries, attrs>>
-----------------------------------------------------------------------------
PoolJoined ==
  /\ stage = "workers"
  /\ \A r \in idx : worker[r] = "returned"
  /\ stage' = "report"
  /\ UNCHANGED <<ctx, idx, pool, report>>

Ahead == {r \in idx : r > cursor}

(* Fault: the result read is the one of the row before. *)
PreviousResult(r) ==
  LET before == {q \in idx : q < r} IN results[IF before = {} THEN r ELSE Max(before)]
Result(r) == results[r]

(* The last row of a type announces it, at the next row or after the loop.  *)
LastOfType(r) == \A q \in idx : q > r => KindOf[q] # KindOf[r]

ReportRow(r) ==
  /\ stage = "report"
  /\ Ahead # {} /\ r = Min(Ahead)
  /\ cursor' = r
  /\ status' = [status EXCEPT ![r] = IF Result(r) = "nil" THEN "full" ELSE "failed"]
  /\ warned' = IF Result(r) \in {"no client", "not found"} THEN warned \cup {r} ELSE warned
  /\ errs' = IF Result(r) \in {"throttle", "other"} THEN errs \cup {r} ELSE errs
  /\ announced' = IF LastOfType(r)
       THEN [announced EXCEPT ![KindOf[r]] = Cardinality({q \in idx : KindOf[q] = KindOf[r]})]
       ELSE announced
  /\ UNCHANGED <<ctx, stage, idx, pool>>

ReportEnds ==
  /\ stage = "report" /\ Ahead = {}
  /\ stage' = "done"
  /\ UNCHANGED <<ctx, idx, pool, report>>

EnrichWork ==
  \/ \E r \in Rank :
       \/ Hire(r) \/ JitterEnds(r)
       \/ \E result \in {"nil", "no client", "not found", "other"} : Settles(r, result)
       \/ Throttled(r) \/ BackoffEnds(r) \/ BackoffCancelled(r)
  \/ PoolJoined
  \/ \E r \in Rank : ReportRow(r)
  \/ ReportEnds

EnrichNext ==
  \/ \E batch \in SUBSET Rank : Begin(batch)
  \/ EnrichWork
  \/ ContextEnds /\ UNCHANGED <<stage, idx, pool, report>>

(* Fairness: as in Discover, a call returns once its context has ended.     *)
EnrichFair ==
  /\ \A r \in Rank :
       /\ WF_enrichVars(Hire(r)) /\ WF_enrichVars(JitterEnds(r))
       /\ WF_enrichVars(Refused(r))
       /\ WF_enrichVars(BackoffEnds(r) \/ BackoffCancelled(r))
       /\ WF_enrichVars(ReportRow(r))
  /\ WF_enrichVars(PoolJoined) /\ WF_enrichVars(ReportEnds)

EnrichSpec == EnrichInit /\ [][EnrichNext]_enrichVars
-----------------------------------------------------------------------------
EnrichTypeOK ==
  /\ ContextTypeOK
  /\ stage \in {"off", "workers", "report", "done"}
  /\ idx \subseteq Rank
  /\ worker \in [Rank -> {"none", "waiting", "jitter", "calling", "backoff", "returned"}]
  /\ tries \in [Rank -> 0..MaxAttempts]
  /\ results \in [Rank -> {"none", "nil", "no client", "not found", "throttle", "other"}]
  /\ attrs \subseteq idx
  /\ status \in [Rank -> {"none", "full", "failed"}]
  /\ cursor \in 0..NumRows
  /\ warned \subseteq idx /\ errs \subseteq idx
  /\ announced \in [{KindOf[r] : r \in Rank} -> Nat]

(* After the pass every row of the batch says whether it has attributes,    *)
(* and a row without them is disclosed exactly once, as a warning or in the *)
(* returned error; rows without an enricher are untouched.                  *)
StatusIsTruthful ==
  stage = "done" =>
    \A r \in Rank :
      IF r \notin idx THEN status[r] = "none"
      ELSE /\ status[r] = (IF r \in attrs THEN "full" ELSE "failed")
           /\ (r \in attrs) = (r \notin warned \cup errs)
           /\ r \notin warned \cap errs

(* Every row is attempted, whatever its siblings and the context do, and no *)
(* row more often than the retry budget allows.                             *)
EveryRowAttempted ==
  stage \in {"report", "done"} =>
    \A r \in idx : tries[r] \in 1..MaxAttempts /\ worker[r] = "returned"

(* Every type of the batch is announced once with the number of its rows,   *)
(* so that the N-of-total progress reaches its total.                       *)
AllTypesAnnounced ==
  stage = "done" =>
    \A k \in DOMAIN announced : announced[k] = Cardinality({r \in idx : KindOf[r] = k})

(* What EnrichAttributes leaves behind can be trusted row by row and type   *)
(* by type, after throttles, failures and the end of the context too.       *)
EnrichmentIsTruthful == StatusIsTruthful /\ EveryRowAttempted /\ AllTypesAnnounced

(* The pool is a bounded group that is joined before anything is reported.  *)
EnrichGroup == INSTANCE FanOut WITH
  Task <- Rank, Limit <- EnrichLimit,
  todo <- {r \in Rank : worker[r] = "waiting"},
  active <- Busy,
  joined <- stage # "workers"
EnrichIsAFanOut == EnrichGroup!Spec
=============================================================================
