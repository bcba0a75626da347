---------------------------- MODULE BatchRunner ----------------------------
(***************************************************************************)
(* Dispatcher.AWSBatch and GCPBatch: a batch of inspect probes under one   *)
(* wall-clock deadline.  Credentials are fetched once and only if a probe  *)
(* needs them; runSubsBounded then runs the probes under a limit, each     *)
(* with a timeout of its own, and turns errors, timeouts and panics into   *)
(* the results of single probes: the batch itself never fails.             *)
(*                                                                         *)
(* A probe is its position in the input.  An empty or oversized batch is   *)
(* refused before any of this.  The drift reporter that is told of missing *)
(* resources is a sink and left out.                                       *)
(***************************************************************************)
EXTENDS Naturals, FiniteSets

CONSTANTS
  NumSubs,
  Credless,    \* probes that list actions or metrics
  Known,       \* of these, the ones of a supported service
  BatchLimit   \* DefaultBatchConcurrency

ASSUME BatchAssumption ==
  /\ NumSubs \in Nat \ {0}
  /\ Credless \subseteq 1..NumSubs /\ Known \subseteq Credless
  /\ BatchLimit \in Nat \ {0}

Sub == 1..NumSubs

VARIABLES
  step,     \* "creds", "probes" or "returned"
  ended,    \* how the batch's context ended: "live", "deadline", "cancelled"
  credErr,  \* the credentials could not be fetched
  probe,    \* "waiting", "running", "answered" or "over"
  late,     \* probes whose own timeout passed while the batch was live
  raw,      \* what the probe returned
  result,   \* results[i]
  cutOff    \* history: probes that gave up because of their context

batchVars == <<step, ended, credErr, probe, late, raw, result, cutOff>>

BatchInit ==
  /\ step = "creds" /\ ended = "live" /\ credErr = FALSE
  /\ probe = [s \in Sub |-> "waiting"] /\ late = {}
  /\ raw = [s \in Sub |-> "none"] /\ result = [s \in Sub |-> "none"]
  /\ cutOff = {}

InFlight == {s \in Sub : probe[s] \in {"running", "answered"}}

(* No goroutine of the group returns an error: its context is the batch's.  *)
GroupErr == ended
(* ctx.Err() of a probe: whichever came first. *)
SubErr(s) == IF s \in late THEN "deadline" ELSE GroupErr
-----------------------------------------------------------------------------
(* The wall clock, or the caller, ends the context. *)
BatchContextEnds(how) ==
  /\ step # "returned" /\ ended = "live"
  /\ ended' = how
  /\ UNCHANGED <<step, credErr, probe, late, raw, result, cutOff>>

(* Credentials that no probe needs are not fetched, and cannot fail.        *)
CredentialsDone(failed) ==
  /\ step = "creds"
  /\ failed => ~(Sub \subseteq Credless)
  /\ credErr' = failed
  /\ step' = "probes"
  /\ UNCHANGED <<ended, probe, late, raw, result, cutOff>>

(* Fault: a slot is never given back. *)
BatchLeak == Cardinality({s \in Sub : probe[s] # "waiting"}) < BatchLimit
(* Fault: every probe starts at once. *)
Unbounded == TRUE
BatchSlot == Cardinality(InFlight) < BatchLimit

(* The probes are started in input order, after the deadline too. *)
Launch(s) ==
  /\ step = "probes" /\ probe[s] = "waiting"
  /\ \A q \in Sub : q < s => probe[q] # "waiting"
  /\ BatchSlot
  /\ probe' = [probe EXCEPT ![s] = "running"]
  /\ UNCHANGED <<step, ended, credErr, late, raw, result, cutOff>>

ProbeTimeout(s) ==
  /\ probe[s] \in {"running", "answered"} /\ s \notin late /\ GroupErr = "live"
  /\ late' = late \cup {s}
  /\ UNCHANGED <<step, ended, credErr, probe, raw, result, cutOff>>

Returns(s, r) ==
  /\ probe[s] = "running"
  /\ raw' = [raw EXCEPT ![s] = r]
  /\ probe' = [probe EXCEPT ![s] = "answered"]
  /\ UNCHANGED <<step, ended, credErr, late, result>>

(* Fault: the credential error is checked first. *)
CredErrFirst(s) == credErr
(* A catalogue answer needs no credentials. *)
LacksCredentials(s) == credErr /\ s \notin Credless

(* The catalogue, the credential error, or the cloud answers; the cloud's   *)
(* answer may also be a panic of the code that reads it. *)
CatalogueAnswers(s) ==
  /\ s \in Credless /\ ~LacksCredentials(s)
  /\ Returns(s, IF s \in Known THEN "ok" ELSE "error")
  /\ UNCHANGED cutOff

CredentialError(s) ==
  /\ LacksCredentials(s)
  /\ Returns(s, "error")
  /\ UNCHANGED cutOff

CloudAnswers(s, r) ==
  /\ s \notin Credless /\ ~LacksCredentials(s)
  /\ Returns(s, r)
  /\ UNCHANGED cutOff

CutShort(s) ==
  /\ s \notin Credless /\ ~LacksCredentials(s)
  /\ SubErr(s) # "live"
  /\ Returns(s, "error")
  /\ cutOff' = cutOff \cup {s}

(* Fault: any ended context is reported as a timeout. *)
ContextDone(s) == SubErr(s) # "live"
DeadlineExceeded(s) == SubErr(s) = "deadline"

Index(s) == s

(* runOneSub: an error after a deadline is marked as a timeout, a panic is  *)
(* recovered. *)
Settle(s) ==
  /\ probe[s] = "answered"
  /\ result' = [result EXCEPT ![Index(s)] =
                  IF raw[s] = "error" /\ DeadlineExceeded(s) THEN "timeout" ELSE raw[s]]
  /\ probe' = [probe EXCEPT ![s] = "over"]
  /\ UNCHANGED <<step, ended, credErr, late, raw, cutOff>>

AllOver == \A s \in Sub : probe[s] = "over"

BatchReturns ==
  /\ step = "probes" /\ AllOver
  /\ step' = "returned"
  /\ UNCHANGED <<ended, credErr, probe, late, raw, result, cutOff>>

BatchNext ==
  \/ \E how \in {"deadline", "cancelled"} : BatchContextEnds(how)
  \/ \E failed \in BOOLEAN : CredentialsDone(failed)
  \/ \E s \in Sub :
       \/ Launch(s) \/ ProbeTimeout(s)
       \/ CatalogueAnswers(s) \/ CredentialError(s)
       \/ \E r \in {"ok", "error", "panic"} : CloudAnswers(s, r)
       \/ CutShort(s) \/ Settle(s)
  \/ BatchReturns

(* Fairness: the wall clock runs, and the fetch and the probes return once  *)
(* their context has ended.  Nothing makes the cloud answer.                *)
BatchFair ==
  /\ WF_batchVars(BatchContextEnds("deadline"))
  /\ WF_batchVars(\E failed \in BOOLEAN : ended # "live" /\ CredentialsDone(failed))
  /\ \A s \in Sub :
       /\ WF_batchVars(Launch(s)) /\ WF_batchVars(Settle(s))
       /\ WF_batchVars(CatalogueAnswers(s) \/ CredentialError(s) \/ CutShort(s))
  /\ WF_batchVars(BatchReturns)

BatchSpec == BatchInit /\ [][BatchNext]_batchVars /\ BatchFair
-----------------------------------------------------------------------------
BatchTypeOK ==
  /\ step \in {"creds", "probes", "returned"}
  /\ ended \in {"live", "deadline", "cancelled"}
  /\ credErr \in BOOLEAN
  /\ probe \in [Sub -> {"waiting", "running", "answered", "over"}]
  /\ late \subseteq Sub /\ cutOff \subseteq Sub
  /\ raw \in [Sub -> {"none", "ok", "error", "panic"}]
  /\ result \in [Sub -> {"none", "ok", "error", "timeout", "panic"}]
  /\ \A s \in Sub : /\ raw[s] # "none" <=> probe[s] \in {"answered", "over"}
                    /\ result[s] # "none" <=> probe[s] = "over"

(* The batch returns a result for every probe, whatever happened to each.   *)
ResultsComplete == step = "returned" => \A s \in Sub : result[s] # "none"

(* A probe that had finished is returned as it was: neither the deadline    *)
(* nor another probe changes a result.                                      *)
ResultsIntact == [][\A s \in Sub : result[s] # "none" => result'[s] = result[s]]_batchVars

(* "timeout" says that a deadline passed, never that the caller cancelled,  *)
(* and a probe that a deadline interrupted always says so.                  *)
TimeoutMeansDeadline ==
  \A s \in Sub :
    /\ result[s] = "timeout" => s \in late \/ ended = "deadline"
    /\ result[s] = "error" /\ s \in cutOff => ended = "cancelled"

(* No probe is interrupted by another one: only by its own timeout or by    *)
(* the end of the batch.                                                    *)
ProbesAreIndependent == \A s \in cutOff : s \in late \/ ended # "live"

(* A catalogue probe of a supported service succeeds, whatever happened to  *)
(* the credentials and the clock.                                           *)
CatalogueAlwaysAnswers == \A s \in Known : result[s] \in {"none", "ok"}

(* A batch answers for every probe, and a catalogue probe with success.     *)
BatchAlwaysAnswers == ResultsComplete /\ CatalogueAlwaysAnswers

(* A result tells of its own probe and of its own deadline.                 *)
ResultsAreTruthful == TimeoutMeansDeadline /\ ProbesAreIndependent

(* The probes are a bounded group that is joined. *)
BatchGroup == INSTANCE FanOut WITH
  Task <- Sub, Limit <- BatchLimit,
  todo <- IF step = "probes" THEN {s \in Sub : probe[s] = "waiting"} ELSE {},
  active <- InFlight,
  joined <- step # "probes"
BatchIsAFanOut == BatchGroup!Spec

(* The batch returns, also if no probe ever answers.                        *)
BatchEnds == <>(step = "returned")
=============================================================================
