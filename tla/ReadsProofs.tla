----------------------------- MODULE ReadsProofs -----------------------------
(***************************************************************************)
(* Proofs about the two components that read the cloud item by item in a   *)
(* bounded group of goroutines and answer for every item: a batch of       *)
(* probes (BatchRunner), and the listing of one type (Listing), for every  *)
(* batch, set of regions, items and parents, every request and every limit.*)
(***************************************************************************)
EXTENDS BatchRunner, Listing, FiniteSetTheorems, TLAPS

(***************************************************************************)
(* BatchRunner                                                             *)
(***************************************************************************)
(* What holds between the steps: the probes of a returned batch are over,   *)
(* and the catalogue never fails a known service.                           *)
ReturnedIsOver == step = "returned" => AllOver
CatalogueRaw == \A s \in Known : raw[s] \in {"none", "ok"}

BatchInv ==
  /\ BatchTypeOK
  /\ ReturnedIsOver
  /\ CatalogueRaw
  /\ TimeoutMeansDeadline
  /\ ProbesAreIndependent
  /\ CatalogueAlwaysAnswers

(* The invariant holds initially. *)
LEMMA InitEstablishesInv == BatchInit => BatchInv
BY BatchAssumption
DEF BatchInit, BatchInv, BatchTypeOK, ReturnedIsOver, CatalogueRaw, AllOver,
    TimeoutMeansDeadline, ProbesAreIndependent, CatalogueAlwaysAnswers, Sub

(* The end of the context only turns "live" into something else. *)
LEMMA ContextEndKeepsInv ==
  ASSUME BatchInv, NEW how \in {"deadline", "cancelled"}, BatchContextEnds(how)
  PROVE  BatchInv'
BY DEF BatchInv, BatchTypeOK, BatchContextEnds, ReturnedIsOver, CatalogueRaw, AllOver,
       TimeoutMeansDeadline, ProbesAreIndependent, CatalogueAlwaysAnswers

LEMMA CredentialsKeepInv ==
  ASSUME BatchInv, NEW failed \in BOOLEAN, CredentialsDone(failed)
  PROVE  BatchInv'
BY DEF BatchInv, BatchTypeOK, CredentialsDone, ReturnedIsOver, CatalogueRaw, AllOver,
       TimeoutMeansDeadline, ProbesAreIndependent, CatalogueAlwaysAnswers

LEMMA LaunchKeepsInv ==
  ASSUME BatchInv, NEW s \in Sub, Launch(s)
  PROVE  BatchInv'
BY DEF BatchInv, BatchTypeOK, Launch, ReturnedIsOver, CatalogueRaw, AllOver,
       TimeoutMeansDeadline, ProbesAreIndependent, CatalogueAlwaysAnswers

LEMMA TimeoutKeepsInv ==
  ASSUME BatchInv, NEW s \in Sub, ProbeTimeout(s)
  PROVE  BatchInv'
BY DEF BatchInv, BatchTypeOK, ProbeTimeout, ReturnedIsOver, CatalogueRaw, AllOver,
       TimeoutMeansDeadline, ProbesAreIndependent, CatalogueAlwaysAnswers

(* Whoever answers, a probe that returns had no result yet. *)
LEMMA ReturnKeepsInv ==
  ASSUME BatchInv, NEW s \in Sub, NEW r \in {"ok", "error", "panic"}, Returns(s, r),
         s \in Known => r = "ok",
         cutOff' \in {cutOff, cutOff \cup {s}},
         s \in cutOff' \ cutOff => s \in late \/ ended # "live"
  PROVE  BatchInv'
<1> USE DEF BatchInv, Returns
<1>1. BatchTypeOK'
  BY DEF BatchTypeOK
<1>2. ReturnedIsOver' /\ CatalogueRaw' /\ CatalogueAlwaysAnswers'
  BY DEF BatchTypeOK, ReturnedIsOver, CatalogueRaw, CatalogueAlwaysAnswers, AllOver
<1>3. result[s] = "none"
  BY DEF BatchTypeOK
<1>4. TimeoutMeansDeadline'
  BY <1>3 DEF TimeoutMeansDeadline
<1>5. ProbesAreIndependent'
  BY DEF ProbesAreIndependent
<1> QED BY <1>1, <1>2, <1>4, <1>5

LEMMA AnswerKeepsInv ==
  ASSUME BatchInv, NEW s \in Sub,
         \/ CatalogueAnswers(s) \/ CredentialError(s) \/ CutShort(s)
         \/ \E r \in {"ok", "error", "panic"} : CloudAnswers(s, r)
  PROVE  BatchInv'
<1>1. CASE CatalogueAnswers(s)
  <2>1. s \in Known => (IF s \in Known THEN "ok" ELSE "error") = "ok"
    OBVIOUS
  <2> QED BY <1>1, <2>1, ReturnKeepsInv DEF CatalogueAnswers
<1>2. CASE CredentialError(s)
  BY <1>2, ReturnKeepsInv, BatchAssumption DEF CredentialError, LacksCredentials
<1>3. CASE CutShort(s)
  BY <1>3, ReturnKeepsInv, BatchAssumption DEF CutShort, SubErr, GroupErr
<1>4. CASE \E r \in {"ok", "error", "panic"} : CloudAnswers(s, r)
  BY <1>4, ReturnKeepsInv, BatchAssumption DEF CloudAnswers
<1> QED BY <1>1, <1>2, <1>3, <1>4

(* A probe settles: its error is a timeout exactly if a deadline came first. *)
LEMMA SettleKeepsInv ==
  ASSUME BatchInv, NEW s \in Sub, Settle(s)
  PROVE  BatchInv'
<1> USE DEF BatchInv, Settle, Index
<1>1. raw[s] \in {"ok", "error", "panic"} /\ result \in [Sub -> {"none", "ok", "error", "timeout", "panic"}]
  BY DEF BatchTypeOK
<1>2. result' = [result EXCEPT ![s] = IF raw[s] = "error" /\ DeadlineExceeded(s) THEN "timeout" ELSE raw[s]]
  OBVIOUS
<1>3. BatchTypeOK'
  BY <1>1, <1>2 DEF BatchTypeOK
<1>4. ReturnedIsOver' /\ CatalogueRaw' /\ ProbesAreIndependent'
  BY DEF BatchTypeOK, ReturnedIsOver, CatalogueRaw, AllOver, ProbesAreIndependent
<1>5. CatalogueAlwaysAnswers'
  BY <1>1, <1>2, BatchAssumption DEF CatalogueAlwaysAnswers, CatalogueRaw, Sub
<1>6. TimeoutMeansDeadline'
  <2> SUFFICES ASSUME NEW q \in Sub
               PROVE  /\ result'[q] = "timeout" => q \in late' \/ ended' = "deadline"
                      /\ result'[q] = "error" /\ q \in cutOff' => ended' = "cancelled"
    BY DEF TimeoutMeansDeadline
  <2>1. CASE q # s
    BY <1>1, <1>2, <2>1 DEF TimeoutMeansDeadline
  <2>2. CASE q = s /\ DeadlineExceeded(s)
    BY <1>1, <1>2, <2>2 DEF DeadlineExceeded, SubErr, GroupErr
  <2>3. CASE q = s /\ ~DeadlineExceeded(s)
    <3>1. s \notin late /\ ended # "deadline"
      BY <2>3 DEF DeadlineExceeded, SubErr, GroupErr
    <3>2. s \in cutOff => ended = "cancelled"
      BY <3>1 DEF ProbesAreIndependent, BatchTypeOK
    <3> QED BY <1>1, <1>2, <2>3, <3>2
  <2> QED BY <2>1, <2>2, <2>3
<1> QED BY <1>3, <1>4, <1>5, <1>6

LEMMA ReturnOfBatchKeepsInv ==
  ASSUME BatchInv, BatchReturns
  PROVE  BatchInv'
BY DEF BatchInv, BatchTypeOK, BatchReturns, ReturnedIsOver, CatalogueRaw, AllOver,
       TimeoutMeansDeadline, ProbesAreIndependent, CatalogueAlwaysAnswers

(* Every step preserves the invariant. *)
LEMMA NextKeepsInv == BatchInv /\ [BatchNext]_batchVars => BatchInv'
<1> SUFFICES ASSUME BatchInv, [BatchNext]_batchVars PROVE BatchInv'
  OBVIOUS
<1>1. CASE UNCHANGED batchVars
  BY <1>1 DEF BatchInv, BatchTypeOK, batchVars, ReturnedIsOver, CatalogueRaw, AllOver,
              TimeoutMeansDeadline, ProbesAreIndependent, CatalogueAlwaysAnswers
<1>2. CASE BatchNext
  BY <1>2, ContextEndKeepsInv, CredentialsKeepInv, LaunchKeepsInv, TimeoutKeepsInv,
     AnswerKeepsInv, SettleKeepsInv, ReturnOfBatchKeepsInv DEF BatchNext
<1> QED BY <1>1, <1>2

(* The inductive invariant of the batch. *)
THEOREM BatchInvariant == BatchSpec => []BatchInv
BY InitEstablishesInv, NextKeepsInv, PTL DEF BatchSpec
-----------------------------------------------------------------------------
(* The batch is correctly typed, and a probe has a result exactly when it   *)
(* is over. *)
THEOREM BatchTypeCorrect == BatchSpec => []BatchTypeOK
<1>1. BatchInv => BatchTypeOK
  BY DEF BatchInv
<1> QED BY <1>1, BatchInvariant, PTL

(* A batch returns one result for every probe. *)
THEOREM OneResultPerProbe == BatchSpec => []ResultsComplete
<1>1. BatchInv => ResultsComplete
  BY DEF BatchInv, BatchTypeOK, ReturnedIsOver, AllOver, ResultsComplete
<1> QED BY <1>1, BatchInvariant, PTL

(* A result that says "timeout" is due to a deadline, and a probe that a    *)
(* deadline interrupted says so. *)
THEOREM TimeoutsAreHonest == BatchSpec => []TimeoutMeansDeadline
<1>1. BatchInv => TimeoutMeansDeadline
  BY DEF BatchInv
<1> QED BY <1>1, BatchInvariant, PTL

(* No probe is interrupted by what happens to another one. *)
THEOREM NoProbeEndsAnother == BatchSpec => []ProbesAreIndependent
<1>1. BatchInv => ProbesAreIndependent
  BY DEF BatchInv
<1> QED BY <1>1, BatchInvariant, PTL

(* A catalogue probe of a supported service never fails. *)
THEOREM CatalogueNeverFails == BatchSpec => []CatalogueAlwaysAnswers
<1>1. BatchInv => CatalogueAlwaysAnswers
  BY DEF BatchInv
<1> QED BY <1>1, BatchInvariant, PTL

(* A result, once there, never changes. *)
THEOREM ResultsAreFinal == BatchSpec => ResultsIntact
<1>1. BatchInv /\ [BatchNext]_batchVars =>
        [\A s \in Sub : result[s] # "none" => result'[s] = result[s]]_batchVars
  <2> SUFFICES ASSUME BatchInv, BatchNext, NEW s \in Sub, result[s] # "none"
               PROVE  result'[s] = result[s]
    BY DEF batchVars
  <2>1. probe[s] = "over" /\ result \in [Sub -> {"none", "ok", "error", "timeout", "panic"}]
    BY DEF BatchInv, BatchTypeOK
  <2>2. ASSUME NEW q \in Sub, Settle(q) PROVE result'[s] = result[s]
    BY <2>1, <2>2 DEF Settle, Index
  <2> QED BY <2>2 DEF BatchNext, BatchContextEnds, CredentialsDone, Launch, ProbeTimeout,
          CatalogueAnswers, CredentialError, CloudAnswers, CutShort, Returns, BatchReturns
<1> QED BY <1>1, BatchInvariant, PTL DEF BatchSpec, ResultsIntact
-----------------------------------------------------------------------------
(* Every step of the batch is a step of the bounded group, or leaves it     *)
(* alone. *)
LEMMA StepOfTheGroup ==
  ASSUME BatchInv, [BatchNext]_batchVars
  PROVE  [BatchGroup!Next]_(BatchGroup!vars)
<1> DEFINE Todo == IF step = "probes" THEN {s \in Sub : probe[s] = "waiting"} ELSE {}
           Joined == step # "probes"
<1> USE DEF BatchGroup!vars, BatchGroup!Next
<1>0. probe \in [Sub -> {"waiting", "running", "answered", "over"}]
  BY DEF BatchInv, BatchTypeOK
<1>1. ASSUME Todo' = Todo, InFlight' = InFlight, Joined' = Joined
      PROVE  UNCHANGED BatchGroup!vars
  BY <1>1
<1>2. ASSUME UNCHANGED <<probe, step>> PROVE UNCHANGED BatchGroup!vars
  BY <1>1, <1>2 DEF InFlight
<1>3. ASSUME NEW failed \in BOOLEAN, CredentialsDone(failed)
      PROVE  \E T \in SUBSET Sub : BatchGroup!Open(T)
  <2>1. PICK T \in SUBSET Sub : T = Todo'
    OBVIOUS
  <2>2. BatchGroup!Open(T)
    BY <1>3, <2>1 DEF CredentialsDone, InFlight, BatchGroup!Open
  <2> QED BY <2>2
<1>4. ASSUME NEW s \in Sub, Launch(s) PROVE BatchGroup!Start(s)
  <2>1. probe' = [probe EXCEPT ![s] = "running"] /\ probe[s] = "waiting" /\ step = "probes" /\ step' = step
    BY <1>4 DEF Launch
  <2>2. InFlight' = InFlight \cup {s}
    BY <1>0, <2>1 DEF InFlight
  <2>3. Todo' = Todo \ {s} /\ s \in Todo
    BY <1>0, <2>1
  <2>4. Cardinality(InFlight) < BatchLimit /\ Joined' = Joined
    BY <1>4, <2>1 DEF Launch, BatchSlot
  <2> QED BY <2>2, <2>3, <2>4 DEF BatchGroup!Start, Cardinality, BatchGroup!Cardinality
<1>5. ASSUME NEW s \in Sub, NEW r, Returns(s, r) PROVE UNCHANGED BatchGroup!vars
  <2>1. InFlight' = InFlight /\ Todo' = Todo
    BY <1>0, <1>5 DEF Returns, InFlight
  <2> QED BY <1>1, <1>5, <2>1 DEF Returns
<1>6. ASSUME NEW s \in Sub, Settle(s) PROVE BatchGroup!Finish(s)
  <2>1. InFlight' = InFlight \ {s} /\ s \in InFlight /\ Todo' = Todo
    BY <1>0, <1>6 DEF Settle, InFlight
  <2> QED BY <1>6, <2>1 DEF Settle, BatchGroup!Finish
<1>7. ASSUME BatchReturns PROVE BatchGroup!Join
  <2>1. InFlight = {} /\ Todo = {} /\ InFlight' = InFlight /\ Todo' = {}
    BY <1>7 DEF BatchReturns, AllOver, InFlight
  <2> QED BY <1>7, <2>1 DEF BatchReturns, BatchGroup!Join
<1>8. CASE UNCHANGED batchVars
  BY <1>2, <1>8 DEF batchVars
<1>9. CASE BatchNext
  <2>1. CASE \E how \in {"deadline", "cancelled"} : BatchContextEnds(how)
    BY <1>2, <2>1 DEF BatchContextEnds
  <2>2. CASE \E failed \in BOOLEAN : CredentialsDone(failed)
    BY <1>3, <2>2
  <2>3. CASE \E s \in Sub : Launch(s)
    BY <1>4, <2>3
  <2>4. CASE \E s \in Sub : ProbeTimeout(s)
    BY <1>2, <2>4 DEF ProbeTimeout
  <2>5. CASE \E s \in Sub : \/ CatalogueAnswers(s) \/ CredentialError(s) \/ CutShort(s)
                            \/ \E r \in {"ok", "error", "panic"} : CloudAnswers(s, r)
    BY <1>5, <2>5 DEF CatalogueAnswers, CredentialError, CutShort, CloudAnswers
  <2>6. CASE \E s \in Sub : Settle(s)
    BY <1>6, <2>6
  <2>7. CASE BatchReturns
    BY <1>7, <2>7
  <2> QED BY <1>9, <2>1, <2>2, <2>3, <2>4, <2>5, <2>6, <2>7 DEF BatchNext
<1> QED BY <1>8, <1>9

(* A batch is a bounded group that is joined before it returns. *)
THEOREM BatchImplementsFanOut == BatchSpec => BatchIsAFanOut
<1>1. BatchInit => BatchGroup!Init
  BY DEF BatchInit, BatchGroup!Init, InFlight
<1>2. BatchInv /\ [BatchNext]_batchVars => [BatchGroup!Next]_(BatchGroup!vars)
  BY StepOfTheGroup
<1> QED BY <1>1, <1>2, BatchInvariant, PTL DEF BatchSpec, BatchIsAFanOut, BatchGroup!Spec

(* A returned batch has a result for every probe, and a catalogue probe of  *)
(* a supported service never fails.                                         *)
THEOREM EveryProbeIsAnswered == BatchSpec => []BatchAlwaysAnswers
<1>1. ResultsComplete /\ CatalogueAlwaysAnswers => BatchAlwaysAnswers
  BY DEF BatchAlwaysAnswers
<1> QED BY <1>1, OneResultPerProbe, CatalogueNeverFails, PTL

(* "timeout" and "error" tell of the probe itself and of its own deadline,  *)
(* for every number of probes and every limit.                              *)
THEOREM ResultsTellTheTruth == BatchSpec => []ResultsAreTruthful
<1>1. TimeoutMeansDeadline /\ ProbesAreIndependent => ResultsAreTruthful
  BY DEF ResultsAreTruthful
<1> QED BY <1>1, TimeoutsAreHonest, NoProbeEndsAnother, PTL
-----------------------------------------------------------------------------
(* What a bounded group promises to whoever uses it follows from its steps, *)
(* and so holds of the probes: the limit, no probe both waiting and in      *)
(* flight, nothing of the group left after the join.                        *)
THEOREM ProbesAreABoundedGroup == BatchSpec => []BatchGroup!FanOutSafe
<1>1. IsFiniteSet(Sub) /\ BatchLimit \in Nat \ {0}
  BY FS_Interval, BatchAssumption DEF Sub
<1>2. \A S : BatchGroup!IsFiniteSet(S) = IsFiniteSet(S)
  BY DEF IsFiniteSet, BatchGroup!IsFiniteSet
<1>3. BatchGroup!Init => BatchGroup!FanOutSafe
  BY <1>1, BatchGroup!GroupInit
<1>4. BatchGroup!FanOutSafe /\ [BatchGroup!Next]_(BatchGroup!vars) => BatchGroup!FanOutSafe'
  BY <1>1, <1>2, BatchGroup!GroupStep
<1> QED BY <1>3, <1>4, BatchImplementsFanOut, PTL DEF BatchIsAFanOut, BatchGroup!Spec
-----------------------------------------------------------------------------
(* What a batch has left: the stages of its probes, each stage the set of   *)
(* the probes that have not reached it, the timeouts to come and the end of *)
(* the context.                                                             *)
Unlaunched == {s \in Sub : probe[s] = "waiting"}
Unanswered == {s \in Sub : probe[s] \in {"waiting", "running"}}
Unsettled == {s \in Sub : probe[s] # "over"}
InTime == Sub \ late

StepLeft == CASE step = "creds" -> 2 [] step = "probes" -> 1 [] step = "returned" -> 0
ClockLeft == IF ended = "live" THEN 1 ELSE 0

BatchLeft ==
  Cardinality(Unlaunched) + Cardinality(Unanswered) + Cardinality(Unsettled)
    + Cardinality(InTime) + StepLeft + ClockLeft

LEMMA FewerLeft ==
  ASSUME NEW T, IsFiniteSet(T), NEW S \in SUBSET T
  PROVE  /\ IsFiniteSet(S) /\ Cardinality(S) \in Nat /\ Cardinality(T) \in Nat
         /\ Cardinality(S) <= Cardinality(T)
         /\ S # T => Cardinality(S) # Cardinality(T)
BY FS_Subset, FS_CardinalityType

LEMMA SixDescend ==
  ASSUME NEW a \in Nat, NEW b \in Nat, NEW c \in Nat, NEW d \in Nat, NEW e \in Nat, NEW f \in Nat,
         NEW u \in Nat, NEW v \in Nat, NEW w \in Nat, NEW x \in Nat, NEW y \in Nat, NEW z \in Nat,
         u <= a, v <= b, w <= c, x <= d, y <= e, z <= f,
         u # a \/ v # b \/ w # c \/ x # d \/ y # e \/ z # f
  PROVE  u + v + w + x + y + z < a + b + c + d + e + f
OBVIOUS

LEMMA SixBounded ==
  ASSUME NEW n \in Nat, NEW a \in 0..n, NEW b \in 0..n, NEW c \in 0..n, NEW d \in 0..n,
         NEW e \in 0..2, NEW f \in 0..1
  PROVE  a + b + c + d + e + f \in 0..(4 * n + 3)
OBVIOUS

LEMMA ProbesAreMany ==
  ASSUME NEW S \in SUBSET Sub
  PROVE  IsFiniteSet(S) /\ Cardinality(S) \in 0..NumSubs
<1>1. IsFiniteSet(Sub) /\ Cardinality(Sub) = NumSubs
  BY FS_Interval, BatchAssumption DEF Sub
<1> QED BY <1>1, FewerLeft, BatchAssumption

LEMMA BatchLeftBounded ==
  ASSUME BatchTypeOK PROVE BatchLeft \in 0..(4 * NumSubs + 3)
<1>1. /\ Unlaunched \in SUBSET Sub /\ Unanswered \in SUBSET Sub
      /\ Unsettled \in SUBSET Sub /\ InTime \in SUBSET Sub
  BY DEF Unlaunched, Unanswered, Unsettled, InTime
<1>2. StepLeft \in 0..2 /\ ClockLeft \in 0..1
  BY DEF BatchTypeOK, StepLeft, ClockLeft
<1> QED BY <1>1, <1>2, ProbesAreMany, SixBounded, BatchAssumption DEF BatchLeft

(* No stage is taken back; and whatever is not a stutter takes one.         *)
LEMMA StagesShrink ==
  ASSUME BatchInv, BatchNext
  PROVE  /\ Unlaunched' \subseteq Unlaunched /\ Unanswered' \subseteq Unanswered
         /\ Unsettled' \subseteq Unsettled /\ InTime' \subseteq InTime
         /\ StepLeft' <= StepLeft /\ ClockLeft' <= ClockLeft
         /\ \/ Unlaunched' # Unlaunched \/ Unanswered' # Unanswered
            \/ Unsettled' # Unsettled \/ InTime' # InTime
            \/ StepLeft' # StepLeft \/ ClockLeft' # ClockLeft
<1>0. probe \in [Sub -> {"waiting", "running", "answered", "over"}]
  BY DEF BatchInv, BatchTypeOK
<1>c. step \in {"creds", "probes", "returned"}
  BY DEF BatchInv, BatchTypeOK
<1> USE DEF Unlaunched, Unanswered, Unsettled, InTime
<1>1. CASE \E how \in {"deadline", "cancelled"} : BatchContextEnds(how)
  <2>1. UNCHANGED <<probe, late, step>> /\ ended = "live" /\ ended' # "live"
    BY <1>1 DEF BatchContextEnds
  <2> QED BY <1>c, <2>1 DEF StepLeft, ClockLeft, Sub
<1>2. CASE (\E failed \in BOOLEAN : CredentialsDone(failed)) \/ BatchReturns
  <2>1. /\ UNCHANGED <<probe, late, ended>>
        /\ \/ step = "creds" /\ step' = "probes"
           \/ step = "probes" /\ step' = "returned"
    BY <1>2 DEF CredentialsDone, BatchReturns
  <2> QED BY <1>c, <2>1 DEF StepLeft, ClockLeft, Sub
<1>3. CASE \E s \in Sub : ProbeTimeout(s)
  <2>1. PICK s \in Sub : ProbeTimeout(s)
    BY <1>3
  <2>2. UNCHANGED <<probe, step, ended>> /\ s \notin late /\ late' = late \cup {s}
    BY <2>1 DEF ProbeTimeout
  <2> QED BY <1>c, <2>2 DEF StepLeft, ClockLeft, Sub
<1>4. ASSUME NEW s \in Sub, NEW from, NEW to, UNCHANGED <<late, step, ended>>,
             probe[s] = from, probe' = [probe EXCEPT ![s] = to],
             \/ from = "waiting" /\ to = "running"
             \/ from = "running" /\ to = "answered"
             \/ from = "answered" /\ to = "over"
      PROVE  /\ Unlaunched' \subseteq Unlaunched /\ Unanswered' \subseteq Unanswered
             /\ Unsettled' \subseteq Unsettled /\ InTime' \subseteq InTime
             /\ StepLeft' <= StepLeft /\ ClockLeft' <= ClockLeft
             /\ \/ Unlaunched' # Unlaunched \/ Unanswered' # Unanswered
                \/ Unsettled' # Unsettled \/ InTime' # InTime
                \/ StepLeft' # StepLeft \/ ClockLeft' # ClockLeft
  <2>1. \A q \in Sub : probe'[q] = IF q = s THEN to ELSE probe[q]
    BY <1>0, <1>4
  <2>2. /\ Unlaunched' \subseteq Unlaunched /\ Unanswered' \subseteq Unanswered
        /\ Unsettled' \subseteq Unsettled /\ InTime' \subseteq InTime
    BY <1>4, <2>1 DEF Sub
  <2>3. StepLeft' <= StepLeft /\ ClockLeft' <= ClockLeft
    BY <1>c, <1>4 DEF StepLeft, ClockLeft
  <2>4. \/ s \in Unlaunched /\ s \notin Unlaunched'
        \/ s \in Unanswered /\ s \notin Unanswered'
        \/ s \in Unsettled /\ s \notin Unsettled'
    BY <1>4, <2>1
  <2>5. Unlaunched' # Unlaunched \/ Unanswered' # Unanswered \/ Unsettled' # Unsettled
    BY <2>4
  <2> QED BY <2>2, <2>3, <2>5
<1>5. CASE \E s \in Sub : Launch(s)
  BY <1>4, <1>5 DEF Launch
<1>6. CASE \E s \in Sub : \/ CatalogueAnswers(s) \/ CredentialError(s) \/ CutShort(s)
                          \/ \E r \in {"ok", "error", "panic"} : CloudAnswers(s, r)
  BY <1>4, <1>6 DEF CatalogueAnswers, CredentialError, CutShort, CloudAnswers, Returns
<1>7. CASE \E s \in Sub : Settle(s)
  BY <1>4, <1>7 DEF Settle
<1> QED BY <1>1, <1>2, <1>3, <1>5, <1>6, <1>7 DEF BatchNext

(* A batch is finite: whatever the cloud answers and whenever the clocks    *)
(* strike, each step takes one of at most 4 * NumSubs + 3.                  *)
THEOREM BatchesAreFinite ==
  BatchSpec => [](BatchLeft \in 0..(4 * NumSubs + 3))
               /\ [][BatchLeft' < BatchLeft]_batchVars
<1>1. BatchInv => BatchLeft \in 0..(4 * NumSubs + 3)
  BY BatchLeftBounded DEF BatchInv
<1>2. BatchInv /\ BatchInv' /\ [BatchNext]_batchVars => [BatchLeft' < BatchLeft]_batchVars
  <2> SUFFICES ASSUME BatchInv, BatchInv', BatchNext PROVE BatchLeft' < BatchLeft
    OBVIOUS
  <2>1. /\ Unlaunched \in SUBSET Sub /\ Unanswered \in SUBSET Sub
        /\ Unsettled \in SUBSET Sub /\ InTime \in SUBSET Sub
    BY DEF Unlaunched, Unanswered, Unsettled, InTime
  <2>2. /\ IsFiniteSet(Unlaunched) /\ IsFiniteSet(Unanswered)
        /\ IsFiniteSet(Unsettled) /\ IsFiniteSet(InTime)
    BY <2>1, ProbesAreMany
  <2>3. /\ StepLeft \in Nat /\ ClockLeft \in Nat /\ StepLeft' \in Nat /\ ClockLeft' \in Nat
    BY DEF BatchInv, BatchTypeOK, StepLeft, ClockLeft
  <2>4. /\ Cardinality(Unlaunched) \in Nat /\ Cardinality(Unlaunched') \in Nat
        /\ Cardinality(Unlaunched') <= Cardinality(Unlaunched)
        /\ Unlaunched' # Unlaunched => Cardinality(Unlaunched') # Cardinality(Unlaunched)
    BY <2>2, StagesShrink, FewerLeft
  <2>5. /\ Cardinality(Unanswered) \in Nat /\ Cardinality(Unanswered') \in Nat
        /\ Cardinality(Unanswered') <= Cardinality(Unanswered)
        /\ Unanswered' # Unanswered => Cardinality(Unanswered') # Cardinality(Unanswered)
    BY <2>2, StagesShrink, FewerLeft
  <2>6. /\ Cardinality(Unsettled) \in Nat /\ Cardinality(Unsettled') \in Nat
        /\ Cardinality(Unsettled') <= Cardinality(Unsettled)
        /\ Unsettled' # Unsettled => Cardinality(Unsettled') # Cardinality(Unsettled)
    BY <2>2, StagesShrink, FewerLeft
  <2>7. /\ Cardinality(InTime) \in Nat /\ Cardinality(InTime') \in Nat
        /\ Cardinality(InTime') <= Cardinality(InTime)
        /\ InTime' # InTime => Cardinality(InTime') # Cardinality(InTime)
    BY <2>2, StagesShrink, FewerLeft
  <2>8. /\ StepLeft' <= StepLeft /\ ClockLeft' <= ClockLeft
        /\ \/ Cardinality(Unlaunched') # Cardinality(Unlaunched)
           \/ Cardinality(Unanswered') # Cardinality(Unanswered)
           \/ Cardinality(Unsettled') # Cardinality(Unsettled)
           \/ Cardinality(InTime') # Cardinality(InTime)
           \/ StepLeft' # StepLeft \/ ClockLeft' # ClockLeft
    BY <2>4, <2>5, <2>6, <2>7, StagesShrink
  <2> QED BY <2>3, <2>4, <2>5, <2>6, <2>7, <2>8, SixDescend DEF BatchLeft
<1> QED BY <1>1, <1>2, BatchInvariant, PTL DEF BatchSpec
-----------------------------------------------------------------------------
(***************************************************************************)
(* Listing                                                                 *)
(***************************************************************************)
Kinds == [global: BOOLEAN, untaggable: BOOLEAN, lister: {"plain", "parents", "sdk"}]
Requests == [filter: {"none", "project", "selector"}, scope: SUBSET Item]

(* The pass an item belongs to is under way, or over. *)
InPass(i) == at = 0 \/ HomeOf[i] = at
PassOver(i) == pc = "done" \/ (at # 0 /\ HomeOf[i] < at)

(* A pass is one of the type's; before the first nothing has happened, and  *)
(* the answers of the prefetch are final when it is joined.                 *)
PassOK ==
  IF pc = "prefetch"
  THEN at = 0 /\ emitted = [i \in Item |-> 0] /\ swept = {}
  ELSE at \in PassSet /\ \A r \in Region : cache[r] # "pending"

(* Reads belong to the pass and, under a selection, to it. *)
GetOK ==
  /\ pc \in {"prefetch", "choose"} => get = Idle
  /\ pc = "list" => \A i \in Item : get[i] \in {"none", "waiting"}
  /\ pc # "get" => \A i \in Item : get[i] # "getting"
  /\ \A i \in Item : get[i] # "none" => InPass(i) /\ (Scoped => i \in ask.scope)
  /\ \A i \in Item : get[i] = "warned" => i \in warned

(* An item is emitted by its own pass only. *)
OwnPass ==
  \A i \in Item :
    /\ emitted[i] \in 0..1
    /\ emitted[i] = 1 => PassOver(i) /\ i \in AskedFor

(* Without a filter nothing is cached, and a selection is never swept. *)
SourceOK ==
  /\ ask.filter = "none" => \A r \in Region : cache[r] = "failed"
  /\ Scoped => pc # "list"
  /\ SweptOnlyIfUnknown

Excused(i) ==
  \/ i \in warned
  \/ \E c \in cutShort : c[1] \in {0, HomeOf[i]} /\ c[2] \in {ParentOf[i], "all"}

(* An item that was asked for is accounted for when its pass is over, and   *)
(* until then it is read, excused or still to be enumerated.                *)
Accounted ==
  \A i \in AskedFor :
    /\ PassOver(i) => emitted[i] > 0 \/ Excused(i)
    /\ pc \in {"list", "get"} /\ InPass(i) =>
         \/ get[i] # "none" \/ Excused(i)
         \/ pc = "list" /\ parents \cap {ParentOf[i], "all"} # {}

ListInv == ListTypeOK /\ PassOK /\ GetOK /\ OwnPass /\ SourceOK /\ Accounted
-----------------------------------------------------------------------------
LEMMA Passes0 ==
  ASSUME kind \in Kinds
  PROVE  /\ PassSet \subseteq 0..NumRegions
         /\ FirstPass \in PassSet /\ LastPass \in PassSet
         /\ \A r \in PassSet : FirstPass <= r /\ r <= LastPass
         /\ kind.global => FirstPass = 0 /\ LastPass = 0
         /\ ~kind.global => FirstPass = 1 /\ LastPass = NumRegions
<1>1. CASE kind.global
    <2>1. PassSet = {0}
        BY <1>1 DEF PassSet
    <2> QED BY <1>1, <2>1, ListingAssumption DEF FirstPass, LastPass
<1>2. CASE ~kind.global
    <2>1. PassSet = 1..NumRegions
        BY <1>2 DEF PassSet, Region
    <2>2. /\ 1 \in PassSet /\ \A q \in PassSet : 1 <= q
          /\ NumRegions \in PassSet /\ \A q \in PassSet : q <= NumRegions
        BY <2>1, ListingAssumption
    <2>3. FirstPass = 1
        <3>1. \A r \in PassSet : (\A q \in PassSet : r <= q) => r = 1
            BY <2>1, <2>2, ListingAssumption
        <3> QED BY <2>2, <3>1 DEF FirstPass
    <2>4. LastPass = NumRegions
        <3>1. \A r \in PassSet : (\A q \in PassSet : q <= r) => r = NumRegions
            BY <2>1, <2>2, ListingAssumption
        <3> QED BY <2>2, <3>1 DEF LastPass
    <2> QED BY <1>2, <2>1, <2>2, <2>3, <2>4, ListingAssumption
<1> QED BY <1>1, <1>2

(* What a request asks for does not depend on how far it got. *)
LEMMA RequestStays ==
  ASSUME UNCHANGED request
  PROVE  /\ AskedFor' = AskedFor /\ (Scoped' <=> Scoped) /\ PassSet' = PassSet
         /\ kind' = kind /\ ask' = ask
BY DEF request, AskedFor, Scoped, PassSet

LEMMA InitListInv == ListInit => ListInv
<1> SUFFICES ASSUME ListInit PROVE ListInv
    OBVIOUS
<1>1. ListTypeOK
    BY ListingAssumption DEF ListInit, ListTypeOK, ContextInit, ContextTypeOK, Idle
<1>2. PassOK /\ GetOK /\ OwnPass
    BY DEF ListInit, PassOK, GetOK, OwnPass, Idle
<1>3. SourceOK
    BY DEF ListInit, SourceOK, SweptOnlyIfUnknown, Region
<1>4. Accounted
    BY DEF ListInit, Accounted, PassOver
<1> QED BY <1>1, <1>2, <1>3, <1>4 DEF ListInv

LEMMA PrefetchedKeepsInv ==
  ASSUME ListInv, NEW r \in Region, NEW how \in {"cached", "failed"}, Prefetched(r, how)
  PROVE  ListInv'
<1> USE DEF ListInv
<1>0. UNCHANGED request
    BY DEF Prefetched
<1>1. ListTypeOK'
    BY DEF Prefetched, ListTypeOK, request, outcome, ContextTypeOK
<1>2. PassOK' /\ GetOK'
    BY <1>0, RequestStays DEF Prefetched, PassOK, GetOK, outcome, InPass
<1>3. OwnPass'
    BY <1>0, RequestStays DEF Prefetched, OwnPass, PassOver, outcome
<1>4. SourceOK'
    BY <1>0, RequestStays DEF Prefetched, SourceOK, SweptOnlyIfUnknown, PassOK, ListTypeOK
<1>5. Accounted'
    BY <1>0, RequestStays DEF Prefetched, Accounted, PassOver, InPass, Excused, outcome
<1> QED BY <1>1, <1>2, <1>3, <1>4, <1>5

LEMMA PrefetchJoinedKeepsInv ==
  ASSUME ListInv, PrefetchJoined
  PROVE  ListInv'
<1> USE DEF ListInv
<1>0. UNCHANGED request /\ kind \in Kinds /\ at' \in PassSet
    BY Passes0 DEF PrefetchJoined, ListTypeOK, Kinds
<1>1. ListTypeOK'
    BY <1>0, Passes0 DEF PrefetchJoined, ListTypeOK, request, outcome, ContextTypeOK
<1>2. PassOK' /\ GetOK'
    BY <1>0, RequestStays DEF PrefetchJoined, PassOK, GetOK, InPass, Idle
<1>3. OwnPass'
    BY <1>0, RequestStays DEF PrefetchJoined, OwnPass, PassOver, outcome, PassOK
<1>4. SourceOK'
    BY <1>0, RequestStays DEF PrefetchJoined, SourceOK, SweptOnlyIfUnknown
<1>5. Accounted'
    <2>1. \A i \in Item : ~PassOver(i)'
        <3>1. at' = 0 \/ at' = 1
            BY Passes0, <1>0 DEF PrefetchJoined
        <3>2. \A i \in Item : HomeOf[i] \in Nat /\ HomeOf[i] >= 1
            BY ListingAssumption
        <3> QED BY <3>1, <3>2 DEF PassOver, PrefetchJoined
    <2> QED BY <1>0, <2>1, RequestStays DEF PrefetchJoined, Accounted, AskedFor
<1> QED BY <1>1, <1>2, <1>3, <1>4, <1>5
-----------------------------------------------------------------------------
(* The pass of an item that a source names. *)
LEMMA SourcesStayInPass ==
  ASSUME ListInv, pc \in {"choose", "list"}
  PROVE  /\ \A i \in Selection : InPass(i) /\ i \in ask.scope /\ i \in Item
         /\ \A i \in Item : Here(i) <=> InPass(i)
         /\ \A i \in ask.scope : InPass(i) => i \in Selection
<1>1. at = 0 <=> kind.global
    <2>1. at \in PassSet /\ kind.global \in BOOLEAN
        BY DEF ListInv, PassOK, ListTypeOK
    <2> QED BY <2>1, ListingAssumption DEF PassSet, Region
<1>2. ask.scope \subseteq Item
    BY DEF ListInv, ListTypeOK
<1>3. \A i \in Item : (IF i \in Anywhere THEN 1 ELSE HomeOf[i]) = HomeOf[i]
    BY ListingAssumption
<1> QED BY <1>1, <1>2, <1>3 DEF Selection, InPass, Here

LEMMA TakeKnownKeepsInv ==
  ASSUME ListInv, TakeKnown
  PROVE  ListInv'
<1> USE DEF ListInv
<1>0. UNCHANGED request /\ pc = "choose" /\ pc' = "get" /\ UNCHANGED <<ctx, cache, at, parents, outcome, swept>>
      /\ \A i \in Item : InPass(i)' = InPass(i) /\ Excused(i)' = Excused(i)
                           /\ PassOver(i)' = PassOver(i)
    BY DEF TakeKnown, InPass, Excused, PassOver, outcome
<1>a. \E K : /\ get' = Refs(K)
             /\ \A i \in K \cap Item : InPass(i) /\ (Scoped => i \in ask.scope)
             /\ \A i \in AskedFor : InPass(i) => i \in K
    <2>1. CASE Scoped
        BY <1>0, <2>1, SourcesStayInPass DEF TakeKnown, AskedFor
    <2>2. CASE ~Scoped
        <3>1. get' = Refs(CachedHere) /\ UseCache
            BY <2>2 DEF TakeKnown, WorkSetKnown
        <3>2. \E r \in Region : cache[r] = "cached"
            BY <3>1 DEF UseCache, Authoritative
        <3>3. ask.filter # "none" /\ ~kind.untaggable
            BY <3>1, <3>2 DEF SourceOK, UseCache
        <3>4. \A i \in AskedFor : i \in Matches /\ i \in Item
            BY <2>2, <3>3 DEF AskedFor
        <3>5. \A i \in AskedFor : InPass(i) => i \in CachedHere
            BY <1>0, <3>2, <3>4, SourcesStayInPass DEF CachedHere
        <3>6. \A i \in CachedHere \cap Item : InPass(i)
            BY <1>0, SourcesStayInPass DEF CachedHere
        <3> QED BY <2>2, <3>1, <3>5, <3>6
    <2> QED BY <2>1, <2>2
<1>1. ListTypeOK'
    <2>1. get' \in [Item -> {"none", "waiting", "getting", "got", "warned", "err"}]
        BY <1>a DEF Refs
    <2> QED BY <1>0, <2>1 DEF ListTypeOK, request, outcome, ContextTypeOK
<1>2. PassOK'
    BY <1>0, RequestStays DEF PassOK, outcome
<1>3. GetOK'
    BY <1>0, <1>a, RequestStays DEF GetOK, Refs, outcome
<1>4. OwnPass' /\ SourceOK'
    BY <1>0, RequestStays DEF OwnPass, SourceOK, SweptOnlyIfUnknown, outcome
<1>5. Accounted'
    <2>1. \A i \in AskedFor : i \in Item
        BY DEF AskedFor
    <2>2. \A i \in AskedFor : InPass(i) => get'[i] # "none"
        BY <1>a, <2>1 DEF Refs
    <2> QED BY <1>0, <2>1, <2>2, RequestStays DEF Accounted, outcome
<1> QED BY <1>1, <1>2, <1>3, <1>4, <1>5

LEMMA StartSweepKeepsInv ==
  ASSUME ListInv, NEW fails \in BOOLEAN, StartSweep(fails)
  PROVE  ListInv'
<1> USE DEF ListInv
<1>0. UNCHANGED request /\ UNCHANGED <<ctx, cache, at, get, outcome>> /\ pc = "choose"
      /\ pc' \in {"failed", "list"} /\ ~Scoped /\ ~UseCache
      /\ (pc' = "list" => ~fails)
      /\ \A i \in Item : InPass(i)' = InPass(i) /\ Excused(i)' = Excused(i)
    BY DEF StartSweep, WorkSetKnown, InPass, Excused, outcome
<1>b. \A i \in Item : PassOver(i)' = PassOver(i)
    BY <1>0 DEF PassOver
<1>1. ListTypeOK'
    <2>1. swept' \subseteq 0..NumRegions
        BY DEF StartSweep, ListTypeOK
    <2>2. parents' \subseteq {ParentOf[i] : i \in Item} \cup {"all"}
        BY DEF StartSweep, ParentsHere
    <2> QED BY <1>0, <2>1, <2>2 DEF ListTypeOK, request, outcome, ContextTypeOK
<1>2. PassOK' /\ GetOK'
    BY <1>0, RequestStays DEF PassOK, GetOK, Idle, outcome
<1>3. OwnPass'
    BY <1>0, <1>b, RequestStays DEF OwnPass, outcome
<1>4. SourceOK'
    <2>1. swept' = swept \cup {at}
        BY DEF StartSweep
    <2>2. ~kind.untaggable => \A q \in Region : at \in {0, q} => cache[q] # "cached"
        BY <1>0 DEF UseCache, Authoritative
    <2> QED BY <1>0, <2>1, <2>2, RequestStays DEF SourceOK, SweptOnlyIfUnknown
<1>5. Accounted'
    <2>1. \A i \in AskedFor : i \in Item
        BY DEF AskedFor
    <2>2. ASSUME NEW i \in AskedFor, pc' = "list", InPass(i)
          PROVE  parents' \cap {ParentOf[i], "all"} # {}
        <3>1. Here(i)
            BY <1>0, <2>1, <2>2, SourcesStayInPass
        <3>2. ParentOf[i] \in ParentsHere
            BY <2>1, <3>1 DEF ParentsHere
        <3>3. parents' = ParentsHere \/ parents' = {"all"}
            BY <1>0, <2>2 DEF StartSweep
        <3> QED BY <3>2, <3>3
    <2> QED BY <1>0, <1>b, <2>1, <2>2, RequestStays DEF Accounted, outcome
<1> QED BY <1>1, <1>2, <1>3, <1>4, <1>5

(* The three ways a parent is dealt with: some items found, the others      *)
(* excused. *)
LEMMA EnumerationKeepsInv ==
  ASSUME ListInv, pc = "list", NEW p \in parents, NEW R \in SUBSET Children(p), AddRefs(R),
         UNCHANGED <<ctx, request, pc, cache, at, emitted, warned, swept>>,
         parents' \subseteq parents, cutShort \subseteq cutShort',
         \A q \in parents : \/ q \in parents' \/ <<at, q>> \in cutShort'
                            \/ q = p /\ Children(p) \subseteq R
  PROVE  ListInv'
<1> USE DEF ListInv
<1>0. \A i \in Item : InPass(i)' = InPass(i) /\ PassOver(i)' = PassOver(i)
                        /\ (Excused(i) => Excused(i)')
    BY DEF InPass, PassOver, Excused
<1>1. R \subseteq Item /\ \A i \in R : InPass(i)
    BY SourcesStayInPass DEF Children
<1>2. get' = [i \in Item |-> IF i \in R THEN "waiting" ELSE get[i]]
    BY DEF AddRefs
<1>3. ~Scoped
    BY DEF SourceOK
<1>4. ListTypeOK'
    <2>1. get' \in [Item -> {"none", "waiting", "getting", "got", "warned", "err"}]
        BY <1>2 DEF ListTypeOK
    <2> QED BY <2>1 DEF ListTypeOK, request, ContextTypeOK
<1>5. PassOK' /\ OwnPass'
    BY <1>0, RequestStays DEF PassOK, OwnPass
<1>6. GetOK'
    BY <1>0, <1>1, <1>2, <1>3, RequestStays DEF GetOK
<1>7. SourceOK'
    BY RequestStays DEF SourceOK, SweptOnlyIfUnknown
<1>8. Accounted'
    <2>1. \A i \in AskedFor : i \in Item
        BY DEF AskedFor
    <2>2. \A i \in AskedFor : PassOver(i)' => emitted'[i] > 0 \/ Excused(i)'
        BY <1>0, <2>1 DEF Accounted
    <2>3. ASSUME NEW i \in AskedFor, InPass(i)
          PROVE  \/ get'[i] # "none" \/ Excused(i)'
                 \/ parents' \cap {ParentOf[i], "all"} # {}
        <3>1. CASE get[i] # "none" \/ Excused(i)
            BY <1>0, <1>2, <2>1, <3>1
        <3>2. CASE parents \cap {ParentOf[i], "all"} # {}
            <4>1. PICK q \in parents : q \in {ParentOf[i], "all"}
                BY <3>2
            <4>2. CASE q \in parents'
                BY <4>1, <4>2
            <4>3. CASE <<at, q>> \in cutShort'
                <5>1. at \in {0, HomeOf[i]}
                    BY <2>3 DEF InPass
                <5> QED BY <4>1, <4>3, <5>1 DEF Excused
            <4>4. CASE q = p /\ Children(p) \subseteq R
                <5>1. Here(i)
                    BY <2>1, <2>3, SourcesStayInPass
                <5>2. i \in Children(p)
                    BY <2>1, <4>1, <4>4, <5>1 DEF Children
                <5> QED BY <1>2, <2>1, <4>4, <5>2
            <4> QED BY <4>1, <4>2, <4>3, <4>4
        <3> QED BY <2>1, <2>3, <3>1, <3>2 DEF Accounted
    <2> QED BY <1>0, <2>1, <2>2, <2>3, RequestStays DEF Accounted
<1> QED BY <1>4, <1>5, <1>6, <1>7, <1>8

LEMMA ParentStepsKeepInv ==
  ASSUME ListInv, NEW p \in parents,
         \/ Listed(p)
         \/ \E R \in SUBSET Children(p) : ParentNotFound(p, R) \/ StillThrottled(p, R)
  PROVE  ListInv'
<1>1. CASE Listed(p)
    BY <1>1, EnumerationKeepsInv DEF Listed, outcome
<1>2. ASSUME NEW R \in SUBSET Children(p), ParentNotFound(p, R) PROVE ListInv'
    BY <1>2, EnumerationKeepsInv DEF ParentNotFound
<1>3. ASSUME NEW R \in SUBSET Children(p), StillThrottled(p, R) PROVE ListInv'
    BY <1>3, EnumerationKeepsInv DEF StillThrottled
<1> QED BY <1>1, <1>2, <1>3

(* The steps that only move on. *)
LEMMA MovesKeepInv ==
  ASSUME ListInv, \/ ListFails \/ SweepEnds \/ GetGroupFails \/ UNCHANGED listVars
                  \/ ContextEnds /\ UNCHANGED <<request, pc, cache, at, parents, get, outcome, swept>>
  PROVE  ListInv'
<1> USE DEF ListInv
<1>1. /\ UNCHANGED <<request, cache, at, parents, get, outcome, swept>>
      /\ ContextTypeOK'
      /\ \/ pc' = pc
         \/ pc' = "failed" /\ pc \in {"list", "get"}
         \/ pc' = "get" /\ pc = "list" /\ parents = {}
      /\ pc' = "failed" => \A i \in Item : get[i] # "getting"
    <2>1. ContextTypeOK'
        BY DEF ListFails, SweepEnds, GetGroupFails, ContextEnds, listVars, ContextTypeOK, ListTypeOK
    <2>2. pc # "get" => \A i \in Item : get[i] # "getting"
        BY DEF GetOK
    <2>3. pc' = "failed" => \/ pc = "list" /\ get' = get
                            \/ pc = "failed" /\ get' = get
                            \/ GetGroupFails
        BY DEF ListFails, SweepEnds, listVars, ContextEnds
    <2>4. pc' = "failed" => \A i \in Item : get[i] # "getting"
        BY <2>2, <2>3 DEF GetGroupFails, AllRead
    <2>5. UNCHANGED <<request, cache, at, parents, get, outcome, swept>>
        BY DEF ListFails, SweepEnds, GetGroupFails, ContextEnds, listVars, request, outcome
    <2>6. \/ pc' = pc
          \/ pc' = "failed" /\ pc \in {"list", "get"}
          \/ pc' = "get" /\ pc = "list" /\ parents = {}
        <3> HIDE DEF ListInv
        <3>1. CASE ListFails \/ SweepEnds \/ GetGroupFails
            BY <3>1 DEF ListFails, SweepEnds, GetGroupFails
        <3>2. CASE \/ UNCHANGED listVars
                   \/ ContextEnds /\ UNCHANGED <<request, pc, cache, at, parents, get, outcome, swept>>
            BY <3>2 DEF listVars
        <3> QED BY <3>1, <3>2
    <2> QED BY <2>1, <2>4, <2>5, <2>6
<1>2. \A i \in Item : InPass(i)' = InPass(i) /\ PassOver(i)' = PassOver(i) /\ Excused(i)' = Excused(i)
    BY <1>1 DEF InPass, PassOver, Excused, outcome
<1>3. ListTypeOK' /\ PassOK'
    BY <1>1, RequestStays DEF ListTypeOK, PassOK, request, outcome
<1>4. GetOK'
    BY <1>1, <1>2, RequestStays DEF GetOK, outcome
<1>5. OwnPass' /\ SourceOK'
    BY <1>1, <1>2, RequestStays DEF OwnPass, SourceOK, SweptOnlyIfUnknown, outcome
<1>6. Accounted'
    BY <1>1, <1>2, RequestStays DEF Accounted, AskedFor, outcome
<1> QED BY <1>3, <1>4, <1>5, <1>6

LEMMA ReadsKeepInv ==
  ASSUME ListInv, NEW i \in Item, GetStarts(i) \/ Got(i) \/ GetFails(i) \/ GetInterrupted(i)
  PROVE  ListInv'
<1> USE DEF ListInv
<1>1. PICK to \in {"getting", "got", "warned", "err"} : get' = [get EXCEPT ![i] = to]
    BY DEF GetStarts, Got, GetFails, GetInterrupted, Reads
<1>2. /\ UNCHANGED <<ctx, request, pc, cache, at, parents, swept, emitted, cutShort>>
      /\ warned \subseteq warned' /\ warned' \subseteq Item
      /\ get[i] # "none" /\ pc = "get"
      /\ (get'[i] = "warned" => i \in warned')
    BY DEF GetStarts, Got, GetFails, GetInterrupted, Reads, outcome, GetOK, ListTypeOK
<1>3. \A j \in Item : InPass(j)' = InPass(j) /\ PassOver(j)' = PassOver(j)
                        /\ (Excused(j) => Excused(j)')
    BY <1>2 DEF InPass, PassOver, Excused
<1>4. \A j \in Item : (get'[j] # "none" <=> get[j] # "none")
                        /\ (get'[j] = "warned" => j \in warned')
    BY <1>1, <1>2 DEF ListTypeOK, GetOK
<1>5. ListTypeOK' /\ PassOK'
    BY <1>1, <1>2, RequestStays DEF ListTypeOK, PassOK, request, ContextTypeOK
<1>6. GetOK'
    BY <1>2, <1>3, <1>4, RequestStays DEF GetOK
<1>7. OwnPass' /\ SourceOK'
    BY <1>2, <1>3, RequestStays DEF OwnPass, SourceOK, SweptOnlyIfUnknown
<1>8. Accounted'
    BY <1>2, <1>3, <1>4, RequestStays DEF Accounted, AskedFor
<1> QED BY <1>5, <1>6, <1>7, <1>8

LEMMA EmitKeepsInv ==
  ASSUME ListInv, EmitRegion
  PROVE  ListInv'
<1> USE DEF ListInv
<1>1. /\ UNCHANGED <<ctx, request, cache, parents, warned, cutShort, swept>>
      /\ pc = "get" /\ get' = Idle
      /\ emitted' = [i \in Item |-> emitted[i] + IF get[i] = "got" /\ Passes(i) THEN 1 ELSE 0]
      /\ \A i \in Item : get[i] \in {"none", "got", "warned"}
    BY DEF EmitRegion, AllRead, ListTypeOK
<1>2. at \in PassSet /\ kind \in Kinds /\ at \in Nat /\ NumRegions \in Nat /\ LastPass \in Nat
      /\ at <= LastPass /\ PassSet \subseteq 0..NumRegions
    <2>1. at \in PassSet /\ kind \in Kinds
        BY <1>1 DEF PassOK, ListTypeOK, Kinds
    <2>2. PassSet \subseteq Nat
        BY <2>1, Passes0, ListingAssumption
    <2> QED BY <2>1, <2>2, Passes0, ListingAssumption
<1>3. \/ pc' = "done" /\ at' = at /\ at = LastPass
      \/ pc' = "choose" /\ at' = at + 1 /\ at' \in PassSet /\ at # 0
    <2>1. CASE at = LastPass
        BY <2>1 DEF EmitRegion
    <2>2. CASE at # LastPass
        <3>1. ~kind.global /\ PassSet = 1..NumRegions /\ LastPass = NumRegions
            BY <1>2, <2>2, Passes0 DEF PassSet, Region
        <3> QED BY <1>2, <2>2, <3>1 DEF EmitRegion
    <2> QED BY <2>1, <2>2
<1>4. \A i \in Item : HomeOf[i] \in Nat /\ 1 <= HomeOf[i] /\ HomeOf[i] <= NumRegions
    BY ListingAssumption
<1>5. \A i \in Item : Excused(i)' = Excused(i)
    BY <1>1 DEF Excused
<1>6. \A i \in Item : PassOver(i)' <=> PassOver(i) \/ InPass(i)
    <2>1. CASE pc' = "choose"
        BY <1>1, <1>2, <1>3, <1>4, <2>1 DEF PassOver, InPass
    <2>2. CASE pc' = "done"
        <3>1. kind.global => at = 0
            BY <1>2 DEF PassSet
        <3>2. ~kind.global => at = NumRegions
            BY <1>2, <1>3, <2>2, Passes0
        <3> QED BY <1>2, <1>3, <1>4, <2>2, <3>1, <3>2 DEF PassOver, InPass
    <2> QED BY <1>3, <2>1, <2>2
<1>7. \A i \in Item : PassOver(i) => ~InPass(i)
    BY <1>1, <1>2, <1>4 DEF PassOver, InPass
<1>8. \A i \in Item : get[i] = "got" /\ Passes(i) => i \in AskedFor
    BY DEF Passes, AskedFor, GetOK, ListTypeOK
<1>9. \A i \in AskedFor : i \in Item /\ (get[i] = "got" => Passes(i))
    BY DEF Passes, AskedFor, ListTypeOK
<1>10. ListTypeOK'
    <2>1. emitted' \in [Item -> Nat]
        BY <1>1 DEF ListTypeOK
    <2>2. at' \in 0..NumRegions
        BY <1>2, <1>3
    <2>3. get' \in [Item -> {"none", "waiting", "getting", "got", "warned", "err"}]
        BY <1>1 DEF Idle
    <2>4. pc' \in {"prefetch", "choose", "list", "get", "done", "failed"}
        BY <1>3
    <2> QED BY <1>1, <2>1, <2>2, <2>3, <2>4 DEF ListTypeOK, request, ContextTypeOK
<1>11. PassOK'
    BY <1>1, <1>2, <1>3, RequestStays DEF PassOK
<1>12. GetOK'
    BY <1>1, <1>3 DEF GetOK, Idle
<1>13. OwnPass'
    <2> SUFFICES ASSUME NEW i \in Item
                 PROVE  /\ emitted'[i] \in 0..1
                        /\ emitted'[i] = 1 => PassOver(i)' /\ i \in AskedFor
        BY <1>1, RequestStays DEF OwnPass
    <2>1. emitted[i] \in 0..1 /\ (emitted[i] = 1 => PassOver(i) /\ i \in AskedFor)
        BY DEF OwnPass
    <2>2. CASE get[i] = "got" /\ Passes(i)
        <3>1. InPass(i)
            BY <2>2 DEF GetOK
        <3>2. emitted[i] = 0
            BY <1>7, <2>1, <3>1
        <3> QED BY <1>1, <1>6, <1>8, <2>2, <3>1, <3>2
    <2>3. CASE ~(get[i] = "got" /\ Passes(i))
        <3>1. emitted'[i] = emitted[i]
            BY <1>1, <2>1, <2>3
        <3> QED BY <1>6, <2>1, <3>1
    <2> QED BY <2>2, <2>3
<1>14. SourceOK'
    BY <1>1, <1>3, RequestStays DEF SourceOK, SweptOnlyIfUnknown
<1>15. Accounted'
    <2> SUFFICES ASSUME NEW i \in AskedFor, PassOver(i) \/ InPass(i)
                 PROVE  emitted'[i] > 0 \/ Excused(i)'
        BY <1>1, <1>3, <1>6, <1>9, RequestStays DEF Accounted
    <2>0. emitted[i] \in Nat /\ emitted'[i] \in Nat /\ emitted'[i] >= emitted[i]
        BY <1>1, <1>9 DEF ListTypeOK
    <2>1. CASE PassOver(i)
        BY <1>5, <1>9, <2>0, <2>1 DEF Accounted
    <2>2. CASE InPass(i)
        <3>1. get[i] # "none" \/ Excused(i)
            BY <1>1, <2>2 DEF Accounted
        <3>2. CASE get[i] = "got"
            BY <1>1, <1>9, <2>0, <3>2
        <3>3. CASE get[i] = "warned"
            BY <1>5, <1>9, <3>3 DEF GetOK, Excused
        <3> QED BY <1>1, <1>5, <1>9, <3>1, <3>2, <3>3
    <2> QED BY <2>1, <2>2
<1> QED BY <1>10, <1>11, <1>12, <1>13, <1>14, <1>15
-----------------------------------------------------------------------------
(* The inductive invariant holds in every state of a listing. *)
THEOREM ListInvariant == ListSpec => []ListInv
<1>1. ListInit => ListInv
    BY InitListInv
<1>2. ListInv /\ [ListNext]_listVars => ListInv'
    BY PrefetchedKeepsInv, PrefetchJoinedKeepsInv, TakeKnownKeepsInv, StartSweepKeepsInv,
       ParentStepsKeepInv, MovesKeepInv, ReadsKeepInv, EmitKeepsInv
       DEF ListNext, ListStep
<1> QED BY <1>1, <1>2, PTL DEF ListSpec

(* Every variable stays in its range. *)
THEOREM ListTypeCorrect == ListSpec => []ListTypeOK
<1>1. ListInv => ListTypeOK
    BY DEF ListInv
<1> QED BY <1>1, ListInvariant, PTL

(* Over all regions and sources, cloudControlDiscoverer.Discover returns an *)
(* item at most once, and only if the request asked for it.                 *)
THEOREM NothingTwice == ListSpec => []EachItemOnce
<1>1. ListInv => EachItemOnce
    <2> SUFFICES ASSUME ListInv, NEW i \in Item
                 PROVE  emitted[i] <= (IF i \in AskedFor THEN 1 ELSE 0)
        BY DEF EachItemOnce
    <2>1. emitted[i] \in 0..1 /\ (emitted[i] = 1 => i \in AskedFor)
        BY DEF ListInv, OwnPass
    <2> QED BY <2>1
<1> QED BY <1>1, ListInvariant, PTL

(* The account is enumerated only where neither the selection nor the       *)
(* prefetch says what there is.                                             *)
THEOREM NoNeedlessSweep == ListSpec => []SweptOnlyIfUnknown
<1>1. ListInv => SweptOnlyIfUnknown
    BY DEF ListInv, SourceOK
<1> QED BY <1>1, ListInvariant, PTL

(* A listing that returns has every item it was asked for, or a warning     *)
(* that covers it.                                                          *)
THEOREM NothingIsLostSilently == ListSpec => []NothingLostSilently
<1>1. ListInv => NothingLostSilently
    BY DEF ListInv, Accounted, PassOver, Excused, NothingLostSilently
<1> QED BY <1>1, ListInvariant, PTL
-----------------------------------------------------------------------------
Todo == IF pc = "get" THEN {i \in Item : get[i] = "waiting"} ELSE {}

LEMMA NoReadsNoGroup ==
  ASSUME ListInv, pc # "get" PROVE Getting = {} /\ Todo = {}
BY DEF ListInv, GetOK, Getting, Todo

(* A step from one state without reads to another. *)
LEMMA GroupStandsStill ==
  ASSUME pc # "get", pc' # "get", Getting = {}, Getting' = {}
  PROVE  UNCHANGED GetGroup!vars
BY DEF GetGroup!vars

LEMMA ReadStepOfTheGroup ==
  ASSUME ListInv, NEW i \in Item, GetStarts(i) \/ Got(i) \/ GetFails(i) \/ GetInterrupted(i)
  PROVE  GetGroup!Start(i) \/ GetGroup!StartInVain(i) \/ GetGroup!Finish(i)
<1>0. /\ get \in [Item -> {"none", "waiting", "getting", "got", "warned", "err"}]
      /\ \A j \in Item : get[j] = "getting" => pc = "get"
    BY DEF ListInv, ListTypeOK, GetOK
<1>1. CASE GetStarts(i) /\ ~ContextOver
    <2>1. get' = [get EXCEPT ![i] = "getting"] /\ get[i] = "waiting" /\ pc = "get" /\ pc' = pc
        BY <1>1 DEF GetStarts, Reads
    <2>2. Getting' = Getting \cup {i} /\ Todo' = Todo \ {i} /\ i \in Todo
        BY <1>0, <2>1 DEF Getting, Todo
    <2>3. Cardinality(Getting) < GetLimit
        BY <1>1 DEF GetStarts, GetSlot
    <2> QED BY <2>1, <2>2, <2>3 DEF GetGroup!Start, Todo, Cardinality, GetGroup!Cardinality
<1>2. CASE GetStarts(i) /\ ContextOver
    <2>1. get' = [get EXCEPT ![i] = "err"] /\ get[i] = "waiting" /\ pc = "get" /\ pc' = pc
        BY <1>2 DEF GetStarts, Reads
    <2>2. Getting' = Getting /\ Todo' = Todo \ {i} /\ i \in Todo
        BY <1>0, <2>1 DEF Getting, Todo
    <2>3. Cardinality(Getting) < GetLimit
        BY <1>2 DEF GetStarts, GetSlot
    <2> QED BY <2>1, <2>2, <2>3 DEF GetGroup!StartInVain, Todo, Cardinality, GetGroup!Cardinality
<1>3. CASE Got(i) \/ GetFails(i) \/ GetInterrupted(i)
    <2>1. PICK to \in {"got", "warned", "err"} : get' = [get EXCEPT ![i] = to]
        BY <1>3 DEF Got, GetFails, GetInterrupted, Reads
    <2>2. get[i] = "getting" /\ pc' = pc
        BY <1>3 DEF Got, GetFails, GetInterrupted, Reads
    <2>3. Getting' = Getting \ {i} /\ i \in Getting /\ Todo' = Todo
        BY <1>0, <2>1, <2>2 DEF Getting, Todo
    <2> QED BY <1>0, <2>2, <2>3 DEF GetGroup!Finish, Todo
<1> QED BY <1>1, <1>2, <1>3

(* A pass opens the group when its work set is known or swept. *)
LEMMA OpensTheGroup ==
  ASSUME ListInv, TakeKnown \/ SweepEnds
  PROVE  \E T \in SUBSET Item : GetGroup!Open(T)
<1>1. pc # "get" /\ pc' = "get" /\ \A i \in Item : get'[i] # "getting"
    BY DEF TakeKnown, SweepEnds, Refs, ListInv, GetOK
<1>2. PICK T \in SUBSET Item : T = Todo'
    BY DEF Todo
<1>3. Getting = {} /\ Getting' = {} /\ Todo' = T
    BY <1>1, <1>2, NoReadsNoGroup DEF Getting
<1>4. GetGroup!Open(T)
    BY <1>1, <1>3 DEF GetGroup!Open, Todo
<1> QED BY <1>4

LEMMA JoinsTheGroup ==
  ASSUME EmitRegion \/ GetGroupFails
  PROVE  GetGroup!Join
<1>1. pc = "get" /\ pc' # "get" /\ AllRead
    BY DEF EmitRegion, GetGroupFails
<1>2. \A i \in Item : get'[i] # "getting"
    BY <1>1 DEF EmitRegion, GetGroupFails, AllRead, Idle
<1>3. Getting = {} /\ Getting' = {} /\ Todo = {} /\ Todo' = {}
    BY <1>1, <1>2 DEF AllRead, Getting, Todo
<1> QED BY <1>1, <1>3 DEF GetGroup!Join, Todo

LEMMA ListStepOfTheGroup ==
  ASSUME ListInv, ListInv', [ListNext]_listVars
  PROVE  [GetGroup!Next]_(GetGroup!vars)
<1> USE DEF GetGroup!Next
<1>1. CASE \E i \in Item : GetStarts(i) \/ Got(i) \/ GetFails(i) \/ GetInterrupted(i)
    BY <1>1, ReadStepOfTheGroup
<1>2. CASE TakeKnown \/ SweepEnds
    BY <1>2, OpensTheGroup
<1>3. CASE EmitRegion \/ GetGroupFails
    BY <1>3, JoinsTheGroup
<1>4. ASSUME pc # "get", pc' # "get" PROVE UNCHANGED GetGroup!vars
    BY <1>4, GroupStandsStill DEF ListInv, GetOK, Getting
<1>5. CASE \/ \E r \in Region, how \in {"cached", "failed"} : Prefetched(r, how)
           \/ PrefetchJoined \/ \E fails \in BOOLEAN : StartSweep(fails)
           \/ ListFails
           \/ \E p \in parents :
                \/ Listed(p)
                \/ \E R \in SUBSET Children(p) : ParentNotFound(p, R) \/ StillThrottled(p, R)
    <2>1. pc # "get" /\ pc' # "get"
        BY <1>5 DEF Prefetched, PrefetchJoined, StartSweep, ListFails, Listed, ParentNotFound,
                    StillThrottled
    <2> QED BY <1>4, <2>1
<1>6. CASE ContextEnds /\ UNCHANGED <<request, pc, cache, at, parents, get, outcome, swept>>
    BY <1>6 DEF GetGroup!vars, Getting
<1>7. CASE UNCHANGED listVars
    BY <1>7 DEF GetGroup!vars, Getting, listVars
<1> QED BY <1>1, <1>2, <1>3, <1>5, <1>6, <1>7 DEF ListNext, ListStep

(* The reads of each pass are a bounded group: GetLimit holds at all times, *)
(* and no pass looks at its reads before all have returned.                 *)
THEOREM ListingImplementsFanOut == ListSpec => ReadsAreAFanOut
<1>1. ListInit => GetGroup!Init
    BY DEF ListInit, GetGroup!Init, Idle, Getting
<1>2. ListInv /\ ListInv' /\ [ListNext]_listVars => [GetGroup!Next]_(GetGroup!vars)
    BY ListStepOfTheGroup
<1> QED BY <1>1, <1>2, ListInvariant, PTL DEF ListSpec, ReadsAreAFanOut, GetGroup!Spec

(* The reads of a pass keep the promises of a bounded group: at most        *)
(* GetLimit at a time, nobody waiting or reading when the pass is over.     *)
THEOREM ReadsAreABoundedGroup == ListSpec => []GetGroup!FanOutSafe
<1>1. IsFiniteSet(Item) /\ GetLimit \in Nat \ {0}
    BY ListingAssumption
<1>2. \A S : GetGroup!IsFiniteSet(S) = IsFiniteSet(S)
    BY DEF IsFiniteSet, GetGroup!IsFiniteSet
<1>3. GetGroup!Init => GetGroup!FanOutSafe
    BY <1>1, GetGroup!GroupInit
<1>4. GetGroup!FanOutSafe /\ [GetGroup!Next]_(GetGroup!vars) => GetGroup!FanOutSafe'
    BY <1>1, <1>2, GetGroup!GroupStep
<1> QED BY <1>3, <1>4, ListingImplementsFanOut, PTL DEF ReadsAreAFanOut, GetGroup!Spec
-----------------------------------------------------------------------------
(* What a listing has left: the passes after this one, each of no more than *)
(* PassWork and a few steps; in this pass the phases, the parents and the    *)
(* stages of the reads; the regions of the prefetch; the end of the context. *)
Parents == {ParentOf[i] : i \in Item} \cup {"all"}
PassWork == Cardinality(Parents) + 2 * Cardinality(Item)

Unstarted == {i \in Item : get[i] \in {"none", "waiting"}}
Unread == {i \in Item : get[i] \in {"none", "waiting", "getting"}}
Pending == {r \in Region : cache[r] = "pending"}

PassesLeft == LastPass - at
ReadsLeft == Cardinality(Unstarted) + Cardinality(Unread)
PassLeft ==
  CASE pc = "prefetch" -> PassWork + 4
    [] pc = "choose" -> PassWork + 3
    [] pc = "list" -> Cardinality(parents) + ReadsLeft + 2
    [] pc = "get" -> ReadsLeft + 1
    [] pc \in {"done", "failed"} -> 0
ContextLeft == IF ContextOver THEN 0 ELSE 1

ListLeft == PassesLeft * (PassWork + 5) + PassLeft + Cardinality(Pending) + ContextLeft

LEMMA PassDescends ==
  ASSUME NEW n \in Nat, NEW r \in Nat, NEW s \in Nat, NEW a \in Nat, NEW b \in 0..n,
         NEW p \in Nat, NEW q \in Nat, NEW c \in Nat, NEW d \in Nat,
         s <= r, q <= p, d <= c, b <= a \/ s # r,
         s # r \/ b # a \/ q # p \/ d # c
  PROVE  s * (n + 1) + b + q + d < r * (n + 1) + a + p + c
<1>1. CASE s = r
    <2>1. s * (n + 1) = r * (n + 1) /\ s * (n + 1) \in Nat
        BY <1>1
    <2>2. b + q + d < a + p + c
        BY <1>1
    <2> QED BY <2>1, <2>2
<1>2. CASE s # r
    <2>1. PICK k \in Nat : r = s + 1 + k
        <3>1. r - s - 1 \in Nat /\ r = s + 1 + (r - s - 1)
            BY <1>2
        <3> QED BY <3>1
    <2>2. /\ r * (n + 1) = s * (n + 1) + (n + 1) + k * (n + 1)
          /\ k * (n + 1) \in Nat /\ s * (n + 1) \in Nat
        BY <2>1
    <2> QED BY <2>2
<1> QED BY <1>1, <1>2

LEMMA ParentsFinite ==
  /\ IsFiniteSet(Parents) /\ Cardinality(Parents) \in Nat
  /\ IsFiniteSet(Item) /\ Cardinality(Item) \in Nat /\ PassWork \in Nat
<1>1. IsFiniteSet({ParentOf[i] : i \in Item})
    <2>1. [i \in Item |-> ParentOf[i]] \in Surjection(Item, {ParentOf[i] : i \in Item})
        BY DEF Surjection
    <2> QED BY <2>1, FS_Surjection, ListingAssumption
<1>2. IsFiniteSet(Parents)
    BY <1>1, FS_AddElement DEF Parents
<1>3. IsFiniteSet(Item) /\ Cardinality(Item) \in Nat /\ Cardinality(Parents) \in Nat
    BY <1>2, FS_CardinalityType, ListingAssumption
<1> QED BY <1>2, <1>3 DEF PassWork

(* The parts are what they are meant to be.                                 *)
WorkOK ==
  /\ PassesLeft \in Nat /\ PassLeft \in 0..(PassWork + 4)
  /\ Cardinality(Pending) \in Nat /\ IsFiniteSet(Pending)
  /\ Cardinality(Unstarted) \in Nat /\ Cardinality(Unread) \in Nat
  /\ IsFiniteSet(Unstarted) /\ IsFiniteSet(Unread)
  /\ Cardinality(Unstarted) <= Cardinality(Item) /\ Cardinality(Unread) <= Cardinality(Item)
  /\ IsFiniteSet(parents)
  /\ Cardinality(parents) \in Nat /\ Cardinality(parents) <= Cardinality(Parents)

LEMMA WorkIsOK == ASSUME ListInv PROVE WorkOK
<1>1. /\ IsFiniteSet(Unstarted) /\ Cardinality(Unstarted) \in Nat
      /\ Cardinality(Unstarted) <= Cardinality(Item)
    <2>1. Unstarted \in SUBSET Item
        BY DEF Unstarted
    <2> QED BY <2>1, FewerLeft, ListingAssumption
<1>2. /\ IsFiniteSet(Unread) /\ Cardinality(Unread) \in Nat
      /\ Cardinality(Unread) <= Cardinality(Item)
    <2>1. Unread \in SUBSET Item
        BY DEF Unread
    <2> QED BY <2>1, FewerLeft, ListingAssumption
<1>3. /\ IsFiniteSet(parents) /\ Cardinality(parents) \in Nat
      /\ Cardinality(parents) <= Cardinality(Parents)
    <2>1. parents \in SUBSET Parents
        BY DEF ListInv, ListTypeOK, Parents
    <2> QED BY <2>1, FewerLeft, ParentsFinite
<1>4. IsFiniteSet(Pending) /\ Cardinality(Pending) \in Nat
    <2>1. IsFiniteSet(Region)
        BY FS_Interval, ListingAssumption DEF Region
    <2>2. Pending \in SUBSET Region
        BY DEF Pending
    <2> QED BY <2>1, <2>2, FewerLeft
<1>5. PassesLeft \in Nat
    <2>1. kind \in Kinds
        BY DEF ListInv, ListTypeOK, Kinds
    <2>2. at \in Nat /\ LastPass \in Nat /\ at <= LastPass
        BY <2>1, Passes0, ListingAssumption DEF ListInv, ListTypeOK, PassOK
    <2> QED BY <2>2 DEF PassesLeft
<1>6. PassLeft \in 0..(PassWork + 4)
    <2>1. pc \in {"prefetch", "choose", "list", "get", "done", "failed"}
        BY DEF ListInv, ListTypeOK
    <2>2. PassWork \in Nat /\ Cardinality(Item) \in Nat /\ Cardinality(Parents) \in Nat
        BY ParentsFinite
    <2> QED BY <1>1, <1>2, <1>3, <2>1, <2>2 DEF PassLeft, ReadsLeft, PassWork
<1> QED BY <1>1, <1>2, <1>3, <1>4, <1>5, <1>6 DEF WorkOK

(* What a step may do with them.                                            *)
Descends ==
  /\ PassesLeft' <= PassesLeft /\ Cardinality(Pending') <= Cardinality(Pending)
  /\ ContextLeft' <= ContextLeft
  /\ PassLeft' <= PassLeft \/ PassesLeft' # PassesLeft
  /\ \/ PassesLeft' # PassesLeft \/ PassLeft' # PassLeft
     \/ Cardinality(Pending') # Cardinality(Pending) \/ ContextLeft' # ContextLeft

(* Within a pass it is the pass that goes on.                               *)
LEMMA WithinAPass ==
  ASSUME WorkOK, UNCHANGED <<ctx, request, cache, at>>,
         PassLeft' <= PassLeft, PassLeft' # PassLeft
  PROVE  Descends
<1>1. PassesLeft' = PassesLeft
    BY RequestStays DEF PassesLeft, LastPass
<1>2. Pending' = Pending /\ ContextLeft' = ContextLeft
    BY DEF Pending, ContextLeft, ContextOver, Region
<1>3. ContextLeft \in Nat
    BY DEF ContextLeft
<1> QED BY <1>1, <1>2, <1>3 DEF Descends, WorkOK

LEMMA PrefetchDescends ==
  ASSUME ListInv, WorkOK, WorkOK',
         PrefetchJoined \/ \E r \in Region, how \in {"cached", "failed"} : Prefetched(r, how)
  PROVE  Descends
<1>w. PassWork \in Nat
    BY ParentsFinite
<1>1. CASE \E r \in Region, how \in {"cached", "failed"} : Prefetched(r, how)
    <2>1. PICK r \in Region, how \in {"cached", "failed"} : Prefetched(r, how)
        BY <1>1
    <2>2. \A q \in Region : cache'[q] = IF q = r THEN how ELSE cache[q]
        BY <2>1 DEF Prefetched, ListInv, ListTypeOK
    <2>3. Pending' \in SUBSET Pending /\ r \in Pending /\ r \notin Pending'
        BY <2>1, <2>2 DEF Prefetched, Pending, Region
    <2>4. /\ Cardinality(Pending') <= Cardinality(Pending)
          /\ Cardinality(Pending') # Cardinality(Pending)
        BY <2>3, FewerLeft DEF WorkOK
    <2>5. pc = "prefetch" /\ pc' = "prefetch" /\ UNCHANGED <<ctx, request, at>>
        BY <2>1 DEF Prefetched
    <2>6. PassesLeft' = PassesLeft /\ ContextLeft' = ContextLeft /\ ContextLeft \in Nat
        BY <2>5, RequestStays DEF PassesLeft, LastPass, ContextLeft, ContextOver
    <2>7. PassLeft' = PassLeft
        BY <2>5 DEF PassLeft, PassWork
    <2> QED BY <2>4, <2>6, <2>7 DEF Descends, WorkOK
<1>2. CASE PrefetchJoined
    <2>1. /\ pc = "prefetch" /\ pc' \in {"failed", "choose"} /\ at' = FirstPass
          /\ UNCHANGED <<ctx, request, cache>>
        BY <1>2 DEF PrefetchJoined
    <2>2. PassLeft' <= PassLeft /\ PassLeft' # PassLeft
        BY <1>w, <2>1 DEF PassLeft, PassWork
    <2>3. PassesLeft' <= PassesLeft
        <3>1. kind \in Kinds
            BY DEF ListInv, ListTypeOK, Kinds
        <3>2. at = 0 /\ FirstPass \in Nat /\ LastPass \in Nat
            BY <2>1, <3>1, Passes0, ListingAssumption DEF ListInv, PassOK
        <3>3. LastPass' = LastPass
            BY <2>1, RequestStays DEF LastPass
        <3> QED BY <2>1, <3>2, <3>3 DEF PassesLeft
    <2>4. Pending' = Pending /\ ContextLeft' = ContextLeft /\ ContextLeft \in Nat
        BY <2>1 DEF Pending, ContextLeft, ContextOver, Region
    <2> QED BY <2>2, <2>3, <2>4 DEF Descends, WorkOK
<1> QED BY <1>1, <1>2

LEMMA ChoiceDescends ==
  ASSUME WorkOK, WorkOK', TakeKnown \/ \E fails \in BOOLEAN : StartSweep(fails)
  PROVE  Descends
<1>1. /\ pc = "choose" /\ pc' \in {"get", "list", "failed"}
      /\ UNCHANGED <<ctx, request, cache, at>>
    BY DEF TakeKnown, StartSweep
<1>2. /\ Cardinality(Unstarted') \in Nat /\ Cardinality(Unread') \in Nat
      /\ Cardinality(parents') \in Nat
      /\ Cardinality(Unstarted') <= Cardinality(Item)
      /\ Cardinality(Unread') <= Cardinality(Item)
      /\ Cardinality(parents') <= Cardinality(Parents)
    BY DEF WorkOK, Parents
<1>3. /\ PassWork = Cardinality(Parents) + 2 * Cardinality(Item)
      /\ Cardinality(Parents) \in Nat /\ Cardinality(Item) \in Nat
    BY ParentsFinite DEF PassWork
<1>4. PassLeft' <= PassLeft /\ PassLeft' # PassLeft
    <2>1. PassLeft = PassWork + 3
        BY <1>1 DEF PassLeft
    <2>2. CASE pc' = "list"
        <3>1. PassLeft' = Cardinality(parents') + (Cardinality(Unstarted') + Cardinality(Unread')) + 2
            BY <2>2 DEF PassLeft, ReadsLeft
        <3> QED BY <1>2, <1>3, <2>1, <3>1
    <2>3. CASE pc' = "get"
        <3>1. PassLeft' = (Cardinality(Unstarted') + Cardinality(Unread')) + 1
            BY <2>3 DEF PassLeft, ReadsLeft
        <3> QED BY <1>2, <1>3, <2>1, <3>1
    <2>4. CASE pc' = "failed"
        <3>1. PassLeft' = 0
            BY <2>4 DEF PassLeft
        <3> QED BY <1>3, <2>1, <3>1
    <2> QED BY <1>1, <2>2, <2>3, <2>4
<1> QED BY <1>1, <1>4, WithinAPass

LEMMA EnumerationDescends ==
  ASSUME ListInv, WorkOK, WorkOK',
         ListFails \/ SweepEnds
         \/ \E p \in parents :
              Listed(p) \/ \E R \in SUBSET Children(p) : ParentNotFound(p, R) \/ StillThrottled(p, R)
  PROVE  Descends
<1>t. /\ Cardinality(Unstarted) \in Nat /\ Cardinality(Unread) \in Nat
      /\ Cardinality(parents) \in Nat /\ Cardinality(parents') \in Nat
    BY DEF WorkOK
<1>1. CASE ListFails \/ SweepEnds
    <2>1. pc = "list" /\ pc' \in {"failed", "get"} /\ UNCHANGED <<ctx, request, cache, at, get>>
        BY <1>1 DEF ListFails, SweepEnds
    <2>2. Unstarted' = Unstarted /\ Unread' = Unread
        BY <2>1 DEF Unstarted, Unread
    <2>3. PassLeft = Cardinality(parents) + ReadsLeft + 2 /\ ReadsLeft \in Nat
        BY <1>t, <2>1 DEF PassLeft, ReadsLeft
    <2>4. PassLeft' = 0 \/ PassLeft' = ReadsLeft + 1
        BY <2>1, <2>2 DEF PassLeft, ReadsLeft
    <2>5. PassLeft' <= PassLeft /\ PassLeft' # PassLeft
        BY <1>t, <2>3, <2>4
    <2> QED BY <2>1, <2>5, WithinAPass
<1>2. ASSUME NEW p \in parents, NEW R, pc = "list", AddRefs(R), pc' = pc,
             parents' = parents \ {p} \/ parents' = {},
             UNCHANGED <<ctx, request, cache, at>>
      PROVE  Descends
    <2>1. Unstarted' = Unstarted /\ Unread' = Unread
        BY <1>2 DEF AddRefs, Unstarted, Unread, ListInv, GetOK
    <2>2. Cardinality(parents') <= Cardinality(parents) /\ Cardinality(parents') # Cardinality(parents)
        <3>1. parents' \in SUBSET parents /\ parents' # parents
            BY <1>2
        <3> QED BY <3>1, FewerLeft DEF WorkOK
    <2>3. /\ PassLeft = Cardinality(parents) + ReadsLeft + 2
          /\ PassLeft' = Cardinality(parents') + ReadsLeft + 2
          /\ ReadsLeft \in Nat
        BY <1>t, <1>2, <2>1 DEF PassLeft, ReadsLeft
    <2>4. PassLeft' <= PassLeft /\ PassLeft' # PassLeft
        BY <1>t, <2>2, <2>3
    <2> QED BY <1>2, <2>4, WithinAPass
<1>3. ASSUME NEW p \in parents,
             Listed(p) \/ \E R \in SUBSET Children(p) : ParentNotFound(p, R) \/ StillThrottled(p, R)
      PROVE  Descends
    <2>1. CASE Listed(p)
        BY <1>2, <2>1 DEF Listed
    <2>2. ASSUME NEW R, ParentNotFound(p, R) PROVE Descends
        BY <1>2, <2>2 DEF ParentNotFound
    <2>3. ASSUME NEW R, StillThrottled(p, R) PROVE Descends
        BY <1>2, <2>3 DEF StillThrottled
    <2> QED BY <1>3, <2>1, <2>2, <2>3
<1> QED BY <1>1, <1>3

LEMMA ReadDescends ==
  ASSUME ListInv, WorkOK, WorkOK', NEW i \in Item,
         GetStarts(i) \/ Got(i) \/ GetFails(i) \/ GetInterrupted(i)
  PROVE  Descends
<1>1. PICK to \in {"getting", "got", "warned", "err"} :
        /\ Reads(i, to) /\ pc = "get"
        /\ get[i] = "waiting" \/ (get[i] = "getting" /\ to # "getting")
    BY DEF GetStarts, Got, GetFails, GetInterrupted, ListInv, GetOK
<1>2. pc' = "get" /\ UNCHANGED <<ctx, request, cache, at>>
    BY <1>1 DEF Reads
<1>3. \A j \in Item : get'[j] = IF j = i THEN to ELSE get[j]
    BY <1>1 DEF Reads, ListInv, ListTypeOK
<1>4. /\ Unstarted' \in SUBSET Unstarted /\ Unread' \in SUBSET Unread
      /\ Unstarted' # Unstarted \/ Unread' # Unread
    <2>1. Unstarted' \in SUBSET Unstarted /\ Unread' \in SUBSET Unread
        BY <1>1, <1>3 DEF Unstarted, Unread
    <2>2. (i \in Unstarted /\ i \notin Unstarted') \/ (i \in Unread /\ i \notin Unread')
        BY <1>1, <1>3 DEF Unstarted, Unread
    <2> QED BY <2>1, <2>2
<1>5. /\ Cardinality(Unstarted) \in Nat /\ Cardinality(Unstarted') \in Nat
      /\ Cardinality(Unread) \in Nat /\ Cardinality(Unread') \in Nat
      /\ Cardinality(Unstarted') <= Cardinality(Unstarted)
      /\ Cardinality(Unread') <= Cardinality(Unread)
      /\ \/ Cardinality(Unstarted') # Cardinality(Unstarted)
         \/ Cardinality(Unread') # Cardinality(Unread)
    BY <1>4, FewerLeft DEF WorkOK
<1>6. /\ PassLeft = (Cardinality(Unstarted) + Cardinality(Unread)) + 1
      /\ PassLeft' = (Cardinality(Unstarted') + Cardinality(Unread')) + 1
    BY <1>1, <1>2 DEF PassLeft, ReadsLeft
<1>7. PassLeft' <= PassLeft /\ PassLeft' # PassLeft
    BY <1>5, <1>6
<1> QED BY <1>2, <1>7, WithinAPass

LEMMA EndOfPassDescends ==
  ASSUME ListInv, WorkOK, WorkOK', EmitRegion \/ GetGroupFails
  PROVE  Descends
<1>1. pc = "get" /\ UNCHANGED <<ctx, request, cache>>
    BY DEF EmitRegion, GetGroupFails
<1>2. CASE pc' \in {"done", "failed"} /\ at' = at
    <2>1. PassLeft = (Cardinality(Unstarted) + Cardinality(Unread)) + 1 /\ PassLeft' = 0
        BY <1>1, <1>2 DEF PassLeft, ReadsLeft
    <2>2. PassLeft' <= PassLeft /\ PassLeft' # PassLeft
        BY <2>1 DEF WorkOK
    <2> QED BY <1>1, <1>2, <2>2, WithinAPass
<1>3. CASE at' = at + 1
    <2>1. kind \in Kinds /\ at \in Nat
        BY ListingAssumption DEF ListInv, ListTypeOK, Kinds
    <2>2. LastPass \in Nat /\ LastPass' = LastPass
        BY <1>1, <2>1, Passes0, RequestStays, ListingAssumption DEF LastPass
    <2>3. PassesLeft' <= PassesLeft /\ PassesLeft' # PassesLeft
        BY <1>3, <2>1, <2>2 DEF PassesLeft
    <2>4. Pending' = Pending /\ ContextLeft' = ContextLeft /\ ContextLeft \in Nat
        BY <1>1 DEF Pending, ContextLeft, ContextOver, Region
    <2> QED BY <2>3, <2>4 DEF Descends, WorkOK
<1> QED BY <1>2, <1>3 DEF EmitRegion, GetGroupFails

LEMMA ListStepDescends ==
  ASSUME ListInv, WorkOK, WorkOK', ListNext PROVE ListLeft' < ListLeft
<1>1. Descends
    <2>1. CASE ListStep
        BY <2>1, PrefetchDescends, ChoiceDescends, EnumerationDescends, ReadDescends,
           EndOfPassDescends DEF ListStep
    <2>2. CASE ContextEnds /\ UNCHANGED <<request, pc, cache, at, parents, get, outcome, swept>>
        <3>1. ContextLeft = 1 /\ ContextLeft' = 0
            BY <2>2 DEF ContextEnds, ContextLeft, ContextOver
        <3>2. PassesLeft' = PassesLeft /\ Pending' = Pending
            BY <2>2, RequestStays DEF PassesLeft, LastPass, Pending, Region
        <3>3. PassLeft' = PassLeft
            BY <2>2 DEF PassLeft, ReadsLeft, Unstarted, Unread, PassWork
        <3> QED BY <3>1, <3>2, <3>3 DEF Descends, WorkOK
    <2> QED BY <2>1, <2>2 DEF ListNext
<1>2. ContextLeft \in Nat /\ ContextLeft' \in Nat /\ PassWork + 4 \in Nat
    BY ParentsFinite DEF ContextLeft
<1>3. PassLeft' \in 0..(PassWork + 4)
    BY DEF WorkOK, PassWork, Parents
<1>4. /\ PassesLeft \in Nat /\ PassesLeft' \in Nat /\ PassLeft \in Nat
      /\ Cardinality(Pending) \in Nat /\ Cardinality(Pending') \in Nat
    BY ParentsFinite DEF WorkOK
<1>5. PassesLeft' * ((PassWork + 4) + 1) + PassLeft' + Cardinality(Pending') + ContextLeft'
        < PassesLeft * ((PassWork + 4) + 1) + PassLeft + Cardinality(Pending) + ContextLeft
    BY <1>1, <1>2, <1>3, <1>4, PassDescends DEF Descends
<1>6. (PassWork + 4) + 1 = PassWork + 5
    BY ParentsFinite
<1> QED BY <1>5, <1>6 DEF ListLeft, PassWork, Parents

(* A listing is finite, also in a context that never ends and whatever the   *)
(* cloud answers: each step takes a part of a natural number, through all    *)
(* regions, parents and reads.                                              *)
THEOREM ListingsAreFinite ==
  ListSpec => [](ListLeft \in Nat) /\ [][ListLeft' < ListLeft]_listVars
<1>1. ListInv => WorkOK
    BY WorkIsOK
<1>2. WorkOK => ListLeft \in Nat
    <2> SUFFICES ASSUME WorkOK PROVE ListLeft \in Nat
        OBVIOUS
    <2>1. /\ PassesLeft \in Nat /\ PassLeft \in Nat /\ Cardinality(Pending) \in Nat
          /\ ContextLeft \in Nat /\ PassWork + 5 \in Nat
        BY ParentsFinite DEF WorkOK, ContextLeft
    <2>2. PassesLeft * (PassWork + 5) \in Nat
        BY <2>1
    <2> QED BY <2>1, <2>2 DEF ListLeft
<1>3. ListInv /\ WorkOK /\ WorkOK' /\ [ListNext]_listVars => [ListLeft' < ListLeft]_listVars
    BY ListStepDescends
<1> QED BY <1>1, <1>2, <1>3, ListInvariant, PTL DEF ListSpec
=============================================================================
