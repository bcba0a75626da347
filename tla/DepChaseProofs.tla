--------------------------- MODULE DepChaseProofs ---------------------------
(***************************************************************************)
(* Proofs about the dependency chase, for every world of literals and      *)
(* addresses, every iteration bound, every omission of genconfig and every *)
(* failing lookup.                                                         *)
(***************************************************************************)
EXTENDS DepChase, FiniteSetTheorems, TLAPS

LEMMA InitTypeOK == Init => TypeOK
BY DepChaseAssumption DEF Init, TypeOK, Outcome

LEMMA UnresolvedAreLiterals ==
  ASSUME TypeOK
  PROVE  Unresolved \subseteq Lit
<1>1. \A a \in resources : Holds(a) \subseteq Lit
  BY DEF TypeOK, World, Holds
<1>2. QED
  BY <1>1 DEF Unresolved, Dangling

(* A lookup finds only what the literal leads to. *)
LEMMA AnswersAreTargets ==
  ASSUME NEW l, NEW a \in Answers(l) \cap Addr
  PROVE  world.target[l] = a
BY DepChaseAssumption DEF Answers, Failure

LEMMA LookUpTypeOK ==
  ASSUME TypeOK, NEW l \in Lit, LookUp(l)
  PROVE  TypeOK'
<1> USE DEF TypeOK, TakeSeed
<1>1. CASE LeaveLiteral(l)
  <2>1. PICK code \in Code : WarnAndIgnore(l, code)
    BY <1>1 DEF LeaveLiteral, Code, Failure
  <2>2. QED
    BY <1>1, <2>1 DEF LeaveLiteral, WarnAndIgnore
<1>2. CASE LookupAborts(l)
  BY <1>2 DEF LookupAborts, Return, Outcome
<1>3. CASE RetainReference(l)
  BY <1>3 DEF RetainReference, WarnAndIgnore, Code
<1>4. CASE Discover(l)
  BY <1>4 DEF Discover
<1>5. QED
  BY <1>1, <1>2, <1>3, <1>4 DEF LookUp

LEMMA RegenerateTypeOK ==
  ASSUME TypeOK, Regenerate
  PROVE  TypeOK'
<1> DEFINE kept == {d \in discoveries : d[2] \in resources'}
<1>1. Discovered \subseteq Addr
  BY DEF TypeOK, Discovered
<1>2. resources' \subseteq Addr
  BY <1>1 DEF Regenerate, Extended, AddedNow, TypeOK
<1>3. added' \subseteq Addr
  BY <1>1 DEF Regenerate, TypeOK, Discovered
<1>4. edges' \subseteq Addr \X Addr
  <2>1. NewEdges(kept) \subseteq Addr \X Addr
    BY DEF NewEdges, Consumers, TypeOK
  <2>2. QED
    BY <2>1 DEF Regenerate, TypeOK
<1>5. prov' \in [Addr -> SUBSET Addr]
  BY DEF Regenerate, MergeProvenance, Consumers, TypeOK
<1>6. stamped' \subseteq Addr
  BY DEF Regenerate, Stampable, TypeOK
<1>7. ignored' \subseteq Lit /\ warned' \subseteq Code \X Lit
  BY DEF Regenerate, GivenUp, TypeOK, Code
<1>8. QED
  BY <1>2, <1>3, <1>4, <1>5, <1>6, <1>7 DEF Regenerate, TypeOK

LEMMA NextTypeOK == TypeOK /\ [Next]_vars => TypeOK'
<1> SUFFICES ASSUME TypeOK, [Next]_vars PROVE TypeOK'
  OBVIOUS
<1> USE DEF TypeOK
<1>1. CASE ScanEnds
  BY <1>1, UnresolvedAreLiterals DEF ScanEnds, Return, Outcome, Code
<1>2. CASE ScanSeeds
  <2>1. SeedWarnings(Unresolved) \subseteq Code \X Lit
    BY UnresolvedAreLiterals DEF SeedWarnings, Unparsed, Code, ParseFailure, Failure
  <2>2. ChaseOnce(Unresolved) \subseteq Lit
    BY UnresolvedAreLiterals DEF ChaseOnce
  <2>3. QED
    BY <1>2, <2>1, <2>2, UnresolvedAreLiterals DEF ScanSeeds
<1>3. CASE \E l \in Lit : LookUp(l)
  BY <1>3, LookUpTypeOK
<1>4. CASE NothingAdded
  BY <1>4 DEF NothingAdded, Return, Outcome
<1>5. CASE Regenerate
  BY <1>5, RegenerateTypeOK
<1>6. CASE PipelineFails
  BY <1>6 DEF PipelineFails, Return, Outcome, Extended, AddedNow, Discovered
<1>7. CASE DriftFixed
  BY <1>7, DepChaseAssumption DEF DriftFixed, IterationLeft, Return, Outcome
<1>8. CASE UNCHANGED vars
  BY <1>8 DEF vars
<1>9. QED
  BY <1>1, <1>2, <1>3, <1>4, <1>5, <1>6, <1>7, <1>8 DEF Next

(* Type correctness of the chase. *)
THEOREM TypeCorrect == Spec => []TypeOK
<1>1. QED
  BY InitTypeOK, NextTypeOK, PTL DEF Spec
-----------------------------------------------------------------------------
(* A literal is drained with a warning: the walk skips nothing silently.    *)
LEMMA ChaseOnceIsDisclosed ==
  ASSUME NEW l \in ChaseOnce(Unresolved)
  PROVE  \E w \in SeedWarnings(Unresolved) : w[2] = l
<1>1. CASE l \in NonARN
  <2>1. <<"nonARN", l>> \in SeedWarnings(Unresolved)
    BY <1>1 DEF SeedWarnings, ChaseOnce
  <2>2. QED
    BY <2>1
<1>2. CASE l \notin NonARN
  <2>1. \E a \in resources : l \in world.deep[a]
    BY <1>2 DEF ChaseOnce, Terminal, Unresolved, Dangling, Holds
  <2>2. <<"nested", l>> \in SeedWarnings(Unresolved)
    BY <1>2, <2>1 DEF SeedWarnings, Nested, ChaseOnce
  <2>3. QED
    BY <2>2
<1>3. QED
  BY <1>1, <1>2

LEMMA UnparsedIsDisclosed ==
  ASSUME NEW l \in Unresolved, Unparsed(l)
  PROVE  \E w \in SeedWarnings(Unresolved) : w[2] = l
<1>1. <<world.target[l], l>> \in SeedWarnings(Unresolved)
  BY DEF SeedWarnings
<1>2. QED
  BY <1>1

Told(l) == \E w \in warned : w[2] = l

LEMMA NextDisclosed == DrainedIsDisclosed /\ [Next]_vars => DrainedIsDisclosed'
<1> SUFFICES ASSUME DrainedIsDisclosed, [Next]_vars,
                    NEW l \in (ignored \cup chased)'
             PROVE  Told(l)'
  BY DEF DrainedIsDisclosed, Told
<1> USE DEF DrainedIsDisclosed, Told
<1>1. CASE ScanEnds
  BY <1>1 DEF ScanEnds
<1>2. CASE ScanSeeds
  BY <1>2, ChaseOnceIsDisclosed, UnparsedIsDisclosed DEF ScanSeeds
<1>3. CASE \E k \in Lit : LookUp(k)
  <2>1. PICK k \in Lit : LookUp(k)
    BY <1>3
  <2>2. CASE l = k /\ (LeaveLiteral(k) \/ RetainReference(k))
    <3>1. PICK code : WarnAndIgnore(k, code)
      BY <2>2 DEF LeaveLiteral, RetainReference
    <3>2. <<code, k>> \in warned'
      BY <3>1 DEF WarnAndIgnore
    <3>3. QED
      BY <2>2, <3>2
  <2>3. CASE l # k \/ LookupAborts(k) \/ Discover(k)
    BY <2>1, <2>3 DEF LookUp, LeaveLiteral, RetainReference, LookupAborts,
                      Discover, WarnAndIgnore
  <2>4. QED
    BY <2>1, <2>2, <2>3 DEF LookUp
<1>4. CASE Regenerate
  <2>1. CASE l \in ignored \cup chased
    BY <2>1, <1>4 DEF Regenerate
  <2>2. CASE l \notin ignored \cup chased
    <3>1. PICK d \in discoveries : d[1] = l /\ d[2] \notin resources'
      BY <1>4, <2>2 DEF Regenerate, GivenUp
    <3>2. <<"configOmitted", d[1]>> \in warned'
      BY <1>4, <3>1 DEF Regenerate
    <3>3. QED
      BY <3>1, <3>2
  <2>3. QED
    BY <2>1, <2>2
<1>5. CASE NothingAdded \/ PipelineFails \/ DriftFixed \/ UNCHANGED vars
  BY <1>5 DEF NothingAdded, PipelineFails, DriftFixed, vars
<1>6. QED
  BY <1>1, <1>2, <1>3, <1>4, <1>5 DEF Next

(* A literal leaves the unresolved accounting only with a warning.          *)
THEOREM Disclosed == Spec => []DrainedIsDisclosed
<1>1. Init => DrainedIsDisclosed
  BY DEF Init, DrainedIsDisclosed
<1>2. QED
  BY <1>1, NextDisclosed, PTL DEF Spec
-----------------------------------------------------------------------------
(* What is under way in a round: seeds are open literals of the scanned     *)
(* resources, and a discovery is an adoptable target of one.                *)
Open(l) == \E m \in scanned : l \in Holds(m)

RoundInv ==
  /\ \A l \in seeds : l \notin ignored /\ Open(l)
  /\ \A d \in discoveries :
       /\ d[1] \notin seeds /\ Open(d[1])
       /\ d[2] \in InScope \ Unimportable
       /\ world.target[d[1]] = d[2]
       /\ pc = "seed" => d[1] \notin ignored
  /\ pc = "seed" => scanned = resources
  /\ pc \in {"scan", "driftfix"} => seeds = {}

LEMMA InitRoundInv == Init => RoundInv
BY DEF Init, RoundInv

LEMMA NextRoundInv == TypeOK /\ RoundInv /\ [Next]_vars => RoundInv'
<1> SUFFICES ASSUME TypeOK, RoundInv, [Next]_vars PROVE RoundInv'
  OBVIOUS
<1> USE DEF RoundInv, Open, Holds
<1>1. CASE ScanEnds
  BY <1>1 DEF ScanEnds, Return
<1>2. CASE ScanSeeds
  BY <1>2 DEF ScanSeeds, Unresolved, Dangling
<1>3. CASE \E l \in Lit : LookUp(l)
  <2>1. PICK l \in Lit : LookUp(l)
    BY <1>3
  <2>2. CASE LeaveLiteral(l)
    BY <2>2 DEF LeaveLiteral, TakeSeed, WarnAndIgnore
  <2>3. CASE LookupAborts(l)
    BY <2>3 DEF LookupAborts, TakeSeed, Return
  <2>4. CASE RetainReference(l)
    BY <2>4 DEF RetainReference, TakeSeed, WarnAndIgnore
  <2>5. CASE Discover(l)
    <3>1. PICK a \in Answers(l) \cap Addr :
            Adopts(a) /\ discoveries' = discoveries \cup {<<l, a>>}
      BY <2>5 DEF Discover
    <3>2. world.target[l] = a
      BY <3>1, AnswersAreTargets
    <3>3. QED
      BY <2>5, <3>1, <3>2 DEF Discover, TakeSeed, Adopts
  <2>6. QED
    BY <2>1, <2>2, <2>3, <2>4, <2>5 DEF LookUp
<1>4. CASE NothingAdded
  BY <1>4 DEF NothingAdded, Return
<1>5. CASE Regenerate
  BY <1>5 DEF Regenerate
<1>6. CASE PipelineFails
  BY <1>6 DEF PipelineFails, Return
<1>7. CASE DriftFixed
  BY <1>7 DEF DriftFixed, Return
<1>8. CASE UNCHANGED vars
  BY <1>8 DEF vars
<1>9. QED
  BY <1>1, <1>2, <1>3, <1>4, <1>5, <1>6, <1>7, <1>8 DEF Next

(* What a round has seeded and discovered is adoptable and still open.      *)
THEOREM RoundInvariant == Spec => []RoundInv
<1>1. QED
  BY InitTypeOK, NextTypeOK, InitRoundInv, NextRoundInv, PTL DEF Spec
-----------------------------------------------------------------------------
LEMMA ExtendedWithinScope ==
  ASSUME RoundInv
  PROVE  AddedNow \subseteq InScope \ Unimportable
BY DEF RoundInv, AddedNow, Discovered

LEMMA NextWithinScope ==
  RoundInv /\ ClosureWithinScope /\ [Next]_vars => ClosureWithinScope'
<1> SUFFICES ASSUME RoundInv, ClosureWithinScope, [Next]_vars
             PROVE  ClosureWithinScope'
  OBVIOUS
<1> USE DEF ClosureWithinScope
<1>1. CASE Regenerate \/ PipelineFails
  <2>1. resources' \subseteq resources \cup AddedNow
    BY <1>1 DEF Regenerate, PipelineFails, Extended
  <2>2. QED
    BY <2>1, ExtendedWithinScope
<1>2. CASE \E l \in Lit : LookUp(l)
  BY <1>2 DEF LookUp, LeaveLiteral, LookupAborts, RetainReference, Discover
<1>3. CASE ScanEnds \/ ScanSeeds \/ NothingAdded \/ DriftFixed \/ UNCHANGED vars
  BY <1>3 DEF ScanEnds, ScanSeeds, NothingAdded, DriftFixed, vars
<1>4. QED
  BY <1>1, <1>2, <1>3 DEF Next

(* Whatever joins the operator's resources is importable and in scope.      *)
THEOREM WithinScope == Spec => []ClosureWithinScope
<1>1. Init => ClosureWithinScope
  BY DEF Init, ClosureWithinScope
<1>2. QED
  BY <1>1, RoundInvariant, NextWithinScope, PTL DEF Spec
-----------------------------------------------------------------------------
(* The number of rounds.                                                    *)
LEMMA GrowingCardinality ==
  ASSUME NEW T, IsFiniteSet(T), NEW S \in SUBSET T
  PROVE  /\ Cardinality(S) \in Nat /\ Cardinality(T) \in Nat
         /\ Cardinality(S) <= Cardinality(T)
         /\ S # T => Cardinality(S) < Cardinality(T)
BY FS_Subset, FS_CardinalityType

Settled == Cardinality(added) + Cardinality(ignored)

LEMMA SettledGrows ==
  ASSUME TypeOK, TypeOK', added \subseteq added', ignored \subseteq ignored'
  PROVE  /\ Settled \in Nat /\ Settled' \in Nat /\ Settled <= Settled'
         /\ added # added' \/ ignored # ignored' => Settled < Settled'
<1>1. IsFiniteSet(added') /\ IsFiniteSet(ignored')
  BY FS_Subset, DepChaseAssumption DEF TypeOK
<1>2. /\ Cardinality(added) \in Nat /\ Cardinality(added') \in Nat
      /\ Cardinality(added) <= Cardinality(added')
      /\ added # added' => Cardinality(added) < Cardinality(added')
  BY <1>1, GrowingCardinality
<1>3. /\ Cardinality(ignored) \in Nat /\ Cardinality(ignored') \in Nat
      /\ Cardinality(ignored) <= Cardinality(ignored')
      /\ ignored # ignored' => Cardinality(ignored) < Cardinality(ignored')
  BY <1>1, GrowingCardinality
<1>4. QED
  BY <1>2, <1>3 DEF Settled

(* A round that regenerates either keeps a new address or gives a literal   *)
(* up for good.                                                             *)
LEMMA RegenerateSettles ==
  ASSUME RoundInv, Regenerate
  PROVE  added # added' \/ ignored # ignored'
<1>1. PICK d \in discoveries : d[2] \notin added
  BY DEF Regenerate, AddedNow, Discovered
<1>2. CASE d[2] \in resources'
  BY <1>1, <1>2 DEF Regenerate
<1>3. CASE d[2] \notin resources'
  <2>1. d[1] \in ignored'
    BY <1>3 DEF Regenerate, GivenUp
  <2>2. d[1] \notin ignored
    BY DEF RoundInv, Regenerate
  <2>3. QED
    BY <2>1, <2>2
<1>4. QED
  BY <1>2, <1>3

LEMMA NothingUnsettles ==
  ASSUME [Next]_vars
  PROVE  added \subseteq added' /\ ignored \subseteq ignored'
<1>1. CASE \E l \in Lit : LookUp(l)
  BY <1>1 DEF LookUp, LeaveLiteral, LookupAborts, RetainReference, Discover,
              WarnAndIgnore
<1>2. CASE ScanEnds \/ ScanSeeds \/ NothingAdded \/ DriftFixed \/ UNCHANGED vars
  BY <1>2 DEF ScanEnds, ScanSeeds, NothingAdded, DriftFixed, vars
<1>3. CASE Regenerate \/ PipelineFails
  BY <1>3 DEF Regenerate, PipelineFails
<1>4. QED
  BY <1>1, <1>2, <1>3 DEF Next

LEMMA NextRoundsSettle ==
  TypeOK /\ TypeOK' /\ RoundInv /\ RoundsSettle /\ [Next]_vars => RoundsSettle'
<1> SUFFICES ASSUME TypeOK, TypeOK', RoundInv, RoundsSettle, [Next]_vars
             PROVE  RoundsSettle'
  OBVIOUS
<1>1. /\ Settled \in Nat /\ Settled' \in Nat /\ Settled <= Settled'
      /\ added # added' \/ ignored # ignored' => Settled < Settled'
  BY NothingUnsettles, SettledGrows
<1>2. iter \in Nat
  BY DEF TypeOK
<1> USE DEF RoundsSettle, Settled
<1>3. CASE Regenerate
  BY <1>1, <1>2, <1>3, RegenerateSettles DEF Regenerate
<1>4. CASE DriftFixed
  BY <1>1, <1>2, <1>4 DEF DriftFixed, Return
<1>5. CASE \E l \in Lit : LookUp(l)
  <2>1. PICK l \in Lit : LookUp(l)
    BY <1>5
  <2>2. pc = "seed" /\ pc' \in {"seed", "done"} /\ iter' = iter
    BY <2>1 DEF LookUp, LeaveLiteral, LookupAborts, RetainReference, Discover,
                TakeSeed, Return
  <2>3. QED
    BY <1>1, <1>2, <2>2
<1>6. CASE ScanSeeds
  BY <1>1, <1>2, <1>6 DEF ScanSeeds
<1>7. CASE ScanEnds \/ NothingAdded \/ PipelineFails
  BY <1>7 DEF ScanEnds, NothingAdded, PipelineFails, Return
<1>8. CASE UNCHANGED vars
  BY <1>8 DEF vars
<1>9. QED
  BY <1>3, <1>4, <1>5, <1>6, <1>7, <1>8 DEF Next

(* The chase ends without its iteration bound: every completed round has    *)
(* settled an address or a literal, and there are finitely many.            *)
THEOREM RoundsAreBounded == Spec => []RoundsSettle
<1>1. Init => RoundsSettle
  BY FS_EmptySet DEF Init, RoundsSettle
<1>2. QED
  BY <1>1, TypeCorrect, RoundInvariant, NextRoundsSettle, PTL DEF Spec
-----------------------------------------------------------------------------
(* Nothing is recorded about an address that was never added.               *)
ProvInv ==
  \A a \in Addr : a \notin added =>
    prov[a] = {} /\ \A f \in Addr : <<f, a>> \notin edges

LEMMA RegenerateProvenance ==
  ASSUME TypeOK, TypeOK', RoundInv, ProvInv, ProvenanceMatchesEdges, Regenerate
  PROVE  ProvInv' /\ ProvenanceMatchesEdges'
<1> DEFINE kept == {d \in discoveries : d[2] \in resources'}
           gone == {d[2] : d \in discoveries \ kept}
           from(a) == UNION {Consumers(d[1]) : d \in {e \in kept : e[2] = a}}
<1>1. \A a \in Addr : prov'[a] = prov[a] \cup from(a)
  BY DEF Regenerate, MergeProvenance
<1>2. \A a, f \in Addr : <<f, a>> \in NewEdges(kept) <=> f \in from(a)
  <2>1. TAKE a, f \in Addr
  <2>2. <<f, a>> \in NewEdges(kept) <=>
          \E d \in kept : f \in Consumers(d[1]) /\ d[2] = a
    BY DEF NewEdges
  <2>3. QED
    BY <2>2
<1>3. \A a, f \in Addr : <<f, a>> \in edges' <=>
          \/ <<f, a>> \in edges /\ a \notin gone
          \/ f \in from(a)
  BY <1>2 DEF Regenerate
<1>4. added' = added \cup {d[2] : d \in kept}
  BY DEF Regenerate
<1>5. \A a \in Addr : a \notin added' => from(a) = {}
  BY <1>4
<1>6. ProvInv'
  BY <1>1, <1>3, <1>4, <1>5 DEF ProvInv
<1>7. ASSUME NEW a \in resources'
      PROVE  prov'[a] = {f \in Addr : <<f, a>> \in edges'}
  <2>1. a \in Addr /\ a \notin gone
    BY <1>7 DEF TypeOK
  <2>2. a \in resources \/ a \notin added
    BY <1>7 DEF Regenerate, Extended, AddedNow
  <2>3. prov[a] = {f \in Addr : <<f, a>> \in edges}
    BY <2>1, <2>2 DEF ProvInv, ProvenanceMatchesEdges
  <2>4. from(a) \subseteq Addr
    BY DEF Consumers, TypeOK
  <2>5. QED
    BY <1>1, <1>3, <2>1, <2>3, <2>4
<1>8. ASSUME NEW a \in resources', a \in added' \ Operator
      PROVE  a \in stamped'
  <2>1. CASE a \in added
    BY <1>8, <2>1 DEF Regenerate, Extended, AddedNow, ProvenanceMatchesEdges
  <2>2. CASE a \notin added
    <3>1. PICK d \in kept : d[2] = a
      BY <1>4, <1>8, <2>2
    <3>2. Consumers(d[1]) # {}
      BY <3>1 DEF RoundInv, Open, Consumers
    <3>3. a \in Addr /\ prov'[a] # {}
      BY <1>1, <1>8, <3>1, <3>2 DEF TypeOK
    <3>4. QED
      BY <1>8, <3>3 DEF Regenerate, Stampable
  <2>3. QED
    BY <2>1, <2>2
<1>9. QED
  BY <1>6, <1>7, <1>8 DEF ProvenanceMatchesEdges

LEMMA NextProvenance ==
  ASSUME TypeOK, TypeOK', RoundInv, ProvInv, ProvenanceMatchesEdges, [Next]_vars
  PROVE  ProvInv' /\ ProvenanceMatchesEdges'
<1>1. CASE Regenerate
  BY <1>1, RegenerateProvenance
<1>2. CASE PipelineFails
  <2>1. /\ UNCHANGED <<added, prov, edges, stamped>>
        /\ \A a \in resources' : a \in Addr /\ (a \in resources \/ a \notin added)
    BY <1>2 DEF PipelineFails, Extended, AddedNow, TypeOK
  <2>2. QED
    BY <2>1 DEF ProvInv, ProvenanceMatchesEdges
<1>3. CASE \E l \in Lit : LookUp(l)
  BY <1>3 DEF LookUp, LeaveLiteral, LookupAborts, RetainReference, Discover,
              ProvInv, ProvenanceMatchesEdges
<1>4. CASE ScanEnds \/ ScanSeeds \/ NothingAdded \/ DriftFixed \/ UNCHANGED vars
  BY <1>4 DEF ScanEnds, ScanSeeds, NothingAdded, DriftFixed, vars, ProvInv,
              ProvenanceMatchesEdges
<1>5. QED
  BY <1>1, <1>2, <1>3, <1>4 DEF Next

(* The recorded consumers of a resource in the set are its edges in the     *)
(* dependency graph, and an adopted resource is stamped with them.          *)
THEOREM ProvenanceIsTheGraph == Spec => []ProvenanceMatchesEdges
<1>1. Init => ProvInv /\ ProvenanceMatchesEdges
  BY DepChaseAssumption DEF Init, ProvInv, ProvenanceMatchesEdges
<1>2. TypeOK /\ TypeOK' /\ RoundInv /\ ProvInv /\ ProvenanceMatchesEdges /\ [Next]_vars
        => ProvInv' /\ ProvenanceMatchesEdges'
  BY NextProvenance
<1>3. QED
  BY <1>1, <1>2, TypeCorrect, RoundInvariant, PTL DEF Spec
-----------------------------------------------------------------------------
(* The literals of the file are accounted for: told, adopted by an earlier  *)
(* round, or still part of this round.                                      *)
RoundAccounts ==
  pc = "seed" =>
    \A l \in Dangling : l \in seeds \/ Told(l) \/ \E d \in discoveries : d[1] = l

AccountInv == RoundAccounts /\ CleanExitAccounts

LEMMA ScanAccounts ==
  ASSUME DrainedIsDisclosed, outcome = "running", ScanSeeds
  PROVE  AccountInv'
<1>1. Dangling' = Dangling
  BY DEF ScanSeeds, Dangling, Resolved, Holds
<1>2. ASSUME NEW l \in Dangling
      PROVE  l \in seeds' \/ Told(l)'
  <2>1. CASE l \notin Unresolved
    BY <1>2, <2>1 DEF Unresolved, DrainedIsDisclosed, Told, ScanSeeds
  <2>2. CASE l \in Unresolved /\ Unparsed(l)
    BY <2>2, UnparsedIsDisclosed DEF Told, ScanSeeds
  <2>3. CASE l \in Unresolved /\ ~Unparsed(l)
    BY <2>3 DEF ScanSeeds
  <2>4. QED
    BY <2>1, <2>2, <2>3
<1>3. QED
  BY <1>1, <1>2 DEF AccountInv, RoundAccounts, CleanExitAccounts, ScanSeeds, Told

LEMMA LookUpAccounts ==
  ASSUME AccountInv, NEW k \in Lit, LookUp(k)
  PROVE  AccountInv'
<1>1. /\ Dangling' = Dangling /\ pc = "seed" /\ seeds' = seeds \ {k}
      /\ added' = added /\ world' = world
      /\ warned \subseteq warned' /\ discoveries \subseteq discoveries'
  BY DEF LookUp, LeaveLiteral, LookupAborts, RetainReference, Discover, TakeSeed,
         WarnAndIgnore, Dangling, Resolved, Holds
<1>2. CASE LookupAborts(k)
  BY <1>2 DEF LookupAborts, Return, AccountInv, RoundAccounts, CleanExitAccounts
<1>3. CASE LeaveLiteral(k) \/ RetainReference(k)
  <2>1. PICK code : WarnAndIgnore(k, code)
    BY <1>3 DEF LeaveLiteral, RetainReference
  <2>2. <<code, k>> \in warned'
    BY <2>1 DEF WarnAndIgnore
  <2>3. Told(k)'
    BY <2>2 DEF Told
  <2>4. outcome' = outcome
    BY <1>3 DEF LeaveLiteral, RetainReference
  <2>5. QED
    BY <1>1, <2>3, <2>4 DEF AccountInv, RoundAccounts, CleanExitAccounts, Told
<1>4. CASE Discover(k)
  <2>1. PICK a : <<k, a>> \in discoveries'
    BY <1>4 DEF Discover
  <2>2. outcome' = outcome
    BY <1>4 DEF Discover
  <2>3. QED
    BY <1>1, <2>1, <2>2 DEF AccountInv, RoundAccounts, CleanExitAccounts, Told
<1>5. QED
  BY <1>2, <1>3, <1>4 DEF LookUp

LEMMA NextAccounts ==
  ASSUME RoundInv, DrainedIsDisclosed, AccountInv, pc # "done" => outcome = "running",
         [Next]_vars
  PROVE  AccountInv' /\ (pc # "done" => outcome = "running")'
<1> USE DEF AccountInv, RoundAccounts, CleanExitAccounts
<1>1. CASE ScanEnds
  <2>1. Dangling' = Dangling
    BY <1>1 DEF ScanEnds, Dangling, Resolved, Holds
  <2>2. ASSUME NEW l \in Dangling PROVE Told(l)'
    <3>1. CASE l \in Unresolved
      <4>1. <<"unresolvedStable", l>> \in warned'
        BY <1>1, <3>1 DEF ScanEnds
      <4>2. QED
        BY <4>1 DEF Told
    <3>2. CASE l \notin Unresolved
      BY <1>1, <2>2, <3>2 DEF ScanEnds, Unresolved, DrainedIsDisclosed, Told
    <3>3. QED
      BY <3>1, <3>2
  <2>3. QED
    BY <1>1, <2>1, <2>2 DEF ScanEnds, Return, Told
<1>2. CASE ScanSeeds
  BY <1>2, ScanAccounts DEF ScanSeeds
<1>3. CASE \E l \in Lit : LookUp(l)
  <2>1. (pc # "done" => outcome = "running")'
    BY <1>3 DEF LookUp, LeaveLiteral, LookupAborts, RetainReference, Discover, Return
  <2>2. QED
    BY <1>3, <2>1, LookUpAccounts
<1>4. CASE NothingAdded
  <2>1. Dangling' = Dangling
    BY <1>4 DEF NothingAdded, Dangling, Resolved, Holds
  <2>2. \A d \in discoveries : world.target[d[1]] \in added
    BY <1>4 DEF NothingAdded, RoundInv, AddedNow, Discovered
  <2>3. \A l \in Dangling : Told(l) \/ world.target[l] \in added
    BY <1>4, <2>2 DEF NothingAdded
  <2>4. QED
    BY <1>4, <2>1, <2>3 DEF NothingAdded, Return, Told
<1>5. CASE Regenerate
  BY <1>5 DEF Regenerate
<1>6. CASE PipelineFails
  BY <1>6 DEF PipelineFails, Return
<1>7. CASE DriftFixed
  BY <1>7 DEF DriftFixed, Return
<1>8. CASE UNCHANGED vars
  BY <1>8 DEF vars, Dangling, Resolved, Holds, Told
<1>9. QED
  BY <1>1, <1>2, <1>3, <1>4, <1>5, <1>6, <1>7, <1>8 DEF Next

(* A clean chase accounts for every literal that the file still holds.      *)
THEOREM CleanExitIsAccountable == Spec => []CleanExitAccounts
<1> DEFINE Running == pc # "done" => outcome = "running"
<1>1. Init => AccountInv /\ Running
  BY DEF Init, AccountInv, RoundAccounts, CleanExitAccounts
<1>2. RoundInv /\ DrainedIsDisclosed /\ AccountInv /\ Running /\ [Next]_vars
        => AccountInv' /\ Running'
  BY NextAccounts
<1>3. AccountInv => CleanExitAccounts
  BY DEF AccountInv
<1>4. QED
  BY <1>1, <1>2, <1>3, RoundInvariant, Disclosed, PTL DEF Spec
-----------------------------------------------------------------------------
(* What a chase does to the resources it was given, and to their lookups.   *)
OnceInv ==
  \A l \in Lit : Terminal(l, Addr) =>
    /\ lookups[l] \in 0..1
    /\ l \in seeds => lookups[l] = 0 /\ l \in chased
    /\ lookups[l] = 1 => l \in chased

LEMMA NextOnce == TypeOK /\ RoundInv /\ OnceInv /\ [Next]_vars => OnceInv'
<1> SUFFICES ASSUME TypeOK, RoundInv, OnceInv, [Next]_vars,
                    NEW l \in Lit, Terminal(l, Addr)'
             PROVE  (/\ lookups[l] \in 0..1
                     /\ l \in seeds => lookups[l] = 0 /\ l \in chased
                     /\ lookups[l] = 1 => l \in chased)'
  BY DEF OnceInv
<1>1. world' = world
  BY DEF Next, vars, ScanEnds, ScanSeeds, LookUp, LeaveLiteral, LookupAborts, RetainReference,
         Discover, NothingAdded, Regenerate, PipelineFails, DriftFixed
<1>2. Terminal(l, Addr)
  BY <1>1 DEF Terminal
<1>3. /\ lookups[l] \in 0..1
      /\ l \in seeds => lookups[l] = 0 /\ l \in chased
      /\ lookups[l] = 1 => l \in chased
  BY <1>2 DEF OnceInv
<1>4. CASE ScanSeeds
  <2>1. l \in Unresolved => l \in ChaseOnce(Unresolved) /\ l \notin chased
    BY <1>2 DEF ChaseOnce, Terminal, Unresolved, TypeOK
  <2>2. QED
    BY <1>3, <1>4, <2>1 DEF ScanSeeds
<1>5. CASE \E k \in Lit : LookUp(k)
  <2>1. PICK k \in Lit : LookUp(k)
    BY <1>5
  <2>2. TakeSeed(k) /\ chased \subseteq chased'
    BY <2>1 DEF LookUp, LeaveLiteral, LookupAborts, RetainReference, Discover
  <2>3. CASE k = l
    <3>1. l \in seeds /\ seeds' = seeds \ {l} /\ lookups'[l] = lookups[l] + 1
      BY <2>2, <2>3 DEF TakeSeed, TypeOK
    <3>2. QED
      BY <1>3, <2>2, <3>1
  <2>4. CASE k # l
    <3>1. lookups'[l] = lookups[l] /\ (l \in seeds' => l \in seeds)
      BY <2>2, <2>4 DEF TakeSeed, TypeOK
    <3>2. QED
      BY <1>3, <2>2, <3>1
  <2>5. QED
    BY <2>3, <2>4
<1>6. CASE ScanEnds \/ NothingAdded \/ Regenerate \/ PipelineFails \/ DriftFixed \/ UNCHANGED vars
  BY <1>3, <1>6 DEF ScanEnds, NothingAdded, Regenerate, PipelineFails, DriftFixed, vars
<1>7. QED
  BY <1>4, <1>5, <1>6 DEF Next

(* A literal that can only be chased once is looked up once per run.        *)
THEOREM OneLookup == Spec => []TerminalLookedUpOnce
<1>1. Init => OnceInv
  BY DEF Init, OnceInv
<1>2. OnceInv => TerminalLookedUpOnce
  BY DEF OnceInv, TerminalLookedUpOnce
<1>3. QED
  BY <1>1, <1>2, NextOnce, TypeCorrect, RoundInvariant, PTL DEF Spec

(* The chase never labels a resource of the operator as pulled in.          *)
THEOREM OperatorStaysUnlabelled == Spec => []OperatorNeverStamped
<1>1. Init => OperatorNeverStamped
  BY DEF Init, OperatorNeverStamped
<1>2. OperatorNeverStamped /\ [Next]_vars => OperatorNeverStamped'
  <2> USE DEF OperatorNeverStamped
  <2>1. ASSUME OperatorNeverStamped, Regenerate PROVE OperatorNeverStamped'
    BY <2>1 DEF Regenerate, Stampable
  <2>2. ASSUME [Next]_vars, ~Regenerate PROVE stamped' = stamped
    BY <2>2 DEF Next, vars, ScanEnds, ScanSeeds, LookUp, LeaveLiteral, LookupAborts,
                RetainReference, Discover, NothingAdded, PipelineFails, DriftFixed
  <2>3. QED
    BY <2>1, <2>2
<1>3. QED
  BY <1>1, <1>2, PTL DEF Spec

(* Only what genconfig may omit can be missing: the set never loses an      *)
(* operator's resource, or an adopted one, otherwise. *)
NothingElseLost == (Operator \cup added) \ Omissible \subseteq resources

(* A clean chase returns its input and everything it added in any round,    *)
(* but for the resources that genconfig is able to lose.                    *)
THEOREM EverythingAddedIsHeld == Spec => []ResultHoldsEverythingAdded
<1>1. Init => NothingElseLost
  BY DEF Init, NothingElseLost
<1>2. NothingElseLost /\ [Next]_vars => NothingElseLost'
  <2> USE DEF NothingElseLost
  <2>1. ASSUME NothingElseLost, Regenerate PROVE NothingElseLost'
    BY <2>1 DEF Regenerate, Extended
  <2>2. ASSUME [Next]_vars, ~Regenerate PROVE added' = added /\ resources \subseteq resources'
    BY <2>2 DEF Next, vars, ScanEnds, ScanSeeds, LookUp, LeaveLiteral, LookupAborts,
                RetainReference, Discover, NothingAdded, PipelineFails, DriftFixed, Extended
  <2>3. QED
    BY <2>1, <2>2
<1>3. NothingElseLost => ResultHoldsEverythingAdded
  BY DEF NothingElseLost, ResultHoldsEverythingAdded
<1>4. QED
  BY <1>1, <1>2, <1>3, PTL DEF Spec
-----------------------------------------------------------------------------
(* The refinement of the closure contract.                                  *)
LEMMA RoundAdopts ==
  ASSUME TypeOK, TypeOK', RoundInv, pc = "seed", AddedNow # {}, world' = world,
         resources' \subseteq Extended
  PROVE  \E S \in SUBSET Addr : Contract!Adopt(S)
<1>1. AddedNow \in SUBSET Addr
  BY DEF AddedNow, Discovered, TypeOK
<1>2. ASSUME NEW a \in AddedNow
      PROVE  a \in InScope \ Unimportable /\ \E m \in resources : <<m, a>> \in Refers
  <2>1. PICK d \in discoveries : d[2] = a
    BY <1>2 DEF AddedNow, Discovered
  <2>2. PICK m \in scanned : d[1] \in Holds(m)
    BY <2>1 DEF RoundInv, Open
  <2>3. m \in resources /\ <<m, a>> \in Refers
    BY <1>1, <1>2, <2>1, <2>2 DEF RoundInv, Refers, TypeOK
  <2>4. QED
    BY <2>1, <2>3 DEF RoundInv
<1>3. Refers' = Refers
  BY DEF Refers, Holds
<1>4. Contract!Adopt(AddedNow)
  BY <1>2, <1>3 DEF Contract!Adopt, Contract!ReferredTo, Extended
<1>5. QED
  BY <1>1, <1>4

LEMMA ContractStep ==
  ASSUME TypeOK, TypeOK', RoundInv, [Next]_vars
  PROVE  [Contract!Next]_(Contract!vars)
<1>1. CASE Regenerate
  BY <1>1, RoundAdopts DEF Regenerate, Contract!Next
<1>2. Refers' = Refers
  BY DEF Refers, Holds, Next, vars, ScanEnds, ScanSeeds, LookUp, LeaveLiteral,
         LookupAborts, RetainReference, Discover, NothingAdded, Regenerate,
         PipelineFails, DriftFixed
<1>3. CASE PipelineFails
  <2>1. CASE pc = "seed"
    BY <1>3, <2>1, RoundAdopts DEF PipelineFails, Contract!Next
  <2>2. CASE pc # "seed"
    BY <1>2, <1>3, <2>2 DEF PipelineFails, Return, Contract!Next, Contract!Close
  <2>3. QED
    BY <2>1, <2>2
<1>4. CASE ScanEnds \/ NothingAdded \/ DriftFixed
  BY <1>2, <1>4 DEF ScanEnds, NothingAdded, DriftFixed, Return, Contract!Next,
                    Contract!Close, Contract!vars
<1>5. CASE ScanSeeds \/ UNCHANGED vars
  BY <1>2, <1>5 DEF ScanSeeds, vars, Contract!vars
<1>6. CASE \E l \in Lit : LookUp(l)
  BY <1>2, <1>6 DEF LookUp, LeaveLiteral, LookupAborts, RetainReference, Discover,
                    TakeSeed, Return, Contract!Next, Contract!Close, Contract!vars
<1>7. QED
  BY <1>1, <1>3, <1>4, <1>5, <1>6 DEF Next

(* The chase implements the closure contract.                               *)
THEOREM Refinement == Spec => ImplementsContract
<1>1. Init => Contract!Init
  BY DEF Init, Refers, Contract!Init
<1>2. TypeOK /\ TypeOK' /\ RoundInv /\ [Next]_vars => [Contract!Next]_(Contract!vars)
  BY ContractStep
<1>3. QED
  BY <1>1, <1>2, TypeCorrect, RoundInvariant, PTL DEF Spec, ImplementsContract, Contract!Spec

(* A resource carries provenance, the one graph.json shows, exactly when    *)
(* the chase and not the operator brought it in.                            *)
THEOREM ProvenanceTellsTheTruth == Spec => []ProvenanceIsTrue
<1>1. ProvenanceMatchesEdges /\ OperatorNeverStamped => ProvenanceIsTrue
  BY DEF ProvenanceIsTrue
<1> QED BY <1>1, ProvenanceIsTheGraph, OperatorStaysUnlabelled, PTL
-----------------------------------------------------------------------------
(* What a chase has left: the rounds that the world leaves room for, each   *)
(* of as many steps as there are literals and four, and the rest of the     *)
(* round it is in.                                                          *)
MaxRounds == Cardinality(Addr) + Cardinality(Lit) + 1
Span == Cardinality(Lit) + 4

RestOfRound ==
  CASE pc = "scan" -> Cardinality(Lit) + 3
    [] pc = "seed" -> Cardinality(seeds) + 2
    [] pc = "driftfix" -> 1
    [] pc = "done" -> 0

StepsLeft == IF pc = "done" THEN 0 ELSE (MaxRounds - iter) * Span + RestOfRound

LEMMA RoomForRounds ==
  ASSUME TypeOK, RoundsSettle
  PROVE  /\ Cardinality(Lit) \in Nat /\ Cardinality(Addr) \in Nat
         /\ pc # "done" => iter <= MaxRounds
         /\ pc = "driftfix" => iter + 1 <= MaxRounds
<1>1. /\ Cardinality(Lit) \in Nat /\ Cardinality(ignored) \in Nat
      /\ Cardinality(ignored) <= Cardinality(Lit)
  BY GrowingCardinality, DepChaseAssumption DEF TypeOK
<1>2. /\ Cardinality(Addr) \in Nat /\ Cardinality(added) \in Nat
      /\ Cardinality(added) <= Cardinality(Addr)
  BY GrowingCardinality, DepChaseAssumption DEF TypeOK
<1>3. iter \in Nat
  BY DEF TypeOK
<1>4. QED
  BY <1>1, <1>2, <1>3 DEF RoundsSettle, MaxRounds

(* A chase starts no more rounds than the world has addresses and literals, *)
(* and one: MaxIterations is a safety net.                                  *)
THEOREM RoundsFitTheWorld == Spec => [](pc # "done" => iter <= MaxRounds)
<1>1. TypeOK /\ RoundsSettle => (pc # "done" => iter <= MaxRounds)
  BY RoomForRounds
<1>2. QED
  BY <1>1, TypeCorrect, RoundsAreBounded, PTL

LEMMA RestBounded ==
  ASSUME TypeOK
  PROVE  /\ RestOfRound \in Nat /\ RestOfRound <= Cardinality(Lit) + 3
         /\ pc # "done" => RestOfRound > 0
<1>1. /\ Cardinality(Lit) \in Nat /\ Cardinality(seeds) \in Nat
      /\ Cardinality(seeds) <= Cardinality(Lit)
  BY GrowingCardinality, DepChaseAssumption DEF TypeOK
<1>2. QED
  BY <1>1 DEF TypeOK, RestOfRound

LEMMA NextRoundIsLess ==
  ASSUME NEW r \in Nat, NEW s \in Nat, NEW n \in Nat, s <= r, NEW a \in Nat, NEW b \in Nat,
         \/ b < a
         \/ s < r /\ b < n
  PROVE  s * n + b < r * n + a
<1>1. CASE s < r /\ b < n
  <2>1. PICK d \in Nat : r = s + 1 + d
    <3>1. r - s - 1 \in Nat /\ r = s + 1 + (r - s - 1)
      BY <1>1
    <3>2. QED
      BY <3>1
  <2>2. r * n = s * n + n + d * n /\ d * n \in Nat /\ s * n \in Nat
    BY <2>1
  <2>3. QED
    BY <1>1, <2>2
<1>2. CASE b < a
  <2>1. PICK d \in Nat : r = s + d
    <3>1. r - s \in Nat /\ r = s + (r - s)
      OBVIOUS
    <3>2. QED
      BY <3>1
  <2>2. r * n = s * n + d * n /\ d * n \in Nat /\ s * n \in Nat
    BY <2>1
  <2>3. QED
    BY <1>2, <2>2
<1>3. QED
  BY <1>1, <1>2

LEMMA LaterRoundIsLess ==
  ASSUME NEW m \in Nat, NEW n \in Nat, NEW i \in Nat, NEW j \in Nat, i <= j, j <= m,
         NEW a \in Nat, NEW b \in Nat, b < a \/ (i < j /\ b < n)
  PROVE  (m - j) * n + b < (m - i) * n + a
<1>1. m - j \in Nat /\ m - i \in Nat /\ m - j <= m - i /\ (i < j => m - j < m - i)
  OBVIOUS
<1>2. QED
  BY <1>1, NextRoundIsLess

LEMMA ProductBounded ==
  ASSUME NEW r \in Nat, NEW m \in Nat, NEW n \in Nat, r + 1 <= m, NEW b \in Nat, b < n
  PROVE  r * n + b \in 0 .. (m * n)
<1>1. r * n + b < m * n + 0
  BY NextRoundIsLess
<1>2. r * n \in Nat /\ m * n \in Nat
  OBVIOUS
<1>3. QED
  BY <1>1, <1>2

LEMMA ChaseLeftBounded ==
  ASSUME TypeOK, RoundsSettle PROVE StepsLeft \in 0 .. (MaxRounds * Span)
<1>1. Cardinality(Lit) \in Nat /\ MaxRounds \in Nat /\ Span \in Nat
  BY RoomForRounds DEF MaxRounds, Span
<1>2. CASE pc # "done"
  <2>1. MaxRounds - iter \in Nat /\ (MaxRounds - iter) + 1 <= MaxRounds
    BY <1>1, <1>2, RoomForRounds DEF TypeOK
  <2>2. RestOfRound \in Nat /\ RestOfRound < Span
    BY <1>1, RestBounded DEF Span
  <2>3. QED
    BY <1>1, <1>2, <2>1, <2>2, ProductBounded DEF StepsLeft
<1>3. CASE pc = "done"
  <2>1. MaxRounds * Span \in Nat
    BY <1>1
  <2>2. QED
    BY <1>3, <2>1 DEF StepsLeft
<1>4. QED
  BY <1>2, <1>3

LEMMA ChaseStepDescends ==
  ASSUME TypeOK, TypeOK', RoundsSettle, RoundsSettle', Next PROVE StepsLeft' < StepsLeft
<1>t. /\ Cardinality(Lit) \in Nat /\ MaxRounds \in Nat /\ Span \in Nat
      /\ RestOfRound \in Nat /\ RestOfRound' \in Nat /\ RestOfRound' < Span
      /\ pc # "done"
  <2>1. Cardinality(Lit) \in Nat /\ MaxRounds \in Nat /\ Span \in Nat
    BY RoomForRounds DEF MaxRounds, Span
  <2>2. RestOfRound \in Nat /\ RestOfRound' \in Nat /\ RestOfRound' < Span
    <3>1. RestOfRound \in Nat
      BY RestBounded
    <3>2. /\ Cardinality(seeds') \in Nat /\ Cardinality(seeds') <= Cardinality(Lit)
          /\ pc' \in {"scan", "seed", "driftfix", "done"}
      BY GrowingCardinality, DepChaseAssumption DEF TypeOK
    <3>3. RestOfRound' \in Nat /\ RestOfRound' <= Cardinality(Lit) + 3
      BY <2>1, <3>2 DEF RestOfRound
    <3>4. QED
      BY <2>1, <3>1, <3>3 DEF Span
  <2>3. pc # "done"
    BY DEF Next, ScanEnds, ScanSeeds, LookUp, LeaveLiteral, LookupAborts, RetainReference,
           Discover, TakeSeed, NothingAdded, Regenerate, PipelineFails, DriftFixed
  <2>4. QED
    BY <2>1, <2>2, <2>3
<1>r. iter \in Nat /\ iter' \in Nat /\ iter <= MaxRounds /\ (pc' # "done" => iter' <= MaxRounds)
  <2>1. iter <= MaxRounds
    BY <1>t, RoomForRounds
  <2>2. iter' <= MaxRounds \/ pc' = "done"
    <3>1. iter' = iter \/ (pc = "driftfix" /\ iter' = iter + 1)
      BY DEF Next, ScanEnds, ScanSeeds, LookUp, LeaveLiteral, LookupAborts, RetainReference,
             Discover, TakeSeed, NothingAdded, Regenerate, PipelineFails, DriftFixed
    <3>2. QED
      BY <2>1, <3>1, RoomForRounds
  <2>3. QED
    BY <2>1, <2>2 DEF TypeOK
<1>1. CASE pc' = "done"
  <2>1. MaxRounds - iter \in Nat
    BY <1>t, <1>r
  <2>2. (MaxRounds - iter) * Span \in Nat /\ RestOfRound > 0
    BY <1>t, <2>1, RestBounded
  <2>3. QED
    BY <1>1, <1>t, <2>2 DEF StepsLeft
<1>2. CASE pc' # "done" /\ iter' >= iter /\ RestOfRound' < RestOfRound
  <2>1. (MaxRounds - iter') * Span + RestOfRound' < (MaxRounds - iter) * Span + RestOfRound
    BY <1>2, <1>t, <1>r, LaterRoundIsLess
  <2>2. QED
    BY <1>2, <1>t, <2>1 DEF StepsLeft, MaxRounds, Span
<1>3. CASE pc' # "done" /\ iter' >= iter /\ iter' > iter
  <2>1. (MaxRounds - iter') * Span + RestOfRound' < (MaxRounds - iter) * Span + RestOfRound
    BY <1>3, <1>t, <1>r, LaterRoundIsLess
  <2>2. QED
    BY <1>3, <1>t, <2>1 DEF StepsLeft, MaxRounds, Span
<1>4. CASE \E l \in Lit : LookUp(l)
  <2>1. PICK l \in Lit : LookUp(l)
    BY <1>4
  <2>2. /\ pc = "seed" /\ l \in seeds /\ seeds' = seeds \ {l} /\ iter' >= iter
        /\ pc' \in {"seed", "done"}
    BY <2>1, <1>r DEF LookUp, LeaveLiteral, LookupAborts, RetainReference, Discover, TakeSeed,
                Return
  <2>3. IsFiniteSet(seeds)
    BY FS_Subset, DepChaseAssumption DEF TypeOK
  <2>4. /\ Cardinality(seeds) \in Nat /\ Cardinality(seeds') \in Nat
        /\ Cardinality(seeds') < Cardinality(seeds)
    BY <2>2, <2>3, GrowingCardinality
  <2>5. pc' = "seed" => RestOfRound' < RestOfRound
    BY <2>2, <2>4 DEF RestOfRound
  <2>6. QED
    BY <1>1, <1>2, <2>2, <2>5
<1>5. CASE ScanSeeds
  <2>1. pc = "scan" /\ pc' = "seed" /\ iter' >= iter
    BY <1>5, <1>r DEF ScanSeeds
  <2>2. Cardinality(seeds') \in Nat /\ Cardinality(seeds') <= Cardinality(Lit)
    BY GrowingCardinality, DepChaseAssumption DEF TypeOK
  <2>3. RestOfRound' < RestOfRound
    BY <1>t, <2>1, <2>2 DEF RestOfRound
  <2>4. QED
    BY <1>2, <2>1, <2>3
<1>6. CASE Regenerate
  <2>1. pc = "seed" /\ pc' = "driftfix" /\ iter' >= iter
    BY <1>6, <1>r DEF Regenerate
  <2>2. Cardinality(seeds) \in Nat
    BY GrowingCardinality, DepChaseAssumption DEF TypeOK
  <2>3. RestOfRound' < RestOfRound
    BY <2>1, <2>2 DEF RestOfRound
  <2>4. QED
    BY <1>2, <2>1, <2>3
<1>7. CASE DriftFixed
  <2>1. pc' = "done" \/ (iter' >= iter /\ iter' > iter)
    BY <1>7 DEF DriftFixed, Return, TypeOK
  <2>2. QED
    BY <1>1, <1>3, <2>1
<1>8. CASE ScanEnds \/ NothingAdded \/ PipelineFails
  BY <1>1, <1>8 DEF ScanEnds, NothingAdded, PipelineFails, Return
<1>9. QED
  BY <1>4, <1>5, <1>6, <1>7, <1>8 DEF Next

(* A chase is finite, with a bound that is not MaxIterations but the size   *)
(* of the world: every step brings it closer to its end.  So it ends once   *)
(* every lookup and every pipeline step returns.                            *)
THEOREM ChasesAreFinite ==
  Spec => [](StepsLeft \in 0 .. (MaxRounds * Span)) /\ [][StepsLeft' < StepsLeft]_vars
<1>1. TypeOK /\ RoundsSettle => StepsLeft \in 0 .. (MaxRounds * Span)
  BY ChaseLeftBounded
<1>2. TypeOK /\ TypeOK' /\ RoundsSettle /\ RoundsSettle' /\ [Next]_vars
        => [StepsLeft' < StepsLeft]_vars
  BY ChaseStepDescends
<1>3. QED
  BY <1>1, <1>2, TypeCorrect, RoundsAreBounded, PTL DEF Spec
=============================================================================
