------------------------------ MODULE DepChase ------------------------------
(***************************************************************************)
(* The dependency chase of cmd/insideout-import/depchase: read the         *)
(* generated configuration, look up every reference literal that no        *)
(* imported resource resolves, adopt what is found, regenerate and         *)
(* drift-fix the configuration, and repeat until nothing is unresolved.    *)
(*                                                                         *)
(* A resource is its Terraform address.  What the cloud and the generated  *)
(* configuration look like is the variable `world', which never changes:   *)
(* the literals a resource's body holds in attributes that crossref can    *)
(* rewrite (top) and elsewhere (deep), the literals that the identifiers   *)
(* of an operator's resource (own) and of a discovered one (sig) match,    *)
(* and what parsing and looking up a literal yields (target).              *)
(* generated.tf renders exactly the resources the last genconfig run       *)
(* returned, so the file is a function of `resources'.  The order in which *)
(* seeds are looked up (sorted by literal in the code) is left open.       *)
(***************************************************************************)
EXTENDS Naturals, FiniteSets

CONSTANTS
  Lit,            \* reference literals
  NonARN,         \* those that are curated bare identifiers, not ARNs
  Addr,           \* Terraform addresses
  Operator,       \* addresses of the resources the chase starts with
  Unimportable,   \* resources imported.UnimportableReason rejects
  InScope,        \* resources the AdoptionPolicy adopts
  Worlds,         \* the worlds to consider
  MaxIterations,  \* Options.MaxIterations after its default
  Omissible,      \* resources genconfig may omit from its result
  Flaky           \* TRUE: lookups and pipeline steps may fail

Failure == {"unsupported", "unparseable", "notFound", "notSupported", "hardError"}
ParseFailure == {"unsupported", "unparseable"}

World == [top: [Addr -> SUBSET Lit], deep: [Addr -> SUBSET Lit],
          own: [Operator -> SUBSET Lit], sig: [Addr -> SUBSET Lit],
          target: [Lit -> Addr \cup Failure]]

ASSUME DepChaseAssumption ==
  /\ IsFiniteSet(Lit) /\ NonARN \subseteq Lit
  /\ IsFiniteSet(Addr) /\ Operator \subseteq Addr
  /\ Unimportable \subseteq Addr
  /\ InScope \subseteq Addr
  /\ Failure \cap Addr = {}
  /\ Worlds \subseteq World
  /\ MaxIterations \in Nat \ {0}
  /\ Omissible \subseteq Addr
  /\ Flaky \in BOOLEAN

VARIABLES
  world,
  pc,           \* "scan", "seed", "driftfix" or "done"
  iter,         \* the loop counter
  resources,    \* res.Resources, and so what generated.tf renders
  added,        \* res.Added, which is also seenAddedAddr
  ignored,      \* ignoredARNs
  chased,       \* chased
  prev,         \* prevUnresolved
  scanned,      \* the resources the current scan read
  seeds,        \* newSeeds not yet looked up
  discoveries,  \* this iteration's <<literal, address>> discoveries
  edges,        \* res.Edges, as <<from, to>>
  prov,         \* provByAddr: the consumers recorded for each address
  stamped,      \* resources that carry a dependency_chase PulledInBy
  warned,       \* res.Warnings, as <<code, literal>>
  outcome,      \* how Run returned
  lookups       \* history: the DiscoverByID calls per literal

vars == <<world, pc, iter, resources, added, ignored, chased, prev, scanned,
          seeds, discoveries, edges, prov, stamped, warned, outcome, lookups>>

Holds(a) == world.top[a] \cup world.deep[a]

(* buildResolvedSet: an added resource brings its own identifiers, also     *)
(* when it was generated the address of an operator's resource.             *)
Resolved == (UNION {world.own[a] : a \in resources \cap Operator})
              \cup (UNION {world.sig[a] : a \in resources \cap added})

(* The literals of generated.tf that no resource in the set matches. *)
Dangling == (UNION {Holds(a) : a \in resources}) \ Resolved

(* Literals that crossref never rewrites, given the resources R that were   *)
(* scanned: chased once, and forgiven a hard lookup error.                  *)
Terminal(l, R) == l \in NonARN \/ \A a \in R : l \notin world.top[a]

(* scanGenerated with the skip set of unionSkip. *)
Unresolved == Dangling \ (ignored \cup chased)

Consumers(l) == {a \in scanned : l \in Holds(a)}

Return(o) ==
  /\ outcome' = o
  /\ pc' = "done"
-----------------------------------------------------------------------------
Init ==
  /\ world \in Worlds
  /\ pc = "scan"
  /\ iter = 1
  /\ resources = Operator
  /\ added = {} /\ ignored = {} /\ chased = {} /\ prev = {}
  /\ scanned = {} /\ seeds = {} /\ discoveries = {}
  /\ edges = {}
  /\ prov = [a \in Addr |-> {}]
  /\ stamped = {}
  /\ warned = {}
  /\ outcome = "running"
  /\ lookups = [l \in Lit |-> 0]

(* Nothing unresolved, or the same literals as an iteration ago. *)
ScanEnds ==
  /\ pc = "scan"
  /\ \/ Unresolved = {} /\ Return("clean") /\ UNCHANGED warned
     \/ /\ Unresolved # {}
        /\ iter > 1 /\ Unresolved = prev
        /\ warned' = warned \cup ({"unresolvedStable"} \X Unresolved)
        /\ Return(IF added = {} THEN "clean" ELSE "cyclic")
  /\ UNCHANGED <<world, iter, resources, added, ignored, chased, prev, scanned,
                 seeds, discoveries, edges, prov, stamped, lookups>>

(* A bare identifier comes with its type and never reaches ParseRef. *)
Unparsed(l) == l \notin NonARN /\ world.target[l] \in ParseFailure

Nested(l) == l \notin NonARN /\ \E a \in resources : l \in world.deep[a]

(* Fault: an unsupported reference is skipped without a warning. *)
SilentSeedWarnings(U) ==
  {<<"nested", l>> : l \in {k \in U : Nested(k)}}
    \cup {<<"nonARN", l>> : l \in U \cap NonARN}
(* The warnings raised while seeds are built. *)
SeedWarnings(U) ==
  {<<"nested", l>> : l \in {k \in U : Nested(k)}}
    \cup {<<"nonARN", l>> : l \in U \cap NonARN}
    \cup {<<world.target[l], l>> : l \in {k \in U : Unparsed(k)}}

(* Fault: a nested literal stays in the unresolved accounting. *)
ChaseNonARNOnly(U) == U \cap NonARN
(* The literals that are chased once, whatever comes of it. *)
ChaseOnce(U) == {l \in U : Terminal(l, resources)}

(* Classify the unresolved literals and seed the lookups. *)
ScanSeeds ==
  /\ pc = "scan"
  /\ Unresolved # {}
  /\ ~(iter > 1 /\ Unresolved = prev)
  /\ prev' = Unresolved
  /\ warned' = warned \cup SeedWarnings(Unresolved)
  /\ chased' = chased \cup ChaseOnce(Unresolved)
  /\ ignored' = ignored \cup {l \in Unresolved : Unparsed(l)}
  /\ seeds' = {l \in Unresolved : ~Unparsed(l)}
  /\ scanned' = resources
  /\ discoveries' = {}
  /\ pc' = "seed"
  /\ UNCHANGED <<world, iter, resources, added, edges, prov, stamped, outcome,
                 lookups>>

(* What DiscoverByID may answer. *)
Answers(l) == {world.target[l]} \cup (IF Flaky THEN {"hardError"} ELSE {})

TakeSeed(l) ==
  /\ pc = "seed"
  /\ l \in seeds
  /\ seeds' = seeds \ {l}
  /\ lookups' = [lookups EXCEPT ![l] = @ + 1]

(* Fault: a literal that leads nowhere is dropped without a word. *)
IgnoreSilently(l, code) == ignored' = ignored \cup {l} /\ UNCHANGED warned
WarnAndIgnore(l, code) ==
  /\ warned' = warned \cup {<<code, l>>}
  /\ ignored' = ignored \cup {l}

(* Not found, rejected, a hard error on a terminal literal, un-importable. *)
LeaveLiteral(l) ==
  /\ TakeSeed(l)
  /\ \E r \in Answers(l) :
       \/ r \in {"notFound", "notSupported"} /\ WarnAndIgnore(l, r)
       \/ r = "hardError" /\ Terminal(l, scanned) /\ WarnAndIgnore(l, "discoverError")
       \/ r \in Unimportable /\ WarnAndIgnore(l, "unimportable")
  /\ UNCHANGED <<world, pc, iter, resources, added, chased, prev, scanned,
                 discoveries, edges, prov, stamped, outcome>>

(* A hard error on a top-level literal aborts the chase. *)
LookupAborts(l) ==
  /\ TakeSeed(l)
  /\ "hardError" \in Answers(l)
  /\ ~Terminal(l, scanned)
  /\ Return("discoverError")
  /\ UNCHANGED <<world, iter, resources, added, ignored, chased, prev, scanned,
                 discoveries, edges, prov, stamped, warned>>

(* Fault: the policy is not consulted. *)
AdoptAll(a) == a \in Addr \ Unimportable
(* decideAdoption, after the gate of imported.UnimportableReason. *)
Adopts(a) == a \in InScope \ Unimportable

(* The adoption policy keeps the reference as a literal. *)
RetainReference(l) ==
  /\ TakeSeed(l)
  /\ \E a \in Answers(l) \cap Addr :
       /\ a \notin Unimportable
       /\ ~Adopts(a)
  /\ WarnAndIgnore(l, "referenceRetained")
  /\ chased' = chased \cup {l}
  /\ UNCHANGED <<world, pc, iter, resources, added, prev, scanned, discoveries,
                 edges, prov, stamped, outcome>>

Discover(l) ==
  /\ TakeSeed(l)
  /\ \E a \in Answers(l) \cap Addr :
       /\ Adopts(a)
       /\ discoveries' = discoveries \cup {<<l, a>>}
  /\ UNCHANGED <<world, pc, iter, resources, added, ignored, chased, prev,
                 scanned, edges, prov, stamped, warned, outcome>>

LookUp(l) == LeaveLiteral(l) \/ LookupAborts(l) \/ RetainReference(l) \/ Discover(l)
-----------------------------------------------------------------------------
Discovered == {d[2] : d \in discoveries}

(* Fault: a resource adopted in an earlier iteration is added again. *)
ReaddDiscovered == Discovered
(* The resources added this iteration: at most once per run each. *)
AddedNow == Discovered \ added

(* The set handed to RunGenconfig. *)
Extended == resources \cup AddedNow

NothingAdded ==
  /\ pc = "seed"
  /\ seeds = {}
  /\ AddedNow = {}
  /\ Return("clean")
  /\ UNCHANGED <<world, iter, resources, added, ignored, chased, prev, scanned,
                 seeds, discoveries, edges, prov, stamped, warned, lookups>>

NewEdges(kept) == UNION {Consumers(d[1]) \X {d[2]} : d \in kept}

(* Fault: only the seed that adopts a resource contributes its consumers. *)
MergeFirstSeed(kept) ==
  [a \in Addr |-> IF a \in added THEN prov[a]
                  ELSE UNION {Consumers(d[1]) : d \in {e \in kept : e[2] = a}}]
(* mergeProvenance over the discoveries that survived regeneration. *)
MergeProvenance(kept) ==
  [a \in Addr |-> prov[a] \cup
                    UNION {Consumers(d[1]) : d \in {e \in kept : e[2] = a}}]

(* stampProvenance leaves the pre-chase addresses alone. *)
Stampable(p) == {a \in Addr \ Operator : p[a] # {}}

(* Fault: a literal whose target genconfig omitted is tried again. *)
RetryOmitted(D) == {}
GivenUp(D) == {d[1] : d \in D}

(* RunGenconfig over the extended set, then partitionDiscoveries, the edge  *)
(* and provenance bookkeeping and the stamping.                             *)
Regenerate ==
  /\ pc = "seed"
  /\ seeds = {}
  /\ AddedNow # {}
  /\ resources' \in SUBSET Extended
  /\ Extended \ resources' \subseteq Omissible
  /\ LET kept == {d \in discoveries : d[2] \in resources'}
         dropped == discoveries \ kept
         gone == {d[2] : d \in dropped}
     IN /\ ignored' = ignored \cup GivenUp(dropped)
        /\ warned' = warned \cup {<<"configOmitted", d[1]>> : d \in dropped}
        /\ edges' = {e \in edges : e[2] \notin gone} \cup NewEdges(kept)
        /\ prov' = MergeProvenance(kept)
        /\ added' = added \cup {d[2] : d \in kept}
  /\ stamped' = (stamped \cup Stampable(prov')) \cap resources'
  /\ pc' = "driftfix"
  /\ UNCHANGED <<world, iter, chased, prev, scanned, seeds, discoveries,
                 outcome, lookups>>

(* A pipeline step fails; genconfig has been handed the extended set. *)
PipelineFails ==
  /\ Flaky
  /\ \/ /\ pc = "seed" /\ seeds = {} /\ AddedNow # {}
        /\ resources' = Extended
     \/ pc \in {"scan", "driftfix"} /\ UNCHANGED resources
  /\ Return("pipelineError")
  /\ UNCHANGED <<world, iter, added, ignored, chased, prev, scanned, seeds,
                 discoveries, edges, prov, stamped, warned, lookups>>

IterationLeft == iter < MaxIterations

DriftFixed ==
  /\ pc = "driftfix"
  /\ IF IterationLeft
     THEN iter' = iter + 1 /\ pc' = "scan" /\ UNCHANGED outcome
     ELSE Return("maxIterations") /\ UNCHANGED iter
  /\ UNCHANGED <<world, resources, added, ignored, chased, prev, scanned, seeds,
                 discoveries, edges, prov, stamped, warned, lookups>>

Next ==
  \/ ScanEnds \/ ScanSeeds
  \/ \E l \in Lit : LookUp(l)
  \/ NothingAdded \/ Regenerate \/ PipelineFails \/ DriftFixed

Spec == Init /\ [][Next]_vars
-----------------------------------------------------------------------------
Outcome == {"running", "clean", "cyclic", "discoverError", "pipelineError",
            "maxIterations"}
Code == Failure \cup {"nested", "nonARN", "unresolvedStable", "discoverError",
                      "unimportable", "referenceRetained", "configOmitted"}

(* Every variable stays in its range. *)
TypeOK ==
  /\ world \in World
  /\ pc \in {"scan", "seed", "driftfix", "done"}
  /\ iter \in 1..MaxIterations
  /\ resources \in SUBSET Addr /\ added \in SUBSET Addr
  /\ ignored \in SUBSET Lit /\ chased \in SUBSET Lit
  /\ prev \in SUBSET Lit /\ seeds \in SUBSET Lit
  /\ scanned \in SUBSET Addr
  /\ discoveries \in SUBSET (Lit \X Addr)
  /\ edges \in SUBSET (Addr \X Addr)
  /\ prov \in [Addr -> SUBSET Addr]
  /\ stamped \in SUBSET Addr
  /\ warned \in SUBSET (Code \X Lit)
  /\ outcome \in Outcome
  /\ lookups \in [Lit -> Nat]

(* The closure contract: whatever joins the operator's resources is         *)
(* importable and in scope, through every round and every failure.          *)
ClosureWithinScope == resources \subseteq Operator \cup (InScope \ Unimportable)

(* An operator-selected resource is never labelled as pulled in, not even   *)
(* when a chased resource generates the same address.                       *)
OperatorNeverStamped == stamped \cap Operator = {}

(* An adopted resource in the set says why it is there: at every scan and   *)
(* at every exit it carries provenance, whose consumers are the edges that  *)
(* graph.json shows for it, however many literals found it.                 *)
ProvenanceMatchesEdges ==
  \A a \in resources :
    /\ prov[a] = {f \in Addr : <<f, a>> \in edges}
    /\ a \in added \ Operator => a \in stamped

(* What a resource says of itself: why it is there, if the chase adopted    *)
(* it, and nothing of the kind if the operator selected it.                 *)
ProvenanceIsTrue == ProvenanceMatchesEdges /\ OperatorNeverStamped

(* A literal leaves the unresolved accounting only with a warning.          *)
DrainedIsDisclosed ==
  \A l \in ignored \cup chased : \E w \in warned : w[2] = l

(* A literal that only ever occurs nested, or is no ARN, is looked up once  *)
(* per run, although it may stay in the file unresolved for ever.           *)
TerminalLookedUpOnce == \A l \in Lit : Terminal(l, Addr) => lookups[l] <= 1

(* Every round settles something for good, whatever genconfig omits: an     *)
(* address is added or a literal given up.  So the number of rounds is      *)
(* bounded by the size of the world, with or without MaxIterations.         *)
RoundsSettle ==
  pc # "done" => Cardinality(added) + Cardinality(ignored)
                   >= IF pc = "driftfix" THEN iter ELSE iter - 1

(* A clean exit accounts for every literal the configuration still holds:   *)
(* it was warned about, or its target was adopted by an earlier iteration.  *)
CleanExitAccounts ==
  outcome = "clean" =>
    \A l \in Dangling : \/ \E w \in warned : w[2] = l
                        \/ world.target[l] \in added

(* A clean chase returns its input and everything it added in any round,    *)
(* but for the resources that genconfig is able to lose.                    *)
ResultHoldsEverythingAdded ==
  outcome = "clean" => (Operator \cup added) \ Omissible \subseteq resources

(* Result's comment has Resources hold everything pulled in across all      *)
(* iterations, or at least say what is missing: an adopted resource is in   *)
(* the set, or a warning names a literal that leads to it.                  *)
ResultHoldsAdopted ==
  outcome = "clean" /\ Operator \subseteq resources =>
    \A a \in added : a \in resources \/ \E w \in warned : /\ w[1] = "configOmitted"
                                                     /\ world.target[w[2]] = a
-----------------------------------------------------------------------------
(* The chase implements the closure contract. *)
Refers == {e \in Addr \X Addr : \E l \in Holds(e[1]) : world.target[l] = e[2]}

Contract == INSTANCE ClosureContract
              WITH Adoptable <- InScope \ Unimportable,
                   refers <- Refers, managed <- resources, open <- pc # "done"

ImplementsContract == Contract!Spec
=============================================================================
