# Formal models of the import pipeline

TLA+ specifications, TLC configurations and TLAPS proofs for
`insideout-terraform-presets`. The repository ships Terraform presets, a
composer that assembles them into stacks, and tools that discover and adopt
cloud resources that already exist. What is modelled is the part with control
in it: discovering an account concurrently under timeouts and throttling,
joining what was found into parents and children, and adopting a selection
through fixed-point loops around Terraform, where resources appear and
disappear between steps and where the result must still account for what the
operator selected. To these comes the batch runner of the inspection service.

Paths below are relative to the repository root (`src/` in `PROJECT.json`).
`PROJECT.json` maps every definition that models code to the lines it models.

## Inventory

### The reverse-import pipeline

| component | state | operations | interacts with |
|---|---|---|---|
| engine, `pkg/reverseimport` | the resource set, the skip tracker, two attempt counters, the files of the output directory | `Run`: closure, genconfig, chase, final-plan loop, backfill, first-import contract loop, results | calls genconfig, driftfix, depchase, Terraform, the plan contract; writes `imported.tf`, `imported.json`, `reverse-result.json` |
| genconfig, `cmd/insideout-import/genconfig` | `imports.tf`, `providers.tf`, `generated.tf` per directory | `Run`, `runMultiRegion`, `runSingleRegion`, prunes | called by the engine and again by every chase round, on one workdir; runs Terraform per region |
| driftfix, `cmd/insideout-import/driftfix` | `generated.tf`, the previous drift, the escalated pairs, an iteration counter | plan, classify, drop, escalate, validate | reads the layout genconfig left on disk; Terraform |
| depchase, `cmd/insideout-import/depchase` | the resource set, added, ignored and chased literals, the previous unresolved set, edges, provenance | scan, seed, look up, adopt, regenerate, drift-fix | callbacks into genconfig and driftfix, `DiscoverByID` of the discoverers, an `AdoptionPolicy` |
| plan contract, `pkg/composer/plan_acceptance.go` | none | verdict on a JSON plan | called by the engine in a loop |
| heartbeat, `pkg/reverseimport/heartbeat.go` | a ticker goroutine per stage | start, tick, stop and join | shares the progress writer with the stage |

What is hard here: a resource can leave the set in four places and only some
of them leave a record; the same workdir is regenerated several times, by
different numbers of goroutines, in different layouts; every decision is taken
on a file, a plan or a lookup that the next step may make stale; loops have
bounds, and exits at the bound have their own rules. What makes it correct:
nothing is lost without a word (engine), nothing is adopted that should not be
and every adoption says why (chase), the configuration that is published is the
one that was planned (driftfix, engine), and the file each stage reads is the
file of the current set (genconfig with driftfix).

### Discovery

| component | state | operations | hard behaviour |
|---|---|---|---|
| awsdiscover, type discovery | a result slot per type, a callback mutex, a progress counter | `DiscoverTypes` | a goroutine per type under a limit, per-type timeouts that become empty results, a failing type cancels the others, streaming callbacks get frozen copies of rows that are augmented later |
| awsdiscover, tag prefetch and Cloud Control listing | a cache per region and type, the identifiers of a region | `Prefetch`, `Discover` | one goroutine per region, single regions fail or have too many pages; the source of the identifiers is decided anew in each region; pages, parents and items fail one by one |
| awsdiscover, enrichment | attributes and a status per resource | `EnrichAttributes`, `retryThrottled` | worker pool, bounded retries under cancellation, results folded in order afterwards |
| parents and children | the list of resources, an index of addresses | parent join, partition of the unimportable, orphan sweep, manifest | passes over one list that each remove rows the other one looks at |
| gcpdiscover | the same for GCP | searches, enrichment | the same |
| progress emitter | an encoder behind a mutex | events | concurrent producers |
| reversedisco | none | filter a discovery by a selection | none |

Correct means: on success every selected type is accounted for, in selection
order; a timeout of one type costs only that type; no callback overlaps another
or sees a later change; a failed region, page or item is enumerated again or
disclosed; a resource that could not be enriched says so; and no resource is
written to a manifest without its parent, or left out of it without a reason.

### Composer, drift, observability and the rest

| component | what it does | hard behaviour |
|---|---|---|
| composer: composition, wiring, mapping, defaults | from a selection of components to Terraform files | graph of implicit dependencies, order of modules, diff of two stacks |
| composer: validation | predicates over values, HCL and the module graph | cycles, dangling references |
| composer: imported resources | emission, provenance, filter to a plannable set | order with the orphan sweep |
| composer: pricing | price tables | arithmetic only |
| composer/imported | the imported-resource type, normalisation, importability | per-type data |
| drift (`pkg/drift`), driftscan | classification of field differences, a verdict | rule precedence |
| imported facade, registry, closure, dependencies, bindings, labels, forcenew, snapshot | lookups and graph functions over imported resources | a progress counter shared by concurrent types |
| observability: inspection | probes in a bounded batch | timeouts, panics, credentials, order of results |
| observability: metrics, discovery, extractors | cloud metrics per component | errgroup fan-out |
| import registry, permissions | static tables | none |
| generators (`cmd/enrichgen`, `cmd/imported-codegen`, `cmd/composetest`) | build-time code generation | none |
| presets (`aws/`, `gcp/`), examples, tests | declarative Terraform | none |

All of them are listed in `PROJECT.json` with what is modelled and why the
rest is not.

## Modules

| module | models | proofs |
|---|---|---|
| `DriftFix` | `runStack`: the drift-convergence loop on one stack | `DriftFixProofs` |
| `ClosureContract` | abstract: how a selection may grow | |
| `DepChase` | `depchase.Run`; implements `ClosureContract` | `DepChaseProofs` |
| `ReverseImport` | `reverseimport.Run`; uses the chase as `ClosureContract` promises it | `ReverseImportProofs` |
| `RegionStacks` | the directories and goroutines of genconfig and driftfix over several passes; implements `FanOut` | `RegionStacksProofs` |
| `FanOut` | abstract: a bounded group of goroutines that is joined (errgroup) | its own `GroupsAreSafe` |
| `Caller` | the context a caller passes down, shared by the modules of the discovery | |
| `Discover` | `DiscoverTypes`; implements `FanOut` | `SurveyProofs` |
| `Enrich` | `EnrichAttributes` and `retryThrottled`; implements `FanOut` | `SurveyProofs` |
| `Survey` | `Discover` followed by `Enrich` in one context, as `bench` runs them | `SurveyProofs` |
| `Listing` | the tag prefetch and `cloudControlDiscoverer.Discover` for one type; implements `FanOut` | `ReadsProofs` |
| `Lineage` | the parent join, the partition, the sweep, the manifest and the composer's order of the same passes | `LineageProofs` |
| `BatchRunner` | `AWSBatch`, `GCPBatch`, `runSubsBounded`; implements `FanOut` | `ReadsProofs` |
| `MCDepChase`, `MCReverseImport`, `MCRegionStacks`, `MCSurvey`, `MCListing` | small instances for TLC | |

The models divide the system by question, and each leaves the others'
internals to nondeterminism. Adoption: `ReverseImport` lets genconfig drop
anything and the chase drop anything and add anything adoptable, which is what
`DepChase` with `ClosureContract` guarantees; `DepChase` lets a regeneration
omit resources and a pipeline step fail; `RegionStacks` takes the convergence of
one stack, which is `DriftFix`, as a step that succeeds or fails. Discovery: what
one type's goroutine answers in `Discover`, some set of rows, an error or a
timeout, is what `Listing` goes through region by region; the rows `Discover`
returns are what `Survey` hands to `Enrich`, and what `Lineage` joins and sweeps.
A page that is throttled in `Listing` is retried as an attempt in `Enrich` is,
and only the outcome is in `Listing`.

Some modules define, beside an operator of the code, a small variant marked
"Fault": what a plausible mistake in that place would be. Nothing uses it in the
specification; it serves to show that a property notices the difference.

### DriftFix

A drift is a set of (address, top-level attribute) pairs. `generated.tf` is
the pairs it assigns (`present`) and those under `ignore_changes` (`ignored`).
`kind` says how Terraform treats a pair: it does not drift, it drifts while the
file assigns it, it drifts until ignored, it may not be removed, no patch
reaches it, or a patch reaches it and it drifts whatever the file says.
`steady` is whether the cloud holds still between plans; both are chosen
initially and never change. `PlanStack` is the plan, its classification and the
two returns it can cause; `DropDrift`, `Escalate` and `GiveUp` are the three
ways on from a plan with drift; `Validate` ends an iteration and contains the
head of the `for` loop; `StepFails` is any command or file error.

### DepChase and ClosureContract

A resource is its Terraform address. `world` is the cloud: the literals each
resource's body holds at the top level and nested, what a resource's
identifiers match, and what looking a literal up yields. Since `generated.tf`
renders what the last genconfig run returned, the file is a function of
`resources`. One round is `ScanSeeds` (or a return in `ScanEnds`), one lookup
action per seed in any order (`LeaveLiteral`, `LookupAborts`,
`RetainReference`, `Discover`), `Regenerate` with the whole bookkeeping that
follows it, and `DriftFixed`. `NothingAdded` and `PipelineFails` are the other
exits. `Omissible` is what a genconfig run is able to leave out.

`ClosureContract` is the promise to the engine: starting from the selection,
the set only grows by adoptable resources that something already in the set
refers to, may lose members at any time, and changes no more after the return.
`ImplementsContract` is the refinement, with `managed <- resources`,
`refers` computed from the world and `open <- pc # "done"`.

### ReverseImport

`skips` is the skip tracker, `plan` the last JSON plan with the set it was made
from, `importedJSON` and `importedTF` the resources in those files, `result`
the contents of `reverse-result.json`. There is one action per step of `Run`
and per way of leaving it. A plan gives every resource of the set one of four
changes and may hold one stray import or create from elsewhere in the
directory, so it can satisfy the count of the contract for the wrong reason.
`Chase` ends with any set that a
chase may end with (`ChasedSets`): it can lose and adopt any number of
resources, but with no managed resource there is nothing to refer to another,
and nothing is adopted. A return without a result is `StepFails`.

### RegionStacks

`providers`, `imports`, `hasGen` and `generated` are the files of the workdir
(`Parent`) and of each `region-<alias>` directory; a block of `generated.tf` is
a resource with "raw" or "fixed". `task` is the goroutine of each directory:
waiting for a slot, installing Terraform, running, returned. A pass of the
caller (`Grow`) is genconfig, with a warm-up when it spans regions, then the
selection of stacks from what is on disk, then driftfix with the re-merge.
A failing goroutine cancels the group at any point of the others' work; those
already running finish either way. Nothing deletes the files of an earlier
pass, in the model as in the code.

### FanOut and its users

`FanOut` is the promise of an errgroup with `SetLimit`: a wave of tasks is
opened, at most `Limit` of them run at once, and it is joined when all of them
have returned. A task may also return without running, because its context has
ended. `Discover`, `Enrich`, `Listing` and `BatchRunner` are shown to implement it, each with its own
idea of waiting and running. `RegionStacks` states the same, with the order of
the Terraform installation, as `WorkersContained`.

### Discover

A type is its position in the selection. A type's goroutine goes from "idle" to
"jitter" (the random delay of the first calls), "calling", then over "judge" on
an error or directly to "count", "counting" (it holds the bridge's lock and
tells the sink), "deliver" and "ok"; "err" is the other end. `Cancelled` is the
group's context: the caller's has ended or some type has failed. A listing may
fail with a deadline error for its budget (`Expires`), for its context
(`Interrupted`) or for a timeout of its own transport (`Fails`). `OwnDeadline` is
the test of the code, which tells the second from the others: it asks for a
budget, a deadline error and a live group. `handed` is what the callback got: a copy, in the code. `stamped`
is what the pass after the join writes to the rows. `spent` and `faulty` are
history: what really happened to a listing, against which the result is judged.

### Enrich and Survey

A row is its rank by type and address, the order in which the code visits it.
`Begin` selects the rows whose type has an enricher; `Hire`, `JitterEnds`,
`Settles`, `Throttled`, `BackoffEnds` and `BackoffCancelled` are a worker, which
does not look at the context except while it backs off; `ReportRow` is one
iteration of the serial pass after the join. `Survey` composes the two modules:
they share `ctx`, and `Handover` starts the second with what the first returned.

### Listing

`kind` is what the code knows of the type (global, not taggable, how it is
enumerated), `ask` the request; both are arbitrary. A pass (`at`) is a region, or
the one pass of a global type. `TakeKnown` reads the identifiers from the
selection or from the cache, `StartSweep` enumerates the account, with its three
kinds of lister; `Listed`, `ParentNotFound`, `StillThrottled` and `ListFails` are what becomes
of a parent's pages; then every identifier is read (`GetStarts`, `Got`,
`GetFails`, `GetInterrupted`), and `EmitRegion` filters and adds. The tagging API
is the world: it returns the matching items of a region, and of a global type
in every region, which is what the code takes it to do.

### Lineage

The passes over the list of resources, in the order in which each use calls
them: `JoinParents` (scan only), `Refuse` (scan and manifest), `Visit`,
`SweepAgain` and `SweepEnds` (the loops of `DropOrphanedChildren`),
`DropRefusable` (compose only), `Check`, and `WriteUnsupported` if a scan has
`include`. A scan starts from identifiers, from which the join computes the
parents; the others start from any parentage, including cycles and absent
parents. A manifest is one that its reader accepted, or the part of it that
`--resource-ids` selects, whose parents may be missing. `Closed` is the
reference definition: the largest part of a list in which nothing dangles.

The rows are of three sorts: to be forgotten, `foreign` (a tier that is not an
imported one, such as `ComposerNative`), and the others. The discoverers emit
imported tiers only, so a scan has none of the first two. The sweep takes every
row for a parent (`Anchored`); the validator indexes and checks rows of imported
tiers only (`Sound`), and a child of a foreign row dangles for it although the
sweep kept it. `dropped` is `unimportableRows`, what the partition and the sweep
left out and counted on stderr. It becomes `unsupported.json` only with
`--include-unsupported`, which a run from a manifest may not have, and only if
neither the enumeration of unsupported types nor the write fails; otherwise no
file holds these rows.

### BatchRunner

A probe is its position in the input; `Credless` are those that the catalogue
answers. `ended` is how the batch's context ended, `late` the probes whose own
timeout passed before it. `CutShort` is a call that returns because of its
context, and `Settle` is the end of `runOneSub`: an error after a deadline is
marked as a timeout, a panic becomes a result.

## Runs

| run | expects | question |
|---|---|---|
| `DriftFix` | pass | does the loop return, converge only on what it planned, and escalate in order; does it converge when the cloud holds still |
| `DepChase` | pass | accounting, provenance, progress and the contract, under omissions and failures |
| `DepChaseLostResource` | violation | does the result hold, or disclaim, everything adopted |
| `ReverseImport` | pass | does every result account for the selection, and do the files and the accepted plan agree |
| `ReverseImportDoubleReport` | violation | is a resource reported once |
| `RegionStacks` | pass | does the chase only read a converged configuration of the current set, and do the goroutines of a phase stay inside it, under the limit and apart |
| `RegionStacksStaleParent` | violation | is a multi-region set always fixed per region |
| `Survey` | pass | do rows, callbacks, counts and statuses agree with what was found, whatever times out, fails or is throttled; does the survey end when its context does |
| `Listing` | pass | is every item asked for listed once or disclosed, for every kind of type, request and failure; is the account swept only where it must be |
| `Lineage` | pass | does the sweep drop exactly what cannot be kept; is a manifest closed and complete, with or without `unsupported.json`; does a child share the fate of its own parent; what dangles in a stack |
| `LineageComposeDangling` | violation | is a composition free of children without a parent |
| `BatchRunner` | pass | does a batch return one truthful result per probe, whatever happens to probes, credentials and clocks |

The refinements `ImplementsContract` and `BatchIsAFanOut` are among the checked
properties; those of `Discover`, `Enrich` and `Listing` to `FanOut` are proved
without a run of their own. Type invariants and smaller facts (the limit, who
installs, what is stamped) are proved as well and are no longer properties of a
run; where several of them together answer one question, the run checks their
conjunction (`DiscoveryIsTruthful`, `EnrichmentIsTruthful`, `ProvenanceIsTrue`,
`EverythingAccounted`, `WorkersContained`, `BatchAlwaysAnswers`,
`ResultsAreTruthful`).

### Bounds

- `DriftFix`: two pairs and the default bound of five iterations. Conditions
  of the loop compare sets of pairs and ask for all or some of them; with two
  pairs of six kinds each, sets can differ, overlap and be partly reachable.
  Five iterations reach every sequence of drop, recurrence, escalation and
  second recurrence, and exhaustion. With a steady cloud, two pairs need at most five
  plans (drop both, drop again because the set changed, escalate,
  done).
- `DepChase`: the operator's `o` and five others, one of them not importable
  and one out of scope; three literals, one a bare identifier; three rounds.
  The worlds let each literal lead to something adoptable, to the operator's
  own address, to a forbidden resource, or fail in each way, with chains of
  three adoptions, so the bound is reached with and without a residue. genconfig
  may omit `o`, `x` and `z` but not `y`.
- `ReverseImport`: five addresses (a parent, the child it pulls in, a plain
  resource, one only the chase adds, one that is not importable) and two rounds
  per loop: a resource can be skipped, brought back, fail in the first loop and
  in the second, and each loop can reach its bound.
- `RegionStacks`: three regions, four resources (two share a region), a limit
  of two, three passes: a goroutine waits while others run and fail; layouts go
  from one region to several and back; a region loses its last resource between
  passes. The two limits of the code are both six and are one constant here.
- `Survey`: three types, two at a time, with two, one and one rows; the second
  type has no enricher and one row of the first gets its VPC late. A type waits
  while two run, one of them fails or times out and the third has not started.
  Two workers and two attempts for the three enrichable rows: a row waits, is
  throttled once and answered, or throttled to the end.
- `Listing`: two regions, three items under two parents (one item matches in
  each region, one does not match and may be selected without a region), two
  reads at a time, every kind of type and every request: a region is cached
  while the other is enumerated; a parent is cut short while another is not.
- `Lineage`: three rows, which give chains of a grandchild, cycles, and two
  candidates for one child; two regions and two names, so that identifiers can
  collide across regions and be distinct within one. All parentages, refusals,
  tiers and forgettings over the three rows are initial states.
- `BatchRunner`: four probes, two at a time, of which one is answered by the
  catalogue, one is a catalogue request of an unknown service and two need the
  cloud: probes wait when the deadline comes, and start after it.

The violation runs use the smallest instance that shows the disagreement, and
each checks one property that quotes a comment of the code.

### Fairness and deadlock

`DriftFix` and `RegionStacks` check liveness under `WF_vars(Next)`: some step
that is possible is eventually taken. For the code this says that a Terraform
command returns (or its context is cancelled), that a goroutine with a slot is
scheduled, and that a caller that has a result goes on. No particular outcome
is assumed: every command may fail every time. `Lineage` is sequential and
has the same fairness.

`Survey`, `Listing` and `BatchRunner` have fairness per goroutine and never let
a call answer for certain: a goroutine that can run is scheduled, a timer that
was set runs out, and a call returns once its context has ended (what the AWS
SDK and `net/http` do with the context they are given). So `BudgetEndsTheFanOut`
rests on the per-type timer, `BatchEnds` on the batch's deadline,
and `SurveyEnds` and `ListingEnds` begin with the end of the caller's context.
The prefetch and the pass after the join are not under the per-type budget, and
`BudgetEndsTheFanOut` says nothing about them; `SurveyEnds` starts after
the prefetch.

`DepChase` and `ReverseImport` state safety only; that their loops are bounded
is a safety property (`RoundsSettle`, `RoundsDropResources`). All systems
modelled are runs of a program that end, so `CHECK_DEADLOCK FALSE` is set; the
liveness properties state that the end is in fact reached.

## What the runs showed

Everything in the passing runs holds. Four statements of the code about itself
do not; `PROJECT.json` gives the lines for each.

1. `depchase`, result: a resource adopted in one round and omitted by a later
   regeneration remains in `Added` and `Edges`, not in `Resources`, without a
   warning (`DepChaseLostResource`).
2. `reverseimport`: a resource that genconfig skips and the chase adopts is
   reported twice, as skipped and as imported (`ReverseImportDoubleReport`): the
   chase adopts it because a resource that genconfig kept refers to it.
3. `genconfig` and `driftfix`: once a single-region pass has written
   `providers.tf` in the workdir, a later multi-region pass leaves the parent
   plannable, so driftfix works on the concatenation at the parent and not on
   the region stacks (`RegionStacksStaleParent`).
4. `composer`: orphans are swept before un-importable resources are dropped, so
   the children of a dropped parent dangle (`LineageComposeDangling`). The scan
   does it in the other order, and `SweepIsExact` with `ManifestIsComplete` holds
   there. The property is asked of stacks without foreign rows;
   `DanglingIsExplained` says of every stack exactly what dangles.

### Observations

Met while modelling; each is how the code behaves, and where a model covers the
code it behaves the same way.

- A clean exit of the chase (`depchase.go:543`) says that every unresolved
  reference became a warning. A literal whose target was adopted in an earlier
  round but which the target's identifiers do not match (an alias) stays without
  one; `CleanExitAccounts` therefore asks for a warning or an adopted target.
- A chase that settles everything in exactly the last round ends with
  `ErrMaxIterations` and no unresolved reference (`depchase.go:626`): the bound
  is checked before the file is.
- Two consecutive plans that only create a resource end in the "stable drift"
  error of driftfix with an empty list (`driftfix.go:465-487`), although the
  error is meant to name the attributes.
- The key of the parent join has no region (`parent_resolve.go:202`). When the
  own parent of a child was not found and another region has one of the same
  name, the child is linked to that one; the comment at lines 144-146 promises
  an empty parent. `Candidates` in `Lineage` is the rule of the code. The run
  reaches the case, and no property forbids it: `ChildFollowsItsOwn` is about
  children whose own parent was found, and a child without one may hang on the
  namesake, and be left out with it when the namesake is refused.
- A row that is left out of `imported.json` is in no file unless
  `--include-unsupported` was given and worked (`discover.go:996-1037`); stderr
  has the count of the refused rows and the addresses of at most eight orphans.
- The sweep takes rows of every tier for parents (`orphans.go:60-65`), the
  validator only those of imported tiers (`imported_validate.go:67-69`), so that
  the child of a `ComposerNative` row is kept by the one and flagged by the
  other.
- The downgrade of a type asks for a deadline error and a live group, not
  whether the type's own deadline has passed (`awsdiscover.go:688-690`). A
  timeout of the transport, which is a deadline error as well, is downgraded to
  an empty result and logged as `per_type_timeout` with the budget unspent,
  although the comment above it speaks of an expired budget.
  `OnlyTimeoutsDowngrade` allows for it. The survey of `bench` sets no budget,
  where no type is downgraded (`SurveyAccounts`).
- `DropUnimportable` in the composer (`compose.go:724`) takes no notice of rows
  that only render a `removed` block, which the sweep before it keeps on purpose.
- A step of the engine that fails returns before a result is written
  (`run.go:117`); a `reverse-result.json` of an earlier run in the same directory
  stays.
- A failing write of the concatenated `generated.tf` is only a warning in
  genconfig (`genconfig.go:380`), although the chase reads that file; driftfix
  rebuilds it before, and there a failure is an error.

## Theorems

All theorems hold for every value of the constants that satisfies the named
assumption of the module (sets of addresses, literals and resources are
finite where a cardinality is taken; bounds are positive; otherwise the
constants are arbitrary). Every safety property of every passing run is proved,
and each module has a theorem of type correctness.

`DriftFixProofs` (assumes `MaxIterations \in Nat \ {0}`). `TypeCorrect`, then
`LoopInvariant`: `LoopInv` adds to the three safety invariants what the loop
carries from one iteration to the next: the previous drift was dropped; a
dropped pair is out of the file and an escalated one is ignored wherever a patch
reaches; the file is still the planned one while its plan is being patched.
Without these, a recurrence says nothing about what was tried before.
`ConvergedIsPlanned`, `DropFirst` and `StableMeansPatched` follow.
`FatalPlanIsNotPatched` and `EscalationIsProgress` are action
properties. `SteadyStacksGetTheirVerdict` goes further for a cloud that holds
still: its invariant describes the file after the first plan, after the drop
and after the escalation, for every set of attributes and every assignment of
kinds, and from it the outcome is the one the kinds call for.
`ReturningIsConverging` then proves `SteadyConverges` from `Returns`, given at
least four iterations: fairness is used for nothing but that the loop returns.

`DepChaseProofs`. `TypeCorrect`; `Disclosed` (nothing leaves the unresolved
accounting without a warning) from the actions alone; `RoundInvariant`, which
says what is known in each phase of a round (seeds are unresolved literals that
are neither ignored nor settled; discoveries are lookups of this round whose
targets are adoptable; what was scanned is what is in the set);
`WithinScope`; `RoundsAreBounded`, which counts: in every round an address is
added or a literal is ignored for the first time, so the number of rounds is
bounded by the world even without `MaxIterations`; `ProvenanceIsTheGraph`;
`CleanExitIsAccountable`; `OneLookup`, whose invariant `OnceInv` ties the lookups
of a literal that nothing can resolve to the set of chased ones;
`EverythingAddedIsHeld`; and `Refinement`, that every step of the chase is a
step or a stutter of `ClosureContract`. `ProvenanceTellsTheTruth` joins
`ProvenanceIsTheGraph` with `OperatorStaysUnlabelled`; both need `ProvInv`, that
nothing is recorded about an address that was never added. `RoundsFitTheWorld`
turns the count of `RoundsAreBounded` into a bound on the rounds that does not
mention `MaxIterations`.

`ReverseImportProofs`. `EngineInvariant`: the inductive invariant is the
conjunction of the type invariant with eight named parts: every resource that
entered config generation is in the set or in the tracker (`Accounted`), the
last plan is about the current set while the contract is being judged
(`PlanIsOfTheSet`), results are written on leaving only (`WrittenAtTheEnd`),
failed resources are not in the set (`FailedIsOut`), nothing is recorded before
genconfig (`Fresh`), and the properties `NothingVanishes`, `ArtifactsAgree` and
`SucceededMeansAll`. None of the last three is inductive without the first
five: a result is built from the set and the tracker at the moment of writing.
From it follow `EverythingReported`, `PublishedFilesAgree`,
`SuccessIsComplete`, `FailedNeverComesBack`, `PublishedPlanIsClean`,
`EveryDropIsAFailure` (an action property) and `NoRoundIsSpentInVain`, which
bounds both loops by the number of failed resources. `DoubleReportHasOneCause`
is the complement of the finding on double reports (run
`ReverseImportDoubleReport`): what is reported beside its import is reported as
skipped, never as failed, and is a resource the chase adopted again; without
adoption there is none (`WithoutAdoptionNoDoubles`). `ChaseKeepsItsContract` is
the seam to `DepChase`, which implements `ClosureContract`: what any chase under
that contract hands back is a step `Chase` of the engine.

`RegionStacksProofs`. In layers, each from the ones before. `LayoutInv`: which
goroutines a phase may have and who may install Terraform. `RegionsApart`: a
step of a goroutine touches its own directory. `FilesInv`: how far a goroutine
has brought its files (`TaskFiles`); that files of an earlier layout are
harmless as long as the parent never was a stack (`NothingStale`, the delicate
part, since nothing removes them); and that driftfix works on everything there
is, in one layout or the other (`StacksCoverTheSet`). `ParentIsConverged`
follows by cases on the layout. `StaleParentIsTheCause` complements the finding
of the run `RegionStacksStaleParent`: in driftfix a set of several regions is
fixed region by region exactly as long as the parent has no `providers.tf`, so
a stack left there by a single-region pass is the only exception to what the
code documents, and always one. `StacksImplementFanOut` shows the goroutines of
both phases to be one bounded group, opened anew in every pass.

`SurveyProofs`. `DiscoverInv` is `Progress` (the counter is the number of types
counted, and the sink lags behind it only while one goroutine holds the lock),
`Careers` (where a type's goroutine is says what is known of its listing: an
error in "judge", a callback exactly in "ok", a deadline error only with a spent
budget, an ended context or a fault of the listing's own; and behind every
failed type one that failed of itself, unless the caller's context ended) and
`Phases`. `ProgressIsInOrder` is proved from
the first, `DiscoveriesAreTruthful` from the others, `DeliveriesAreFrozen` from the type of
`handed`: a copy. `EnrichInv` is `Workers` (attempts against the state of a
worker) and `Reports` (up to the cursor, statuses, warnings and errors agree
with the results; a type is announced when its last row is behind the cursor).
`SurveyDiscovers` and `SurveyEnriches` show that a survey is a behaviour of each
component, by which all their theorems hold of it; `HandedOver` connects them
(`EnrichmentFollowsDiscovery`) for `SurveyIsAccurate`, and from it
`GroupsTakeTurns`: no goroutine of the enrichment runs while one of the discovery
does. Both pools implement `FanOut` (`SurveyGroupsAreBounded`).

`ReadsProofs` is about the two groups of reads, `BatchRunner` and `Listing`.
`BatchInv` ties a probe's result to what it returned and to how its context
ended; from it `EveryProbeIsAnswered`, `ResultsTellTheTruth` and
`ResultsAreFinal`. The invariant of a listing says of each item where it is: its
pass is to come, under way or over (`PassOK`, `OwnPass`, from which no item is
emitted twice), what is read belongs to the pass and the selection (`GetOK`),
what is known of the source (`SourceOK`), and `Accounted`: an item asked for is,
during its pass, read, excused or still to be enumerated, and afterwards emitted
or excused. `NothingIsLostSilently` is its last case. Both implement `FanOut`
(`BatchImplementsFanOut`, `ListingImplementsFanOut`).

`FanOut`. `GroupsAreSafe`: a bounded group of finitely many tasks never runs more
than its limit and leaves nothing waiting or under way behind a join. Each
refinement carries it over: `ProbesAreABoundedGroup`, `ReadsAreABoundedGroup`,
`SurveyGroupsAreBounded`, `StacksAreABoundedGroup`.

`LineageProofs`. `Sweeping`: no part of the list that is closed under parents
loses a row to the sweep, and if the pass so far dropped nothing, no row behind it is
an orphan. At the end of a pass without a drop what is left is closed, hence
the largest closed part (`TheSweepIsExact`), for every order of the list and
every parentage, without induction over it. `Phases` and `Reporting` carry this
to the manifest (`TheManifestIsComplete`), where `ManifestIsSound` says that
the validator finds nothing the sweep left, and to the stack, where
`StackDangles` says exactly what it finds (`WhatDanglesIsExplained`). `Joined`
with the exactness of the sweep gives `ChildrenFollowTheirOwn`: a child and a
parent of its own that is not refused are a closed part of the list.

Termination. Liveness under fairness is beyond the prover, but what it rests on
is not: for every component a theorem gives a natural number that every step
decreases, whatever the cloud, Terraform and the clocks do. They are
`EveryStepCounts` (`DriftFix`), `ChasesAreFinite` (`DepChase`, bounded by the
size of the world and not by `MaxIterations`), `RunsAreFinite` (`ReverseImport`,
and of the same name `RegionStacks`, through all passes), `DiscoveriesAreFinite`,
`EnrichmentsAreFinite` and `SurveysAreFinite`, `ListingsAreFinite` (also in a
context that never ends), `BatchesAreFinite` and `LineagesAreFinite` (the sweep,
which starts over after every pass that dropped a row). No behaviour cycles, so a
run that does not end has stopped before a call that never returns; that it does
not stop is what fairness says and what TLC checks.

Only model-checked: the liveness properties (`Returns`, `Ends`,
`BudgetEndsTheFanOut`, `SurveyEnds`, `ListingEnds`, `LineageEnds`, `BatchEnds`),
which rest on fairness and are out of the prover's reach (`SteadyConverges` is
proved from `Returns`); and the four violations, which are counterexamples. For
two of these the theorems `DoubleReportHasOneCause` and `StaleParentIsTheCause`
say what is true instead.

## Abstractions to know about

- HCL, ARNs, JSON and diagnostics are reduced to what they lead to. Attribution
  of a Terraform failure to resources is "a nonempty subset of the set, or
  none".
- The first-import contract counts imports and does not compare identities;
  `PublishedPlanImportsOnly` claims no more. An import that is also a replacement
  is judged by its changed attributes, as in the code.
- A failing write of one file after others were written is a step failure; the
  best-effort merge of `runMultiRegion`, whose failure is only logged, is taken
  to succeed (driftfix rebuilds the file before the chase reads it).
- In `RegionStacks` the rewrites of `generated.tf` (schema clean-up, fixups,
  cross-references, attribute extraction) leave its set of resources alone and
  are left out; emission and the two prunes are modelled by the resources they
  keep, and a region pass may fail before or after any of them.
- The output directory is fresh: a `reverse-result.json` of an earlier run in
  the same directory would survive a run that fails early.
- The order in which errgroup starts goroutines and in which seeds are looked
  up is left open, which includes the order of the code.
- What a cloud call returns is abstract: a set of rows, an item, an error, a
  throttle. The end of a context is one event that never reverses; a budget can
  run out at any time while a call is under way.
- The resource tables of the discoverers are the constants and initial choices of
  `Listing` and `Lineage` (which types are global, taggable, how they are
  enumerated; which rows are refusable), which quantify over all of them.
- The retry of a throttled page and of a throttled enrichment are the same code
  pattern; only `Enrich` counts the attempts.

## Not modelled

The models cover a small share of the repository's lines, because most of its
lines hold no behaviour of their own: generated schemas (one of them, for the
AWS web ACL, has 58,929 lines), tables of resource types and their identifiers,
field-by-field translations of cloud responses, price tables, wirings and
defaults, and build-time generators. A model of such code would repeat it line
by line. What has control is modelled, with these exceptions:

- The composer's composition, validation of wirings and pricing are sequential
  functions from values to values or text, without state between calls. Of them
  only the handling of imported resources, which is about order, is in
  `Lineage`.
- The drift classification is a table of rules folded over the fields of two
  documents. `pkg/imported/closure` and `dependencies` are reachability and
  lookup over an index that nothing in the pipeline calls.
- `gcpdiscover` has the control of `awsdiscover`; a second copy of `Discover`
  and `Enrich` would show nothing new.
- The heartbeat of a stage and the progress emitter share only a locked writer
  with the rest; no decision depends on them.
- The CLI's own flags and address generation, the decoding of requests and plans,
  HCL rewriting, the plan summary, and single inspections, whose batched form is
  modelled.
- Metrics discovery: queries per component whose concurrency is an errgroup as
  in `FanOut`.

## What is left

The order in which this would be worth continuing: `Discover` with `Listing`
in the place of its answers, as one composition (the answers of `Discover` are
arbitrary, so it holds of any listing already; what would be gained are
properties that relate a region's failure to a type's row); an output directory that is reused, so that the
stale result of `run.go:117` becomes a property; and the module graph of the
composer's validators as operators against a reference definition.
