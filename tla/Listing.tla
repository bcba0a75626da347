------------------------------- MODULE Listing -------------------------------
(***************************************************************************)
(* What one type's answer in Discover is made of: the tag prefetch over    *)
(* the regions (realRGTPrefetcher.Prefetch) and, region by region,         *)
(* cloudControlDiscoverer.Discover.  Where the identifiers come from is    *)
(* decided anew in each region: the operator's selection, the prefetch if  *)
(* its call for the region succeeded, or an enumeration of the account;    *)
(* then every identifier is read by a bounded group of goroutines.         *)
(*                                                                         *)
(* The retries of a throttled page are those of Enrich.                    *)
(*                                                                         *)
(* The world: the tags of an item are "Matches or not", the tagging API of *)
(* a region returns the matching items of the region, or all of them for a *)
(* global type, as rgt_prefetcher.go takes it to do.  Identifiers that a   *)
(* type skips, and the fields of an item, are left out.                    *)
(***************************************************************************)
EXTENDS Naturals, FiniteSets, Caller

CONSTANTS
  NumRegions,
  Item,
  HomeOf,      \* the region of each item
  ParentOf,    \* the resource whose children are listed to find it
  Matches,     \* items with the project tag and the selected tags
  Anywhere,    \* items that a selection names without a region
  GetLimit     \* maxConcurrency

ASSUME ListingAssumption ==
  /\ NumRegions \in Nat \ {0} /\ IsFiniteSet(Item) /\ GetLimit \in Nat \ {0}
  /\ HomeOf \in [Item -> 1..NumRegions] /\ DOMAIN ParentOf = Item
  /\ Matches \subseteq Item /\ Anywhere \subseteq Item
  /\ \A i \in Anywhere : HomeOf[i] = 1

Region == 1..NumRegions

VARIABLES
  kind,      \* the type: global, untaggable, how it is enumerated
  ask,       \* the request: its filter and the selected items
  pc,        \* "prefetch", "choose", "list", "get", "done" or "failed"
  cache,     \* per region: "pending", "failed" or "cached"
  at,        \* the pass: a region, or 0 for the one pass of a global type
  parents,   \* parents still to be enumerated in this pass
  get,       \* the goroutine of each identifier of this pass
  emitted,   \* how often each item was added to the result
  warned,    \* items whose read failed
  cutShort,  \* <<pass, parent>> pairs whose enumeration ended with a warning
  swept      \* history: passes that enumerated the account

listVars == <<ctx, kind, ask, pc, cache, at, parents, get, emitted, warned, cutShort, swept>>
request == <<kind, ask>>
outcome == <<emitted, warned, cutShort>>

Idle == [i \in Item |-> "none"]
Refs(R) == [i \in Item |-> IF i \in R THEN "waiting" ELSE "none"]

(* Fault: a global type is listed once per region. *)
PassPerRegion == Region
(* A global type has one pass, over no region in particular. *)
PassSet == IF kind.global THEN {0} ELSE Region
FirstPass == CHOOSE r \in PassSet : \A q \in PassSet : r <= q
LastPass == CHOOSE r \in PassSet : \A q \in PassSet : q <= r

ListInit ==
  /\ ContextInit
  /\ kind \in [global: BOOLEAN, untaggable: BOOLEAN, lister: {"plain", "parents", "sdk"}]
  /\ ask \in [filter: {"none", "project", "selector"}, scope: SUBSET Item]
  /\ pc = "prefetch" /\ at = 0
  /\ cache = [r \in Region |-> IF ask.filter = "none" THEN "failed" ELSE "pending"]
  /\ parents = {} /\ get = Idle
  /\ emitted = [i \in Item |-> 0]
  /\ warned = {} /\ cutShort = {} /\ swept = {}
-----------------------------------------------------------------------------
(* One goroutine per region; a region that fails is left out of the cache.  *)
Prefetched(r, how) ==
  /\ pc = "prefetch" /\ cache[r] = "pending"
  /\ cache' = [cache EXCEPT ![r] = how]
  /\ UNCHANGED <<ctx, request, pc, at, parents, get, outcome, swept>>

(* Without a filter there is no prefetch, and no look at the context.       *)
PrefetchJoined ==
  /\ pc = "prefetch" /\ \A r \in Region : cache[r] # "pending"
  /\ pc' = IF ContextOver /\ ask.filter # "none" THEN "failed" ELSE "choose"
  /\ at' = FirstPass
  /\ UNCHANGED <<ctx, request, cache, parents, get, outcome, swept>>

(* An empty selection is none. *)
Scoped == ask.scope # {}
Here(i) == kind.global \/ HomeOf[i] = at

(* scopedParents: a selected item belongs to its region, and one without a  *)
(* region to the first. *)
Selection == {i \in ask.scope : at \in {0, IF i \in Anywhere THEN 1 ELSE HomeOf[i]}}

(* Fault: a region whose prefetch failed counts as an empty one. *)
Prefetching == ask.filter # "none"
(* ForCFN, ForGlobalCFN: the key of a region, or of any, is authoritative.  *)
Authoritative == \E r \in Region : at \in {0, r} /\ cache[r] = "cached"
UseCache == ~kind.untaggable /\ Authoritative
CachedHere == {i \in Matches : Here(i) /\ \E r \in Region : cache[r] = "cached"}

(* Fault: an empty selection or an empty cache falls back to a sweep. *)
KnownAndNotEmpty == (IF Scoped THEN Selection ELSE IF UseCache THEN CachedHere ELSE {}) # {}
WorkSetKnown == Scoped \/ UseCache

TakeKnown ==
  /\ pc = "choose" /\ WorkSetKnown
  /\ get' = Refs(IF Scoped THEN Selection ELSE CachedHere)
  /\ pc' = "get"
  /\ UNCHANGED <<ctx, request, cache, at, parents, outcome, swept>>

ParentsHere == {ParentOf[i] : i \in {j \in Item : Here(j)}}

(* The parents to enumerate: those ParentLister returns, or one pseudo      *)
(* parent for a list of everything.  Its failure fails the type.            *)
StartSweep(fails) ==
  /\ pc = "choose" /\ ~WorkSetKnown
  /\ fails => kind.lister # "plain"
  /\ pc' = IF fails THEN "failed" ELSE "list"
  /\ parents' = IF fails THEN {}
                ELSE IF kind.lister = "parents" THEN ParentsHere
                ELSE {"all"}
  /\ swept' = swept \cup {at}
  /\ UNCHANGED <<ctx, request, cache, at, get, outcome>>

Children(p) == {i \in Item : Here(i) /\ (p = "all" \/ ParentOf[i] = p)}

AddRefs(R) == get' = [i \in Item |-> IF i \in R THEN "waiting" ELSE get[i]]

(* All pages of a parent arrive. *)
Listed(p) ==
  /\ pc = "list" /\ p \in parents
  /\ AddRefs(Children(p))
  /\ parents' = parents \ {p}
  /\ UNCHANGED <<ctx, request, pc, cache, at, outcome, swept>>

(* A page of a parent is not found: a warning, and on with the next parent. *)
ParentNotFound(p, R) ==
  /\ pc = "list" /\ p \in parents /\ p # "all"
  /\ AddRefs(R)
  /\ parents' = parents \ {p}
  /\ cutShort' = cutShort \cup {<<at, p>>}
  /\ UNCHANGED <<ctx, request, pc, cache, at, emitted, warned, swept>>

(* A page stays throttled: a warning ends the enumeration of the region.    *)
StillThrottled(p, R) ==
  /\ pc = "list" /\ p \in parents /\ kind.lister # "sdk"
  /\ AddRefs(R)
  /\ parents' = {}
  /\ cutShort' = cutShort \cup {<<at, q>> : q \in parents}
  /\ UNCHANGED <<ctx, request, pc, cache, at, emitted, warned, swept>>

ListFails ==
  /\ pc = "list" /\ parents # {} /\ kind.lister # "sdk"
  /\ pc' = "failed"
  /\ UNCHANGED <<ctx, request, cache, at, parents, get, outcome, swept>>

SweepEnds ==
  /\ pc = "list" /\ parents = {}
  /\ pc' = "get"
  /\ UNCHANGED <<ctx, request, cache, at, parents, get, outcome, swept>>
-----------------------------------------------------------------------------
Getting == {i \in Item : get[i] = "getting"}
(* Fault: a finished read keeps its slot. *)
ReadLeak == Cardinality({i \in Item : get[i] \notin {"none", "waiting"}}) < GetLimit
GetSlot == Cardinality(Getting) < GetLimit

Reads(i, to) ==
  /\ get' = [get EXCEPT ![i] = to]
  /\ UNCHANGED <<ctx, request, pc, cache, at, parents, swept>>

GetStarts(i) ==
  /\ pc = "get" /\ get[i] = "waiting" /\ GetSlot
  /\ Reads(i, IF ContextOver THEN "err" ELSE "getting")
  /\ UNCHANGED outcome

Got(i) ==
  /\ get[i] = "getting"
  /\ Reads(i, "got")
  /\ UNCHANGED outcome

(* The read fails in a live context, or its answer cannot be parsed.        *)
GetFails(i) ==
  /\ get[i] = "getting"
  /\ Reads(i, "warned")
  /\ warned' = warned \cup {i}
  /\ UNCHANGED <<emitted, cutShort>>

GetInterrupted(i) ==
  /\ get[i] = "getting" /\ ContextOver
  /\ Reads(i, "err")
  /\ UNCHANGED outcome

(* The tag filters: none for selected items, no project for untaggables.    *)
Passes(i) ==
  \/ Scoped \/ ask.filter = "none"
  \/ IF kind.untaggable THEN ask.filter = "project" ELSE i \in Matches

AllRead == \A i \in Item : get[i] \notin {"waiting", "getting"}

EmitRegion ==
  /\ pc = "get" /\ AllRead
  /\ \A i \in Item : get[i] # "err"
  /\ emitted' = [i \in Item |-> emitted[i] + IF get[i] = "got" /\ Passes(i) THEN 1 ELSE 0]
  /\ get' = Idle
  /\ IF at = LastPass THEN pc' = "done" /\ at' = at ELSE pc' = "choose" /\ at' = at + 1
  /\ UNCHANGED <<ctx, request, cache, parents, warned, cutShort, swept>>

GetGroupFails ==
  /\ pc = "get" /\ AllRead
  /\ \E i \in Item : get[i] = "err"
  /\ pc' = "failed"
  /\ UNCHANGED <<ctx, request, cache, at, parents, get, outcome, swept>>

ListStep ==
  \/ \E r \in Region, how \in {"cached", "failed"} : Prefetched(r, how)
  \/ PrefetchJoined
  \/ TakeKnown \/ \E fails \in BOOLEAN : StartSweep(fails)
  \/ \E p \in parents :
       \/ Listed(p)
       \/ \E R \in SUBSET Children(p) : ParentNotFound(p, R) \/ StillThrottled(p, R)
  \/ ListFails \/ SweepEnds
  \/ \E i \in Item : GetStarts(i) \/ Got(i) \/ GetFails(i) \/ GetInterrupted(i)
  \/ EmitRegion \/ GetGroupFails

ListNext ==
  \/ ListStep
  \/ ContextEnds /\ UNCHANGED <<request, pc, cache, at, parents, get, outcome, swept>>

(* Fairness: local steps happen, and a call returns once its context has    *)
(* ended.                                                                   *)
ListFair ==
  /\ \A r \in Region : WF_listVars(ContextOver /\ Prefetched(r, "failed"))
  /\ WF_listVars(PrefetchJoined)
  /\ WF_listVars(TakeKnown)
  /\ WF_listVars(\E fails \in BOOLEAN : ContextOver /\ StartSweep(fails))
  /\ WF_listVars(ContextOver /\ (ListFails \/ \E p \in parents : Listed(p)))
  /\ WF_listVars(SweepEnds)
  /\ \A i \in Item : WF_listVars(GetStarts(i)) /\ WF_listVars(GetInterrupted(i))
  /\ WF_listVars(EmitRegion) /\ WF_listVars(GetGroupFails)

ListSpec == ListInit /\ [][ListNext]_listVars /\ ListFair
-----------------------------------------------------------------------------
ListTypeOK ==
  /\ ContextTypeOK
  /\ kind \in [global: BOOLEAN, untaggable: BOOLEAN, lister: {"plain", "parents", "sdk"}]
  /\ ask \in [filter: {"none", "project", "selector"}, scope: SUBSET Item]
  /\ pc \in {"prefetch", "choose", "list", "get", "done", "failed"}
  /\ cache \in [Region -> {"pending", "failed", "cached"}]
  /\ at \in 0..NumRegions
  /\ parents \subseteq {ParentOf[i] : i \in Item} \cup {"all"}
  /\ get \in [Item -> {"none", "waiting", "getting", "got", "warned", "err"}]
  /\ emitted \in [Item -> Nat]
  /\ warned \subseteq Item
  /\ swept \subseteq 0..NumRegions

(* What the request asks for: the selection, or everything that passes the  *)
(* tag filters; of an untaggable type, which has no project, everything.    *)
AskedFor ==
  {i \in Item : IF Scoped THEN i \in ask.scope
                ELSE CASE ask.filter = "none"   -> TRUE
                       [] ask.filter = "project" -> kind.untaggable \/ i \in Matches
                       [] OTHER -> ~kind.untaggable /\ i \in Matches}

(* A listing that returns misses nothing it was asked for without a         *)
(* warning: of the item, or of an enumeration that ended early.  A failed   *)
(* prefetch alone loses nothing, because the region is enumerated instead.  *)
NothingLostSilently ==
  pc = "done" =>
    \A i \in AskedFor :
      \/ emitted[i] > 0
      \/ i \in warned
      \/ \E c \in cutShort : c[1] \in {0, HomeOf[i]} /\ c[2] \in {ParentOf[i], "all"}

(* Every item is listed at most once, over all regions and sources, and     *)
(* only if it was asked for.                                                *)
EachItemOnce == \A i \in Item : emitted[i] <= (IF i \in AskedFor THEN 1 ELSE 0)

(* The account is not enumerated where the work set is known: never for a   *)
(* selection, and not in a region whose prefetch is authoritative, also if  *)
(* it is empty there.                                                       *)
SweptOnlyIfUnknown ==
  \A r \in swept :
    /\ ~Scoped
    /\ ~kind.untaggable => \A q \in Region : r \in {0, q} => cache[q] # "cached"

(* The reads of a region are a bounded group that is joined.                *)
GetGroup == INSTANCE FanOut WITH
  Task <- Item, Limit <- GetLimit,
  todo <- IF pc = "get" THEN {i \in Item : get[i] = "waiting"} ELSE {},
  active <- Getting,
  joined <- pc # "get"
ReadsAreAFanOut == GetGroup!Spec

(* The end of the caller's context ends the listing.                        *)
ListingEnds == ContextOver ~> (pc \in {"done", "failed"})
=============================================================================
