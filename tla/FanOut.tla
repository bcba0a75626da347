------------------------------- MODULE FanOut -------------------------------
(***************************************************************************)
(* What golang.org/x/sync/errgroup with SetLimit promises to the code that *)
(* uses it: a wave of goroutines is opened, at most Limit of them run at a *)
(* time, and the wave is joined when all of them were started and have     *)
(* returned.  Results and errors are left to the users of the group        *)
(* (Discover, Enrich, Listing, BatchRunner), which are shown to implement  *)
(* it.                                                                     *)
(***************************************************************************)
EXTENDS Naturals, FiniteSets, FiniteSetTheorems, TLAPS

CONSTANTS Task, Limit

VARIABLES
  todo,    \* tasks of the wave without a goroutine yet
  active,  \* tasks with a running goroutine
  joined   \* no wave is open

vars == <<todo, active, joined>>

Init == todo = {} /\ active = {} /\ joined = TRUE

Open(T) ==
  /\ joined
  /\ joined' = FALSE /\ todo' = T
  /\ UNCHANGED active

(* Go blocks until there is a slot. *)
Start(t) ==
  /\ t \in todo /\ Cardinality(active) < Limit
  /\ todo' = todo \ {t} /\ active' = active \cup {t}
  /\ UNCHANGED joined

(* A task that finds its context ended returns at once.                     *)
StartInVain(t) ==
  /\ t \in todo /\ Cardinality(active) < Limit
  /\ todo' = todo \ {t}
  /\ UNCHANGED <<active, joined>>

Finish(t) ==
  /\ t \in active
  /\ active' = active \ {t}
  /\ UNCHANGED <<todo, joined>>

(* Wait *)
Join ==
  /\ ~joined /\ todo = {} /\ active = {}
  /\ joined' = TRUE
  /\ UNCHANGED <<todo, active>>

Next ==
  \/ \E T \in SUBSET Task : Open(T)
  \/ \E t \in Task : Start(t) \/ StartInVain(t) \/ Finish(t)
  \/ Join

Spec == Init /\ [][Next]_vars
-----------------------------------------------------------------------------
(* What the users of a group rely on: the limit holds at all times, no     *)
(* task is both waiting and running, and after the join nothing of the     *)
(* wave is left.                                                           *)
FanOutSafe ==
  /\ todo \subseteq Task /\ active \subseteq Task
  /\ todo \cap active = {}
  /\ Cardinality(active) <= Limit
  /\ joined => todo = {} /\ active = {}
-----------------------------------------------------------------------------
(* The steps of a group keep what it promises, of finitely many tasks and a *)
(* limit that lets one run. *)
LEMMA GroupStep ==
  ASSUME IsFiniteSet(Task), Limit \in Nat \ {0}, FanOutSafe, [Next]_vars
  PROVE  FanOutSafe'
<1> USE DEF FanOutSafe
<1>1. IsFiniteSet(active) /\ Cardinality(active) \in Nat
  BY FS_Subset, FS_CardinalityType
<1>2. ASSUME NEW T \in SUBSET Task, Open(T) PROVE FanOutSafe'
  BY <1>2 DEF Open
<1>3. ASSUME NEW t \in Task, Start(t) PROVE FanOutSafe'
  <2>1. Cardinality(active \cup {t}) = Cardinality(active) + 1
    BY <1>1, <1>3, FS_AddElement DEF Start
  <2> QED BY <1>1, <1>3, <2>1 DEF Start
<1>4. ASSUME NEW t \in Task, StartInVain(t) PROVE FanOutSafe'
  BY <1>4 DEF StartInVain
<1>5. ASSUME NEW t \in Task, Finish(t) PROVE FanOutSafe'
  <2>1. Cardinality(active \ {t}) = Cardinality(active) - 1
    BY <1>1, <1>5, FS_RemoveElement DEF Finish
  <2> QED BY <1>1, <1>5, <2>1 DEF Finish
<1>6. CASE Join
  BY <1>6 DEF Join
<1>7. CASE UNCHANGED vars
  BY <1>7 DEF vars
<1> QED BY <1>2, <1>3, <1>4, <1>5, <1>6, <1>7 DEF Next

LEMMA GroupInit == Limit \in Nat \ {0} /\ Init => FanOutSafe
BY FS_EmptySet DEF Init, FanOutSafe

(* A group of errgroup with SetLimit keeps its promise, whatever is opened, *)
(* in whatever order its goroutines run. *)
THEOREM GroupsAreSafe ==
  ASSUME IsFiniteSet(Task), Limit \in Nat \ {0}
  PROVE  Spec => []FanOutSafe
<1>1. FanOutSafe /\ [Next]_vars => FanOutSafe'
  BY GroupStep
<1>2. Init => FanOutSafe
  BY GroupInit
<1> QED BY <1>1, <1>2, PTL DEF Spec
=============================================================================
