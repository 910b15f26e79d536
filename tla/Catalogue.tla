----------------------------- MODULE Catalogue -----------------------------
(***************************************************************************)
(* The commercial catalogue: versions of price schedules and of plans, each *)
(* drafted, edited, discarded, published and retired by administrators who  *)
(* may work at once.  A draft's version number and an edit's draft check    *)
(* are read before the write they decide; the transitions are compare-and-  *)
(* swaps, and the database refuses what the rules below name.               *)
(*                                                                         *)
(* An activation window is the set of instants it covers.  The terms of a   *)
(* schedule (tiers included) are "free" (one zero tier) or "paid".          *)
(***************************************************************************)
EXTENDS Naturals, FiniteSets

CONSTANTS
  PlanKeys, ScheduleKeys,
  Instants,        \* the instants a window can tell apart
  Administrators,
  MaxRows          \* bound on the version rows ever created

ASSUME CatalogueAssumption == MaxRows \in Nat \ {0} /\ PlanKeys \cap ScheduleKeys = {}

VARIABLES
  versions,   \* plan_versions and price_schedule_versions, by row
  desks,      \* what each administrator has read and not yet written
  publishedAs \* observer: the row as it was when it was published

catalogueVars == <<versions, desks, publishedAs>>

RowIds == 1 .. MaxRows
Windows == (SUBSET Instants) \ {{}}
NoVersion == [key |-> "none", version |-> 0, state |-> "none", terms |-> "paid",
              window |-> {}, schedule |-> 0, auto |-> FALSE]
Discarded == [NoVersion EXCEPT !.state = "discarded"]
CatalogueVersion ==
  [key : PlanKeys \union ScheduleKeys, version : RowIds, state : {"draft", "published", "retired"},
   terms : {"free", "paid"}, window : Windows, schedule : 0 .. MaxRows, auto : BOOLEAN]
AtRest == [doing |-> "nothing", key |-> "none", number |-> 0]

CatalogueTypeOK ==
  /\ versions \in [RowIds -> CatalogueVersion \union {NoVersion, Discarded}]
  /\ desks \in [Administrators ->
       [doing : {"nothing", "drafting", "editing"},
        key : PlanKeys \union ScheduleKeys \union {"none"}, number : 0 .. MaxRows]]
  /\ publishedAs \in [RowIds -> CatalogueVersion \union {NoVersion}]

CatalogueInit ==
  /\ versions = [i \in RowIds |-> NoVersion]
  /\ desks = [a \in Administrators |-> AtRest]
  /\ publishedAs = [i \in RowIds |-> NoVersion]

Existing == {i \in RowIds : versions[i].state \notin {"none", "discarded"}}
RowsOf(key) == {i \in Existing : versions[i].key = key}
InState(st) == {i \in Existing : versions[i].state = st}
Unused == {i \in RowIds : versions[i].state = "none"}

---------------------------------------------------------------------------
(* Drafts.                                                                 *)

\* insertWithAllocatedVersion: MAX(version) + 1 ...
Allocate(a, key) ==
  /\ desks[a] = AtRest /\ Unused # {}
  /\ desks' = [desks EXCEPT ![a] =
       [doing |-> "drafting", key |-> key,
        number |-> 1 + CHOOSE n \in 0 .. MaxRows :
                         /\ n \in {versions[i].version : i \in RowsOf(key)} \union {0}
                         /\ \A i \in RowsOf(key) : versions[i].version <= n]]
  /\ UNCHANGED <<versions, publishedAs>>

\* The unique (key, version) of the table.
NumberFree(key, n) == \A i \in RowsOf(key) : versions[i].version # n

\* What a version of a plan is priced by, whatever that schedule's state; a
\* schedule is priced by none.
ScheduleFor(key) ==
  IF key \in PlanKeys THEN {i \in Existing : versions[i].key \in ScheduleKeys} ELSE {0}

Dismiss(a) == desks' = [desks EXCEPT ![a] = AtRest]

\* ... then the insert.  The retry after a unique violation runs in a
\* transaction PostgreSQL has already aborted, so the draft is refused.
InsertDraft(a) ==
  LET d == desks[a] IN
  /\ d.doing = "drafting" /\ Unused # {}
  /\ \/ /\ NumberFree(d.key, d.number)
        /\ \E w \in Windows, t \in {"free", "paid"}, s \in ScheduleFor(d.key), auto \in BOOLEAN :
             /\ d.key \in ScheduleKeys => ~auto
             /\ d.key \in PlanKeys => t = "paid"           \* plans carry no tiers
             /\ versions' = [versions EXCEPT ![CHOOSE i \in Unused : TRUE] =
                  [key |-> d.key, version |-> d.number, state |-> "draft", terms |-> t,
                   window |-> w, schedule |-> s, auto |-> auto]]
     \/ ~NumberFree(d.key, d.number) /\ UNCHANGED versions
  /\ Dismiss(a) /\ UNCHANGED publishedAs

\* requireDraft, on the row as it was read.
ReadDraft(a, i) ==
  /\ desks[a] = AtRest /\ versions[i].state = "draft"
  /\ desks' = [desks EXCEPT ![a] = [doing |-> "editing", key |-> "none", number |-> i]]
  /\ UNCHANGED <<versions, publishedAs>>

\* UPDATE ... WHERE id = :id AND lifecycle_state = 'draft'; it locks the row, so
\* replaceTiers writes the tiers of a draft.
EditLands(i) == versions[i].state = "draft"

WriteEdit(a) ==
  LET i == desks[a].number IN
  /\ desks[a].doing = "editing"
  /\ \/ /\ EditLands(i)
        /\ \E w \in Windows, t \in {"free", "paid"}, s \in ScheduleFor(versions[i].key), auto \in BOOLEAN :
             /\ versions[i].key \in PlanKeys => t = "paid"
             /\ versions[i].key \in ScheduleKeys => ~auto
             /\ versions' = [versions EXCEPT ![i] =
                  [key |-> @.key, version |-> @.version, state |-> @.state, terms |-> t,
                   window |-> w, schedule |-> s, auto |-> auto]]
     \/ ~EditLands(i) /\ UNCHANGED versions
  /\ Dismiss(a) /\ UNCHANGED publishedAs

\* discard: DELETE ... WHERE lifecycle_state = 'draft'; a plan's foreign key keeps its schedule.
Discard(i) ==
  /\ versions[i].state = "draft" /\ \A j \in Existing : versions[j].schedule # i
  /\ versions' = [versions EXCEPT ![i] = Discarded]
  /\ desks' = [a \in Administrators |-> IF desks[a].doing = "editing" /\ desks[a].number = i
                                        THEN AtRest ELSE desks[a]]
  /\ UNCHANGED publishedAs

---------------------------------------------------------------------------
(* Transitions.                                                            *)

Overlap(i, j) == versions[i].window \cap versions[j].window # {}
\* The exclusion constraints: drafts are exempt, retired versions are not.
Excluded(i, j) ==
  /\ i # j /\ versions[j].state \in {"published", "retired"} /\ Overlap(i, j)
  /\ \/ versions[i].key = versions[j].key
     \/ versions[i].auto /\ versions[j].auto

WindowFree(i) == \A j \in Existing : ~Excluded(i, j)

\* The publication trigger of plan versions.
Sellable(i) ==
  LET s == versions[i].schedule IN
  versions[i].key \in PlanKeys =>
    /\ versions[s].state = "published"
    /\ versions[i].auto => versions[s].terms = "free"

Publish(i) ==
  /\ versions[i].state = "draft" /\ WindowFree(i) /\ Sellable(i)
  /\ versions' = [versions EXCEPT ![i].state = "published"]
  /\ publishedAs' = [publishedAs EXCEPT ![i] = versions'[i]]
  /\ UNCHANGED desks

Retire(i) ==
  /\ versions[i].state = "published"
  /\ versions' = [versions EXCEPT ![i].state = "retired"]
  /\ UNCHANGED <<desks, publishedAs>>

---------------------------------------------------------------------------
CatalogueNext ==
  \/ \E a \in Administrators : \/ \E key \in PlanKeys \union ScheduleKeys : Allocate(a, key)
                               \/ \E i \in RowIds : ReadDraft(a, i)
                               \/ InsertDraft(a) \/ WriteEdit(a)
  \/ \E i \in RowIds : Discard(i) \/ Publish(i) \/ Retire(i)

CatalogueSpec == CatalogueInit /\ [][CatalogueNext]_catalogueVars

---------------------------------------------------------------------------
\* activePlanVersionQuery, what resolveActivePlanVersion and
\* resolveAutoAssignablePlanVersion take one row of.
ActiveAt(t) == {i \in InState("published") : t \in versions[i].window}

\* Whatever was drafted, edited and published at once, an instant has at most
\* one active version of a key and at most one plan to assign automatically, so
\* getOne() has nothing to choose (resolveActivePlanVersion).
ResolutionUnambiguous ==
  \A t \in Instants : \A i, j \in ActiveAt(t) :
    versions[i].key = versions[j].key \/ (versions[i].auto /\ versions[j].auto) => i = j

\* The plan every new seller is given stays free of charge: the schedule it was
\* published against keeps the terms it was published with, although an edit of
\* that schedule may have read it as a draft (updateScheduleVersionDraft).
AutoAssignedIsFree ==
  \A i \in InState("published") : versions[i].auto =>
    versions[versions[i].schedule].terms = "free"

\* What was published is never rewritten, only retired.
PublishedTermsFixed ==
  \A i \in InState("published") \union InState("retired") :
    [versions[i] EXCEPT !.state = "published"] = publishedAs[i]
=============================================================================
