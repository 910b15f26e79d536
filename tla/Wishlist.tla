------------------------------ MODULE Wishlist ------------------------------
(***************************************************************************)
(* One customer's saved items: concurrent saves under the cap, removals,    *)
(* targets that become unavailable, and a client paging through the list    *)
(* with the opaque cursor, which carries the last row's instant to the      *)
(* millisecond while the table keeps microseconds.                          *)
(***************************************************************************)
EXTENDS Naturals, FiniteSets

CONSTANTS
  SaveCalls,      \* calls of save
  Targets,        \* what can be saved; the numbers order the row ids
  MaxSaved,       \* WISHLIST_MAX_SAVED_ITEMS
  WishPageSize,   \* rows of a page
  MaxInstant      \* bound on the microsecond clock

ASSUME WishlistAssumption ==
  Targets \subseteq Nat /\ {MaxSaved, MaxInstant} \subseteq Nat /\ WishPageSize \in Nat \ {0}

VARIABLES
  instant,      \* now(), in microseconds
  savedAt,      \* wishlist.saved_items: created_at of each saved target
  unavailable,  \* targets deleted or suspended by their owner
  saving,       \* save calls
  paging,       \* the client that reads the list page by page
  repeated      \* observer: a page showed a row of an earlier page

wishlistVars == <<instant, savedAt, unavailable, saving, paging, repeated>>

Saved == DOMAIN savedAt
Millisecond(t) == t \div 2   \* two microseconds to a millisecond
NotStarted == [stage |-> "none", before |-> 0, id |-> 0, shown |-> {}, expected |-> {}]

WishlistTypeOK ==
  /\ instant \in 0 .. MaxInstant /\ Saved \subseteq Targets /\ \A t \in Saved : savedAt[t] \in 0 .. MaxInstant
  /\ unavailable \subseteq Targets /\ repeated \in BOOLEAN
  /\ saving \in [SaveCalls -> [stage : {"new", "locked", "done"}, target : Targets \union {0}, began : Nat, held : Nat]]
  /\ paging.stage \in {"none", "next", "end"} /\ paging.shown \subseteq Targets

WishlistInit ==
  /\ instant = 0 /\ savedAt = [t \in {} |-> 0] /\ unavailable = {}
  /\ saving = [k \in SaveCalls |-> [stage |-> "new", target |-> 0, began |-> 0, held |-> 0]]
  /\ paging = NotStarted /\ repeated = FALSE

Answer(k) == saving' = [saving EXCEPT ![k] = [stage |-> "done", target |-> 0, began |-> 0, held |-> 0]]

\* pg_advisory_xact_lock on the customer.
SubjectFree(k) == \A j \in SaveCalls : saving[j].stage # "locked"

\* save: an item that exists is returned without counting or locking.
SaveAgain(k, t) ==
  /\ saving[k].stage = "new" /\ t \in Saved
  /\ Answer(k)
  /\ UNCHANGED <<instant, savedAt, unavailable, paging, repeated>>

\* The lock, then the count; now() is when the transaction began.
LockAndCount(k, t) ==
  /\ saving[k].stage = "new" /\ t \notin Saved /\ SubjectFree(k)
  /\ \E began \in 0 .. instant :
       saving' = [saving EXCEPT ![k] = [stage |-> "locked", target |-> t, began |-> began, held |-> Cardinality(Saved)]]
  /\ UNCHANGED <<instant, savedAt, unavailable, paging, repeated>>

\* The cap, the availability, insertOnce.
InsertItem(k) ==
  LET t == saving[k].target IN
  /\ saving[k].stage = "locked"
  /\ \/ /\ saving[k].held < MaxSaved /\ t \notin unavailable /\ t \notin Saved
        /\ savedAt' = [u \in Saved \union {t} |-> IF u = t THEN saving[k].began ELSE savedAt[u]]
     \/ /\ saving[k].held >= MaxSaved \/ t \in unavailable \/ t \in Saved
        /\ UNCHANGED savedAt
  /\ Answer(k)
  /\ UNCHANGED <<instant, unavailable, paging, repeated>>

RemoveItem(t) ==
  /\ t \in Saved
  /\ savedAt' = [u \in Saved \ {t} |-> savedAt[u]]
  /\ paging' = [paging EXCEPT !.expected = @ \ {t}]
  /\ UNCHANGED <<instant, unavailable, saving, repeated>>

\* The owner deletes or suspends the target; nothing of the wishlist changes.
TargetGoes(t) ==
  /\ t \notin unavailable /\ unavailable' = unavailable \union {t}
  /\ UNCHANGED <<instant, savedAt, saving, paging, repeated>>

\* ORDER BY created_at DESC, id DESC.
Precedes(a, b) == savedAt[a] > savedAt[b] \/ (savedAt[a] = savedAt[b] /\ a > b)
\* (created_at, id) < the cursor's pair.
PastCursor(t) == paging.stage = "none" \/ savedAt[t] < paging.before
                   \/ (savedAt[t] = paging.before /\ t < paging.id)
\* Mutant: rows of vanished targets are filtered out of the page.
ListedAvailable == {t \in Saved \ unavailable : PastCursor(t)}
\* The query reads saved_items alone.
Listed == {t \in Saved : PastCursor(t)}
PageOf(rows) == {t \in rows : Cardinality({u \in rows : Precedes(u, t)}) < WishPageSize}

\* Rows saved in one millisecond, which the cursor cannot tell apart.
Indistinct == {t \in Saved : \E u \in Saved \ {t} : Millisecond(savedAt[u]) = Millisecond(savedAt[t])}

\* list: the cursor is the last row's instant, to the millisecond, and its id.
ReadWishes ==
  LET page == PageOf(Listed)
      last == CHOOSE t \in page : \A u \in page : u = t \/ Precedes(u, t) IN
  /\ paging.stage # "end"
  /\ paging' = [stage |-> IF Listed = page THEN "end" ELSE "next",
                before |-> IF Listed = page THEN 0 ELSE 2 * Millisecond(savedAt[last]),
                id |-> IF Listed = page THEN 0 ELSE last,
                shown |-> paging.shown \union page,
                expected |-> (IF paging.stage = "none" THEN Saved ELSE paging.expected) \ Indistinct]
  /\ repeated' = (repeated \/ page \cap paging.shown \cap paging.expected # {})
  /\ UNCHANGED <<instant, savedAt, unavailable, saving>>

InstantPasses ==
  /\ instant < MaxInstant /\ instant' = instant + 1
  /\ UNCHANGED <<savedAt, unavailable, saving, paging, repeated>>

WishlistNext ==
  \/ \E k \in SaveCalls, t \in Targets : SaveAgain(k, t) \/ LockAndCount(k, t)
  \/ \E k \in SaveCalls : InsertItem(k)
  \/ \E t \in Targets : RemoveItem(t) \/ TargetGoes(t)
  \/ ReadWishes \/ InstantPasses

WishlistSpec == WishlistInit /\ [][WishlistNext]_wishlistVars

---------------------------------------------------------------------------
\* No more items than the cap are held, whatever saves run at once (save's lock).
WishCapHolds == Cardinality(Saved) <= MaxSaved

\* "A professional suspended between page 1 and page 2 cannot make a row skip,
\* repeat, or move": a client that reads to the end has been shown, once, every
\* item held throughout, unless two were saved in the same millisecond (list).
PagingComplete ==
  /\ ~repeated
  /\ paging.stage = "end" => paging.expected \subseteq paging.shown

\* The list stays within its cap and is read to the end without a gap.
WishlistConsistent == WishlistTypeOK /\ WishCapHolds /\ PagingComplete
=============================================================================
