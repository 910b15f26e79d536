----------------------------- MODULE SearchIndex -----------------------------
(***************************************************************************)
(* The search projection of one professional: profile and imagery changes   *)
(* arrive as events at least once and in any order, are folded into a       *)
(* document in PostgreSQL, and the document is pushed to the engine by the  *)
(* sweep (flushDirty) and by administrators' rebuilds (fullReindex), which  *)
(* may overlap: the sweep is a timer that does not wait for its last run.   *)
(*                                                                         *)
(* Content is abstracted to the revision that wrote it; a removal is one    *)
(* more content.  The ranking score is left out.                            *)
(***************************************************************************)
EXTENDS Naturals

CONSTANTS
  Pushers,         \* runs of flushDirty and fullReindex
  MaxRevision,     \* bound on the professional's changes
  MaxGeneration,   \* bound on the physical indexes
  MaxEngineFaults  \* bound on the pushes the engine refuses

ASSUME SearchIndexAssumption == MaxRevision \in Nat \ {0} /\ {MaxGeneration, MaxEngineFaults} \subseteq Nat

VARIABLES
  source,      \* provider.professionals: revision, and who wrote profile and imagery last
  sent,        \* the events ever emitted; each may be delivered any number of times
  document,    \* search.provider_documents; revision 0 is no row
  dirty,       \* index_dirty_since is set
  engine,      \* the physical indexes: the content each holds, 0 for none
  alias, recorded,  \* the generation the alias points at, and the one of index_state
  pushers,
  engineFaults, \* pushes refused so far
  flushesMet   \* observer: two pushes overlapped, or a change met a rebuild

searchVars == <<source, sent, document, dirty, engine, alias, recorded, pushers, engineFaults, flushesMet>>

Revisions == 0 .. MaxRevision
Generations == 0 .. MaxGeneration
Content == [profile : Revisions, media : Revisions]
NothingIndexed == [profile |-> 0, media |-> 0]
NotPushing == [job |-> "none", at |-> "idle", content |-> NothingIndexed, fresh |-> FALSE, target |-> 0]
ContentOf(d) == [profile |-> d.profile, media |-> d.media]

SearchTypeOK ==
  /\ source \in [revision : Revisions, profile : Revisions, media : Revisions]
  /\ sent \subseteq [kind : {"profile", "media"}, revision : Revisions]
  /\ document \in [revision : Revisions, profile : Revisions, media : Revisions]
  /\ dirty \in BOOLEAN /\ flushesMet \in BOOLEAN /\ engineFaults \in 0 .. MaxEngineFaults
  /\ engine \in [Generations -> Content] /\ alias \in Generations /\ recorded \in Generations
  /\ pushers \in [Pushers ->
       [job : {"none", "flush", "reindex"}, fresh : BOOLEAN, content : Content, target : Generations,
        at : {"idle", "read", "located", "aliased", "building", "copied", "filled", "swapped", "recorded"}]]

SearchInit ==
  /\ source = [revision |-> 0, profile |-> 0, media |-> 0]
  /\ sent = {}
  /\ document = [revision |-> 0, profile |-> 0, media |-> 0]
  /\ dirty = FALSE
  /\ engine = [g \in Generations |-> NothingIndexed]
  /\ alias = 0 /\ recorded = 0
  /\ pushers = [p \in Pushers |-> NotPushing]
  /\ flushesMet = FALSE /\ engineFaults = 0

Pushing == {p \in Pushers : pushers[p].at # "idle"}
Rebuilding == {p \in Pushers : pushers[p].job = "reindex"}

---------------------------------------------------------------------------
(* Events.                                                                 *)

\* bumpRevision and emitProfessionalUpdated, or emitMediaChanged: one counter for both.
Change(kind) ==
  /\ source.revision < MaxRevision
  /\ source.profile # 0 \/ kind = "profile"    \* the profile comes first
  /\ LET r == source.revision + 1 IN
     /\ source' = IF kind = "profile" THEN [source EXCEPT !.revision = r, !.profile = r]
                  ELSE [source EXCEPT !.revision = r, !.media = r]
     /\ sent' = sent \union {[kind |-> kind, revision |-> r]}
  /\ UNCHANGED <<document, dirty, engine, alias, recorded, pushers, engineFaults, flushesMet>>

\* Every accepted write marks the row dirty, at an instant later than the one a
\* running flush has seen.
Accepted(d) ==
  /\ document' = d
  /\ dirty' = TRUE
  /\ pushers' = [p \in Pushers |-> [pushers[p] EXCEPT !.fresh = FALSE]]
  /\ flushesMet' = (flushesMet \/ Rebuilding # {})
  /\ UNCHANGED <<source, sent, engine, alias, recorded, engineFaults>>

\* ON CONFLICT DO UPDATE ... WHERE revision < EXCLUDED.revision.
Newer(r) == document.revision < r

\* applyProfessional; a stale event changes nothing.
ApplyProfessional(e) ==
  /\ e \in sent /\ e.kind = "profile" /\ Newer(e.revision)
  /\ Accepted([document EXCEPT !.revision = e.revision, !.profile = e.revision])

\* applyMedia: an update, so nothing without a row, and equal revisions write again.
ApplyMedia(e) ==
  /\ e \in sent /\ e.kind = "media"
  /\ document.revision # 0 /\ document.revision <= e.revision
  /\ Accepted([document EXCEPT !.revision = e.revision, !.media = e.revision])

\* rebuildProjectionFromSource applies profile and imagery at the source's revision.
RebuildProjection ==
  /\ source.revision # 0 /\ document.revision <= source.revision
  /\ Accepted([revision |-> source.revision, media |-> source.media,
               profile |-> IF Newer(source.revision) THEN source.profile ELSE document.profile])

---------------------------------------------------------------------------
(* flushDirty.                                                             *)

Pushed(p, t) == /\ pushers' = [pushers EXCEPT ![p] = t]
                /\ UNCHANGED <<source, sent, document>>
Refuses == engineFaults < MaxEngineFaults /\ engineFaults' = engineFaults + 1
At(p, job, at) == pushers[p].job = job /\ pushers[p].at = at

\* The dirty row is read, with its dirty mark.
FlushRead(p) ==
  /\ pushers[p].at = "idle" /\ dirty
  /\ Pushed(p, [NotPushing EXCEPT !.job = "flush", !.at = "read", !.fresh = TRUE,
                  !.content = ContentOf(document)])
  /\ flushesMet' = (flushesMet \/ Pushing # {})
  /\ UNCHANGED <<dirty, engine, alias, recorded, engineFaults>>

\* ensureAliasReady: the recorded index, then the alias set to it.
FlushLocate(p) ==
  /\ At(p, "flush", "read")
  /\ Pushed(p, [pushers[p] EXCEPT !.at = "located", !.target = recorded])
  /\ UNCHANGED <<dirty, engine, alias, recorded, flushesMet, engineFaults>>
FlushAlias(p) ==
  /\ At(p, "flush", "located")
  /\ alias' = pushers[p].target
  /\ Pushed(p, [pushers[p] EXCEPT !.at = "aliased"])
  /\ UNCHANGED <<dirty, engine, recorded, flushesMet, engineFaults>>

\* indexDocuments or deleteDocument; if the engine fails the row stays dirty.
FlushPush(p) ==
  /\ At(p, "flush", "aliased")
  /\ \/ /\ engine' = [engine EXCEPT ![pushers[p].target] = pushers[p].content]
        /\ Pushed(p, [pushers[p] EXCEPT !.at = "filled"]) /\ UNCHANGED engineFaults
     \/ /\ Refuses /\ Pushed(p, NotPushing) /\ UNCHANGED engine
  /\ UNCHANGED <<dirty, alias, recorded, flushesMet>>

\* Mutant: the mark is cleared whatever it has become.
SeenLastAlways(p) == TRUE
\* ... WHERE index_dirty_since <= :seen.
SeenLast(p) == pushers[p].fresh

FlushClear(p) ==
  /\ At(p, "flush", "filled")
  /\ dirty' = (dirty /\ ~SeenLast(p))
  /\ Pushed(p, NotPushing)
  /\ UNCHANGED <<engine, alias, recorded, flushesMet, engineFaults>>

---------------------------------------------------------------------------
(* fullReindex.                                                            *)

ReindexStart(p) ==
  /\ pushers[p].at = "idle" /\ recorded < MaxGeneration
  /\ Pushed(p, [NotPushing EXCEPT !.job = "reindex", !.at = "building", !.target = recorded + 1])
  /\ flushesMet' = (flushesMet \/ Pushing # {})
  /\ UNCHANGED <<dirty, engine, alias, recorded, engineFaults>>

\* A page of documents is read ...
ReindexCopy(p) ==
  /\ At(p, "reindex", "building")
  /\ Pushed(p, [pushers[p] EXCEPT !.at = "copied", !.content = ContentOf(document)])
  /\ UNCHANGED <<dirty, engine, alias, recorded, flushesMet, engineFaults>>
\* ... and pushed to the new index, or the rebuild fails.
ReindexFill(p) ==
  /\ At(p, "reindex", "copied")
  /\ \/ /\ engine' = [engine EXCEPT ![pushers[p].target] = pushers[p].content]
        /\ Pushed(p, [pushers[p] EXCEPT !.at = "filled"]) /\ UNCHANGED engineFaults
     \/ Refuses /\ Pushed(p, NotPushing) /\ UNCHANGED engine
  /\ UNCHANGED <<dirty, alias, recorded, flushesMet>>
ReindexSwap(p) ==
  /\ At(p, "reindex", "filled")
  /\ alias' = pushers[p].target
  /\ Pushed(p, [pushers[p] EXCEPT !.at = "swapped"])
  /\ UNCHANGED <<dirty, engine, recorded, flushesMet, engineFaults>>
ReindexRecord(p) ==
  /\ At(p, "reindex", "swapped")
  /\ recorded' = pushers[p].target
  /\ Pushed(p, [pushers[p] EXCEPT !.at = "recorded"])
  /\ UNCHANGED <<dirty, engine, alias, flushesMet, engineFaults>>
\* Every dirty mark is cleared.
ReindexClear(p) ==
  /\ At(p, "reindex", "recorded")
  /\ dirty' = FALSE
  /\ Pushed(p, NotPushing)
  /\ UNCHANGED <<engine, alias, recorded, flushesMet, engineFaults>>

---------------------------------------------------------------------------
FlushStep(p) == FlushLocate(p) \/ FlushAlias(p) \/ FlushPush(p) \/ FlushClear(p)
ReindexStep(p) ==
  ReindexCopy(p) \/ ReindexFill(p) \/ ReindexSwap(p) \/ ReindexRecord(p) \/ ReindexClear(p)

SearchNext ==
  \/ \E kind \in {"profile", "media"} : Change(kind)
  \/ \E e \in sent : ApplyProfessional(e) \/ ApplyMedia(e)
  \/ RebuildProjection
  \/ \E p \in Pushers :
       FlushRead(p) \/ FlushStep(p) \/ ReindexStart(p) \/ ReindexStep(p)

\* The sweep of Phase3SweepScheduler ticks and a call that is pending returns.
SearchFairness ==
  /\ WF_searchVars(\E p \in Pushers : FlushRead(p))
  /\ \A p \in Pushers :
       WF_searchVars(FlushStep(p) \/ ReindexStep(p))

SearchSpec == SearchInit /\ [][SearchNext]_searchVars /\ SearchFairness

---------------------------------------------------------------------------
\* A clean document is the one that searches answer with, as long as pushes ran
\* one at a time and no change met a rebuild: an event that arrives while the
\* sweep pushes keeps its row dirty (flushDirty's clearing predicate).
CleanIsIndexed ==
  (~dirty /\ Pushing = {} /\ ~flushesMet) => engine[alias] = ContentOf(document)

\* Redelivered and reordered events never take the document back to an older
\* profile or older imagery (the revision guards).
NeverBackwards ==
  [][document'.profile >= document.profile /\ document'.media >= document.media
     /\ document'.revision >= document.revision]_searchVars

\* Every change that reached the projection is what searches answer with in the
\* end, although it may arrive while its row is being pushed and the engine may
\* fail, as long as pushes ran one at a time and no change met a rebuild
\* (flushDirty, ensureAliasReady).
ChangesSearchable == dirty ~> (engine[alias] = ContentOf(document) \/ flushesMet)
=============================================================================
