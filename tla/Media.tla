-------------------------------- MODULE Media --------------------------------
(***************************************************************************)
(* Images of one owner and one purpose, the profile image: an upload grant, *)
(* the bytes in the object store, the finalisation that accepts or rejects  *)
(* them, the image's use as the professional's profile image, abuse reports *)
(* and the sweep that reaps expired grants.  The database row and the bytes *)
(* are two stores: every operation below that touches both does it in two   *)
(* steps, and the second may not happen.                                    *)
(***************************************************************************)
EXTENDS Naturals, FiniteSets

CONSTANTS
  MediaIds,
  GrantCalls,        \* concurrent requests for an upload grant
  FinalizeCalls,     \* concurrent finalisations
  ImageCalls,        \* concurrent changes of the profile image
  PerUserQuota,
  MaxPendingGrants   \* MAX_PENDING_GRANTS_PER_USER

ASSUME MediaAssumption ==
  /\ PerUserQuota \in Nat \ {0} /\ MaxPendingGrants \in Nat \ {0}
  /\ IsFiniteSet(MediaIds) /\ IsFiniteSet(GrantCalls)

VARIABLES
  objects,     \* media.objects: the status, and whether the grant's time is over
  bytes,       \* the object store
  grantCalls,  \* "counted" after the two counts, before the insert
  finalizes,   \* what each finalisation saw
  profileImage,\* professionals.avatar_media_id
  imageCalls,  \* the open change of the profile image: the column as read
  purges,      \* objects marked deleted whose bytes a caller still has to remove
  abuse        \* the abuse report of each object

mediaVars == <<objects, bytes, grantCalls, finalizes, profileImage, imageCalls, purges, abuse>>

NoImage == "no image"
NotFinalizing == [at |-> "idle", media |-> NoImage]
NotChanging == [at |-> "idle", old |-> NoImage, new |-> NoImage]

MediaTypeOK ==
  /\ objects \in [MediaIds -> [status : {"none", "pending", "stored", "deleted"}, stale : BOOLEAN]]
  /\ bytes \in [MediaIds -> {"none", "image", "other"}]
  /\ grantCalls \in [GrantCalls -> {"idle", "counted"}]
  /\ finalizes \in [FinalizeCalls ->
       [at : {"idle", "read", "accepted", "rejected", "discarding"}, media : MediaIds \union {NoImage}]]
  /\ profileImage \in MediaIds \union {NoImage}
  /\ imageCalls \in [ImageCalls -> [at : {"idle", "open"}, old : MediaIds \union {NoImage},
                                    new : MediaIds \union {NoImage}]]
  /\ purges \subseteq MediaIds
  /\ abuse \in [MediaIds -> {"none", "open", "upheld", "rejected"}]

MediaInit ==
  /\ objects = [m \in MediaIds |-> [status |-> "none", stale |-> FALSE]]
  /\ bytes = [m \in MediaIds |-> "none"]
  /\ grantCalls = [c \in GrantCalls |-> "idle"]
  /\ finalizes = [f \in FinalizeCalls |-> NotFinalizing]
  /\ profileImage = NoImage
  /\ imageCalls = [c \in ImageCalls |-> NotChanging]
  /\ purges = {}
  /\ abuse = [m \in MediaIds |-> "none"]

WithStatus(st) == {m \in MediaIds : objects[m].status = st}
Marked(m, st) == [objects EXCEPT ![m].status = st]

---------------------------------------------------------------------------
(* Upload.                                                                 *)

BelowPendingLimit == Cardinality(WithStatus("pending")) < MaxPendingGrants

\* createUploadGrant: two counts ...
CountObjects(c) ==
  /\ grantCalls[c] = "idle"
  /\ Cardinality(WithStatus("stored")) < PerUserQuota /\ BelowPendingLimit
  /\ grantCalls' = [grantCalls EXCEPT ![c] = "counted"]
  /\ UNCHANGED <<objects, bytes, finalizes, profileImage, imageCalls, purges, abuse>>

\* ... then the insert of a new row.
InsertGrant(c) ==
  /\ grantCalls[c] = "counted"
  /\ \E m \in WithStatus("none") : objects' = Marked(m, "pending")
  /\ grantCalls' = [grantCalls EXCEPT ![c] = "idle"]
  /\ UNCHANGED <<bytes, finalizes, profileImage, imageCalls, purges, abuse>>

\* The client uploads under its grant, perhaps again: acceptDirectUpload takes
\* the bytes of a pending object, a store with upload addresses of its own takes
\* them until the grant lapses.
Upload(m) ==
  /\ objects[m].status # "none" /\ ~objects[m].stale
  /\ \E b \in {"image", "other"} : bytes' = [bytes EXCEPT ![m] = b]
  /\ UNCHANGED <<objects, grantCalls, finalizes, profileImage, imageCalls, purges, abuse>>

\* UPLOAD_GRANT_TTL_SECONDS pass.
GrantLapses(m) ==
  /\ objects[m].status # "none" /\ ~objects[m].stale
  /\ objects' = [objects EXCEPT ![m].stale = TRUE]
  /\ UNCHANGED <<bytes, grantCalls, finalizes, profileImage, imageCalls, purges, abuse>>

---------------------------------------------------------------------------
(* finalize.                                                               *)

Finalizing(f, at, m) ==
  /\ finalizes' = [finalizes EXCEPT ![f] = [at |-> at, media |-> m]]
  /\ UNCHANGED <<grantCalls, profileImage, imageCalls, purges, abuse>>

\* The row is read: deleted is refused, stored is returned as it is.
ReadForFinalize(f, m) ==
  /\ finalizes[f].at = "idle" /\ objects[m].status = "pending"
  /\ Finalizing(f, "read", m) /\ UNCHANGED <<objects, bytes>>

\* head, readRange and probeImage, on the bytes as they are now.
Probe(f) ==
  LET m == finalizes[f].media IN
  /\ finalizes[f].at = "read"
  /\ CASE bytes[m] = "none" -> Finalizing(f, "idle", NoImage)
       [] bytes[m] = "image" -> Finalizing(f, "accepted", m)
       [] bytes[m] = "other" -> Finalizing(f, "rejected", m)
  /\ UNCHANGED <<objects, bytes>>

\* Mutant: the row is claimed whatever became of it.
ClaimableAlways(m) == TRUE
\* UPDATE ... WHERE id = :id AND status = 'pending'.
Claimable(m) == objects[m].status = "pending"

ClaimStored(f) ==
  LET m == finalizes[f].media IN
  /\ finalizes[f].at = "accepted"
  /\ objects' = IF Claimable(m) THEN Marked(m, "stored") ELSE objects
  /\ Finalizing(f, "idle", NoImage) /\ UNCHANGED bytes

\* discard: the bytes first (the store may refuse) ...
DiscardBytes(f) ==
  LET m == finalizes[f].media IN
  /\ finalizes[f].at = "rejected"
  /\ bytes' \in {bytes, [bytes EXCEPT ![m] = "none"]}
  /\ Finalizing(f, "discarding", m) /\ UNCHANGED objects

\* ... then the row, whatever its status has become.
DiscardRow(f) ==
  LET m == finalizes[f].media IN
  /\ finalizes[f].at = "discarding"
  /\ objects' = Marked(m, "deleted")
  /\ Finalizing(f, "idle", NoImage) /\ UNCHANGED bytes

---------------------------------------------------------------------------
(* The profile image.                                                      *)

\* setProfileImage: the column and the new object are read ...
ReadProfile(c, m) ==
  /\ imageCalls[c].at = "idle"
  /\ m = NoImage \/ m \in WithStatus("stored")
  /\ imageCalls' = [imageCalls EXCEPT ![c] = [at |-> "open", old |-> profileImage, new |-> m]]
  /\ UNCHANGED <<objects, bytes, grantCalls, finalizes, profileImage, purges, abuse>>

\* ... then the column is written and the image it held, if still live, marked
\* deleted, its bytes to be purged after the commit.
WriteProfile(c) ==
  LET old == imageCalls[c].old
      gone == {old} \ ({NoImage, imageCalls[c].new} \union WithStatus("deleted")) IN
  /\ imageCalls[c].at = "open"
  /\ profileImage' = imageCalls[c].new
  /\ objects' = [m \in MediaIds |-> IF m \in gone THEN [objects[m] EXCEPT !.status = "deleted"]
                                    ELSE objects[m]]
  /\ purges' = purges \union gone
  /\ imageCalls' = [imageCalls EXCEPT ![c] = NotChanging]
  /\ UNCHANGED <<bytes, grantCalls, finalizes, abuse>>

\* purgeBytes, best effort: the bytes go, or stay for ever.
Purge(m) ==
  /\ m \in purges
  /\ purges' = purges \ {m}
  /\ bytes' \in {bytes, [bytes EXCEPT ![m] = "none"]}
  /\ UNCHANGED <<objects, grantCalls, finalizes, profileImage, imageCalls, abuse>>

---------------------------------------------------------------------------
(* Moderation and the sweep.                                               *)

ReportAbuse(m) ==
  /\ objects[m].status = "stored" /\ abuse[m] = "none"
  /\ abuse' = [abuse EXCEPT ![m] = "open"]
  /\ UNCHANGED <<objects, bytes, grantCalls, finalizes, profileImage, imageCalls, purges>>

\* decideAbuseReport: a compare-and-swap on the report; the object it upholds is
\* taken down, and its bytes purged after the commit even if the owner was first.
DecideAbuse(m, decision) ==
  /\ abuse[m] = "open"
  /\ abuse' = [abuse EXCEPT ![m] = decision]
  /\ objects' = IF decision = "upheld" /\ objects[m].status = "stored" THEN Marked(m, "deleted") ELSE objects
  /\ purges' = IF decision = "upheld" THEN purges \union {m} ELSE purges
  /\ UNCHANGED <<bytes, grantCalls, finalizes, profileImage, imageCalls>>

\* reapExpiredGrants: the row is claimed from pending, then the bytes removed.
Reap(m) ==
  /\ objects[m].stale /\ objects[m].status = "pending"
  /\ objects' = Marked(m, "deleted") /\ purges' = purges \union {m}
  /\ UNCHANGED <<bytes, grantCalls, finalizes, profileImage, imageCalls, abuse>>

\* eraseSubjectData of the owner, then the purge of what was not deleted yet.
EraseOwner ==
  /\ WithStatus("pending") \union WithStatus("stored") # {}
  /\ objects' = [m \in MediaIds |-> IF objects[m].status = "none" THEN objects[m]
                                    ELSE [objects[m] EXCEPT !.status = "deleted"]]
  /\ purges' = purges \union WithStatus("pending") \union WithStatus("stored")
  /\ UNCHANGED <<bytes, grantCalls, finalizes, profileImage, imageCalls, abuse>>

---------------------------------------------------------------------------
MediaNext ==
  \/ \E c \in GrantCalls : CountObjects(c) \/ InsertGrant(c)
  \/ \E f \in FinalizeCalls : \/ \E m \in MediaIds : ReadForFinalize(f, m)
                              \/ Probe(f) \/ ClaimStored(f) \/ DiscardBytes(f) \/ DiscardRow(f)
  \/ \E c \in ImageCalls : \/ \E m \in MediaIds \union {NoImage} : ReadProfile(c, m)
                           \/ WriteProfile(c)
  \/ \E m \in MediaIds : \/ Upload(m) \/ GrantLapses(m) \/ Purge(m) \/ ReportAbuse(m) \/ Reap(m)
                         \/ \E d \in {"upheld", "rejected"} : DecideAbuse(m, d)
  \/ EraseOwner

MediaSpec == MediaInit /\ [][MediaNext]_mediaVars

---------------------------------------------------------------------------
\* An image that is offered for display has its bytes, whatever was finalised,
\* reaped, replaced and taken down at once; the only gap is a rejection that has
\* removed the bytes and is about to remove the row (finalize, discard, reap).
StoredHasBytes ==
  \A m \in WithStatus("stored") :
    bytes[m] # "none" \/ \E f \in FinalizeCalls : finalizes[f] = [at |-> "discarding", media |-> m]

\* perUserQuota is checked when an upload is granted and never when it is
\* finalised, so an owner may pass it, but by no more than the grants that can be
\* open at once: the pending limit and the calls that counted together.
QuotaSlack ==
  Cardinality(WithStatus("stored")) + Cardinality(WithStatus("pending"))
    <= PerUserQuota + MaxPendingGrants + Cardinality(GrantCalls) - 2

\* Every image shown has its bytes and counts against the quota (requestUpload,
\* finalize, discard, reap).
ImagesAccountedFor == MediaTypeOK /\ StoredHasBytes /\ QuotaSlack
=============================================================================
