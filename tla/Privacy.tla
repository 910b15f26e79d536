------------------------------- MODULE Privacy -------------------------------
(***************************************************************************)
(* One subject's privacy requests: exports and erasures opened by the       *)
(* subject, claimed and worked on by the sweeps of several instances,       *)
(* reclaimed when they look abandoned, and the copies of the subject's data *)
(* that exist meanwhile: the stored rows, the export documents, the bytes   *)
(* of the images.  One erasure transaction covers every module's contract,  *)
(* so it is one step.                                                       *)
(***************************************************************************)
EXTENDS Naturals

CONSTANTS
  ExportIds, ErasureIds,   \* requests of the subject, of either kind
  PrivacySweeps,           \* sweeps, one per instance
  Images                   \* stored images of the subject

ASSUME PrivacyAssumption == ExportIds \cap ErasureIds = {} /\ "none" \notin ExportIds \union ErasureIds

VARIABLES
  request,      \* privacy.data_requests: status, and whether that status' deadline has passed
  payload,      \* privacy.export_payloads: whose data the document shows
  erased,       \* the subject's rows are anonymised or deleted
  images,       \* media rows that say 'stored'
  imageBytes,   \* objects in the store
  sweep,        \* what each sweep is doing
  erasedBy,     \* observer: the erasures that committed
  outlived,     \* observer: a request was reclaimed while its sweep still worked on it
  crossed,      \* observer: an erasure committed while an export document was in memory
  interrupted,  \* observer: a sweep died
  late          \* observer: images stored after an erasure had listed the ones to purge

privacyVars == <<request, payload, erased, images, imageBytes, sweep,
                 erasedBy, outlived, crossed, interrupted, late>>
observers == <<erasedBy, outlived, crossed, interrupted, late>>

RequestIds == ExportIds \union ErasureIds
NoPrivacyRequest == "none"
Resting == [stage |-> "idle", on |-> NoPrivacyRequest, doc |-> "none", purge |-> {}]

PrivacyTypeOK ==
  /\ request \in [RequestIds ->
       [status : {"none", "pending", "processing", "ready", "completed", "cancelled", "expired", "failed"},
        aged : BOOLEAN]]
  /\ payload \in [ExportIds -> {"none", "personal", "anonymous"}]
  /\ erased \in BOOLEAN /\ images \subseteq Images /\ imageBytes \subseteq Images
  /\ sweep \in [PrivacySweeps ->
       [stage : {"idle", "assembling", "saving", "listed", "erasing", "purging"},
        on : RequestIds \union {NoPrivacyRequest}, doc : {"none", "personal", "anonymous"},
        purge : SUBSET Images]]
  /\ erasedBy \subseteq ErasureIds /\ late \subseteq Images
  /\ outlived \in BOOLEAN /\ crossed \in BOOLEAN /\ interrupted \in BOOLEAN

PrivacyInit ==
  /\ request = [r \in RequestIds |-> [status |-> "none", aged |-> FALSE]]
  /\ payload = [e \in ExportIds |-> "none"]
  /\ erased = FALSE /\ images = Images /\ imageBytes = Images
  /\ sweep = [w \in PrivacySweeps |-> Resting]
  /\ erasedBy = {} /\ late = {}
  /\ outlived = FALSE /\ crossed = FALSE /\ interrupted = FALSE

Status(r) == request[r].status
To(r, status, aged) == request' = [request EXCEPT ![r] = [status |-> status, aged |-> aged]]
Working(w, stage, r, doc, purge) ==
  sweep' = [sweep EXCEPT ![w] = [stage |-> stage, on |-> r, doc |-> doc, purge |-> purge]]
Rests(w) == sweep' = [sweep EXCEPT ![w] = Resting]
SameKind(r) == IF r \in ExportIds THEN ExportIds ELSE ErasureIds

\* requestExport, requestErasure: the partial unique index admits one open
\* request of a kind.
OpenRequest(r) ==
  /\ Status(r) = "none"
  /\ \A q \in SameKind(r) : Status(q) \notin {"pending", "processing"}
  /\ To(r, "pending", FALSE)
  /\ UNCHANGED <<payload, erased, images, imageBytes, sweep, observers>>

\* Mutant: a request that is being executed can still be cancelled.
CancellableInFlight(r) == r \in ErasureIds /\ Status(r) \in {"pending", "processing"}
\* UPDATE ... WHERE kind = 'erasure' AND status = 'pending'.
Cancellable(r) == r \in ErasureIds /\ Status(r) = "pending"

CancelErasure(r) ==
  /\ Cancellable(r) /\ To(r, "cancelled", FALSE)
  /\ UNCHANGED <<payload, erased, images, imageBytes, sweep, observers>>

\* Time passes: the grace window of a pending erasure, the lifetime of a ready
\* export, the patience with a request in processing.
Age(r) ==
  /\ \/ r \in ErasureIds /\ Status(r) = "pending"
     \/ Status(r) \in {"processing", "ready"}
  /\ ~request[r].aged
  /\ request' = [request EXCEPT ![r].aged = TRUE]
  /\ UNCHANGED <<payload, erased, images, imageBytes, sweep, observers>>

\* Mutant: only exports are reclaimed.
StalledExport(r) == r \in ExportIds /\ Status(r) = "processing" /\ request[r].aged
\* status = 'processing' AND updated_at < now() - the patience.
Stalled(r) == Status(r) = "processing" /\ request[r].aged

\* reclaimStalled: an old claim is taken for an abandoned one.
ReclaimStalled(r) ==
  /\ Stalled(r)
  /\ To(r, "pending", r \in ErasureIds)
  /\ outlived' = (outlived \/ \E w \in PrivacySweeps :
                      sweep[w].on = r /\ sweep[w].stage \in {"assembling", "saving", "erasing"})
  /\ UNCHANGED <<payload, erased, images, imageBytes, sweep, erasedBy, crossed, interrupted, late>>

\* DELETE FROM export_payloads.
DocumentsWithout(gone) == [e \in ExportIds |-> IF e \in gone THEN "none" ELSE payload[e]]

\* expireStaleExports: documents first, status second, one transaction.
ExpireStaleExports ==
  LET stale == {e \in ExportIds : Status(e) = "ready" /\ request[e].aged} IN
  /\ stale # {}
  /\ payload' = DocumentsWithout(stale)
  /\ request' = [r \in RequestIds |->
                   IF r \in stale THEN [status |-> "expired", aged |-> FALSE] ELSE request[r]]
  /\ UNCHANGED <<erased, images, imageBytes, sweep, observers>>

\* claim: the compare-and-swap from 'pending' to 'processing'.
ClaimsRequest(r) == Status(r) = "pending"

\* generateExport.
ClaimExport(w, e) ==
  /\ sweep[w].stage = "idle" /\ ClaimsRequest(e)
  /\ To(e, "processing", FALSE) /\ Working(w, "assembling", e, "none", {})
  /\ UNCHANGED <<payload, erased, images, imageBytes, observers>>

\* assembleDocument: every contract's rows, read in one transaction of its own.
Assemble(w) ==
  /\ sweep[w].stage = "assembling"
  /\ Working(w, "saving", sweep[w].on, IF erased THEN "anonymous" ELSE "personal", {})
  /\ UNCHANGED <<request, payload, erased, images, imageBytes, observers>>

\* The document is saved whatever became of the request; the status is compared.
StoreExport(w) ==
  LET e == sweep[w].on IN
  /\ sweep[w].stage = "saving"
  /\ payload' = [payload EXCEPT ![e] = sweep[w].doc]
  /\ \/ Status(e) = "processing" /\ To(e, "ready", FALSE)
     \/ Status(e) # "processing" /\ UNCHANGED request
  /\ Rests(w) /\ UNCHANGED <<erased, images, imageBytes, observers>>

\* The catch blocks of generateExport and executeErasure: the transaction rolled
\* back and the status is set unconditionally.
FailRequest(w) ==
  /\ sweep[w].stage \in {"assembling", "saving", "erasing"}
  /\ To(sweep[w].on, "failed", FALSE)
  /\ Rests(w) /\ UNCHANGED <<payload, erased, images, imageBytes, observers>>

\* executeWithBytePurge: a due erasure, and the objects to purge, read first.
ListBytes(w, r) ==
  /\ sweep[w].stage = "idle" /\ Status(r) = "pending" /\ request[r].aged
  /\ Working(w, "listed", r, "none", images)
  /\ UNCHANGED <<request, payload, erased, images, imageBytes, observers>>

\* executeErasure's claim; a lost claim ends the run.
ClaimErasure(w) ==
  LET r == sweep[w].on IN
  /\ sweep[w].stage = "listed"
  /\ \/ ClaimsRequest(r) /\ To(r, "processing", FALSE) /\ Working(w, "erasing", r, "none", sweep[w].purge)
     \/ ~ClaimsRequest(r) /\ Rests(w) /\ UNCHANGED request
  /\ UNCHANGED <<payload, erased, images, imageBytes, observers>>

\* `pending`, read before the erasure.
ListedBefore(w) == sweep[w].purge

\* executeErasure's transaction: every contract (privacy's own deletes the export
\* documents and closes the ready exports, media's marks the images deleted), and
\* the request, if it is still in processing.
Erase(w) ==
  LET r == sweep[w].on
      closed == {e \in ExportIds : Status(e) = "ready"} IN
  /\ sweep[w].stage = "erasing"
  /\ erased' = TRUE /\ images' = {}
  /\ payload' = DocumentsWithout(ExportIds)
  /\ request' = [q \in RequestIds |->
                   CASE q \in closed -> [status |-> "expired", aged |-> FALSE]
                     [] q = r /\ Status(r) = "processing" -> [status |-> "completed", aged |-> FALSE]
                     [] OTHER -> request[q]]
  /\ Working(w, "purging", r, "none", ListedBefore(w))
  /\ erasedBy' = erasedBy \union {r}
  /\ crossed' = (crossed \/ \E v \in PrivacySweeps : sweep[v].doc = "personal")
  /\ UNCHANGED <<imageBytes, outlived, interrupted, late>>

\* media.purge, after the commit.
PurgeBytes(w) ==
  /\ sweep[w].stage = "purging"
  /\ imageBytes' = imageBytes \ sweep[w].purge
  /\ Rests(w) /\ UNCHANGED <<request, payload, erased, images, observers>>

\* The subject deletes an image and stores it anew while a sweep is at work.
StoreImage(i) ==
  /\ i \notin images
  /\ images' = images \union {i} /\ imageBytes' = imageBytes \union {i}
  /\ late' = IF erased \/ \E w \in PrivacySweeps : sweep[w].stage \in {"listed", "erasing", "purging"}
             THEN late \union {i} ELSE late
  /\ UNCHANGED <<request, payload, erased, sweep, erasedBy, outlived, crossed, interrupted>>
RemoveImage(i) ==
  /\ i \in images
  /\ images' = images \ {i} /\ imageBytes' = imageBytes \ {i}
  /\ UNCHANGED <<request, payload, erased, sweep, observers>>

\* An instance stops (once, to bound the model); what was committed stays.
SweepDies(w) ==
  /\ sweep[w].stage # "idle" /\ ~interrupted
  /\ Rests(w) /\ interrupted' = TRUE
  /\ UNCHANGED <<request, payload, erased, images, imageBytes, erasedBy, outlived, crossed, late>>

SweepStep(w) ==
  \/ \E e \in ExportIds : ClaimExport(w, e)
  \/ \E r \in ErasureIds : ListBytes(w, r)
  \/ Assemble(w) \/ StoreExport(w) \/ FailRequest(w)
  \/ ClaimErasure(w) \/ Erase(w) \/ PurgeBytes(w)

PrivacyNext ==
  \/ \E r \in RequestIds : OpenRequest(r) \/ CancelErasure(r) \/ Age(r) \/ ReclaimStalled(r)
  \/ ExpireStaleExports
  \/ \E w \in PrivacySweeps :
       SweepStep(w) \/ SweepDies(w)
  \/ \E i \in Images : StoreImage(i) \/ RemoveImage(i)

\* Time passes, PrivacySweepService ticks on every instance and a call that is
\* pending returns.
PrivacyFairness ==
  /\ \A r \in RequestIds : WF_privacyVars(Age(r)) /\ WF_privacyVars(ReclaimStalled(r))
  /\ \A w \in PrivacySweeps : WF_privacyVars(SweepStep(w))

PrivacySpec == PrivacyInit /\ [][PrivacyNext]_privacyVars /\ PrivacyFairness

---------------------------------------------------------------------------
\* "A subject who has asked to be erased must not leave a complete, downloadable
\* copy of their own data behind" (PrivacySubjectDataContract.eraseSubjectData).
NoCopyLeftBehind == erased => \A e \in ExportIds : payload[e] # "personal"

\* It holds unless a document was being produced when the erasure committed.
ErasureLeavesNoCopy == ~crossed => NoCopyLeftBehind

\* A committed erasure is the completed one: never a request the subject
\* cancelled, nor one recorded as failed, unless the request was reclaimed from a
\* sweep that was still working (cancelErasure, claim, executeErasure).
CancelledKeepsAccount == ~outlived => \A r \in erasedBy : Status(r) = "completed"

\* Every stored document belongs to a ready export, so expireStaleExports will
\* find and destroy it.
DocumentsExpire == ~outlived => \A e \in ExportIds : payload[e] # "none" => Status(e) = "ready"

\* Once an erasure has run to its end, no object of the subject is left in the
\* store, except what was uploaded too late to be listed or a sweep that died
\* did not get to (PrivacyErasureCompleter.executeWithBytePurge).
ErasedBytesPurged ==
  (erased /\ ~interrupted /\ \A w \in PrivacySweeps : sweep[w].stage = "idle") => imageBytes \subseteq late

\* Every request is answered in the end - executed, failed, or cancelled by its
\* subject - although the sweep that claimed it may die (reclaimStalled), unless
\* it was reclaimed from a sweep that was only slow.
RequestsSettle ==
  \A r \in RequestIds :
    (Status(r) = "pending") ~> (Status(r) \notin {"pending", "processing"} \/ outlived)

\* An erasure is the one its subject asked for and leaves neither document nor
\* bytes behind, with two sweeps at work and requests reclaimed.
ErasureIsComplete ==
  /\ PrivacyTypeOK /\ ErasureLeavesNoCopy /\ CancelledKeepsAccount
  /\ DocumentsExpire /\ ErasedBytesPurged
=============================================================================
