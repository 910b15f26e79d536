---------------------------- MODULE Notifications ----------------------------
(***************************************************************************)
(* One notification on one channel: the events that ask for it (delivered   *)
(* at least once), the reservation of its key, the attempts against the     *)
(* channel, the retry sweeps that claim it for a minute at a time, and the  *)
(* reader.  The channel is external: it may deliver and answer, deliver and *)
(* not answer, or refuse.                                                   *)
(***************************************************************************)
EXTENDS Naturals

CONSTANTS
  Requesters,   \* handlers of an event that asks for this notification
  Sweeps,       \* runs of retryDue, which may overlap
  MaxRetries,   \* the length of RETRY_BACKOFF_SECONDS
  MaxDeaths     \* bound on the workers that die

ASSUME NotificationsAssumption == MaxRetries \in Nat /\ MaxDeaths \in Nat /\ Requesters \cap Sweeps = {}

VARIABLES
  notice,      \* notification.notifications: the row of the idempotency key
  attempting,  \* what each worker is doing with it
  delivered,   \* messages the recipient got
  sentEvents,  \* NotificationSent events emitted
  disturbed,   \* observer: a worker died, an answer was lost, or an attempt outlived its claim
  overwritten, \* observer: a failure was recorded over a sent notification
  deaths       \* workers that died

noticeVars == <<notice, attempting, delivered, sentEvents, disturbed, overwritten, deaths>>

Workers == Requesters \union Sweeps
MaxSends == MaxRetries + 3   \* bound on the deliveries the model counts
NoNotice == [status |-> "none", attempts |-> 0, due |-> FALSE, read |-> FALSE]

Notice == [status : {"none", "pending", "suppressed", "sent", "failed", "dead_lettered"},
           attempts : Nat, due : BOOLEAN, read : BOOLEAN]

NoticeTypeOK ==
  /\ notice \in Notice
  /\ attempting \in [Workers -> {"idle", "sending", "accepted", "retryable", "permanent"}]
  /\ delivered \in 0 .. MaxSends /\ sentEvents \in Nat
  /\ disturbed \in BOOLEAN /\ overwritten \in BOOLEAN /\ deaths \in 0 .. MaxDeaths

NoticeInit ==
  /\ notice = NoNotice
  /\ attempting = [w \in Workers |-> "idle"]
  /\ delivered = 0 /\ sentEvents = 0
  /\ disturbed = FALSE /\ overwritten = FALSE /\ deaths = 0

Doing(w, what) == attempting' = [attempting EXCEPT ![w] = what]
Attempts == {w \in Workers : attempting[w] # "idle"}

\* insertOnce on the idempotency key.
Reserves == notice.status = "none"

\* dispatchOne: the row is reserved before anything is sent; a category the user
\* has switched off is recorded and not sent; a duplicate stops here.
Reserve(w) ==
  /\ attempting[w] = "idle" /\ Reserves
  /\ \/ notice' = [notice EXCEPT !.status = "pending"] /\ Doing(w, "sending")
     \/ notice' = [notice EXCEPT !.status = "suppressed"] /\ UNCHANGED attempting
  /\ UNCHANGED <<delivered, sentEvents, disturbed, overwritten, deaths>>

\* port.send, external.
Send(w) ==
  /\ attempting[w] = "sending"
  /\ \/ /\ delivered < MaxSends /\ delivered' = delivered + 1
        /\ Doing(w, "accepted") /\ UNCHANGED disturbed
     \/ \* delivered, and the answer lost: channel_exception
        /\ delivered < MaxSends /\ delivered' = delivered + 1
        /\ Doing(w, "retryable") /\ disturbed' = TRUE
     \/ \E refusal \in {"retryable", "permanent"} : Doing(w, refusal) /\ UNCHANGED <<delivered, disturbed>>
  /\ UNCHANGED <<notice, sentEvents, overwritten, deaths>>

\* UPDATE ... WHERE status IN ('pending', 'failed').
StillOpen == notice.status \in {"pending", "failed"}

RecordSent(w) ==
  /\ attempting[w] = "accepted"
  /\ \/ /\ StillOpen
        /\ notice' = [status |-> "sent", attempts |-> notice.attempts + 1, due |-> FALSE, read |-> notice.read]
        /\ sentEvents' = sentEvents + 1
     \/ ~StillOpen /\ UNCHANGED <<notice, sentEvents>>
  /\ Doing(w, "idle") /\ UNCHANGED <<delivered, disturbed, overwritten, deaths>>

\* recordFailure: whatever the status has become, a retry is scheduled while
\* attempts are left, and the row dead-lettered otherwise.
RecordFailure(w) ==
  /\ attempting[w] \in {"retryable", "permanent"}
  /\ LET willRetry == attempting[w] = "retryable" /\ notice.attempts + 1 <= MaxRetries IN
     notice' = [status |-> IF willRetry THEN "failed" ELSE "dead_lettered",
                attempts |-> notice.attempts + 1, due |-> FALSE, read |-> notice.read]
  /\ overwritten' = (overwritten \/ notice.status = "sent")
  /\ Doing(w, "idle") /\ UNCHANGED <<delivered, sentEvents, disturbed, deaths>>

\* The backoff passes, or the minute a sweep claimed.
ComesDue ==
  /\ notice.status = "failed" /\ ~notice.due
  /\ notice' = [notice EXCEPT !.due = TRUE]
  /\ disturbed' = (disturbed \/ Attempts # {})
  /\ UNCHANGED <<attempting, delivered, sentEvents, overwritten, deaths>>

\* UPDATE ... WHERE status = 'failed' AND next_attempt_at <= now().
ClaimsNotice(w) == notice.status = "failed" /\ notice.due

\* Mutant: the claim takes the row out of the retry queue.
ClaimedForGood == [notice EXCEPT !.status = "pending", !.due = FALSE]
\* The claim is a lease: next_attempt_at = now() + 60 seconds.
Leased == [notice EXCEPT !.due = FALSE]

\* retryDue.
ClaimRetry(w) ==
  /\ w \in Sweeps /\ attempting[w] = "idle" /\ ClaimsNotice(w)
  /\ notice' = Leased
  /\ Doing(w, "sending")
  /\ UNCHANGED <<delivered, sentEvents, disturbed, overwritten, deaths>>

\* The process dies in the middle of an attempt.
Die(w) ==
  /\ attempting[w] # "idle" /\ deaths < MaxDeaths
  /\ Doing(w, "idle") /\ disturbed' = TRUE /\ deaths' = deaths + 1
  /\ UNCHANGED <<notice, delivered, sentEvents, overwritten>>

\* markRead, markAllRead.
MarkNoticeRead ==
  /\ notice.status # "none" /\ ~notice.read
  /\ notice' = [notice EXCEPT !.read = TRUE]
  /\ UNCHANGED <<attempting, delivered, sentEvents, disturbed, overwritten, deaths>>

NoticeNext ==
  \/ \E w \in Requesters : Reserve(w)
  \/ \E w \in Workers : Send(w) \/ RecordSent(w) \/ RecordFailure(w) \/ ClaimRetry(w) \/ Die(w)
  \/ ComesDue \/ MarkNoticeRead

\* Time passes, the retry timer ticks and a call that is pending returns.
NoticeFairness ==
  /\ WF_noticeVars(ComesDue)
  /\ \A w \in Sweeps :
       WF_noticeVars(ClaimRetry(w) \/ Send(w) \/ RecordSent(w) \/ RecordFailure(w))

NoticeSpec == NoticeInit /\ [][NoticeNext]_noticeVars /\ NoticeFairness

---------------------------------------------------------------------------
\* The recipient gets the message once, however often its event is redelivered
\* and however the sweeps overlap, unless a worker died between sending and
\* recording, the channel lost its answer or an attempt outlived the minute it
\* had claimed (notify's reservation, retryDue's claim).
NotifiedOnce == ~disturbed => delivered <= 1

\* One NotificationSent is emitted for a notification even when two attempts
\* delivered it, as long as no failure was recorded over the success
\* (attemptDelivery's compare-and-swap).
SentEventOnce == ~overwritten => sentEvents <= 1

\* A notification whose delivery failed is delivered or dead-lettered in the end,
\* although a sweep that claimed it may die: the claim runs out (retryDue's lease).
RetriesEnd == (notice.status = "failed") ~> (notice.status \in {"sent", "dead_lettered"})

\* A notification is delivered once, and its retries come to an end (retryDue).
NoticesSettle == [](NoticeTypeOK /\ NotifiedOnce /\ SentEventOnce) /\ RetriesEnd
=============================================================================
