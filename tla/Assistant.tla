------------------------------ MODULE Assistant ------------------------------
(***************************************************************************)
(* One customer's conversations with the assistant: creation under the      *)
(* retained cap, the two transactions of a message (the question and its    *)
(* charge, then the reply) with the provider's call between them, closure   *)
(* by inactivity, eviction, deletion and retention.  The provider is        *)
(* external: it answers or it does not.                                     *)
(***************************************************************************)
EXTENDS Naturals, FiniteSets

CONSTANTS
  Conversations,  \* conversations the customer may ever start
  Creates,        \* calls of startConversation
  Sends,          \* calls of sendMessage
  RetainedCap,    \* AI_MAX_RETAINED_CONVERSATIONS
  DailyQuota,     \* AI_DAILY_MESSAGE_QUOTA
  MaxDays         \* bound on the calendar days of a behaviour

ASSUME AssistantAssumption ==
  /\ RetainedCap \in Nat \ {0} /\ DailyQuota \in Nat \ {0} /\ MaxDays \in Nat
  /\ "none" \notin Conversations

VARIABLES
  talk,  \* ai.conversations: state, message_count, and how long it has been idle
  turns,         \* ai.messages: the sequences written in each conversation
  usage,         \* ai.usage_daily of the current day
  today,         \* the Tehran calendar day
  accepted,      \* observer: questions stored today, deleted conversations' included
  starting,      \* startConversation calls: the conversations each has counted
  asking         \* sendMessage calls

assistantVars == <<talk, turns, usage, today, accepted, starting, asking>>

Idle(c) == talk[c].idle   \* 0 recent, 1 past the inactivity limit, 2 past retention
Held == {c \in Conversations : talk[c].state \in {"active", "closed"}}
NewCall == [stage |-> "new", on |-> "none", count |-> 0]

AssistantTypeOK ==
  /\ talk \in [Conversations -> [state : {"unborn", "active", "closed", "gone"}, count : Nat, idle : 0 .. 2]]
  /\ \A c \in Conversations : turns[c] \subseteq Nat
  /\ usage \in 0 .. DailyQuota /\ today \in 0 .. MaxDays /\ accepted \in Nat
  /\ starting \in [Creates -> [stage : {"new", "counted", "done"}, owned : SUBSET Conversations]]
  /\ asking \in [Sends -> [stage : {"new", "read", "waiting", "done", "failed"},
                           on : Conversations \union {"none"}, count : Nat]]

AssistantInit ==
  /\ talk = [c \in Conversations |-> [state |-> "unborn", count |-> 0, idle |-> 0]]
  /\ turns = [c \in Conversations |-> {}]
  /\ usage = 0 /\ today = 0 /\ accepted = 0
  /\ starting = [k \in Creates |-> [stage |-> "new", owned |-> {}]]
  /\ asking = [k \in Sends |-> NewCall]

Closed(c) == [talk[c] EXCEPT !.state = "closed"]
\* closeStaleFor: every active conversation past the inactivity limit.
StaleClosed == [c \in Conversations |->
                  IF talk[c].state = "active" /\ Idle(c) >= 1 THEN Closed(c) ELSE talk[c]]

\* The rows a creation has selected FOR UPDATE.
Unlocked(c) == \A k \in Creates : ~(starting[k].stage = "counted" /\ c \in starting[k].owned)

\* Mutant: the rows found are locked, and not the user.
CreateUnlocked(k) == TRUE
\* pg_advisory_xact_lock on the user, held to the end of the transaction.
CreateLockFree(k) == \A j \in Creates : starting[j].stage # "counted"

\* create: the lock, the closure of stale conversations, the count.
CountOwned(k) ==
  /\ starting[k].stage = "new" /\ CreateLockFree(k)
  /\ talk' = StaleClosed
  /\ starting' = [starting EXCEPT ![k] = [stage |-> "counted", owned |-> Held]]
  /\ UNCHANGED <<turns, usage, today, accepted, asking>>

\* At the cap the oldest closed conversation makes room, an active one never.
Evictable(k) == {c \in starting[k].owned : talk[c].state = "closed"}
CreateConversation(k, new) ==
  /\ starting[k].stage = "counted" /\ talk[new].state = "unborn"
  /\ LET born == [state |-> "active", count |-> 0, idle |-> 0] IN
     \/ /\ Cardinality(starting[k].owned) < RetainedCap
        /\ talk' = [talk EXCEPT ![new] = born]
        /\ UNCHANGED turns
     \/ /\ Cardinality(starting[k].owned) >= RetainedCap
        /\ \E old \in Evictable(k) :
             /\ talk' = [talk EXCEPT ![new] = born, ![old].state = "gone"]
             /\ turns' = [turns EXCEPT ![old] = {}]
  /\ starting' = [starting EXCEPT ![k].stage = "done"]
  /\ UNCHANGED <<usage, today, accepted, asking>>
\* AiConversationLimitException; there was no stale conversation to close, for a
\* closed one would have made room.
RefuseConversation(k) ==
  /\ starting[k].stage = "counted"
  /\ Cardinality(starting[k].owned) >= RetainedCap /\ Evictable(k) = {}
  /\ starting' = [starting EXCEPT ![k].stage = "done"]
  /\ UNCHANGED <<talk, turns, usage, today, accepted, asking>>

\* requireOwned, unlocked; a stale conversation is refused, and its closure
\* rolled back with the refusal.
ReadConversation(k, c) ==
  /\ asking[k].stage = "new" /\ talk[c].state = "active" /\ Idle(c) = 0
  /\ asking' = [asking EXCEPT ![k] = [stage |-> "read", on |-> c, count |-> talk[c].count]]
  /\ UNCHANGED <<talk, turns, usage, today, accepted, starting>>

\* INSERT ... ON CONFLICT DO UPDATE ... WHERE accepted_messages < limit.
BelowQuota == usage < DailyQuota

\* SELECT message_count ... FOR UPDATE.
QuestionSequence(k) == talk[asking[k].on].count + 1
\* The same, under the second transaction's own lock.
ReplySequence(k) == talk[asking[k].on].count + 1

Finish(k, how) == asking' = [asking EXCEPT ![k].stage = how]
Write(c, sequence) ==
  /\ turns' = [turns EXCEPT ![c] = @ \union {sequence}]
  /\ talk' = [talk EXCEPT ![c] = [state |-> @.state, count |-> sequence, idle |-> 0]]

\* The reserving transaction: lock, charge and question together; uq_ai_messages_sequence
\* refuses a position that is taken, and everything rolls back.
AskQuestion(k) ==
  LET c == asking[k].on
      sequence == QuestionSequence(k) IN
  /\ asking[k].stage = "read" /\ Unlocked(c)
  /\ \/ /\ c \in Held /\ BelowQuota
        /\ IF sequence \in turns[c]
           THEN Finish(k, "failed") /\ UNCHANGED <<talk, turns, usage, accepted>>
           ELSE /\ Write(c, sequence) /\ usage' = usage + 1 /\ accepted' = accepted + 1
                /\ asking' = [asking EXCEPT ![k].stage = "waiting", ![k].count = sequence]
     \/ /\ c \notin Held \/ ~BelowQuota
        /\ Finish(k, "done") /\ UNCHANGED <<talk, turns, usage, accepted>>
  /\ UNCHANGED <<today, starting>>

\* The provider answered in time and its output passed: the second transaction.
StoreReply(k) ==
  LET c == asking[k].on
      sequence == ReplySequence(k) IN
  /\ asking[k].stage = "waiting" /\ Unlocked(c)
  /\ \/ /\ c \in Held
        /\ IF sequence \in turns[c] THEN Finish(k, "failed") /\ UNCHANGED <<talk, turns>>
           ELSE Write(c, sequence) /\ Finish(k, "done")
     \/ c \notin Held /\ Finish(k, "done") /\ UNCHANGED <<talk, turns>>
  /\ UNCHANGED <<usage, today, accepted, starting>>

\* A rejected output, an error or the deadline: the question stays charged.
ProviderFails(k) ==
  /\ asking[k].stage = "waiting" /\ Finish(k, "done")
  /\ UNCHANGED <<talk, turns, usage, today, accepted, starting>>

\* readOwned, list: closeIfStale on a conversation the customer looks at.
LookAt(c) ==
  /\ talk[c].state = "active" /\ Idle(c) >= 1 /\ Unlocked(c)
  /\ talk' = [talk EXCEPT ![c] = Closed(c)]
  /\ UNCHANGED <<turns, usage, today, accepted, starting, asking>>
SweepInactive ==
  /\ \A c \in Held : Unlocked(c)
  /\ StaleClosed # talk /\ talk' = StaleClosed
  /\ UNCHANGED <<turns, usage, today, accepted, starting, asking>>

RemoveConversation(gone) ==
  /\ gone # {} /\ \A c \in gone : Unlocked(c)
  /\ talk' = [c \in Conversations |-> IF c \in gone THEN [talk[c] EXCEPT !.state = "gone"] ELSE talk[c]]
  /\ turns' = [c \in Conversations |-> IF c \in gone THEN {} ELSE turns[c]]
  /\ UNCHANGED <<usage, today, accepted, starting, asking>>
DestroyConversation(c) == c \in Held /\ RemoveConversation({c})
SweepRetention == RemoveConversation({c \in Held : Idle(c) = 2})

\* A day passes: the usage row is the new day's, every conversation is a day older.
DayPasses ==
  /\ today < MaxDays /\ today' = today + 1
  /\ usage' = 0 /\ accepted' = 0
  /\ talk' = [c \in Conversations |->
                        IF c \in Held /\ Idle(c) < 2 THEN [talk[c] EXCEPT !.idle = @ + 1] ELSE talk[c]]
  /\ UNCHANGED <<turns, starting, asking>>

AssistantNext ==
  \/ \E k \in Creates :
       CountOwned(k) \/ RefuseConversation(k) \/ \E new \in Conversations : CreateConversation(k, new)
  \/ \E k \in Sends :
       \/ \E c \in Conversations : ReadConversation(k, c)
       \/ AskQuestion(k) \/ StoreReply(k) \/ ProviderFails(k)
  \/ \E c \in Conversations : LookAt(c) \/ DestroyConversation(c)
  \/ SweepInactive \/ SweepRetention \/ DayPasses

AssistantSpec == AssistantInit /\ [][AssistantNext]_assistantVars

---------------------------------------------------------------------------
\* "A 500 where a queued 201 belonged": two concurrent sends of one conversation
\* never collide on a position, neither in the question nor in the reply
\* (sendMessage's two FOR UPDATE reads).
TurnsQueue == \A k \in Sends : asking[k].stage # "failed"

\* The customer never holds more conversations than the cap, whatever creations
\* run at the same time (create's advisory lock).
RetainedCapHolds == Cardinality(Held) <= RetainedCap

\* No more questions than the quota are stored in a day, and deleting or losing
\* the conversation gives none back (AiQuotaService.consume).
QuotaHolds == accepted <= DailyQuota

\* Concurrent sends and creations queue, within the cap and the daily quota.
AssistantWithinLimits == AssistantTypeOK /\ TurnsQueue /\ RetainedCapHolds /\ QuotaHolds
=============================================================================
