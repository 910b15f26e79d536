------------------------------- MODULE Chat -------------------------------
(***************************************************************************)
(* One conversation of services/chat: sending (access verdict, idempotency  *)
(* lookup, conversation lock, send throttle, sequence), read watermarks,    *)
(* blocks, reports and their moderation, and the web composer that retries  *)
(* a send whose answer it lost.                                            *)
(*                                                                         *)
(* A send is one transaction, but its verdict and its idempotency lookup    *)
(* are unlocked reads made before the conversation row is locked.           *)
(***************************************************************************)
EXTENDS Naturals, FiniteSets

CONSTANTS
  ChatSides,        \* the users of the conversation
  Requests,     \* HTTP requests that may be in flight
  SideOf,       \* whose requests they are
  Clients,      \* the users whose editing, blocking and reporting is explored
  PerMinute,    \* CHAT_MAX_MESSAGES_PER_MINUTE
  KeyLimit,     \* bound on the messages each user composes
  MaxMinutes    \* bound on the minutes that pass

ASSUME ChatAssumption ==
  /\ SideOf \in [Requests -> ChatSides] /\ Clients \subseteq ChatSides
  /\ IsFiniteSet(ChatSides)
  /\ KeyLimit \in [ChatSides -> 1 .. 2]
  /\ PerMinute \in Nat \ {0} /\ MaxMinutes \in Nat

VARIABLES
  conversation, \* chat.conversations: last_sequence, message_count, closed_for_sending_at
  messages,     \* chat.messages
  blocks,       \* the users who block the other side
  sentCount,    \* chat.send_counters of the current minute
  minute,       \* minutes passed
  charged,      \* observer: all that was ever charged
  report,       \* the report a user has filed
  requests,     \* sends in flight
  composer,     \* the composer of each user: its key and the request it awaits
  failed        \* observer: sends answered by an internal error, with their keys

chatVars == <<conversation, messages, blocks, sentCount, charged, minute, report,
              requests, composer, failed>>

NoRequest == "none"
MaxKeys == 2
MaxSequence == Cardinality({p \in ChatSides \X (1 .. MaxKeys) : p[2] <= KeyLimit[p[1]]})
ChatMessage == [sequence : 1 .. MaxSequence, sender : ChatSides, key : 1 .. MaxKeys]
IdleRequest == [step |-> "idle", key |-> 0, seen |-> 0]
NewConversation == [last |-> 0, count |-> 0, closed |-> FALSE]

ChatTypeOK ==
  /\ conversation \in [last : 0 .. MaxSequence, count : 0 .. MaxSequence, closed : BOOLEAN]
  /\ messages \subseteq ChatMessage
  /\ blocks \subseteq ChatSides
  /\ {sentCount, charged} \subseteq [ChatSides -> Nat] /\ minute \in 0 .. MaxMinutes
  /\ report \in [ChatSides -> {"none", "open", "rejected", "closed"}]
  /\ requests \in [Requests -> [step : {"idle", "sent", "allowed", "answered", "refused", "error"},
                                key : 0 .. MaxKeys, seen : 0 .. MaxSequence]]
  /\ composer \in [ChatSides -> [key : 0 .. MaxKeys, used : 0 .. MaxKeys,
                             awaits : Requests \union {NoRequest}]]
  /\ failed \subseteq (ChatSides \X (1 .. MaxKeys))

ChatInit ==
  /\ conversation = NewConversation /\ messages = {} /\ blocks = {}
  /\ sentCount = [u \in ChatSides |-> 0] /\ charged = [u \in ChatSides |-> 0] /\ minute = 0
  /\ report = [u \in ChatSides |-> "none"]
  /\ requests = [r \in Requests |-> IdleRequest]
  /\ composer = [u \in ChatSides |-> [key |-> 0, used |-> 0, awaits |-> NoRequest]]
  /\ failed = {}

MessageOf(u, k) == {m \in messages : m.sender = u /\ m.key = k}

---------------------------------------------------------------------------
(* apps/web: the composer.                                                 *)

\* submit: the key survives a failure it cannot explain, so a retry carries it.
Submit(r) ==
  LET u == SideOf[r]
      k == IF composer[u].key # 0 THEN composer[u].key ELSE composer[u].used + 1 IN
  /\ composer[u].awaits = NoRequest /\ requests[r].step = "idle" /\ k <= KeyLimit[u]
  /\ composer' = [composer EXCEPT ![u] =
       [key |-> k, used |-> IF k > @.used THEN k ELSE @.used, awaits |-> r]]
  /\ requests' = [requests EXCEPT ![r] = [step |-> "sent", key |-> k, seen |-> 0]]
  /\ UNCHANGED <<conversation, messages, blocks, sentCount, charged, minute, report, failed>>

\* The browser gives the request up; the server may still be working on it.
Abandon(r) ==
  LET u == SideOf[r] IN
  /\ composer[u].awaits = r
  /\ composer' = [composer EXCEPT ![u].awaits = NoRequest]
  /\ UNCHANGED <<conversation, messages, blocks, sentCount, charged, minute, report,
                 requests, failed>>

\* An answer or a refusal ends the message; an internal error keeps the key.
TakeReply(r) ==
  LET u == SideOf[r] IN
  /\ requests[r].step \in {"answered", "refused", "error"}
  /\ requests' = [requests EXCEPT ![r] = IdleRequest]
  /\ composer' = IF composer[u].awaits # r THEN composer
                 ELSE [composer EXCEPT ![u] =
                         [key |-> IF requests[r].step = "error" THEN @.key ELSE 0,
                          used |-> @.used, awaits |-> NoRequest]]
  /\ UNCHANGED <<conversation, messages, blocks, sentCount, charged, minute, report, failed>>

\* Editing the draft gives it a new key.
EditDraft(u) ==
  /\ composer[u].key # 0 /\ composer[u].awaits = NoRequest
  /\ composer' = [composer EXCEPT ![u].key = 0]
  /\ UNCHANGED <<conversation, messages, blocks, sentCount, charged, minute, report,
                 requests, failed>>

---------------------------------------------------------------------------
(* ChatService.sendMessage.                                                *)

\* evaluate: closed, then blocked in either direction; eligibility is external.
CanSend == ~conversation.closed /\ blocks = {}

Replied(r, how) == requests' = [requests EXCEPT ![r].step = how]

\* The verdict and the idempotency lookup, on unlocked reads.
SendEvaluates(r) ==
  LET u == SideOf[r] IN
  /\ requests[r].step = "sent"
  /\ \/ ~CanSend /\ Replied(r, "refused")
     \/ Replied(r, "refused")                       \* ineligible, window closed
     \/ /\ CanSend
        /\ IF MessageOf(u, requests[r].key) # {} THEN Replied(r, "answered")
           ELSE requests' = [requests EXCEPT ![r] =
                  [step |-> "allowed", key |-> @.key, seen |-> conversation.last]]
  /\ UNCHANGED <<conversation, messages, blocks, sentCount, charged, minute, report,
                 composer, failed>>

\* Mutant: last_sequence of the row that was read before the lock.
NextSequenceRead(r) == requests[r].seen + 1
\* last_sequence of the row SELECT ... FOR UPDATE returned.
NextSequence(r) == conversation.last + 1

\* ON CONFLICT DO UPDATE ... WHERE sent_count < limit.
Charges(u) == sentCount[u] < PerMinute
PlusOne(counter, u) == [counter EXCEPT ![u] = @ + 1]
\* The charge of a send that fails is undone with it.
RolledBack(counter, u) == counter

\* uq_chat_messages_idempotency.
KeyFree(u, k) == MessageOf(u, k) = {}
SequenceFree(n) == \A m \in messages : m.sequence # n

\* From the lock to the commit.  A unique violation rolls back the charge too.
SendCommits(r) ==
  LET u == SideOf[r]
      k == requests[r].key
      n == NextSequence(r) IN
  /\ requests[r].step = "allowed"
  /\ \/ /\ ~Charges(u) /\ Replied(r, "refused")
        /\ UNCHANGED <<conversation, messages, sentCount, charged, failed>>
     \/ /\ Charges(u) /\ KeyFree(u, k) /\ SequenceFree(n)
        /\ messages' = messages \union {[sequence |-> n, sender |-> u, key |-> k]}
        /\ conversation' = [last |-> n, count |-> conversation.count + 1,
                             closed |-> conversation.closed]
        /\ sentCount' = PlusOne(sentCount, u) /\ charged' = PlusOne(charged, u)
        /\ Replied(r, "answered") /\ UNCHANGED failed
     \/ /\ Charges(u) /\ ~(KeyFree(u, k) /\ SequenceFree(n))
        /\ Replied(r, "error") /\ failed' = failed \union {<<u, k>>}
        /\ sentCount' = RolledBack(sentCount, u) /\ charged' = RolledBack(charged, u)
        /\ UNCHANGED <<conversation, messages>>
  /\ UNCHANGED <<blocks, minute, report, composer>>

\* The clock enters the next minuteBucket.
NextMinute ==
  /\ minute < MaxMinutes /\ minute' = minute + 1
  /\ sentCount' = [u \in ChatSides |-> 0]
  /\ UNCHANGED <<conversation, messages, blocks, charged, report, requests, composer, failed>>

---------------------------------------------------------------------------
(* Blocking, reporting, moderation.                                        *)

SetBlock(u, on) ==
  /\ blocks' = IF on THEN blocks \union {u} ELSE blocks \ {u}
  /\ UNCHANGED <<conversation, messages, sentCount, charged, minute, report, requests,
                 composer, failed>>

\* report: a message anchors it.  Bound: one report per user.
FileReport(u) ==
  /\ report[u] = "none" /\ \E m \in messages : m.sender # u
  /\ report' = [report EXCEPT ![u] = "open"]
  /\ UNCHANGED <<conversation, messages, blocks, sentCount, charged, minute, requests,
                 composer, failed>>

\* UPDATE chat.reports ... WHERE id = :id AND status = 'open'.
Decidable(u) == report[u] = "open"

\* decide, and closeConversation in the same transaction.  A rejection and an
\* upheld report with another action leave the conversation as it is.
Decide(u, outcome) ==
  /\ Decidable(u)
  /\ report' = [report EXCEPT ![u] = outcome]
  /\ conversation' = IF outcome = "closed" THEN [conversation EXCEPT !.closed = TRUE]
                     ELSE conversation
  /\ UNCHANGED <<messages, blocks, sentCount, charged, minute, requests, composer, failed>>

---------------------------------------------------------------------------
ChatNext ==
  \/ \E r \in Requests : \/ Submit(r) \/ Abandon(r) \/ TakeReply(r)
                         \/ SendEvaluates(r) \/ SendCommits(r)
  \/ \E u \in Clients : \/ EditDraft(u) \/ FileReport(u)
                        \/ \E on \in BOOLEAN : SetBlock(u, on)
                        \/ \E outcome \in {"rejected", "closed"} : Decide(u, outcome)
  \/ NextMinute

ChatSpec == ChatInit /\ [][ChatNext]_chatVars

---------------------------------------------------------------------------
\* Two sends at once queue behind the conversation lock: a send ends in an
\* internal error only when a retry of the same message got there first.
QueuedNotFailed == \A f \in failed : MessageOf(f[1], f[2]) # {}

\* A composed message is stored once, also when its retry overtakes it.
OneMessagePerKey == \A m, n \in messages : m.sender = n.sender /\ m.key = n.key => m = n

\* The throttle is charged once for each message that exists: neither a retry
\* that finds its message, nor one that loses to it on the unique index, spends
\* a second slot (the order of sendMessage, and its single transaction).
ChargedOncePerMessage ==
  \A u \in ChatSides : charged[u] = Cardinality({m \in messages : m.sender = u})

\* A conversation is closed exactly when a moderator upheld a report with that
\* action: a second decision on the same report does not stand beside a closure
\* it contradicts (ChatModerationService.decide).
ClosedByDecision == conversation.closed = (\E u \in ChatSides : report[u] = "closed")
=============================================================================
