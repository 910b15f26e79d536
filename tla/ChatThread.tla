---------------------------- MODULE ChatThread ----------------------------
(***************************************************************************)
(* The open conversation of apps/web/components/chat-inbox.tsx: the page it *)
(* loads, the poll that merges newer pages, older pages on demand, the       *)
(* answers to its own sends, and the read watermark it asks the server for. *)
(* Every request travels: what it found is applied later, or is lost.       *)
(*                                                                         *)
(* The server's part is a counter of messages and the reader's watermark    *)
(* (module Chat has the rest).                                             *)
(***************************************************************************)
EXTENDS Naturals, FiniteSets

CONSTANTS
  PageSize,      \* CHAT_DEFAULT_PAGE_SIZE
  MaxPosted      \* bound on the messages of the conversation

ASSUME ThreadAssumption == {PageSize, MaxPosted} \subseteq Nat \ {0}

VARIABLES
  posted,      \* last_sequence of the conversation
  readTo,      \* last_read_sequence of this participant
  thread,      \* the component: status, messages, nextBefore and its three refs
  page,        \* the answer to the load or poll under way: what it read
  older,       \* the answer to the older page under way
  ownSend,     \* the sequence of an own message whose answer is under way
  marks,       \* mark-read requests under way
  jumped       \* observer: messages the refs passed over without showing them

threadVars == <<posted, readTo, thread, page, older, ownSend, marks, jumped>>

MessageNumbers == 1 .. MaxPosted
NoPage == [for |-> "no", last |-> 0]
ThreadTypeOK ==
  /\ posted \in 0 .. MaxPosted /\ readTo \in 0 .. MaxPosted
  /\ thread \in [status : {"loading", "ready"}, shown : SUBSET MessageNumbers,
                 nextBefore : 0 .. MaxPosted, newestSeen : 0 .. MaxPosted,
                 lastMarked : 0 .. MaxPosted, markingUpTo : 0 .. MaxPosted]
  /\ page \in [for : {"no", "load", "poll"}, last : 0 .. MaxPosted]
  /\ older \in 0 .. MaxPosted /\ ownSend \in 0 .. MaxPosted
  /\ marks \subseteq [upTo : MessageNumbers, answer : 0 .. MaxPosted]
  /\ jumped \subseteq MessageNumbers

NewThread == [status |-> "loading", shown |-> {}, nextBefore |-> 0, newestSeen |-> 0,
              lastMarked |-> 0, markingUpTo |-> 0]

ThreadInit ==
  /\ posted \in 0 .. MaxPosted /\ readTo \in 0 .. posted
  /\ thread = NewThread /\ page = NoPage
  /\ older = 0 /\ ownSend = 0 /\ marks = {} /\ jumped = {}

AtMost(n, m) == IF n < m THEN n ELSE m
AtLeast(n, m) == IF n > m THEN n ELSE m

\* listMessages before a sequence: the newest PageSize of them.
PageBefore(n) == {i \in MessageNumbers : i < n /\ i + PageSize >= n}
\* nextBeforeSequence: the oldest of the page when there is more behind it.
NextBefore(n) == IF n > PageSize + 1 THEN n - PageSize ELSE 0

---------------------------------------------------------------------------
(* The server.                                                             *)

TheyPost ==
  /\ posted < MaxPosted /\ posted' = posted + 1
  /\ UNCHANGED <<readTo, thread, page, older, ownSend, marks, jumped>>

\* The composer's send commits; the sender has read up to it by definition.
IPost ==
  /\ posted < MaxPosted /\ ownSend = 0 /\ thread.status = "ready"
  /\ posted' = posted + 1 /\ ownSend' = posted' /\ readTo' = AtLeast(readTo, posted')
  /\ UNCHANGED <<thread, page, older, marks, jumped>>

\* markRead of the service: capped, and never moved back.
ServeMark(k) ==
  /\ k \in marks /\ k.answer = 0
  /\ readTo' = AtLeast(readTo, AtMost(k.upTo, posted))
  /\ marks' = (marks \ {k}) \union {[k EXCEPT !.answer = readTo']}
  /\ UNCHANGED <<posted, thread, page, older, ownSend, jumped>>

---------------------------------------------------------------------------
(* The component.                                                          *)

ReadPage(for) ==
  /\ page = NoPage
  /\ (for = "load") = (thread.status = "loading")
  /\ page' = [for |-> for, last |-> posted]
  /\ UNCHANGED <<posted, readTo, thread, older, ownSend, marks, jumped>>

\* markRead(upTo), asked of a thread: not twice for what is marked or being marked.
Asks(t, upTo) == upTo > t.lastMarked /\ upTo > t.markingUpTo

\* The thread after the request left, and the request itself.
Marking(t, upTo) == IF Asks(t, upTo) THEN [t EXCEPT !.markingUpTo = upTo] ELSE t
MarkRequest(t, upTo) == IF Asks(t, upTo) THEN {[upTo |-> upTo, answer |-> 0]} ELSE {}

\* load: the page replaces what is shown, and is marked read.
Loaded ==
  LET t == [thread EXCEPT !.status = "ready", !.shown = PageBefore(page.last + 1),
                          !.nextBefore = NextBefore(page.last + 1),
                          !.newestSeen = page.last] IN
  /\ page.for = "load"
  /\ thread' = Marking(t, page.last)
  /\ marks' = marks \union MarkRequest(t, page.last)
  /\ page' = NoPage
  /\ UNCHANGED <<posted, readTo, older, ownSend, jumped>>

\* What lies between the thread's newest and the page, and never arrives.
Between(t, n) == {i \in MessageNumbers : t.newestSeen < i /\ i + PageSize <= n}

\* The poll: a newer page is merged, and what has been seen is marked.
Polled ==
  LET newer == page.last > thread.newestSeen
      t == IF newer THEN [thread EXCEPT !.newestSeen = page.last,
                                        !.shown = @ \union PageBefore(page.last + 1)]
           ELSE thread IN
  /\ page.for = "poll"
  /\ thread' = Marking(t, t.newestSeen)
  /\ marks' = marks \union MarkRequest(t, t.newestSeen)
  /\ jumped' = IF newer THEN (jumped \union Between(thread, page.last)) \ t.shown ELSE jumped
  /\ page' = NoPage
  /\ UNCHANGED <<posted, readTo, older, ownSend>>

\* The load or the poll fails; a failed load is tried again.
PageLost ==
  /\ page # NoPage /\ page' = NoPage
  /\ UNCHANGED <<posted, readTo, thread, older, ownSend, marks, jumped>>

\* loadOlder, its answer, and its failure.
AskOlder ==
  /\ thread.status = "ready" /\ thread.nextBefore # 0 /\ older = 0
  /\ older' = thread.nextBefore
  /\ UNCHANGED <<posted, readTo, thread, page, ownSend, marks, jumped>>

OlderArrives ==
  /\ older # 0 /\ older' = 0
  /\ \/ thread' = [thread EXCEPT !.shown = @ \union PageBefore(older),
                                 !.nextBefore = NextBefore(older)]
     \/ UNCHANGED thread
  /\ UNCHANGED <<posted, readTo, page, ownSend, marks, jumped>>

\* onSent: the own message is merged and counts as the newest seen.
SentAnswered ==
  /\ ownSend # 0 /\ ownSend' = 0
  /\ thread' = [thread EXCEPT !.shown = @ \union {ownSend},
                              !.newestSeen = AtLeast(@, ownSend)]
  /\ jumped' = jumped \union
       {i \in MessageNumbers : thread.newestSeen < i /\ i < ownSend}
  /\ UNCHANGED <<posted, readTo, page, older, marks>>

\* lastMarked advances by the server's answer only; a lost answer leaves it.
Confirmed(k) == AtLeast(thread.lastMarked, k.answer)

\* The answer to a mark-read, or (no answer) its failure; the finally clause.
MarkEnds(k) ==
  /\ k \in marks
  /\ thread' = [thread EXCEPT !.lastMarked = Confirmed(k),
                              !.markingUpTo = IF @ = k.upTo THEN 0 ELSE @]
  /\ marks' = marks \ {k}
  /\ UNCHANGED <<posted, readTo, page, older, ownSend, jumped>>

---------------------------------------------------------------------------
ThreadNext ==
  \/ TheyPost \/ IPost
  \/ ReadPage("load") \/ ReadPage("poll") \/ Loaded \/ Polled \/ PageLost
  \/ AskOlder \/ OlderArrives \/ SentAnswered
  \/ \E k \in marks : ServeMark(k) \/ MarkEnds(k)

ThreadSpec == ThreadInit /\ [][ThreadNext]_threadVars

---------------------------------------------------------------------------
\* The watermark the thread believes in is one the server has confirmed, in
\* whatever order the answers arrive and whichever of them are lost; what is not
\* confirmed is asked again (the two refs of chat-inbox.tsx).
MarkedIsConfirmed == thread.lastMarked <= readTo

\* What the thread counts as seen, and so has marked read, is on the screen or on
\* an older page still to be asked for.  Not covered: messages the refs jumped
\* over, when an own send was answered before a poll had brought the messages in
\* front of it, or when more than a page arrived between two polls.
SeenIsShown ==
  \A i \in 1 .. thread.newestSeen :
    i \in thread.shown \/ i < thread.nextBefore \/ i \in jumped
=============================================================================
