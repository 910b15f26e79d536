----------------------------- MODULE MCPlatform -----------------------------
(***************************************************************************)
(* The platform services, one at a time: as in MCCommercial the initial     *)
(* state chooses the service that runs and the others stay where they       *)
(* begin.                                                                   *)
(***************************************************************************)
EXTENDS Session, Identity, RoleGrants, Waitlist, Chat, ChatThread, Media, Privacy,
        Assistant, Wishlist, SearchIndex, Reviews, TLC

CONSTANTS fromSeller

VARIABLE focus

MCCapsOf == [r \in Roles |-> CASE r = "moderator" -> {"bc_moderate"}
                               [] r = "platform_operator" -> {"bc_manage_platform"}
                               [] r = "business" -> {"bc_own"}]
MCStaffRoles == [u \in Staff |-> IF u = "operator" THEN {"platform_operator"} ELSE {}]
MCSuits == [e \in Entries |-> WSlots]
MCSideOf == [r \in Requests |-> IF r = fromSeller THEN "seller" ELSE "customer"]
MCKeyLimit == [u \in ChatSides |-> IF u = "customer" THEN 2 ELSE 1]

Focuses == {"session", "identity", "roles", "waitlist", "chat", "thread", "media",
            "privacy", "assistant", "wishlist", "search", "reviews"}

\* The clock and the moderation of the conversation are not combined.
WithinChat == minute = 0 \/ (blocks = {} /\ \A u \in ChatSides : report[u] = "none")

\* Two finalisations at once concern the same image; a report on one is filed
\* while no finalisation runs.
WithinMedia ==
  /\ \A f, g \in FinalizeCalls :
       (finalizes[f].at # "idle" /\ finalizes[g].at # "idle") => finalizes[f].media = finalizes[g].media
  /\ \/ \A m \in MediaIds : abuse[m] = "none"
     \/ \A f \in FinalizeCalls : finalizes[f].at = "idle"

Init ==
  /\ focus \in Focuses
  /\ SessionInit /\ IdentityInit /\ RoleInit /\ WaitlistInit /\ ChatInit /\ ThreadInit
  /\ MediaInit /\ PrivacyInit /\ AssistantInit /\ WishlistInit /\ SearchInit /\ ReviewsInit
  /\ focus # "thread" => posted = 0

Next ==
  /\ UNCHANGED focus
  /\ IF focus = "session" THEN SessionNext ELSE UNCHANGED sessionVars
  /\ IF focus = "identity" THEN IdentityNext ELSE UNCHANGED identityVars
  /\ IF focus = "roles" THEN RoleNext ELSE UNCHANGED roleVars
  /\ IF focus = "waitlist" THEN WaitlistNext ELSE UNCHANGED waitlistVars
  /\ IF focus = "chat" THEN ChatNext /\ WithinChat' ELSE UNCHANGED chatVars
  /\ IF focus = "thread" THEN ThreadNext ELSE UNCHANGED threadVars
  /\ IF focus = "media" THEN MediaNext /\ WithinMedia' ELSE UNCHANGED mediaVars
  /\ IF focus = "privacy" THEN PrivacyNext ELSE UNCHANGED privacyVars
  /\ IF focus = "assistant" THEN AssistantNext ELSE UNCHANGED assistantVars
  /\ IF focus = "wishlist" THEN WishlistNext ELSE UNCHANGED wishlistVars
  /\ IF focus = "search" THEN SearchNext ELSE UNCHANGED searchVars
  /\ IF focus = "reviews" THEN ReviewsNext ELSE UNCHANGED reviewVars

vars == <<focus, sessionVars, identityVars, roleVars, waitlistVars, chatVars, threadVars,
          mediaVars, privacyVars, assistantVars, wishlistVars, searchVars, reviewVars>>

\* The services of this run are checked for what may never happen; what must
\* happen in the end is checked in MCSweeps.
PlatformSpec == Init /\ [][Next]_vars

\* Callers, workers and rows of the same sort are interchangeable.
PlatformSymmetry == Permutations(Entries) \union Permutations(Matchers)

\* Access is earned: a code admits once and is guessed a bounded number of times,
\* a phone has one account, and no chain of grants adds a capability (OtpService,
\* AccountResolverService, RoleService).
AccessIsEarned ==
  /\ IdentityTypeOK /\ CodeUsedOnce /\ GuessesBounded /\ CodesBounded /\ OneAccountPerPhone
  /\ RoleTypeOK /\ NoNewPrivilege

\* Both ends of a conversation agree: a message is stored and charged once, and
\* the client marks as read only what it has shown (ChatService, chat-inbox.tsx).
ConversationConsistent ==
  /\ ChatTypeOK /\ QueuedNotFailed /\ OneMessagePerKey /\ ChargedOncePerMessage /\ ClosedByDecision
  /\ ThreadTypeOK /\ MarkedIsConfirmed /\ SeenIsShown

\* Searches answer with what the platform knows: documents and ratings agree with
\* their sources and never go back (SearchIndexerService, ReviewService).
SearchAgrees ==
  /\ [](SearchTypeOK /\ CleanIsIndexed /\ ReviewsTypeOK /\ RatingsAgree)
  /\ NeverBackwards
=============================================================================
