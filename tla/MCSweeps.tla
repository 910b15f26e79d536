------------------------------ MODULE MCSweeps ------------------------------
(***************************************************************************)
(* The work that timers start, one kind at a time: as in MCCommercial the   *)
(* initial state chooses what runs and the others stay where they begin.    *)
(* No symmetry: these runs check what must happen in the end.               *)
(*                                                                         *)
(* Relay: rows 1, 2 and 4 are one table's, row 3 another's; 1 and 2 are     *)
(* events of one aggregate; 3 has no registered handler.                    *)
(***************************************************************************)
EXTENDS OutboxRelay, NoShow, Notifications, Privacy, SearchIndex, TLC

VARIABLE focus

MCTableOf == [r \in Rows |-> IF r = 3 THEN 2 ELSE 1]
MCAggregateOf == [r \in Rows |-> IF r < 3 THEN "order" ELSE "booking"]
MCHandlersOf == [r \in Rows |-> IF r = 1 THEN 2 ELSE IF r = 3 THEN 0 ELSE 1]

SweepsInit ==
  /\ focus \in {"relay", "windows", "notices", "privacy", "search"}
  /\ Init /\ NoShowInit /\ NoticeInit /\ PrivacyInit /\ SearchInit

SweepsNext ==
  /\ UNCHANGED focus
  /\ IF focus = "relay" THEN Next ELSE UNCHANGED vars
  /\ IF focus = "windows" THEN NoShowNext ELSE UNCHANGED noShowVars
  /\ IF focus = "notices" THEN NoticeNext ELSE UNCHANGED noticeVars
  /\ IF focus = "privacy" THEN PrivacyNext ELSE UNCHANGED privacyVars
  /\ IF focus = "search" THEN SearchNext ELSE UNCHANGED searchVars

sweepsVars == <<focus, vars, noShowVars, noticeVars, privacyVars, searchVars>>

\* What runs is scheduled as its module says.  Of the others only the relay's timer
\* has something to start where it begins.
SweepsFairness ==
  /\ \A p \in Relays : WF_vars(focus = "relay" /\ StartDrain(p)) /\ WF_vars(Advance(p))
  /\ NoShowFairness /\ NoticeFairness /\ PrivacyFairness /\ SearchFairness

SweepsSpec == SweepsInit /\ [][SweepsNext]_sweepsVars /\ SweepsFairness

=============================================================================
