------------------------------ MODULE Follower ------------------------------
(***************************************************************************)
(* What the operator's screen is promised of the sessions it shows: it     *)
(* follows one session or none, shows states that session really had, each *)
(* newer than the one before, and never one of a deleted session.          *)
(* Requests, sockets, retries and their failures do not occur here.        *)
(***************************************************************************)
EXTENDS Naturals

CONSTANTS Sessions, None

VARIABLES
  truth,     \* the event_sequence each session has reached
  following, \* the session on the screen, or None
  visit,     \* how often the operator has turned to a session
  shown,     \* [session, seq] of the state shown; None and 0 when blank
  forgotten  \* sessions the operator has deleted

fvars == <<truth, following, visit, shown, forgotten>>

Blank == [session |-> None, seq |-> 0]

FInit ==
  /\ truth \in [Sessions -> Nat]
  /\ following = None
  /\ visit = 0
  /\ shown = Blank
  /\ forgotten = {}

Grows == \A s \in Sessions : truth'[s] >= truth[s]

\* A state of the session on the screen that is not older than what was shown.
Learn ==
  /\ Grows
  /\ UNCHANGED <<following, visit, forgotten>>
  /\ following # None
  /\ shown'.session = following
  /\ shown.seq <= shown'.seq
  /\ shown'.seq <= truth'[following]

\* A new visit to a session, or to none, begins blank or with a state of it.
Follow ==
  /\ Grows
  /\ visit' > visit
  /\ following' \in (Sessions \ forgotten') \cup {None}
  /\ forgotten \subseteq forgotten'
  /\ \/ shown' = Blank
     \/ /\ following' # None
        /\ shown'.session = following'
        /\ shown'.seq <= truth'[following']

\* The sessions go on, and others than the one shown are deleted.
Pass ==
  /\ Grows
  /\ UNCHANGED <<following, visit, shown>>
  /\ forgotten \subseteq forgotten'
  /\ following \notin forgotten'

FNext == Learn \/ Follow \/ Pass

FSpec == FInit /\ [][FNext]_fvars
=============================================================================
