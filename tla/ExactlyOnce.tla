---------------------------- MODULE ExactlyOnce ----------------------------
(***************************************************************************)
(* What the command service of a session promises its clients              *)
(* (contracts/PA_SHARED_INTERFACES_V1.md, "Command envelope"): the first   *)
(* request under an idempotency key is decided once and for all, applied   *)
(* or rejected; every identical retry is given that decision again with no *)
(* second effect, any other use of the key is a conflict; deletion forgets *)
(* the session.  Crashes, restarts and failing transactions do not occur   *)
(* at this level.                                                          *)
(***************************************************************************)
EXTENDS Naturals

CONSTANTS
  Keys,        \* idempotency keys
  Requests,    \* [key, ...] commands a client may send, any number of times
  Versions,    \* state versions an answer may carry
  Undecided    \* no decision under a key yet

VARIABLES
  decided,   \* the decision under each key
  effects,   \* how many mutations the session has seen under each key
  forgotten, \* the session was deleted
  answers    \* [request, response] pairs ever sent

avars == <<decided, effects, forgotten, answers>>

AInit ==
  /\ decided = [k \in Keys |-> Undecided]
  /\ effects = [k \in Keys |-> 0]
  /\ forgotten = FALSE
  /\ answers = {}

Decide(r) ==
  /\ ~forgotten
  /\ decided[r.key] = Undecided
  /\ \E v \in Versions :
       \/ /\ decided' = [decided EXCEPT
                           ![r.key] = [request |-> r, outcome |-> "applied", version |-> v]]
          /\ effects' = [effects EXCEPT ![r.key] = @ + 1]
       \/ /\ decided' = [decided EXCEPT
                           ![r.key] = [request |-> r, outcome |-> "rejected", version |-> v]]
          /\ UNCHANGED effects
  /\ UNCHANGED <<forgotten, answers>>

\* A retry is answered with the decision, another request with a conflict.
Answer(r) ==
  /\ ~forgotten
  /\ decided[r.key] # Undecided
  /\ IF decided[r.key].request = r
     THEN answers' = answers \cup
            {[request |-> r, outcome |-> decided[r.key].outcome,
              version |-> decided[r.key].version]}
     ELSE \E v \in Versions :
            answers' = answers \cup {[request |-> r, outcome |-> "conflict", version |-> v]}
  /\ UNCHANGED <<decided, effects, forgotten>>

Forget ==
  /\ decided' = [k \in Keys |-> Undecided]
  /\ effects' = [k \in Keys |-> 0]
  /\ forgotten' = TRUE
  /\ UNCHANGED answers

ANext == (\E r \in Requests : Decide(r) \/ Answer(r)) \/ Forget

ASpec == AInit /\ [][ANext]_avars

-----------------------------------------------------------------------------
\* No key ever has two effects, and an applied one has exactly one.
OneEffect ==
  \A k \in Keys :
    effects[k] = (IF decided[k] # Undecided /\ decided[k].outcome = "applied" THEN 1 ELSE 0)

\* Two answers to one request never disagree: what was decided is repeated word
\* for word, and what was a conflict stays one.
AnswersAgree ==
  \A a, b \in answers :
    a.request = b.request =>
      a.outcome = b.outcome /\ (a.outcome # "conflict" => a = b)
=============================================================================
