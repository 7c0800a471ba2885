------------------------ MODULE SubscriptionLedgerRaces ------------------------
(* What overlapping transactions can do to the plan of a customer.  Nothing  *)
(* locks the user_subscription row between the look of a transaction and its *)
(* commit, so the promises of _project_subscription_for_user_in_session are  *)
(* kept by the transactions that nothing overtook; two auxiliary variables   *)
(* tell them from the others.                                               *)
EXTENDS SubscriptionLedger

VARIABLES
  stale,   \* workers whose transaction looked at the rows before another one
           \* committed a change of them
  tainted  \* the last commit was stale, or an administrator's

raceVars == <<vars, stale, tainted>>

\* The transaction of w has read what its write depends on: the projection, the
\* expired row, or the check that the plan is free.
HasLooked(w) == job[w].tx # "idle" /\ (job[w].step = "commit" \/ job[w].tx = "free")

RowsChange == purchase' # purchase \/ subscription' # subscription

RaceInit == Init /\ stale = {} /\ tainted = FALSE

CommitRaces(w) ==
  /\ Commit(w)
  /\ stale' = (stale \union (IF RowsChange THEN {v \in Worker : HasLooked(v)} ELSE {})) \ {w}
  /\ tainted' = (w \in stale \/ job[w].tx = "admin")

\* A transaction that rolls back is stale no more; select_plan does not repeat
\* its check when it loads the row.
OtherRaces ==
  /\ Uncommitted
  /\ stale' = {w \in stale : job'[w].tx # "idle"}
  /\ UNCHANGED tainted

RaceNext == (\E w \in Worker : CommitRaces(w)) \/ OtherRaces

RaceSpec == RaceInit /\ [][RaceNext]_raceVars

-----------------------------------------------------------------------------
(* Properties.                                                              *)

\* A paid plan on the row is the period of an active purchase, at every moment
\* and whoever else runs, from the commit of any transaction that nothing
\* overtook until one that was overtaken, or an administrator, writes the row
\* (_project_subscription_for_user_in_session).
RowMirrorsLedger ==
  ~ tainted /\ subscription.plan \in Paid =>
    \E p \in Payment : /\ purchase[p].status = "active"
                       /\ subscription = Mirror(purchase[p])

\* While a purchase covers the moment of a transaction (its :now, which every
\* query of it uses), it takes a paid plan away only if it was overtaken, if an
\* administrator wants it, or if maintenance finds the period on the row over.
NeverFreeBeforePeriodEnd ==
  [][\A w \in Worker :
       (/\ job'[w] # job[w]
        /\ subscription.plan \in Paid /\ subscription'.plan = "free"
        /\ \E p \in Payment : Covers(purchase'[p], job[w].now))
         => \/ w \in stale \/ job[w].tx = "admin"
            \/ job[w].tx = "expire" /\ subscription.end <= job[w].now]_raceVars

=============================================================================
