--------------------------- MODULE SubscriptionRows ---------------------------
(***************************************************************************)
(* One row of the subscriptions table and what each operation of           *)
(* SubscriptionService writes into it.  Nothing here has state: an         *)
(* operation is a function from the model object in memory (a row) and the *)
(* clock to the object it becomes, and Save says how Eloquent writes that  *)
(* object back over a row that may have changed since it was loaded.       *)
(*                                                                         *)
(* Instants are whole days.  A month or a year is the number of days the   *)
(* plan interval stands for.  Columns nothing branches on (plan, coupon,   *)
(* quantity, canceled_at, the provider's name) are left out.               *)
(***************************************************************************)
EXTENDS Integers

CONSTANTS
  TrialDays,   \* PlanCatalog::TRIAL_DAYS
  GraceDays,   \* config billing.grace_days
  Intervals    \* lengths of the plan intervals (monthly, annual)

ASSUME DaysAssumption ==
  /\ TrialDays \in Nat \ {0}
  /\ GraceDays \in Nat \ {0}
  /\ Intervals \subseteq Nat \ {0}
  /\ Intervals # {}

NoTime == -1                       \* a NULL timestamp
MaybeTime == Nat \cup {NoTime}

ActiveStates == {"trialing", "active", "past_due"}
EndedStates == {"suspended", "canceled", "expired"}

Row ==
  [ status      : ActiveStates \cup EndedStates \cup {"none"},
    interval    : Intervals,
    providerId  : BOOLEAN,         \* provider_id is set
    trialEndsAt : MaybeTime,
    start       : MaybeTime,       \* current_period_start
    end         : MaybeTime,       \* current_period_end
    cancelAtEnd : BOOLEAN,         \* cancel_at_period_end
    endsAt      : MaybeTime ]

\* A model object not yet inserted, and an id no row has yet.  Its interval
\* is a placeholder: both operations that insert a row set one.
NoRow ==
  [ status |-> "none", interval |-> (CHOOSE len \in Intervals : TRUE),
    providerId |-> FALSE, trialEndsAt |-> NoTime, start |-> NoTime,
    end |-> NoTime, cancelAtEnd |-> FALSE, endsAt |-> NoTime ]

-----------------------------------------------------------------------------
(* Operations, each named for the SubscriptionService method it is from.   *)

TrialStarted(len, now) ==
  [ NoRow EXCEPT !.status = "trialing", !.interval = len,
                 !.trialEndsAt = now + TrialDays,
                 !.start = now, !.end = now + TrialDays ]

\* checkout fills the chosen plan and keeps the status a row already has.
CheckedOut(row, len) ==
  [ row EXCEPT !.interval = len, !.providerId = TRUE,
               !.status = IF row.status = "none" THEN "trialing" ELSE row.status ]

Activated(row, now) ==
  [ row EXCEPT !.status = "active", !.start = now, !.end = now + row.interval,
               !.trialEndsAt = NoTime, !.cancelAtEnd = FALSE, !.endsAt = NoTime ]

\* A renewal starts where the loaded period ends, not at the present instant.
Renewed(row, now) ==
  LET from == IF row.end = NoTime THEN now ELSE row.end
  IN [ row EXCEPT !.status = "active", !.start = from, !.end = from + row.interval ]

\* Fault: a status no other code knows.
FaultyCanceledNow(row, now) ==
  [ row EXCEPT !.status = "cancelled", !.endsAt = now, !.cancelAtEnd = FALSE ]

CanceledNow(row, now) ==
  [ row EXCEPT !.status = "canceled", !.endsAt = now, !.cancelAtEnd = FALSE ]

CancelScheduled(row) ==
  [ row EXCEPT !.cancelAtEnd = TRUE, !.endsAt = row.end ]

Resumed(row) ==
  [ row EXCEPT !.status = "active", !.cancelAtEnd = FALSE, !.endsAt = NoTime ]

\* Fault: the payment fails and no grace deadline is set.
FaultyPastDue(row, now) == [ row EXCEPT !.status = "past_due" ]

PastDue(row, now) ==
  [ row EXCEPT !.status = "past_due", !.endsAt = now + GraceDays ]

Settled(row) == [ row EXCEPT !.status = "active", !.endsAt = NoTime ]

Suspended(row) == [ row EXCEPT !.status = "suspended" ]

\* Fault: the end is dated but the status left.
FaultyExpired(row, now) == [ row EXCEPT !.endsAt = now ]

Expired(row, now) == [ row EXCEPT !.status = "expired", !.endsAt = now ]

-----------------------------------------------------------------------------
(* Which rows each scheduled command selects at an instant.                *)

Elapsed(at, now) == at # NoTime /\ at <= now

DueForRenewal(row, now) == row.status = "active" /\ Elapsed(row.end, now)
DueToExpire(row, now) == row.status = "trialing" /\ Elapsed(row.trialEndsAt, now)
DueToSuspend(row, now) == row.status = "past_due" /\ Elapsed(row.endsAt, now)

-----------------------------------------------------------------------------
(***************************************************************************)
(* Eloquent's save: only the attributes that differ from the ones the      *)
(* object was loaded with are written; the others keep whatever the        *)
(* database holds by now.                                                  *)
(***************************************************************************)
Written(db, loaded, mem) == IF mem = loaded THEN db ELSE mem

\* Fault: every attribute is written, changed or not.
FaultySave(db, loaded, mem) == mem

Save(db, loaded, mem) ==
  [ status      |-> Written(db.status, loaded.status, mem.status),
    interval    |-> Written(db.interval, loaded.interval, mem.interval),
    providerId  |-> Written(db.providerId, loaded.providerId, mem.providerId),
    trialEndsAt |-> Written(db.trialEndsAt, loaded.trialEndsAt, mem.trialEndsAt),
    start       |-> Written(db.start, loaded.start, mem.start),
    end         |-> Written(db.end, loaded.end, mem.end),
    cancelAtEnd |-> Written(db.cancelAtEnd, loaded.cancelAtEnd, mem.cancelAtEnd),
    endsAt      |-> Written(db.endsAt, loaded.endsAt, mem.endsAt) ]

=============================================================================
