---------------------------- MODULE Subscriptions ----------------------------
(***************************************************************************)
(* The subscriptions of one organization: SubscriptionService driven by    *)
(* web requests, by the three hourly billing commands and by billing       *)
(* events.  Organizations share no billing state, so one is enough; what   *)
(* a command does for the others only delays it, and it may be delayed     *)
(* between any two rows here.                                              *)
(*                                                                         *)
(* Concurrency is where the code has it.  A request loads its row and acts *)
(* on the loaded object in a later step; a command loads every row that is *)
(* due and then works through those objects one by one.  Each writes back  *)
(* with Save, which does not look at the row again.  As many requests and  *)
(* event deliveries are under way at once as there are Clients; commands   *)
(* run at any time and each excludes only itself (withoutOverlapping).     *)
(***************************************************************************)
EXTENDS SubscriptionRows

CONSTANTS
  Clients,      \* who may have a request or an event in progress
  MaxSubs,      \* bound: rows the organization may come to have
  Providers,    \* payment providers the deployment may be configured with
  Events,       \* billing event types that may arrive
  MaxNow,       \* bound: last day of the model
  MaxInvoices,  \* bound: requests and events stop billing at this many
  MaxCrashes    \* bound: how many times a command dies half way

ASSUME BoundsAssumption ==
  /\ MaxSubs \in Nat
  /\ Providers \subseteq {"manual", "stripe"}
  /\ Events \subseteq {"activated", "payment_failed", "suspended", "canceled"}
  /\ MaxNow \in Nat
  /\ MaxInvoices \in Nat
  /\ MaxCrashes \in Nat

VARIABLES
  now,          \* the day it is
  provider,     \* the configured payment provider
  subs,         \* the rows, NoRow for an id not used yet
  invoices,     \* the invoices issued so far
  lastInvoice,  \* number of the newest invoice
  req,          \* per client, the request being served and the row it loaded
  batch,        \* per command, the loaded rows it has still to process
  crashes       \* how often a command has died so far

vars == <<now, provider, subs, invoices, lastInvoice, req, batch, crashes>>

SubIds == 1..MaxSubs
Commands == {"process-renewals", "expire-trials", "enforce-grace"}
Loaded == [id : SubIds, row : Row]

NoReq == [op |-> "none", id |-> 0, row |-> NoRow]
Requests == {"checkout", "change", "quantity", "cancel", "cancelNow", "resume",
             "settle", "activated", "payment_failed", "suspended", "canceled"}

Invoice ==
  [ id : Nat, sub : SubIds, kind : {"activation", "renewal", "proration"},
    start : MaybeTime, end : MaybeTime, status : {"open", "paid"} ]

\* OrganizationService::create starts the trial along with the organization,
\* on the shorter interval, unless the plan catalogue is not there yet.
Created ==
  [SubIds -> {NoRow}] \cup
  { [i \in SubIds |-> IF i = 1 THEN TrialStarted(len, 0) ELSE NoRow] :
      len \in {month \in Intervals : \A other \in Intervals : month <= other} }

Init ==
  /\ now = 0
  /\ provider \in Providers
  /\ subs \in Created
  /\ invoices = {}
  /\ lastInvoice = 0
  /\ req = [c \in Clients |-> NoReq]
  /\ batch = [c \in Commands |-> {}]
  /\ crashes = 0

-----------------------------------------------------------------------------
(* Organization::activeSubscription: the newest row in an active state.    *)

Active(i) == subs[i].status \in ActiveStates
NoCurrent == \A i \in SubIds : ~Active(i)
IsCurrent(i) == Active(i) /\ \A j \in SubIds : Active(j) => j <= i

\* The id the next inserted row gets.
IsNext(i) ==
  /\ subs[i].status = "none"
  /\ \A j \in SubIds : j < i => subs[j].status # "none"

-----------------------------------------------------------------------------
(* Time passes; the operator points the deployment at another provider.    *)

Tick ==
  /\ now < MaxNow
  /\ now' = now + 1
  /\ UNCHANGED <<provider, subs, invoices, lastInvoice, req, batch, crashes>>

SwitchProvider ==
  /\ provider' \in Providers \ {provider}
  /\ UNCHANGED <<now, subs, invoices, lastInvoice, req, batch, crashes>>

-----------------------------------------------------------------------------
(***************************************************************************)
(* generatePaidInvoice for row i: db is the row as the caller has written  *)
(* it, mem the caller's object.  The manual provider settles an invoice at *)
(* once; Stripe settles only one it knows, and a fresh invoice is never    *)
(* known to it, so the invoice stays open and the object is marked past    *)
(* due.                                                                    *)
(***************************************************************************)
Collects == provider = "manual"

Charge(i, kind, db, mem) ==
  /\ lastInvoice' = lastInvoice + 1
  /\ invoices' = invoices \cup
       {[ id |-> lastInvoice + 1, sub |-> i, kind |-> kind,
          start |-> mem.start, end |-> mem.end,
          status |-> IF Collects THEN "paid" ELSE "open" ]}
  /\ subs' = [subs EXCEPT ![i] =
       IF Collects THEN db ELSE Save(db, mem, PastDue(mem, now))]

\* Save an object over row i without billing.
Store(i, loaded, mem) ==
  /\ subs' = [subs EXCEPT ![i] = Save(@, loaded, mem)]
  /\ UNCHANGED <<invoices, lastInvoice>>

NoWrite == UNCHANGED <<subs, invoices, lastInvoice>>

-----------------------------------------------------------------------------
(* Web requests: first the row is loaded ...                               *)

Idle(c) == req[c] = NoReq
MayBill == lastInvoice < MaxInvoices

LoadsRow(c, op, i) ==
  req' = [req EXCEPT ![c] = [op |-> op, id |-> i, row |-> subs[i]]]

\* Fault: a trial in progress is not looked for, so a second row is inserted.
FaultyLoadCheckout(c) ==
  /\ Idle(c) /\ MayBill
  /\ \E i \in SubIds : IsNext(i)
  /\ req' = [req EXCEPT ![c] = [op |-> "checkout", id |-> 0, row |-> NoRow]]
  /\ UNCHANGED <<now, provider, subs, invoices, lastInvoice, batch, crashes>>

LoadCheckout(c) ==
  /\ Idle(c) /\ MayBill
  /\ \/ \E i \in SubIds : IsCurrent(i) /\ LoadsRow(c, "checkout", i)
     \/ /\ NoCurrent
        /\ \E i \in SubIds : IsNext(i)
        /\ req' = [req EXCEPT ![c] = [op |-> "checkout", id |-> 0, row |-> NoRow]]
  /\ UNCHANGED <<now, provider, subs, invoices, lastInvoice, batch, crashes>>

\* Plan change, cancellation and resume work on the current subscription.
LoadCurrent(c) ==
  /\ Idle(c)
  /\ \E i \in SubIds, op \in {"change", "cancel", "cancelNow", "resume"} :
       /\ IsCurrent(i)
       /\ op = "change" => MayBill
       /\ op = "resume" => subs[i].cancelAtEnd /\ subs[i].status # "canceled"
       /\ LoadsRow(c, op, i)
  /\ UNCHANGED <<now, provider, subs, invoices, lastInvoice, batch, crashes>>

\* A billing event names its row, whatever state that row is in.
LoadEvent(c) ==
  /\ Idle(c)
  /\ \E i \in SubIds, e \in Events :
       /\ subs[i].status # "none"
       /\ e = "activated" => MayBill
       /\ LoadsRow(c, e, i)
  /\ UNCHANGED <<now, provider, subs, invoices, lastInvoice, batch, crashes>>

\* Invoice inv is paid.
SettleInvoice(inv) ==
  /\ inv.status = "open"
  /\ invoices' = (invoices \ {inv}) \cup {[inv EXCEPT !.status = "paid"]}

\* Staff retry an open invoice: it is saved as paid, and if its subscription
\* is found past due the request goes on to settle it.
RetryInvoice(c) ==
  /\ Idle(c) /\ Collects
  /\ \E inv \in invoices :
       /\ SettleInvoice(inv)
       /\ IF subs[inv.sub].status = "past_due"
          THEN LoadsRow(c, "settle", inv.sub)
          ELSE UNCHANGED req
  /\ UNCHANGED <<now, provider, subs, lastInvoice, batch, crashes>>

\* An invoice.paid event settles the invoice and leaves the subscription.
InvoicePaidEvent ==
  /\ Events # {}
  /\ \E inv \in invoices : SettleInvoice(inv)
  /\ UNCHANGED <<now, provider, subs, lastInvoice, req, batch, crashes>>

-----------------------------------------------------------------------------
(* ... and then the handler acts on the loaded object.                     *)

EndRequest(c) ==
  req' = [req EXCEPT ![c] = NoReq] /\ UNCHANGED <<now, provider, batch, crashes>>

\* One transaction: with the manual provider it also activates and bills.
Checkout(c) ==
  /\ req[c].op = "checkout"
  /\ \E i \in SubIds, len \in Intervals :
       /\ IF req[c].id = 0 THEN IsNext(i) ELSE i = req[c].id
       /\ LET mem == CheckedOut(req[c].row, len)
              on == Activated(mem, now)
          IN IF Collects
             THEN Charge(i, "activation", Save(subs[i], req[c].row, on), on)
             ELSE Store(i, req[c].row, mem)
  /\ EndRequest(c)

\* The hosted provider's API call throws: a checkout rolls back, a
\* cancellation never reaches its save.
ProviderRefuses(c) ==
  /\ provider = "stripe"
  /\ \/ req[c].op = "checkout"
     \/ req[c].op \in {"cancel", "cancelNow", "canceled"} /\ req[c].row.providerId
  /\ NoWrite
  /\ EndRequest(c)

\* changePlan: saved first, then re-read, pushed to the provider (which may
\* throw), and an increase is billed at once.  The same request goes on to
\* changeQuantity when a new quantity was posted.
ChangePlan(c) ==
  /\ req[c].op = "change"
  /\ \E len \in Intervals :
       LET i == req[c].id
           mem == [req[c].row EXCEPT !.interval = len]
           row == Save(subs[i], req[c].row, mem)
       IN /\ Charge(i, "proration", row, row) \/ Store(i, req[c].row, mem)
          /\ req' \in {[req EXCEPT ![c] = NoReq], [req EXCEPT ![c].op = "quantity"]}
  /\ UNCHANGED <<now, provider, batch, crashes>>

ChangeQuantity(c) ==
  /\ req[c].op = "quantity"
  /\ \/ Charge(req[c].id, "proration", subs[req[c].id], subs[req[c].id])
     \/ NoWrite
  /\ EndRequest(c)

Cancel(c) ==
  /\ \/ /\ req[c].op = "cancel"
        /\ Store(req[c].id, req[c].row, CancelScheduled(req[c].row))
     \/ /\ req[c].op \in {"cancelNow", "canceled"}
        /\ Store(req[c].id, req[c].row, CanceledNow(req[c].row, now))
  /\ EndRequest(c)

Resume(c) ==
  /\ req[c].op = "resume"
  /\ Store(req[c].id, req[c].row, Resumed(req[c].row))
  /\ EndRequest(c)

Settle(c) ==
  /\ req[c].op = "settle"
  /\ Store(req[c].id, req[c].row, Settled(req[c].row))
  /\ EndRequest(c)

ApplyEvent(c) ==
  /\ \/ /\ req[c].op = "activated"
        /\ LET on == Activated(req[c].row, now)
           IN Charge(req[c].id, "activation", Save(subs[req[c].id], req[c].row, on), on)
     \/ /\ req[c].op = "payment_failed"
        /\ Store(req[c].id, req[c].row, PastDue(req[c].row, now))
     \/ /\ req[c].op = "suspended"
        /\ Store(req[c].id, req[c].row, Suspended(req[c].row))
  /\ EndRequest(c)

\* The process serving a request dies before the handler's write.
RequestDies(c) ==
  /\ crashes < MaxCrashes
  /\ ~Idle(c)
  /\ NoWrite
  /\ req' = [req EXCEPT ![c] = NoReq]
  /\ crashes' = crashes + 1
  /\ UNCHANGED <<now, provider, batch>>

-----------------------------------------------------------------------------
(* The hourly commands.                                                    *)

Due(c, row) ==
  \/ c = "process-renewals" /\ DueForRenewal(row, now)
  \/ c = "expire-trials" /\ DueToExpire(row, now)
  \/ c = "enforce-grace" /\ DueToSuspend(row, now)

DueRows(c) == {e \in [id : SubIds, row : {subs[i] : i \in SubIds}] :
                 e.row = subs[e.id] /\ Due(c, e.row)}

StartSweep(c) ==
  /\ batch[c] = {}
  /\ DueRows(c) # {}
  /\ batch' = [batch EXCEPT ![c] = DueRows(c)]
  /\ UNCHANGED <<now, provider, subs, invoices, lastInvoice, req, crashes>>

\* The next object of the batch, in id order.
IsHead(c, e) == e \in batch[c] /\ \A o \in batch[c] : e.id <= o.id

\* Fault: the period advances only when the renewal is paid.
FaultyRenew(e) ==
  LET mem == Renewed(e.row, now)
  IN Charge(e.id, "renewal",
            IF Collects THEN Save(subs[e.id], e.row, mem) ELSE subs[e.id], mem)

Renew(e) ==
  LET mem == Renewed(e.row, now)
  IN Charge(e.id, "renewal", Save(subs[e.id], e.row, mem), mem)

ProcessRow(c, e) ==
  \/ /\ c = "process-renewals" /\ ~e.row.cancelAtEnd
     /\ Renew(e)
  \/ /\ c = "process-renewals" /\ e.row.cancelAtEnd
     /\ Store(e.id, e.row, CanceledNow(e.row, now))
  \/ /\ c = "expire-trials"
     /\ Store(e.id, e.row, Expired(e.row, now))
  \/ /\ c = "enforce-grace"
     /\ Store(e.id, e.row, Suspended(e.row))

Process(c) ==
  /\ \E e \in batch[c] :
       /\ IsHead(c, e)
       /\ ProcessRow(c, e)
       /\ batch' = [batch EXCEPT ![c] = @ \ {e}]
  /\ UNCHANGED <<now, provider, req, crashes>>

\* The command dies (or an exception ends it): the rest of its batch is
\* left for the next hour.  A renewal may die after its row was saved and
\* before its invoice was written, since renew opens no transaction.
SweepDies(c) ==
  /\ crashes < MaxCrashes
  /\ \E e \in batch[c] :
       /\ IsHead(c, e)
       /\ \/ NoWrite
          \/ /\ c = "process-renewals" /\ ~e.row.cancelAtEnd
             /\ Store(e.id, e.row, Renewed(e.row, now))
  /\ crashes' = crashes + 1
  /\ batch' = [batch EXCEPT ![c] = {}]
  /\ UNCHANGED <<now, provider, req>>

-----------------------------------------------------------------------------
WebRequest(c) ==
  \/ LoadCheckout(c) \/ LoadCurrent(c) \/ RetryInvoice(c)
  \/ Checkout(c) \/ ProviderRefuses(c) \/ ChangePlan(c) \/ ChangeQuantity(c)
  \/ Cancel(c) \/ Resume(c) \/ Settle(c) \/ RequestDies(c)

BillingEvent(c) == LoadEvent(c) \/ ApplyEvent(c)

Sweep(c) == StartSweep(c) \/ Process(c) \/ SweepDies(c)

Next ==
  \/ Tick
  \/ SwitchProvider
  \/ InvoicePaidEvent
  \/ \E c \in Clients : WebRequest(c) \/ BillingEvent(c)
  \/ \E c \in Commands : Sweep(c)

Spec == Init /\ [][Next]_vars

\* The scheduler starts every command each hour and each goes on through
\* its batch; nobody else has to do anything.
Fairness == \A c \in Commands : WF_vars(StartSweep(c)) /\ WF_vars(Process(c))

FairSpec == Spec /\ Fairness

-----------------------------------------------------------------------------
\* Every variable stays in its type.
TypeOK ==
  /\ now \in Nat
  /\ provider \in Providers
  /\ subs \in [SubIds -> Row]
  /\ invoices \in SUBSET Invoice
  /\ lastInvoice \in Nat
  /\ req \in [Clients -> {NoReq} \cup [op : {"checkout"}, id : {0}, row : {NoRow}]
                              \cup [op : Requests, id : SubIds, row : Row]]
  /\ batch \in [Commands -> SUBSET Loaded]
  /\ crashes \in Nat

\* An organization never has two subscriptions in an active state: a
\* checkout reuses the current one, and no command brings an old one back
\* by writing a stale object over it (SubscriptionService::checkout, Save).
OneCurrentSubscription ==
  \A i, j \in SubIds : Active(i) /\ Active(j) => i = j

\* No subscription is billed twice for a period that begins at the same
\* instant by the renewal command, however its snapshots interleave with
\* checkouts and events and wherever it dies (ProcessRenewals, renew).
RenewalsDistinct ==
  \A a, b \in invoices :
    /\ a.kind = "renewal" /\ b.kind = "renewal"
    /\ a.sub = b.sub /\ a.start = b.start
    => a.id = b.id

\* The inductive form of RenewalsDistinct: every renewal began before the
\* end of its subscription's period, both in the table and in the objects a
\* running renewal command still holds, and that command holds one object
\* per subscription.
RenewalInv ==
  /\ RenewalsDistinct
  /\ \A a \in invoices :
       a.kind = "renewal" => a.start <= now /\ a.start < subs[a.sub].end
  /\ \A e \in batch["process-renewals"] :
       /\ e.row.end # NoTime /\ e.row.end <= now
       /\ \A a \in invoices :
            a.kind = "renewal" /\ a.sub = e.id => a.start < e.row.end
  /\ \A e, f \in batch["process-renewals"] : e.id = f.id => e = f

\* Neither a trial nor a failed payment buys access for ever: each leaves a
\* date for expire-trials or enforce-grace to find (startTrial, markPastDue,
\* checkout, cancel, resume).
UnpaidAccessEnds ==
  \A i \in SubIds :
    /\ subs[i].status = "trialing" => subs[i].trialEndsAt # NoTime
    /\ subs[i].status = "past_due" => subs[i].endsAt # NoTime

\* A command never puts an ended subscription back into an active state,
\* although it writes objects loaded before the subscription ended.
SweepNeverRevives ==
  [][ \A i \in SubIds :
        subs[i].status \in EndedStates /\ subs'[i].status \in ActiveStates
        => batch' = batch ]_vars

\* What is due for a command does not stay due for ever: it is renewed,
\* ended, expired or suspended, or someone settles it first.
BoundaryHonoured ==
  \A c \in Commands, i \in SubIds : Due(c, subs[i]) ~> ~Due(c, subs[i])

\* The promise as an abstract machine: at most one current subscription at
\* a time, replaced only after it ended.
Slot == INSTANCE CurrentSubscription WITH
          Ids <- SubIds, current <- {i \in SubIds : Active(i)}
SlotSpec == Slot!Spec

-----------------------------------------------------------------------------
\* A row is set active only by a step that bills it (activate, retryInvoice);
\* "trial_expired --pay--> active", "past_due ... resolve --> active".
ActivationIsBilled ==
  [][ \A i \in SubIds :
        subs[i].status \in {"trialing", "past_due"} /\ subs'[i].status = "active"
        => invoices' # invoices ]_vars

\* A command touches only rows that are past its boundary when it does.
SweepOnlyPastBoundary ==
  [][ \A c \in Commands, i \in SubIds :
        batch'[c] # batch[c] /\ subs'[i] # subs[i] => Due(c, subs[i]) ]_vars

=============================================================================
