-------------------------- MODULE SubscriptionsProofs --------------------------

EXTENDS Subscriptions, TLAPS
LEMMA PlanTypes ==
  ASSUME NEW r \in Row, NEW t \in Nat, NEW len \in Intervals
  PROVE  /\ TrialStarted(len, t) \in Row
         /\ CheckedOut(r, len) \in Row
         /\ [r EXCEPT !.interval = len] \in Row
  <1> USE DEF Row, MaybeTime, NoTime, ActiveStates, EndedStates
  <1>1. t + TrialDays \in Nat
    BY DaysAssumption
  <1>2. TrialStarted(len, t) \in Row  BY <1>1 DEF TrialStarted, NoRow
  <1>3. CheckedOut(r, len) \in Row  BY DEF CheckedOut
  <1>4. [r EXCEPT !.interval = len] \in Row  OBVIOUS
  <1> QED BY <1>2, <1>3, <1>4

LEMMA OperationTypes ==
  ASSUME NEW r \in Row, NEW t \in Nat
  PROVE  /\ Activated(r, t) \in Row
         /\ Renewed(r, t) \in Row
         /\ CanceledNow(r, t) \in Row
         /\ CancelScheduled(r) \in Row
         /\ Resumed(r) \in Row
         /\ PastDue(r, t) \in Row
         /\ Settled(r) \in Row
         /\ Suspended(r) \in Row
         /\ Expired(r, t) \in Row
  <1> USE DEF Row, MaybeTime, NoTime, ActiveStates, EndedStates
  <1>1. t + GraceDays \in Nat
    BY DaysAssumption
  <1>2. r.interval \in Nat
    <2>1. r.interval \in Intervals  OBVIOUS
    <2> QED BY <2>1, DaysAssumption
  <1>3. /\ t + r.interval \in Nat
        /\ r.end # -1 => r.end + r.interval \in Nat
    <2>1. r.end \in Nat \cup {-1}  OBVIOUS
    <2> QED BY <1>2, <2>1
  <1>4. Activated(r, t) \in Row  BY <1>3 DEF Activated
  <1>5. Renewed(r, t) \in Row  BY <1>3 DEF Renewed
  <1>6. CanceledNow(r, t) \in Row /\ CancelScheduled(r) \in Row
    BY DEF CanceledNow, CancelScheduled
  <1>7. Resumed(r) \in Row /\ PastDue(r, t) \in Row /\ Settled(r) \in Row
    BY <1>1 DEF Resumed, PastDue, Settled
  <1>8. Suspended(r) \in Row /\ Expired(r, t) \in Row
    BY DEF Suspended, Expired
  <1> QED BY <1>4, <1>5, <1>6, <1>7, <1>8

LEMMA SaveType ==
  ASSUME NEW db \in Row, NEW loaded \in Row, NEW mem \in Row
  PROVE  Save(db, loaded, mem) \in Row
  BY DEF Save, Written, Row

LEMMA NoRowType == NoRow \in Row
  BY DaysAssumption DEF NoRow, Row, MaybeTime, NoTime
-----------------------------------------------------------------------------
(* Type correctness.                                                       *)

Ledger ==
  /\ subs \in [SubIds -> Row]
  /\ invoices \in SUBSET Invoice
  /\ lastInvoice \in Nat

LEMMA StoreKeepsLedger ==
  ASSUME Ledger, NEW i \in SubIds, NEW loaded \in Row, NEW mem \in Row,
         Store(i, loaded, mem)
  PROVE  Ledger'
  <1>1. Save(subs[i], loaded, mem) \in Row
    BY SaveType DEF Ledger
  <1> QED BY <1>1 DEF Store, Ledger

LEMMA ChargeKeepsLedger ==
  ASSUME Ledger, now \in Nat, NEW i \in SubIds,
         NEW kind \in {"activation", "renewal", "proration"},
         NEW db \in Row, NEW mem \in Row, Charge(i, kind, db, mem)
  PROVE  Ledger'
  <1>1. Save(db, mem, PastDue(mem, now)) \in Row
    <2>1. PastDue(mem, now) \in Row
      BY OperationTypes
    <2> QED BY <2>1, SaveType
  <1>2. subs' \in [SubIds -> Row]
    BY <1>1 DEF Charge, Ledger
  <1>3. invoices' \subseteq Invoice /\ lastInvoice' \in Nat
    BY DEF Charge, Ledger, Invoice, Row
  <1> QED BY <1>2, <1>3 DEF Ledger

LEMMA NoWriteKeepsLedger == Ledger /\ NoWrite => Ledger'
  BY DEF Ledger, NoWrite
LEMMA InitType == Init => TypeOK
  <1> SUFFICES ASSUME Init PROVE TypeOK
    OBVIOUS
  <1>1. subs \in [SubIds -> Row]
    <2>1. \A len \in Intervals : TrialStarted(len, 0) \in Row
      BY PlanTypes, NoRowType
    <2> QED BY <2>1, NoRowType DEF Init, Created
  <1> QED BY <1>1, BoundsAssumption DEF Init, TypeOK

\* What a request in progress may hold.
InProgress ==
  {NoReq} \cup [op : {"checkout"}, id : {0}, row : {NoRow}]
          \cup [op : Requests, id : SubIds, row : Row]

LEMMA LoadsType ==
  ASSUME TypeOK, NEW c \in Clients, NEW op \in Requests, NEW i \in SubIds,
         LoadsRow(c, op, i)
  PROVE  req' \in [Clients -> InProgress]
  <1>1. [op |-> op, id |-> i, row |-> subs[i]] \in InProgress
    BY DEF TypeOK, InProgress
  <1> QED BY <1>1 DEF LoadsRow, TypeOK, InProgress

LEMMA SettleType ==
  ASSUME TypeOK, NEW inv \in invoices, SettleInvoice(inv)
  PROVE  invoices' \in SUBSET Invoice
  <1>1. [inv EXCEPT !.status = "paid"] \in Invoice
    BY DEF TypeOK, Invoice
  <1> QED BY <1>1 DEF SettleInvoice, TypeOK

\* What the handlers of client c's request may rely on.
LEMMA HeldType ==
  ASSUME TypeOK, NEW c \in Clients
  PROVE  /\ req[c].row \in Row
         /\ req[c].op # "none" /\ req[c].op # "checkout" =>
              req[c].id \in SubIds /\ subs[req[c].id] \in Row
  <1>1. req[c] \in InProgress
    BY DEF TypeOK, InProgress
  <1> QED BY <1>1, NoRowType DEF InProgress, NoReq, TypeOK

LEMMA RequestType ==
  ASSUME TypeOK, NEW c \in Clients, WebRequest(c)
  PROVE  TypeOK'
  <1>l. Ledger /\ now \in Nat  BY DEF TypeOK, Ledger
  <1>r. /\ req[c].row \in Row
        /\ req[c].op # "none" /\ req[c].op # "checkout" =>
             req[c].id \in SubIds /\ subs[req[c].id] \in Row
    BY HeldType
  <1>q. ASSUME req' \in [Clients -> InProgress], Ledger',
               UNCHANGED <<now, provider, batch>>, crashes' \in Nat
        PROVE  TypeOK'
    BY <1>q DEF TypeOK, Ledger, InProgress
  <1>e. ASSUME EndRequest(c), Ledger' PROVE TypeOK'
    <2>1. req' \in [Clients -> InProgress]
      BY <1>e DEF EndRequest, TypeOK, InProgress
    <2> QED BY <1>e, <1>q, <2>1 DEF EndRequest, TypeOK
  <1>2. CASE LoadCheckout(c)
    <2>1. req' \in [Clients -> InProgress]
      <3>1. CASE \E i \in SubIds : LoadsRow(c, "checkout", i)
        BY <3>1, LoadsType DEF Requests
      <3>2. CASE req' = [req EXCEPT ![c] = [op |-> "checkout", id |-> 0, row |-> NoRow]]
        BY <3>2 DEF TypeOK, InProgress
      <3> QED BY <1>2, <3>1, <3>2 DEF LoadCheckout
    <2>2. Ledger' /\ UNCHANGED <<now, provider, batch, crashes>>
      BY <1>2, <1>l DEF LoadCheckout, Ledger
    <2> QED BY <2>1, <2>2, <1>q DEF TypeOK
  <1>3. CASE LoadCurrent(c)
    <2>1. req' \in [Clients -> InProgress]
      BY <1>3, LoadsType DEF LoadCurrent, Requests
    <2>2. Ledger' /\ UNCHANGED <<now, provider, batch, crashes>>
      BY <1>3, <1>l DEF LoadCurrent, Ledger
    <2> QED BY <2>1, <2>2, <1>q DEF TypeOK
  <1>10. CASE RetryInvoice(c)
    <2>1. PICK inv \in invoices :
            /\ SettleInvoice(inv)
            /\ IF subs[inv.sub].status = "past_due"
               THEN LoadsRow(c, "settle", inv.sub) ELSE UNCHANGED req
      BY <1>10 DEF RetryInvoice
    <2>2. inv.sub \in SubIds
      BY DEF TypeOK, Invoice
    <2>3. req' \in [Clients -> InProgress]
      <3>1. CASE LoadsRow(c, "settle", inv.sub)
        BY <3>1, <2>2, LoadsType DEF Requests
      <3>2. CASE UNCHANGED req
        BY <3>2 DEF TypeOK, InProgress
      <3> QED BY <2>1, <3>1, <3>2
    <2>4. Ledger' /\ UNCHANGED <<now, provider, batch, crashes>>
      BY <1>10, <1>l, <2>1, SettleType DEF RetryInvoice, Ledger
    <2> QED BY <2>3, <2>4, <1>q DEF TypeOK
  <1>4. CASE Checkout(c)
    <2>1. PICK i \in SubIds, len \in Intervals :
            LET mem == CheckedOut(req[c].row, len)
                on == Activated(mem, now)
            IN IF Collects
               THEN Charge(i, "activation", Save(subs[i], req[c].row, on), on)
               ELSE Store(i, req[c].row, mem)
      BY <1>4 DEF Checkout
    <2> DEFINE mem == CheckedOut(req[c].row, len)
               on == Activated(mem, now)
    <2>2. req[c].row \in Row /\ subs[i] \in Row
      BY <1>r, <1>l DEF Ledger
    <2>3. mem \in Row /\ on \in Row
      BY <2>2, <1>l, PlanTypes, OperationTypes
    <2>4. Save(subs[i], req[c].row, on) \in Row
      BY <2>2, <2>3, SaveType
    <2>5. Ledger'
      <3> HIDE DEF mem, on
      <3>1. CASE Collects
        <4>1. Charge(i, "activation", Save(subs[i], req[c].row, on), on)
          BY <2>1, <3>1 DEF mem, on
        <4> QED BY <4>1, <2>3, <2>4, <1>l, ChargeKeepsLedger
      <3>2. CASE ~Collects
        <4>1. Store(i, req[c].row, mem)
          BY <2>1, <3>2 DEF mem, on
        <4> QED BY <4>1, <2>2, <2>3, <1>l, StoreKeepsLedger
      <3> QED BY <3>1, <3>2
    <2> QED BY <2>5, <1>4, <1>e DEF Checkout
  <1>5. CASE ProviderRefuses(c)
    BY <1>5, <1>l, <1>e, NoWriteKeepsLedger DEF ProviderRefuses
  <1>6. CASE ChangePlan(c)
    <2>1. PICK len \in Intervals :
            LET mem == [req[c].row EXCEPT !.interval = len]
                row == Save(subs[req[c].id], req[c].row, mem)
            IN Charge(req[c].id, "proration", row, row) \/ Store(req[c].id, req[c].row, mem)
      BY <1>6 DEF ChangePlan
    <2> DEFINE mem == [req[c].row EXCEPT !.interval = len]
               row == Save(subs[req[c].id], req[c].row, mem)
    <2>2. req[c].id \in SubIds /\ req[c].row \in Row /\ subs[req[c].id] \in Row
      BY <1>6, <1>r DEF ChangePlan
    <2>3. mem \in Row
      BY <2>2, <1>l, PlanTypes
    <2>4. row \in Row
      BY <2>2, <2>3, SaveType
    <2>5. Ledger'
      <3> HIDE DEF mem, row
      <3>1. Charge(req[c].id, "proration", row, row) \/ Store(req[c].id, req[c].row, mem)
        BY <2>1 DEF mem, row
      <3> QED BY <3>1, <2>2, <2>3, <2>4, <1>l, ChargeKeepsLedger, StoreKeepsLedger
    <2>6. req' \in {[req EXCEPT ![c] = NoReq], [req EXCEPT ![c].op = "quantity"]}
      BY <1>6 DEF ChangePlan
    <2>7. req' \in [Clients -> InProgress]
      <3>1. [req[c] EXCEPT !.op = "quantity"] \in InProgress
        <4>1. req[c] \in [op : Requests, id : SubIds, row : Row]
          BY <1>6 DEF ChangePlan, TypeOK, NoReq
        <4> QED BY <4>1 DEF InProgress, Requests
      <3> QED BY <2>6, <3>1 DEF TypeOK, InProgress
    <2> QED BY <2>5, <2>7, <1>6, <1>q DEF ChangePlan, TypeOK
  <1>7. CASE ChangeQuantity(c)
    <2>1. req[c].id \in SubIds /\ subs[req[c].id] \in Row
      BY <1>7, <1>r DEF ChangeQuantity
    <2>2. Ledger'
      BY <1>7, <2>1, <1>l, ChargeKeepsLedger, NoWriteKeepsLedger DEF ChangeQuantity
    <2> QED BY <2>2, <1>7, <1>e DEF ChangeQuantity
  <1>8. CASE Cancel(c)
    <2>1. req[c].id \in SubIds /\ req[c].row \in Row
      BY <1>8, <1>r DEF Cancel
    <2>2. CancelScheduled(req[c].row) \in Row /\ CanceledNow(req[c].row, now) \in Row
      BY <2>1, <1>l, OperationTypes
    <2>3. Ledger'
      BY <1>8, <2>1, <2>2, <1>l, StoreKeepsLedger DEF Cancel
    <2> QED BY <2>3, <1>8, <1>e DEF Cancel
  <1>9. CASE Resume(c) \/ Settle(c)
    <2>1. req[c].id \in SubIds /\ req[c].row \in Row
      BY <1>9, <1>r DEF Resume, Settle
    <2>2. Resumed(req[c].row) \in Row /\ Settled(req[c].row) \in Row
      BY <2>1, <1>l, OperationTypes
    <2>3. Ledger'
      BY <1>9, <2>1, <2>2, <1>l, StoreKeepsLedger DEF Resume, Settle
    <2> QED BY <2>3, <1>9, <1>e DEF Resume, Settle
  <1>11. CASE RequestDies(c)
    <2>1. Ledger'
      BY <1>11, <1>l, NoWriteKeepsLedger DEF RequestDies
    <2>2. req' \in [Clients -> InProgress] /\ crashes' \in Nat
      BY <1>11 DEF RequestDies, TypeOK, InProgress
    <2> QED BY <2>1, <2>2, <1>11, <1>q DEF RequestDies
  <1> QED BY <1>2, <1>3, <1>4, <1>5, <1>6, <1>7, <1>8, <1>9, <1>10, <1>11
          DEF WebRequest

LEMMA EventType ==
  ASSUME TypeOK, NEW c \in Clients, BillingEvent(c)
  PROVE  TypeOK'
  <1>l. Ledger /\ now \in Nat  BY DEF TypeOK, Ledger
  <1>1. CASE LoadEvent(c)
    <2>1. PICK i \in SubIds, e \in Events : LoadsRow(c, e, i)
      BY <1>1 DEF LoadEvent
    <2>2. e \in Requests
      BY BoundsAssumption DEF Requests
    <2>3. req' \in [Clients -> InProgress]
      BY <2>1, <2>2, LoadsType
    <2> QED BY <2>3, <1>1 DEF LoadEvent, TypeOK, InProgress
  <1>2. CASE ApplyEvent(c)
    <2>1. req[c].id \in SubIds /\ req[c].row \in Row /\ subs[req[c].id] \in Row
      BY <1>2, HeldType DEF ApplyEvent
    <2> DEFINE on == Activated(req[c].row, now)
    <2>2. /\ on \in Row
          /\ PastDue(req[c].row, now) \in Row
          /\ Suspended(req[c].row) \in Row
      BY <2>1, <1>l, OperationTypes
    <2>3. Save(subs[req[c].id], req[c].row, on) \in Row
      BY <2>1, <2>2, SaveType
    <2>4. \/ Charge(req[c].id, "activation", Save(subs[req[c].id], req[c].row, on), on)
          \/ Store(req[c].id, req[c].row, PastDue(req[c].row, now))
          \/ Store(req[c].id, req[c].row, Suspended(req[c].row))
      BY <1>2 DEF ApplyEvent
    <2>5. Ledger'
      <3> HIDE DEF on
      <3> QED BY <2>1, <2>2, <2>3, <2>4, <1>l, ChargeKeepsLedger, StoreKeepsLedger
    <2> QED BY <2>5, <1>2 DEF ApplyEvent, EndRequest, TypeOK, Ledger
  <1> QED BY <1>1, <1>2 DEF BillingEvent

LEMMA SweepType ==
  ASSUME TypeOK, NEW c \in Commands, Sweep(c)
  PROVE  TypeOK'
  <1>l. Ledger /\ now \in Nat  BY DEF TypeOK, Ledger
  <1>h. ASSUME NEW e \in batch[c]
        PROVE  e \in Loaded /\ e.id \in SubIds /\ e.row \in Row /\ subs[e.id] \in Row
    <2>1. e \in Loaded  BY DEF TypeOK
    <2> QED BY <2>1, <1>l DEF Loaded, Ledger
  <1>r. ASSUME NEW e \in batch[c]
        PROVE  /\ Renewed(e.row, now) \in Row
               /\ CanceledNow(e.row, now) \in Row
               /\ Expired(e.row, now) \in Row
               /\ Suspended(e.row) \in Row
    BY <1>h, <1>l, OperationTypes
  <1>1. CASE StartSweep(c)
    <2>1. DueRows(c) \subseteq Loaded
      BY <1>l DEF DueRows, Loaded, Ledger
    <2>2. batch' \in [Commands -> SUBSET Loaded]
      BY <1>1, <2>1 DEF StartSweep, TypeOK
    <2> QED BY <1>1, <2>2 DEF StartSweep, TypeOK
  <1>2. CASE Process(c)
    <2>1. PICK e \in batch[c] :
            ProcessRow(c, e) /\ batch' = [batch EXCEPT ![c] = @ \ {e}]
      BY <1>2 DEF Process
    <2>2. Ledger'
      <3>1. CASE Renew(e)
        <4> DEFINE mem == Renewed(e.row, now)
        <4>1. Save(subs[e.id], e.row, mem) \in Row
          BY <1>h, <1>r, SaveType
        <4>2. Charge(e.id, "renewal", Save(subs[e.id], e.row, mem), mem)
          BY <3>1 DEF Renew
        <4> HIDE DEF mem
        <4>3. mem \in Row
          BY <1>r DEF mem
        <4> QED BY <4>1, <4>2, <4>3, <1>h, <1>l, ChargeKeepsLedger
      <3>2. CASE \/ Store(e.id, e.row, CanceledNow(e.row, now))
                 \/ Store(e.id, e.row, Expired(e.row, now))
                 \/ Store(e.id, e.row, Suspended(e.row))
        BY <3>2, <1>h, <1>r, <1>l, StoreKeepsLedger
      <3> QED BY <2>1, <3>1, <3>2 DEF ProcessRow
    <2>3. batch' \in [Commands -> SUBSET Loaded]
      BY <2>1 DEF TypeOK
    <2> QED BY <1>2, <2>2, <2>3 DEF Process, TypeOK, Ledger
  <1>3. CASE SweepDies(c)
    <2>1. PICK e \in batch[c] : NoWrite \/ Store(e.id, e.row, Renewed(e.row, now))
      BY <1>3 DEF SweepDies
    <2>2. Ledger'
      BY <2>1, <1>h, <1>r, <1>l, StoreKeepsLedger, NoWriteKeepsLedger
    <2>3. batch' \in [Commands -> SUBSET Loaded] /\ crashes' \in Nat
      BY <1>3 DEF SweepDies, TypeOK
    <2> QED BY <1>3, <2>2, <2>3 DEF SweepDies, TypeOK, Ledger
  <1> QED BY <1>1, <1>2, <1>3 DEF Sweep

LEMMA NextType == TypeOK /\ [Next]_vars => TypeOK'
  <1> SUFFICES ASSUME TypeOK, [Next]_vars PROVE TypeOK'
    OBVIOUS
  <1>1. CASE Tick
    BY <1>1 DEF Tick, TypeOK
  <1>2. CASE SwitchProvider
    BY <1>2 DEF SwitchProvider, TypeOK
  <1>3. CASE InvoicePaidEvent
    BY <1>3, SettleType DEF InvoicePaidEvent, TypeOK
  <1>4. CASE UNCHANGED vars
    BY <1>4 DEF vars, TypeOK
  <1> QED BY <1>1, <1>2, <1>3, <1>4, RequestType, EventType, SweepType DEF Next

\* Every reachable state of the billing machine is well typed: whatever the
\* interleaving of requests, events and commands, no row is left half formed.
THEOREM TypeCorrect == Spec => []TypeOK
  BY InitType, NextType, PTL DEF Spec

-----------------------------------------------------------------------------
(* No period is renewed twice.                                             *)

\* No row's period end moves, except to a date still to come ...
EndsKept ==
  \A i \in SubIds : subs'[i].end = subs[i].end \/ subs'[i].end > now

\* ... and no renewal invoice appears.
RenewalsKept ==
  \A b \in invoices' : b.kind = "renewal" =>
    \E a \in invoices : /\ a.kind = "renewal" /\ a.id = b.id
                        /\ a.sub = b.sub /\ a.start = b.start

LEMMA StoreKeepsEnds ==
  ASSUME TypeOK, NEW i \in SubIds, NEW loaded \in Row, NEW mem \in Row,
         mem.end = loaded.end \/ mem.end > now, Store(i, loaded, mem)
  PROVE  EndsKept /\ RenewalsKept
  <1>1. \A j \in SubIds : subs[j] \in Row  BY DEF TypeOK
  <1>2. Save(subs[i], loaded, mem).end = subs[i].end
          \/ Save(subs[i], loaded, mem).end > now
    BY DEF Save, Written
  <1>3. EndsKept
    BY <1>1, <1>2 DEF Store, EndsKept, TypeOK
  <1>4. RenewalsKept
    BY DEF Store, RenewalsKept
  <1> QED BY <1>3, <1>4

LEMMA NoWriteKeepsEnds == TypeOK /\ NoWrite => EndsKept /\ RenewalsKept
  BY DEF NoWrite, EndsKept, RenewalsKept

LEMMA ChargeEnd ==
  ASSUME TypeOK, NEW i \in SubIds, NEW kind, NEW db \in Row, NEW mem \in Row,
         Charge(i, kind, db, mem)
  PROVE  /\ subs'[i].end = db.end
         /\ \A j \in SubIds \ {i} : subs'[j] = subs[j]
  <1>1. Save(db, mem, PastDue(mem, now)).end = db.end
    BY DEF Save, Written, PastDue, Row
  <1> QED BY <1>1 DEF Charge, TypeOK

LEMMA ChargeKeepsEnds ==
  ASSUME TypeOK, NEW i \in SubIds, NEW kind \in {"activation", "proration"},
         NEW db \in Row, NEW mem \in Row, Charge(i, kind, db, mem),
         db.end = subs[i].end \/ db.end > now
  PROVE  EndsKept /\ RenewalsKept
  <1>1. EndsKept
    BY ChargeEnd DEF EndsKept
  <1>2. RenewalsKept
    BY DEF Charge, RenewalsKept
  <1> QED BY <1>1, <1>2

\* A step that renews nothing keeps the invariant.
LEMMA QuietStep ==
  ASSUME TypeOK, TypeOK', RenewalInv, EndsKept, RenewalsKept, now' >= now,
         batch'["process-renewals"] \subseteq batch["process-renewals"]
  PROVE  RenewalInv'
  <1>1. RenewalsDistinct'
    BY DEF RenewalInv, RenewalsDistinct, RenewalsKept
  <1>2. ASSUME NEW b \in invoices', b.kind = "renewal"
        PROVE  b.start <= now' /\ b.start < subs'[b.sub].end
    <2>1. PICK a \in invoices : /\ a.kind = "renewal" /\ a.id = b.id
                                /\ a.sub = b.sub /\ a.start = b.start
      BY <1>2 DEF RenewalsKept
    <2>2. a.sub \in SubIds /\ a.start \in Int /\ now \in Nat /\ now' \in Nat
      BY DEF TypeOK, Invoice, MaybeTime, NoTime
    <2>3. a.start <= now /\ a.start < subs[a.sub].end
      BY <2>1 DEF RenewalInv
    <2>4. subs'[a.sub].end = subs[a.sub].end \/ subs'[a.sub].end > now
      BY <2>2 DEF EndsKept
    <2>5. subs[a.sub].end \in Int /\ subs'[a.sub].end \in Int
      BY <2>2 DEF TypeOK, Row, MaybeTime, NoTime
    <2> QED BY <2>1, <2>2, <2>3, <2>4, <2>5
  <1>3. ASSUME NEW e \in batch'["process-renewals"]
        PROVE  /\ e.row.end # NoTime /\ e.row.end <= now'
               /\ \A a \in invoices' :
                    a.kind = "renewal" /\ a.sub = e.id => a.start < e.row.end
    <2>1. e \in batch["process-renewals"] /\ e \in Loaded
      BY DEF TypeOK, Commands
    <2>2. e.row.end \in Int /\ now \in Nat /\ now' \in Nat
      BY <2>1 DEF Loaded, Row, MaybeTime, NoTime, TypeOK
    <2>3. e.row.end # NoTime /\ e.row.end <= now
      BY <2>1 DEF RenewalInv
    <2> QED BY <2>1, <2>2, <2>3 DEF RenewalInv, RenewalsKept
  <1>4. \A e, f \in batch'["process-renewals"] : e.id = f.id => e = f
    BY DEF RenewalInv
  <1> QED BY <1>1, <1>2, <1>3, <1>4 DEF RenewalInv

\* An activation's period ends after the instant it begins.
LEMMA ActivatedEnd ==
  ASSUME NEW r \in Row, NEW t \in Nat
  PROVE  Activated(r, t).end > t
  <1>1. Activated(r, t).end = t + r.interval /\ r.interval \in Intervals
    BY DEF Activated, Row
  <1>2. \A len \in Intervals : len \in Nat /\ len > 0
    BY DaysAssumption
  <1>3. r.interval \in Nat /\ r.interval > 0
    BY <1>1, <1>2
  <1> QED BY <1>1, <1>3

\* A renewal begins where the old period ends, and ends later.
LEMMA RenewedEnd ==
  ASSUME NEW r \in Row, NEW t \in Nat, r.end \in Nat
  PROVE  /\ Renewed(r, t).start = r.end
         /\ Renewed(r, t).end > r.end /\ Renewed(r, t).end # r.end
  <1>1. /\ Renewed(r, t).start = r.end /\ Renewed(r, t).end = r.end + r.interval
        /\ r.interval \in Intervals
    BY DEF Renewed, Row, NoTime
  <1>2. \A len \in Intervals : len \in Nat /\ len > 0
    BY DaysAssumption
  <1>3. r.interval \in Nat /\ r.interval > 0
    BY <1>1, <1>2
  <1> QED BY <1>1, <1>3

LEMMA SettleKeepsRenewals ==
  ASSUME TypeOK, NEW inv \in invoices, SettleInvoice(inv)
  PROVE  RenewalsKept
  BY DEF SettleInvoice, RenewalsKept, TypeOK, Invoice

LEMMA RequestRenewals ==
  ASSUME TypeOK, TypeOK', RenewalInv, NEW c \in Clients, WebRequest(c)
  PROVE  RenewalInv'
  <1>l. now \in Nat /\ \A i \in SubIds : subs[i] \in Row
    BY DEF TypeOK
  <1>r. /\ req[c].row \in Row
        /\ req[c].op # "none" /\ req[c].op # "checkout" =>
             req[c].id \in SubIds /\ subs[req[c].id] \in Row
    BY HeldType
  <1>q. SUFFICES EndsKept /\ RenewalsKept
    <2>1. now' = now /\ batch' = batch
      BY DEF WebRequest, LoadCheckout, LoadCurrent, RetryInvoice, Checkout,
             ProviderRefuses, ChangePlan, ChangeQuantity, Cancel, Resume,
             Settle, RequestDies, EndRequest
    <2> QED BY <2>1, <1>l, QuietStep
  <1>2. CASE LoadCheckout(c) \/ LoadCurrent(c)
    BY <1>2 DEF LoadCheckout, LoadCurrent, EndsKept, RenewalsKept
  <1>3. CASE RetryInvoice(c)
    BY <1>3, SettleKeepsRenewals DEF RetryInvoice, EndsKept
  <1>4. CASE Checkout(c)
    <2>1. PICK i \in SubIds, len \in Intervals :
            LET mem == CheckedOut(req[c].row, len)
                on == Activated(mem, now)
            IN IF Collects
               THEN Charge(i, "activation", Save(subs[i], req[c].row, on), on)
               ELSE Store(i, req[c].row, mem)
      BY <1>4 DEF Checkout
    <2> DEFINE mem == CheckedOut(req[c].row, len)
               on == Activated(mem, now)
    <2>2. req[c].row \in Row /\ subs[i] \in Row
      BY <1>r, <1>l
    <2>3. mem \in Row /\ on \in Row
      BY <2>2, <1>l, PlanTypes, OperationTypes
    <2>4. Save(subs[i], req[c].row, on) \in Row
      BY <2>2, <2>3, SaveType
    <2>5. mem.end = req[c].row.end
      BY <2>2 DEF CheckedOut, Row
    <2>6. on.end > now
      <3> HIDE DEF mem
      <3> QED BY <2>3, <1>l, ActivatedEnd
    <2> HIDE DEF mem, on
    <2>7. CASE Collects
      <3>1. Charge(i, "activation", Save(subs[i], req[c].row, on), on)
        BY <2>1, <2>7 DEF mem, on
      <3>2. \/ Save(subs[i], req[c].row, on).end = subs[i].end
            \/ Save(subs[i], req[c].row, on).end > now
        BY <2>6 DEF Save, Written
      <3> QED BY <3>1, <3>2, <2>3, <2>4, ChargeKeepsEnds
    <2>8. CASE ~Collects
      <3>1. Store(i, req[c].row, mem)
        BY <2>1, <2>8 DEF mem, on
      <3> QED BY <3>1, <2>2, <2>3, <2>5, StoreKeepsEnds
    <2> QED BY <2>7, <2>8
  <1>5. CASE ProviderRefuses(c) \/ RequestDies(c)
    BY <1>5, NoWriteKeepsEnds DEF ProviderRefuses, RequestDies
  <1>6. CASE ChangePlan(c)
    <2>1. PICK len \in Intervals :
            LET mem == [req[c].row EXCEPT !.interval = len]
                row == Save(subs[req[c].id], req[c].row, mem)
            IN Charge(req[c].id, "proration", row, row) \/ Store(req[c].id, req[c].row, mem)
      BY <1>6 DEF ChangePlan
    <2> DEFINE mem == [req[c].row EXCEPT !.interval = len]
               row == Save(subs[req[c].id], req[c].row, mem)
    <2>2. req[c].id \in SubIds /\ req[c].row \in Row /\ subs[req[c].id] \in Row
      BY <1>6, <1>r DEF ChangePlan
    <2>3. mem \in Row
      BY <2>2, <1>l, PlanTypes
    <2>4. row \in Row
      BY <2>2, <2>3, SaveType
    <2>5. mem.end = req[c].row.end
      BY <2>2 DEF Row
    <2>6. row.end = subs[req[c].id].end
      BY <2>5 DEF Save, Written
    <2> HIDE DEF mem, row
    <2>7. Charge(req[c].id, "proration", row, row) \/ Store(req[c].id, req[c].row, mem)
      BY <2>1 DEF mem, row
    <2> QED BY <2>2, <2>3, <2>4, <2>5, <2>6, <2>7, ChargeKeepsEnds, StoreKeepsEnds
  <1>7. CASE ChangeQuantity(c)
    <2>1. req[c].id \in SubIds /\ subs[req[c].id] \in Row
      BY <1>7, <1>r DEF ChangeQuantity
    <2> QED BY <1>7, <2>1, ChargeKeepsEnds, NoWriteKeepsEnds DEF ChangeQuantity
  <1>8. CASE Cancel(c)
    <2>1. req[c].id \in SubIds /\ req[c].row \in Row
      BY <1>8, <1>r DEF Cancel
    <2>2. CancelScheduled(req[c].row) \in Row /\ CanceledNow(req[c].row, now) \in Row
      BY <2>1, <1>l, OperationTypes
    <2>3. /\ CancelScheduled(req[c].row).end = req[c].row.end
          /\ CanceledNow(req[c].row, now).end = req[c].row.end
      BY <2>1 DEF CancelScheduled, CanceledNow, Row
    <2> QED BY <1>8, <2>1, <2>2, <2>3, StoreKeepsEnds DEF Cancel
  <1>9. CASE Resume(c) \/ Settle(c)
    <2>1. req[c].id \in SubIds /\ req[c].row \in Row
      BY <1>9, <1>r DEF Resume, Settle
    <2>2. Resumed(req[c].row) \in Row /\ Settled(req[c].row) \in Row
      BY <2>1, <1>l, OperationTypes
    <2>3. /\ Resumed(req[c].row).end = req[c].row.end
          /\ Settled(req[c].row).end = req[c].row.end
      BY <2>1 DEF Resumed, Settled, Row
    <2> QED BY <1>9, <2>1, <2>2, <2>3, StoreKeepsEnds DEF Resume, Settle
  <1> QED BY <1>2, <1>3, <1>4, <1>5, <1>6, <1>7, <1>8, <1>9 DEF WebRequest

LEMMA EventRenewals ==
  ASSUME TypeOK, TypeOK', RenewalInv, NEW c \in Clients, BillingEvent(c)
  PROVE  RenewalInv'
  <1>l. now \in Nat /\ \A i \in SubIds : subs[i] \in Row
    BY DEF TypeOK
  <1>q. SUFFICES EndsKept /\ RenewalsKept
    <2>1. now' = now /\ batch' = batch
      BY DEF BillingEvent, LoadEvent, ApplyEvent, EndRequest
    <2> QED BY <2>1, <1>l, QuietStep
  <1>1. CASE LoadEvent(c)
    BY <1>1 DEF LoadEvent, EndsKept, RenewalsKept
  <1>2. CASE ApplyEvent(c)
    <2>1. req[c].id \in SubIds /\ req[c].row \in Row /\ subs[req[c].id] \in Row
      BY <1>2, HeldType DEF ApplyEvent
    <2> DEFINE on == Activated(req[c].row, now)
    <2>2. /\ on \in Row
          /\ PastDue(req[c].row, now) \in Row
          /\ Suspended(req[c].row) \in Row
      BY <2>1, <1>l, OperationTypes
    <2>3. Save(subs[req[c].id], req[c].row, on) \in Row
      BY <2>1, <2>2, SaveType
    <2>4. on.end > now
      BY <2>1, <1>l, ActivatedEnd
    <2>5. /\ PastDue(req[c].row, now).end = req[c].row.end
          /\ Suspended(req[c].row).end = req[c].row.end
      BY <2>1 DEF PastDue, Suspended, Row
    <2>6. \/ Charge(req[c].id, "activation", Save(subs[req[c].id], req[c].row, on), on)
          \/ Store(req[c].id, req[c].row, PastDue(req[c].row, now))
          \/ Store(req[c].id, req[c].row, Suspended(req[c].row))
      BY <1>2 DEF ApplyEvent
    <2> HIDE DEF on
    <2>7. \/ Save(subs[req[c].id], req[c].row, on).end = subs[req[c].id].end
          \/ Save(subs[req[c].id], req[c].row, on).end > now
      BY <2>4 DEF Save, Written
    <2> QED BY <2>1, <2>2, <2>3, <2>5, <2>6, <2>7, ChargeKeepsEnds, StoreKeepsEnds
  <1> QED BY <1>1, <1>2 DEF BillingEvent

\* A renewal that extends row e.id to the end of the next period, invoiced or
\* not, when the command lets go of e.
LEMMA RenewalStep ==
  ASSUME TypeOK, TypeOK', RenewalInv, now' = now,
         NEW e \in batch["process-renewals"],
         subs'[e.id].end = Renewed(e.row, now).end,
         \A j \in SubIds \ {e.id} : subs'[j] = subs[j],
         batch'["process-renewals"] \subseteq batch["process-renewals"] \ {e},
         \A b \in invoices' : b.kind = "renewal" =>
            \/ b \in invoices
            \/ /\ b.id = lastInvoice + 1 /\ b.sub = e.id
               /\ b.start = Renewed(e.row, now).start
  PROVE  RenewalInv'
  <1>1. /\ e \in Loaded /\ e.id \in SubIds /\ e.row \in Row
        /\ now \in Nat
    BY DEF TypeOK, Commands, Loaded
  <1>2. /\ e.row.end \in Nat /\ e.row.end <= now
        /\ \A a \in invoices :
             a.kind = "renewal" /\ a.sub = e.id => a.start < e.row.end
    <2>1. e.row.end \in MaybeTime
      BY <1>1 DEF Row
    <2> QED BY <2>1 DEF RenewalInv, MaybeTime
  <1>3. /\ Renewed(e.row, now).start = e.row.end
        /\ Renewed(e.row, now).end > e.row.end
    BY <1>1, <1>2, RenewedEnd
  <1>4. \A b \in invoices' : b.kind = "renewal" =>
          b \in invoices \/ (b.id = lastInvoice + 1 /\ b.sub = e.id /\ b.start = e.row.end)
    BY <1>3
  <1>5. RenewalsDistinct'
    <2> SUFFICES ASSUME NEW a \in invoices', NEW b \in invoices',
                        a.kind = "renewal", b.kind = "renewal",
                        a.sub = b.sub, a.start = b.start
                 PROVE  a.id = b.id
      BY DEF RenewalsDistinct
    <2>1. \A c \in invoices : c.kind = "renewal" /\ c.sub = e.id => c.start # e.row.end
      <3>1. \A c \in invoices : c.start \in Int
        BY DEF TypeOK, Invoice, MaybeTime, NoTime
      <3> QED BY <1>2, <3>1
    <2>2. CASE a \in invoices /\ b \in invoices
      BY <2>2 DEF RenewalInv, RenewalsDistinct
    <2>3. CASE a \notin invoices /\ b \notin invoices
      BY <2>3, <1>4
    <2>4. CASE a \in invoices /\ b \notin invoices
      BY <2>4, <2>1, <1>4
    <2>5. CASE a \notin invoices /\ b \in invoices
      BY <2>5, <2>1, <1>4
    <2> QED BY <2>2, <2>3, <2>4, <2>5
  <1>6. ASSUME NEW b \in invoices', b.kind = "renewal"
        PROVE  b.start <= now' /\ b.start < subs'[b.sub].end
    <2>1. subs'[e.id].end \in Int /\ subs'[e.id].end > e.row.end
      BY <1>1, <1>3 DEF TypeOK, Row, MaybeTime, NoTime
    <2>2. CASE b \in invoices /\ b.sub = e.id
      <3>1. b.start \in Int
        BY <2>2 DEF TypeOK, Invoice, MaybeTime, NoTime
      <3>2. b.start < e.row.end /\ b.start <= now
        BY <1>6, <2>2, <1>2 DEF RenewalInv
      <3> QED BY <3>1, <3>2, <2>1, <2>2, <1>2
    <2>3. CASE b \in invoices /\ b.sub # e.id
      <3>1. b.sub \in SubIds
        BY <2>3 DEF TypeOK, Invoice
      <3> QED BY <1>6, <2>3, <3>1 DEF RenewalInv
    <2>4. CASE b \notin invoices
      BY <2>4, <1>6, <1>2, <1>4, <2>1
    <2> QED BY <2>2, <2>3, <2>4
  <1>7. ASSUME NEW f \in batch'["process-renewals"]
        PROVE  /\ f.row.end # NoTime /\ f.row.end <= now'
               /\ \A a \in invoices' :
                    a.kind = "renewal" /\ a.sub = f.id => a.start < f.row.end
    <2>1. f \in batch["process-renewals"] /\ f # e
      OBVIOUS
    <2>2. f.id # e.id
      BY <2>1 DEF RenewalInv
    <2>3. f.row.end # NoTime /\ f.row.end <= now
      BY <2>1 DEF RenewalInv
    <2>4. ASSUME NEW a \in invoices', a.kind = "renewal", a.sub = f.id
          PROVE  a.start < f.row.end
      BY <2>1, <2>2, <2>4, <1>4 DEF RenewalInv
    <2> QED BY <2>3, <2>4
  <1>8. \A f, g \in batch'["process-renewals"] : f.id = g.id => f = g
    BY DEF RenewalInv
  <1> QED BY <1>5, <1>6, <1>7, <1>8 DEF RenewalInv

LEMMA SweepRenewals ==
  ASSUME TypeOK, TypeOK', RenewalInv, NEW c \in Commands, Sweep(c)
  PROVE  RenewalInv'
  <1>l. now \in Nat /\ now' = now /\ \A i \in SubIds : subs[i] \in Row
    BY DEF TypeOK, Sweep, StartSweep, Process, SweepDies
  <1>h. ASSUME NEW e \in batch[c]
        PROVE  /\ e.id \in SubIds /\ e.row \in Row /\ subs[e.id] \in Row
               /\ Renewed(e.row, now) \in Row
               /\ CanceledNow(e.row, now) \in Row
               /\ Expired(e.row, now) \in Row
               /\ Suspended(e.row) \in Row
    <2>1. e \in Loaded
      BY DEF TypeOK
    <2>2. e.id \in SubIds /\ e.row \in Row /\ subs[e.id] \in Row
      BY <2>1, <1>l DEF Loaded
    <2> QED BY <2>2, <1>l, OperationTypes
  <1>s. ASSUME NEW e \in batch[c],
               \/ NoWrite
               \/ Store(e.id, e.row, CanceledNow(e.row, now))
               \/ Store(e.id, e.row, Expired(e.row, now))
               \/ Store(e.id, e.row, Suspended(e.row))
        PROVE  EndsKept /\ RenewalsKept
    <2>1. /\ CanceledNow(e.row, now).end = e.row.end
          /\ Expired(e.row, now).end = e.row.end
          /\ Suspended(e.row).end = e.row.end
      BY <1>h DEF CanceledNow, Expired, Suspended, Row
    <2> QED BY <1>s, <1>h, <2>1, StoreKeepsEnds, NoWriteKeepsEnds
  <1>1. CASE StartSweep(c)
    <2>1. EndsKept /\ RenewalsKept
      BY <1>1 DEF StartSweep, EndsKept, RenewalsKept
    <2>2. CASE c # "process-renewals"
      BY <2>1, <2>2, <1>1, <1>l, QuietStep DEF StartSweep, TypeOK, Commands
    <2>3. CASE c = "process-renewals"
      <3>1. /\ batch'["process-renewals"] = DueRows(c)
            /\ subs' = subs /\ invoices' = invoices
        BY <1>1, <2>3 DEF StartSweep, TypeOK, Commands
      <3>2. \A e \in DueRows(c) :
              /\ e.id \in SubIds /\ e.row = subs[e.id]
              /\ e.row.end # NoTime /\ e.row.end <= now
        BY <2>3 DEF DueRows, Due, DueForRenewal, Elapsed
      <3>3. \A e, f \in DueRows(c) : e.id = f.id => e = f
        BY <3>2 DEF DueRows
      <3>4. RenewalsDistinct'
        BY <3>1 DEF RenewalInv, RenewalsDistinct
      <3> QED BY <3>1, <3>2, <3>3, <3>4, <1>l DEF RenewalInv
    <2> QED BY <2>2, <2>3
  <1>2. CASE Process(c)
    <2>1. PICK e \in batch[c] :
            ProcessRow(c, e) /\ batch' = [batch EXCEPT ![c] = @ \ {e}]
      BY <1>2 DEF Process
    <2>2. CASE c = "process-renewals" /\ Renew(e)
      <3> DEFINE mem == Renewed(e.row, now)
                 db == Save(subs[e.id], e.row, mem)
      <3>1. Charge(e.id, "renewal", db, mem)
        BY <2>2 DEF Renew
      <3>2. e.row.end \in Nat /\ e \in batch["process-renewals"]
        BY <2>2, <1>h DEF RenewalInv, Row, MaybeTime
      <3>3. mem.end # e.row.end
        BY <1>h, <1>l, <3>2, RenewedEnd
      <3>4. db.end = mem.end
        BY <3>3 DEF Save, Written
      <3>5. db \in Row /\ mem \in Row
        BY <1>h, SaveType
      <3> HIDE DEF mem, db
      <3>6. subs'[e.id].end = mem.end /\ \A j \in SubIds \ {e.id} : subs'[j] = subs[j]
        BY <3>1, <3>4, <3>5, <1>h, ChargeEnd
      <3>7. \A b \in invoices' : b \in invoices \/
              (b.id = lastInvoice + 1 /\ b.sub = e.id /\ b.start = mem.start)
        BY <3>1 DEF Charge
      <3>8. batch'["process-renewals"] \subseteq batch["process-renewals"] \ {e}
        BY <2>1, <2>2 DEF TypeOK, Commands
      <3> QED BY <3>2, <3>6, <3>7, <3>8, <1>l, RenewalStep DEF mem
    <2>3. CASE ~(c = "process-renewals" /\ Renew(e))
      <3>1. \/ Store(e.id, e.row, CanceledNow(e.row, now))
            \/ Store(e.id, e.row, Expired(e.row, now))
            \/ Store(e.id, e.row, Suspended(e.row))
        BY <2>1, <2>3 DEF ProcessRow
      <3>2. batch'["process-renewals"] \subseteq batch["process-renewals"]
        BY <2>1 DEF TypeOK, Commands
      <3> QED BY <3>1, <3>2, <1>s, <1>l, QuietStep
    <2> QED BY <2>2, <2>3
  <1>3. CASE SweepDies(c)
    <2>1. PICK e \in batch[c] :
            \/ NoWrite
            \/ c = "process-renewals" /\ Store(e.id, e.row, Renewed(e.row, now))
      BY <1>3 DEF SweepDies
    <2>2. batch' = [batch EXCEPT ![c] = {}]
      BY <1>3 DEF SweepDies
    <2>3. CASE NoWrite
      <3>1. batch'["process-renewals"] \subseteq batch["process-renewals"]
        BY <2>2 DEF TypeOK, Commands
      <3> QED BY <2>3, <3>1, <1>s, <1>l, QuietStep
    <2>4. CASE c = "process-renewals" /\ Store(e.id, e.row, Renewed(e.row, now))
      <3> DEFINE mem == Renewed(e.row, now)
      <3>1. e.row.end \in Nat /\ e \in batch["process-renewals"]
        BY <2>4, <1>h DEF RenewalInv, Row, MaybeTime
      <3>2. mem.end # e.row.end
        BY <1>h, <1>l, <3>1, RenewedEnd
      <3>3. Save(subs[e.id], e.row, mem).end = mem.end
        BY <3>2 DEF Save, Written
      <3> HIDE DEF mem
      <3>4. Store(e.id, e.row, mem)
        BY <2>4 DEF mem
      <3>5. subs'[e.id].end = mem.end /\ \A j \in SubIds \ {e.id} : subs'[j] = subs[j]
        BY <3>3, <3>4, <1>h DEF Store, TypeOK
      <3>6. invoices' = invoices
        BY <3>4 DEF Store
      <3>7. batch'["process-renewals"] \subseteq batch["process-renewals"] \ {e}
        BY <2>2, <2>4 DEF TypeOK, Commands
      <3> QED BY <3>1, <3>5, <3>6, <3>7, <1>l, RenewalStep DEF mem
    <2> QED BY <2>1, <2>3, <2>4
  <1> QED BY <1>1, <1>2, <1>3 DEF Sweep

LEMMA InitRenewals == Init => RenewalInv
  BY DEF Init, RenewalInv, RenewalsDistinct, Commands

LEMMA NextRenewals == TypeOK /\ TypeOK' /\ RenewalInv /\ [Next]_vars => RenewalInv'
  <1> SUFFICES ASSUME TypeOK, TypeOK', RenewalInv, [Next]_vars PROVE RenewalInv'
    OBVIOUS
  <1>1. CASE Tick \/ SwitchProvider \/ UNCHANGED vars
    <2>1. /\ subs' = subs /\ invoices' = invoices /\ batch' = batch
          /\ now' >= now
      BY <1>1 DEF Tick, SwitchProvider, vars, TypeOK
    <2>2. EndsKept /\ RenewalsKept
      BY <2>1 DEF EndsKept, RenewalsKept
    <2> QED BY <2>1, <2>2, QuietStep
  <1>2. CASE InvoicePaidEvent
    <2>1. EndsKept /\ RenewalsKept
      BY <1>2, SettleKeepsRenewals DEF InvoicePaidEvent, EndsKept
    <2>2. now' >= now /\ batch' = batch
      BY <1>2 DEF InvoicePaidEvent, TypeOK
    <2> QED BY <2>1, <2>2, QuietStep
  <1> QED BY <1>1, <1>2, RequestRenewals, EventRenewals, SweepRenewals DEF Next

\* However the renewal command's snapshots interleave with checkouts, plan
\* changes and events, and wherever it dies, it never bills a subscription
\* twice for a period that begins at the same instant.
THEOREM RenewalsBilledOnce == Spec => []RenewalsDistinct
  <1>1. TypeOK /\ RenewalInv /\ [Next]_vars => (TypeOK /\ RenewalInv)'
    BY NextType, NextRenewals
  <1>2. RenewalInv => RenewalsDistinct
    BY DEF RenewalInv
  <1> QED BY <1>1, <1>2, InitType, InitRenewals, PTL DEF Spec

-----------------------------------------------------------------------------
(* One current subscription, in a deployment with the manual provider, no  *)
(* billing events and requests of an organization served one at a time.    *)

Serial ==
  /\ Providers = {"manual"} /\ Events = {}
  /\ \A c, d \in Clients : c = d

\* The inductive form: nothing is ever past due, a command holds only rows
\* it found in the state it looks for, and while a request is under way no
\* row but the one it loaded is active.
SerialInv ==
  /\ OneCurrentSubscription
  /\ \A i \in SubIds : subs[i].status # "past_due"
  /\ \A e \in batch["process-renewals"] : e.row.status = "active"
  /\ \A e \in batch["expire-trials"] : e.row.status = "trialing"
  /\ batch["enforce-grace"] = {}
  /\ \A c \in Clients : ~Idle(c) =>
       /\ \A j \in SubIds : Active(j) => j = req[c].id
       /\ req[c].row.status # "past_due"
       /\ req[c].op \notin {"settle", "activated", "payment_failed", "suspended"}
       /\ req[c].op = "checkout" \/ req[c].row.status \in {"trialing", "active"}

\* No step replaces one current subscription by another.
NoSwap == \A i, j \in SubIds : Active(i) /\ Active(j)' => i = j

\* Row i is the only one written, and if it is active now it was before.
Lowers(i) ==
  /\ \A j \in SubIds \ {i} : subs'[j] = subs[j]
  /\ subs'[i].status = subs[i].status \/ subs'[i].status \in EndedStates

LEMMA LoweringStep ==
  ASSUME TypeOK, SerialInv, NEW i \in SubIds, Lowers(i),
         req' = req, \A c \in Commands : batch'[c] \subseteq batch[c]
  PROVE  SerialInv' /\ NoSwap
  <1>1. \A j \in SubIds :
          (Active(j)' => Active(j)) /\ subs'[j].status # "past_due"
    BY DEF Lowers, SerialInv, Active, ActiveStates, EndedStates
  <1>2. OneCurrentSubscription'
    BY <1>1 DEF SerialInv, OneCurrentSubscription
  <1>3. /\ \A e \in batch'["process-renewals"] : e.row.status = "active"
        /\ \A e \in batch'["expire-trials"] : e.row.status = "trialing"
        /\ batch'["enforce-grace"] = {}
    BY DEF SerialInv, Commands
  <1>4. \A c \in Clients : ~Idle(c)' =>
          /\ \A j \in SubIds : Active(j)' => j = req'[c].id
          /\ req'[c].row.status # "past_due"
          /\ req'[c].op \notin {"settle", "activated", "payment_failed", "suspended"}
          /\ req'[c].op = "checkout" \/ req'[c].row.status \in {"trialing", "active"}
    BY <1>1 DEF SerialInv, Idle
  <1>5. NoSwap
    BY <1>1 DEF NoSwap, SerialInv, OneCurrentSubscription
  <1> QED BY <1>1, <1>2, <1>3, <1>4, <1>5 DEF SerialInv

LEMMA SerialSweep ==
  ASSUME TypeOK, TypeOK', Serial, SerialInv, NEW c \in Commands, Sweep(c)
  PROVE  SerialInv' /\ NoSwap
  <1>c. Collects
    BY DEF Serial, TypeOK, Collects
  <1>h. ASSUME NEW e \in batch[c]
        PROVE  /\ e.id \in SubIds /\ e.row \in Row /\ subs[e.id] \in Row
               /\ c # "enforce-grace"
               /\ c = "process-renewals" => e.row.status = "active"
    <2>1. e \in Loaded
      BY DEF TypeOK
    <2> QED BY <2>1 DEF Loaded, TypeOK, SerialInv, Commands
  <1>1. CASE StartSweep(c)
    <2>1. /\ subs' = subs /\ req' = req
          /\ batch' = [batch EXCEPT ![c] = DueRows(c)]
      BY <1>1 DEF StartSweep
    <2>2. /\ c = "process-renewals" => \A e \in DueRows(c) : e.row.status = "active"
          /\ c = "expire-trials" => \A e \in DueRows(c) : e.row.status = "trialing"
          /\ c = "enforce-grace" => DueRows(c) = {}
      BY DEF DueRows, Due, DueForRenewal, DueToExpire, DueToSuspend, SerialInv
    <2>3. /\ \A e \in batch'["process-renewals"] : e.row.status = "active"
          /\ \A e \in batch'["expire-trials"] : e.row.status = "trialing"
          /\ batch'["enforce-grace"] = {}
      BY <2>1, <2>2 DEF SerialInv, TypeOK, Commands
    <2> QED BY <2>1, <2>3 DEF SerialInv, OneCurrentSubscription, Active, Idle, NoSwap
  <1>2. CASE Process(c)
    <2>1. PICK e \in batch[c] :
            ProcessRow(c, e) /\ batch' = [batch EXCEPT ![c] = @ \ {e}]
      BY <1>2 DEF Process
    <2>2. Lowers(e.id)
      <3>1. CASE c = "process-renewals" /\ Renew(e)
        <4>1. subs' = [subs EXCEPT ![e.id] = Save(subs[e.id], e.row, Renewed(e.row, now))]
          BY <3>1, <1>c DEF Renew, Charge
        <4>2. Save(subs[e.id], e.row, Renewed(e.row, now)).status = subs[e.id].status
          BY <3>1, <1>h DEF Save, Written, Renewed, Row
        <4> QED BY <4>1, <4>2, <1>h DEF Lowers, TypeOK
      <3>2. CASE \/ Store(e.id, e.row, CanceledNow(e.row, now))
                 \/ Store(e.id, e.row, Expired(e.row, now))
        <4>1. /\ CanceledNow(e.row, now).status = "canceled"
              /\ Expired(e.row, now).status = "expired"
          BY <1>h DEF CanceledNow, Expired, Row
        <4>2. ASSUME NEW mem, mem.status \in EndedStates, Store(e.id, e.row, mem)
              PROVE  Lowers(e.id)
          <5>1. Save(subs[e.id], e.row, mem).status \in {subs[e.id].status} \cup EndedStates
            BY <4>2 DEF Save, Written
          <5> QED BY <4>2, <5>1, <1>h DEF Store, Lowers, TypeOK
        <4> QED BY <3>2, <4>1, <4>2 DEF EndedStates
      <3> QED BY <2>1, <1>h, <3>1, <3>2 DEF ProcessRow
    <2>3. \A d \in Commands : batch'[d] \subseteq batch[d]
      BY <2>1 DEF TypeOK
    <2> QED BY <2>2, <2>3, <1>2, <1>h, LoweringStep DEF Process
  <1>3. CASE SweepDies(c)
    <2>1. PICK e \in batch[c] :
            \/ NoWrite
            \/ c = "process-renewals" /\ Store(e.id, e.row, Renewed(e.row, now))
      BY <1>3 DEF SweepDies
    <2>2. Lowers(e.id)
      <3>1. CASE NoWrite
        BY <3>1 DEF NoWrite, Lowers
      <3>2. CASE c = "process-renewals" /\ Store(e.id, e.row, Renewed(e.row, now))
        <4>1. Save(subs[e.id], e.row, Renewed(e.row, now)).status = subs[e.id].status
          BY <3>2, <1>h DEF Save, Written, Renewed, Row
        <4> QED BY <3>2, <4>1, <1>h DEF Store, Lowers, TypeOK
      <3> QED BY <2>1, <3>1, <3>2
    <2>3. req' = req /\ \A d \in Commands : batch'[d] \subseteq batch[d]
      BY <1>3 DEF SweepDies, TypeOK
    <2> QED BY <2>2, <2>3, <1>h, LoweringStep
  <1> QED BY <1>1, <1>2, <1>3 DEF Sweep

\* A step of client c's request that writes at most row i, the only one that
\* may be active, and then ends or goes on with that row.
LEMMA FocusStep ==
  ASSUME TypeOK, Serial, SerialInv, NEW c \in Clients, NEW i \in SubIds,
         \A j \in SubIds : Active(j) => j = i,
         \A j \in SubIds \ {i} : subs'[j] = subs[j],
         subs'[i].status # "past_due", batch' = batch,
         \/ Idle(c)'
         \/ /\ req'[c].id = i /\ req'[c].row.status \in {"trialing", "active"}
            /\ req'[c].op \notin {"settle", "activated", "payment_failed", "suspended"}
  PROVE  SerialInv' /\ NoSwap
  <1>1. \A j \in SubIds : subs'[j].status # "past_due" /\ (Active(j)' => j = i)
    BY DEF SerialInv, Active
  <1>2. OneCurrentSubscription'
    BY <1>1 DEF OneCurrentSubscription
  <1>3. \A d \in Clients : d = c
    BY DEF Serial
  <1>4. NoSwap
    BY <1>1 DEF NoSwap
  <1> QED BY <1>1, <1>2, <1>3, <1>4 DEF SerialInv

LEMMA SerialRequest ==
  ASSUME TypeOK, TypeOK', Serial, SerialInv, NEW c \in Clients,
         WebRequest(c) \/ BillingEvent(c)
  PROVE  SerialInv' /\ NoSwap
  <1>c. Collects
    BY DEF Serial, TypeOK, Collects
  <1>r. /\ req[c].row \in Row
        /\ req[c].op # "none" /\ req[c].op # "checkout" =>
             req[c].id \in SubIds /\ subs[req[c].id] \in Row
    BY HeldType
  <1>i. \A op \in Requests : req[c].op = op => ~Idle(c)
    BY DEF Idle, NoReq, Requests
  <1>e. ASSUME EndRequest(c) PROVE Idle(c)' /\ batch' = batch
    BY <1>e DEF EndRequest, Idle, TypeOK
  <1>s. ASSUME NEW mem, NEW i \in SubIds, mem.status # "past_due",
               Store(i, req[c].row, mem)
        PROVE  /\ \A j \in SubIds \ {i} : subs'[j] = subs[j]
               /\ subs'[i].status # "past_due"
    <2>1. Save(subs[i], req[c].row, mem).status \in {subs[i].status, mem.status}
      BY DEF Save, Written
    <2> QED BY <1>s, <2>1 DEF Store, SerialInv, TypeOK
  <1>b. ASSUME NEW db, NEW mem, NEW kind, NEW i \in SubIds,
               db.status # "past_due", Charge(i, kind, db, mem)
        PROVE  /\ \A j \in SubIds \ {i} : subs'[j] = subs[j]
               /\ subs'[i].status # "past_due"
    BY <1>b, <1>c DEF Charge, TypeOK
  <1>1. CASE LoadCheckout(c) \/ LoadCurrent(c)
    <2>1. /\ subs' = subs /\ batch' = batch
          /\ \A d \in Clients : d = c
      BY <1>1 DEF LoadCheckout, LoadCurrent, Serial
    <2>2. CASE \E i \in SubIds, op \in {"checkout", "change", "cancel", "cancelNow", "resume"} :
                 IsCurrent(i) /\ LoadsRow(c, op, i)
      <3>1. PICK i \in SubIds, op \in {"checkout", "change", "cancel", "cancelNow", "resume"} :
                   IsCurrent(i) /\ LoadsRow(c, op, i)
        BY <2>2
      <3>2. subs[i].status \in {"trialing", "active"}
        BY <3>1 DEF IsCurrent, Active, ActiveStates, SerialInv
      <3>3. \A j \in SubIds : Active(j) => j = i
        BY <3>1 DEF IsCurrent, SerialInv, OneCurrentSubscription
      <3>4. req'[c].op = op /\ req'[c].id = i /\ req'[c].row = subs[i]
        BY <3>1 DEF LoadsRow, TypeOK
      <3> QED BY <2>1, <3>2, <3>3, <3>4, FocusStep DEF SerialInv
    <2>3. CASE /\ NoCurrent
               /\ req' = [req EXCEPT ![c] = [op |-> "checkout", id |-> 0, row |-> NoRow]]
      <3>1. /\ req'[c].op = "checkout" /\ req'[c].row.status # "past_due"
            /\ \A j \in SubIds : ~Active(j)
        BY <2>3 DEF TypeOK, NoRow, NoCurrent
      <3> QED BY <2>1, <3>1 DEF SerialInv, OneCurrentSubscription, Active, NoSwap
    <2> QED BY <1>1, <2>2, <2>3 DEF LoadCheckout, LoadCurrent
  <1>2. CASE RetryInvoice(c)
    <2>1. subs' = subs /\ batch' = batch /\ req' = req
      BY <1>2 DEF RetryInvoice, SerialInv, TypeOK, Invoice
    <2> QED BY <2>1 DEF SerialInv, OneCurrentSubscription, Active, Idle, NoSwap
  <1>3. CASE Checkout(c)
    <2>1. PICK i \in SubIds, len \in Intervals :
            /\ IF req[c].id = 0 THEN IsNext(i) ELSE i = req[c].id
            /\ LET on == Activated(CheckedOut(req[c].row, len), now)
               IN Charge(i, "activation", Save(subs[i], req[c].row, on), on)
      BY <1>3, <1>c DEF Checkout
    <2> DEFINE on == Activated(CheckedOut(req[c].row, len), now)
               db == Save(subs[i], req[c].row, on)
    <2>2. on.status = "active"
      BY <1>r, PlanTypes DEF Activated, TypeOK, CheckedOut, Row
    <2>3. db.status \in {subs[i].status, on.status}
      <3> HIDE DEF on
      <3> QED BY DEF Save, Written
    <2>4. Charge(i, "activation", db, on)
      BY <2>1
    <2> HIDE DEF on, db
    <2>5. db.status # "past_due"
      BY <2>2, <2>3 DEF SerialInv
    <2>6. \A j \in SubIds : Active(j) => j = i
      BY <1>3, <2>1, <1>i DEF Checkout, SerialInv, Requests, SubIds
    <2>7. Idle(c)' /\ batch' = batch
      BY <1>3, <1>e DEF Checkout
    <2> QED BY <2>4, <2>5, <2>6, <2>7, <1>b, FocusStep
  <1>4. CASE ProviderRefuses(c)
    BY <1>4, <1>c DEF ProviderRefuses, Collects
  <1>f. ASSUME req[c].op \in Requests \ {"checkout"}
        PROVE  /\ req[c].id \in SubIds /\ subs[req[c].id] \in Row
               /\ \A j \in SubIds : Active(j) => j = req[c].id
               /\ req[c].row.status \in {"trialing", "active"}
               /\ req[c].op \notin {"settle", "activated", "payment_failed", "suspended"}
    BY <1>f, <1>i, <1>r DEF SerialInv, Requests
  <1>5. CASE ChangePlan(c)
    <2>1. PICK len \in Intervals :
            LET mem == [req[c].row EXCEPT !.interval = len]
                row == Save(subs[req[c].id], req[c].row, mem)
            IN Charge(req[c].id, "proration", row, row) \/ Store(req[c].id, req[c].row, mem)
      BY <1>5 DEF ChangePlan
    <2> DEFINE mem == [req[c].row EXCEPT !.interval = len]
               row == Save(subs[req[c].id], req[c].row, mem)
    <2>2. req[c].op \in Requests \ {"checkout"}
      BY <1>5 DEF ChangePlan, Requests
    <2>3. mem.status = req[c].row.status
      BY <1>r DEF Row
    <2>4. row.status = subs[req[c].id].status
      BY <2>3 DEF Save, Written
    <2> HIDE DEF mem, row
    <2>5. Charge(req[c].id, "proration", row, row) \/ Store(req[c].id, req[c].row, mem)
      BY <2>1 DEF mem, row
    <2>6. /\ \A j \in SubIds \ {req[c].id} : subs'[j] = subs[j]
          /\ subs'[req[c].id].status # "past_due"
      BY <2>2, <2>3, <2>4, <2>5, <1>f, <1>s, <1>b DEF SerialInv
    <2>7. /\ batch' = batch
          /\ \/ Idle(c)'
             \/ /\ req'[c].id = req[c].id /\ req'[c].row = req[c].row
                /\ req'[c].op = "quantity"
      <3>1. req' \in {[req EXCEPT ![c] = NoReq], [req EXCEPT ![c].op = "quantity"]}
        BY <1>5 DEF ChangePlan
      <3>2. req[c] \in [op : Requests, id : SubIds, row : Row]
        BY <1>5 DEF ChangePlan, TypeOK, NoReq
      <3> QED BY <1>5, <3>1, <3>2 DEF ChangePlan, Idle, TypeOK
    <2> QED BY <2>2, <2>6, <2>7, <1>f, FocusStep
  <1>6. CASE ChangeQuantity(c)
    <2>1. req[c].op \in Requests \ {"checkout"}
      BY <1>6 DEF ChangeQuantity, Requests
    <2>2. /\ \A j \in SubIds \ {req[c].id} : subs'[j] = subs[j]
          /\ subs'[req[c].id].status # "past_due"
      BY <1>6, <2>1, <1>f, <1>b DEF ChangeQuantity, NoWrite, SerialInv
    <2> QED BY <1>6, <2>1, <2>2, <1>f, <1>e, FocusStep DEF ChangeQuantity
  <1>7. CASE Cancel(c) \/ Resume(c)
    <2>1. req[c].op \in Requests \ {"checkout"}
      BY <1>7 DEF Cancel, Resume, Requests
    <2>2. /\ CancelScheduled(req[c].row).status # "past_due"
          /\ CanceledNow(req[c].row, now).status # "past_due"
          /\ Resumed(req[c].row).status # "past_due"
      BY <2>1, <1>f, <1>r DEF CancelScheduled, CanceledNow, Resumed, Row
    <2>3. /\ \A j \in SubIds \ {req[c].id} : subs'[j] = subs[j]
          /\ subs'[req[c].id].status # "past_due"
      BY <1>7, <2>1, <2>2, <1>f, <1>s DEF Cancel, Resume
    <2> QED BY <1>7, <2>1, <2>3, <1>f, <1>e, FocusStep DEF Cancel, Resume
  <1>8. CASE Settle(c) \/ ApplyEvent(c)
    BY <1>8, <1>f DEF Settle, ApplyEvent, Requests
  <1>9. CASE RequestDies(c)
    <2>1. subs' = subs /\ batch' = batch /\ Idle(c)' /\ \A d \in Clients : d = c
      BY <1>9 DEF RequestDies, NoWrite, Idle, TypeOK, Serial
    <2> QED BY <2>1 DEF SerialInv, OneCurrentSubscription, Active, NoSwap
  <1>10. CASE LoadEvent(c)
    BY <1>10 DEF LoadEvent, Serial
  <1> QED BY <1>1, <1>2, <1>3, <1>4, <1>5, <1>6, <1>7, <1>8, <1>9, <1>10
          DEF WebRequest, BillingEvent

LEMMA SerialInit == Init /\ Serial => SerialInv
  <1> SUFFICES ASSUME Init, Serial PROVE SerialInv
    OBVIOUS
  <1>1. \A i \in SubIds : subs[i].status = "none" \/ (i = 1 /\ subs[i].status = "trialing")
    <2>1. NoRow.status = "none" /\ \A len \in Intervals : TrialStarted(len, 0).status = "trialing"
      BY DEF NoRow, TrialStarted
    <2> QED BY <2>1 DEF Init, Created
  <1>2. \A i \in SubIds : Active(i) => i = 1
    BY <1>1 DEF Active, ActiveStates
  <1>3. \A c \in Clients : Idle(c)
    BY DEF Init, Idle
  <1> QED BY <1>1, <1>2, <1>3 DEF Init, SerialInv, OneCurrentSubscription, Commands

LEMMA SerialNext ==
  ASSUME TypeOK, TypeOK', Serial, SerialInv, [Next]_vars
  PROVE  SerialInv' /\ NoSwap
  <1>1. CASE Tick \/ SwitchProvider \/ InvoicePaidEvent \/ UNCHANGED vars
    <2>1. subs' = subs /\ req' = req /\ batch' = batch
      BY <1>1 DEF Tick, SwitchProvider, InvoicePaidEvent, vars
    <2> QED BY <2>1 DEF SerialInv, OneCurrentSubscription, Active, Idle, NoSwap
  <1> QED BY <1>1, SerialRequest, SerialSweep DEF Next

\* In a deployment with the manual provider, no billing events and one
\* request at a time, an organization never has two current subscriptions,
\* whatever the hourly commands write from rows they loaded earlier.
THEOREM OneCurrentWhenSerial ==
  ASSUME Serial
  PROVE  Spec => []OneCurrentSubscription
  <1>1. TypeOK /\ SerialInv /\ [Next]_vars => (TypeOK /\ SerialInv)'
    BY NextType, SerialNext
  <1>2. Init => TypeOK /\ SerialInv
    BY InitType, SerialInit
  <1>3. SerialInv => OneCurrentSubscription
    BY DEF SerialInv
  <1> QED BY <1>1, <1>2, <1>3, PTL DEF Spec

\* There the machine implements CurrentSubscription.
THEOREM SlotImplemented ==
  ASSUME Serial
  PROVE  Spec => SlotSpec
  <1> DEFINE held == {i \in SubIds : Active(i)}
  <1>1. TypeOK /\ SerialInv /\ [Next]_vars => (TypeOK /\ SerialInv)'
    BY NextType, SerialNext
  <1>2. Init => TypeOK /\ SerialInv
    BY InitType, SerialInit
  <1>3. SerialInv => Slot!Init
    BY DEF SerialInv, OneCurrentSubscription, Slot!Init
  <1>4. TypeOK /\ TypeOK' /\ SerialInv /\ SerialInv' /\ [Next]_vars => [Slot!Next]_held
    <2> SUFFICES ASSUME TypeOK, TypeOK', SerialInv, SerialInv', [Next]_vars, held' # held
                 PROVE  Slot!Next
      OBVIOUS
    <2>1. /\ \A i, j \in held : i = j
          /\ \A i, j \in held' : i = j
          /\ \A i \in held, j \in held' : i = j
      BY SerialNext DEF SerialInv, OneCurrentSubscription, NoSwap
    <2>2. CASE held = {}
      <3>1. PICK i \in held' : held' = {i}
        BY <2>1, <2>2
      <3>2. Slot!Begin(i) /\ i \in SubIds
        BY <2>2, <3>1 DEF Slot!Begin
      <3> QED BY <3>2 DEF Slot!Next
    <2>3. CASE held # {}
      <3>1. PICK i \in held : held = {i}
        BY <2>1, <2>3
      <3>2. held' = {}
        BY <2>1, <3>1
      <3>3. Slot!End(i) /\ i \in SubIds
        BY <3>1, <3>2 DEF Slot!End
      <3> QED BY <3>3 DEF Slot!Next
    <2> QED BY <2>2, <2>3
  <1> QED BY <1>1, <1>2, <1>3, <1>4, PTL DEF Spec, SlotSpec, Slot!Spec

-----------------------------------------------------------------------------
(***************************************************************************)
(* What the hourly commands and the requests may do to the access a row    *)
(* gives: no command revives an ended row, and nothing unpaid lacks the    *)
(* date on which a command will find it.                                   *)
(***************************************************************************)

Manual == Providers \subseteq {"manual"}

\* A command renews only what it found active.
RenewsActive == \A e \in batch["process-renewals"] : e.row.status = "active"

\* A write that leaves row i in the state it was in, or ends it.
Ends(db, row) == row.status = db.status \/ row.status \in EndedStates

\* What a command's write of object held does to the row, when the provider
\* collects: the state stays or the row ends, and no date is cleared.
LEMMA SweptRow ==
  ASSUME NEW db \in Row, NEW held \in Row, now \in Nat,
         NEW mem \in {CanceledNow(held, now), Expired(held, now), Suspended(held)}
                       \cup (IF held.status = "active" THEN {Renewed(held, now)} ELSE {})
  PROVE  /\ Ends(db, Save(db, held, mem))
         /\ Save(db, held, mem).trialEndsAt = db.trialEndsAt
         /\ db.endsAt # NoTime => Save(db, held, mem).endsAt # NoTime
         /\ db.end # NoTime => Save(db, held, mem).end # NoTime
  <1>n. now # NoTime
    BY DEF NoTime
  <1>1. /\ mem.status = held.status \/ mem.status \in EndedStates
        /\ mem.trialEndsAt = held.trialEndsAt
        /\ mem.endsAt \in {held.endsAt, now}
    BY DEF CanceledNow, Expired, Suspended, Renewed, EndedStates, Row
  <1>2. mem.end = held.end \/ mem.end # NoTime
    <2>1. CASE mem \in {CanceledNow(held, now), Expired(held, now), Suspended(held)}
      BY <2>1 DEF CanceledNow, Expired, Suspended, Row
    <2>2. CASE mem = Renewed(held, now)
      <3>1. held.interval \in Nat
        BY DaysAssumption DEF Row
      <3>2. held.end \in Nat \cup {-1}
        BY DEF Row, MaybeTime, NoTime
      <3>3. mem.end = (IF held.end = -1 THEN now ELSE held.end) + held.interval
        BY <2>2 DEF Renewed, NoTime, Row
      <3> QED BY <3>1, <3>2, <3>3 DEF NoTime
    <2> QED BY <2>1, <2>2
  <1> QED BY <1>n, <1>1, <1>2 DEF Save, Written, Ends

\* The same of a step of a command: nothing, or one row written that way.
Swept(i) ==
  /\ \A j \in SubIds \ {i} : subs'[j] = subs[j]
  /\ Ends(subs[i], subs'[i])
  /\ subs'[i].trialEndsAt = subs[i].trialEndsAt
  /\ subs[i].endsAt # NoTime => subs'[i].endsAt # NoTime
  /\ subs[i].end # NoTime => subs'[i].end # NoTime

LEMMA SweptByCommand ==
  ASSUME TypeOK, Manual, RenewsActive, NEW c \in Commands, Process(c) \/ SweepDies(c)
  PROVE  /\ req' = req
         /\ \A d \in Commands : batch'[d] \subseteq batch[d]
         /\ \E e \in batch[c] : e.id \in SubIds /\ Swept(e.id)
  <1>c. Collects /\ now \in Nat
    BY DEF Manual, TypeOK, Collects
  <1>1. req' = req /\ \A d \in Commands : batch'[d] \subseteq batch[d]
    BY DEF Process, SweepDies, TypeOK
  <1>2. PICK e \in batch[c] :
          \/ ProcessRow(c, e)
          \/ NoWrite
          \/ /\ c = "process-renewals"
             /\ Store(e.id, e.row, Renewed(e.row, now))
    BY DEF Process, SweepDies
  <1>3. /\ e.id \in SubIds /\ e.row \in Row /\ subs[e.id] \in Row
        /\ c = "process-renewals" => e.row.status = "active"
    <2>1. e \in Loaded
      BY DEF TypeOK
    <2> QED BY <2>1 DEF Loaded, TypeOK, RenewsActive
  <1>4. \/ NoWrite
        \/ \E mem \in {CanceledNow(e.row, now), Expired(e.row, now), Suspended(e.row)}
                        \cup (IF e.row.status = "active" THEN {Renewed(e.row, now)} ELSE {}) :
             subs' = [subs EXCEPT ![e.id] = Save(subs[e.id], e.row, mem)]
    <2>1. CASE c = "process-renewals" /\ (Renew(e) \/ Store(e.id, e.row, Renewed(e.row, now)))
      BY <2>1, <1>c, <1>3 DEF Renew, Charge, Store
    <2>2. CASE \/ Store(e.id, e.row, CanceledNow(e.row, now))
               \/ Store(e.id, e.row, Expired(e.row, now))
               \/ Store(e.id, e.row, Suspended(e.row))
      BY <2>2 DEF Store
    <2> QED BY <1>2, <2>1, <2>2 DEF ProcessRow
  <1>5. Swept(e.id)
    <2>1. CASE NoWrite
      BY <2>1 DEF NoWrite, Swept, Ends
    <2>2. CASE ~NoWrite
      <3>1. PICK mem \in {CanceledNow(e.row, now), Expired(e.row, now), Suspended(e.row)}
                           \cup (IF e.row.status = "active" THEN {Renewed(e.row, now)} ELSE {}) :
                subs' = [subs EXCEPT ![e.id] = Save(subs[e.id], e.row, mem)]
        BY <1>4, <2>2
      <3>2. subs'[e.id] = Save(subs[e.id], e.row, mem)
        BY <3>1, <1>3 DEF TypeOK
      <3>3. \A j \in SubIds \ {e.id} : subs'[j] = subs[j]
        BY <3>1 DEF TypeOK
      <3> QED BY <3>2, <3>3, <1>3, <1>c, SweptRow DEF Swept
    <2> QED BY <2>1, <2>2
  <1> QED BY <1>1, <1>3, <1>5

LEMMA RenewsActiveKept ==
  ASSUME TypeOK, RenewsActive, [Next]_vars
  PROVE  RenewsActive'
  <1>1. CASE \E c \in Commands : StartSweep(c)
    <2>1. PICK c \in Commands : StartSweep(c)
      BY <1>1
    <2>2. batch' = [batch EXCEPT ![c] = DueRows(c)]
      BY <2>1 DEF StartSweep
    <2>3. \A e \in DueRows("process-renewals") : e.row.status = "active"
      BY DEF DueRows, Due, DueForRenewal
    <2> QED BY <2>2, <2>3 DEF RenewsActive, TypeOK, Commands
  <1>2. CASE \E c \in Commands : Process(c) \/ SweepDies(c)
    <2>1. \A d \in Commands : batch'[d] \subseteq batch[d]
      BY <1>2 DEF Process, SweepDies, TypeOK
    <2> QED BY <2>1 DEF RenewsActive, Commands
  <1>3. CASE batch' = batch
    BY <1>3 DEF RenewsActive
  <1>4. \/ \E c \in Commands : Sweep(c)
        \/ batch' = batch
    BY DEF Next, vars, Tick, SwitchProvider, InvoicePaidEvent, WebRequest, BillingEvent,
           LoadCheckout, LoadCurrent, RetryInvoice, Checkout, ProviderRefuses, ChangePlan,
           ChangeQuantity, Cancel, Resume, Settle, RequestDies, LoadEvent, ApplyEvent, EndRequest
  <1> QED BY <1>1, <1>2, <1>3, <1>4 DEF Sweep

LEMMA RenewsActiveInit == Init => RenewsActive
  BY DEF Init, RenewsActive, Commands

\* With the manual provider a command never puts an ended subscription back
\* into an active state, although it writes objects it loaded before the
\* subscription ended: of any number of rows, clients and events.
THEOREM CommandsReviveNothing ==
  ASSUME Manual
  PROVE  Spec => SweepNeverRevives
  <1>1. TypeOK /\ RenewsActive /\ [Next]_vars =>
          [ \A i \in SubIds :
              subs[i].status \in EndedStates /\ subs'[i].status \in ActiveStates
              => batch' = batch ]_vars
    <2> SUFFICES ASSUME TypeOK, RenewsActive, Next,
                        NEW i \in SubIds, subs[i].status \in EndedStates,
                        subs'[i].status \in ActiveStates, batch' # batch
                 PROVE  FALSE
      OBVIOUS
    <2>1. PICK c \in Commands : Sweep(c)
      BY DEF Next, Tick, SwitchProvider, InvoicePaidEvent, WebRequest, BillingEvent,
             LoadCheckout, LoadCurrent, RetryInvoice, Checkout, ProviderRefuses, ChangePlan,
             ChangeQuantity, Cancel, Resume, Settle, RequestDies, LoadEvent, ApplyEvent, EndRequest
    <2>2. subs'[i].status \in {subs[i].status} \cup EndedStates
      BY <2>1, SweptByCommand DEF Sweep, StartSweep, Swept, Ends
    <2> QED BY <2>2 DEF ActiveStates, EndedStates
  <1>2. TypeOK /\ RenewsActive /\ [Next]_vars => (TypeOK /\ RenewsActive)'
    BY NextType, RenewsActiveKept
  <1> QED BY <1>1, <1>2, InitType, RenewsActiveInit, PTL DEF Spec, SweepNeverRevives

-----------------------------------------------------------------------------
(* What is not paid for ends.                                              *)

\* Requests and events are handled one at a time, and invoices collected.
OneAtATime == Manual /\ \A c, d \in Clients : c = d

\* A row that gives access unpaid has the date that ends it.
Dated(row) ==
  /\ row.status = "trialing" => row.trialEndsAt # NoTime
  /\ row.status = "past_due" => row.endsAt # NoTime

\* Since a request loaded an object, only commands wrote its row: it is as
\* it was, or has ended, and has every date the object has.
HeldFresh(held, db) ==
  /\ held.end # NoTime /\ held.status # "none" /\ db.status # "none"
  /\ Ends(held, db)
  /\ held.endsAt # NoTime => db.endsAt # NoTime

\* UnpaidAccessEnds is not inductive: what a write leaves in the row depends
\* on the object it is decided from, which may be older than the row.
DatesInv ==
  /\ UnpaidAccessEnds
  /\ RenewsActive
  /\ \A i \in SubIds : subs[i].status # "none" => subs[i].end # NoTime
  /\ \A c \in Commands : \A e \in batch[c] : subs[e.id].status # "none"
  /\ \A c \in Clients : req[c].op # "none" /\ req[c].id # 0 =>
       HeldFresh(req[c].row, subs[req[c].id])

\* What a handler's write of an object leaves in its row.
LEMMA HandledRow ==
  ASSUME NEW db \in Row, NEW held \in Row, NEW mem \in Row,
         Dated(db), HeldFresh(held, db),
         db.end # NoTime, mem.end = held.end \/ mem.end # NoTime,
         mem.status # "none",
         \/ mem.status = "active" \/ mem.status \in EndedStates
         \/ /\ mem.status \in {held.status, "past_due"}
            /\ mem.status = "past_due" /\ held.status # "past_due" => mem.endsAt # NoTime
            /\ mem.trialEndsAt = held.trialEndsAt
            /\ mem.endsAt = held.endsAt \/ mem.endsAt # NoTime
  PROVE  /\ Dated(Save(db, held, mem))
         /\ Save(db, held, mem).status # "none"
         /\ Save(db, held, mem).end # NoTime
  <1> DEFINE new == Save(db, held, mem)
  <1>1. /\ new.status = IF mem.status = held.status THEN db.status ELSE mem.status
        /\ new.trialEndsAt = IF mem.trialEndsAt = held.trialEndsAt THEN db.trialEndsAt ELSE mem.trialEndsAt
        /\ new.endsAt = IF mem.endsAt = held.endsAt THEN db.endsAt ELSE mem.endsAt
        /\ new.end = IF mem.end = held.end THEN db.end ELSE mem.end
    BY DEF Save, Written
  <1> HIDE DEF new
  <1>2. new.status # "none" /\ new.end # NoTime
    BY <1>1 DEF HeldFresh
  <1>3. Dated(new)
    <2>1. CASE mem.status = "active" \/ mem.status \in EndedStates
      <3>1. new.status \notin {"trialing", "past_due"}
        BY <1>1, <2>1 DEF HeldFresh, Ends, EndedStates
      <3> QED BY <3>1 DEF Dated
    <2>2. CASE /\ mem.status \in {held.status, "past_due"}
               /\ mem.status = "past_due" /\ held.status # "past_due" => mem.endsAt # NoTime
               /\ mem.trialEndsAt = held.trialEndsAt
               /\ mem.endsAt = held.endsAt \/ mem.endsAt # NoTime
      <3>1. new.trialEndsAt = db.trialEndsAt
        BY <1>1, <2>2
      <3>2. new.status = db.status \/ new.status = "past_due"
        BY <1>1, <2>2
      <3>3. new.status = db.status => Dated(new)
        <4>1. db.endsAt # NoTime => new.endsAt # NoTime
          BY <1>1, <2>2
        <4> QED BY <3>1, <4>1 DEF Dated
      <3>4. new.status # db.status => new.endsAt # NoTime
        BY <1>1, <2>2 DEF HeldFresh
      <3> QED BY <3>1, <3>2, <3>3, <3>4 DEF Dated
    <2> QED BY <2>1, <2>2
  <1> QED BY <1>2, <1>3 DEF new

\* A step that writes at most row i, in good order, for the one request there
\* is, which then ends or goes on with what it holds.
LEMMA HandledStep ==
  ASSUME TypeOK, TypeOK', OneAtATime, DatesInv, NEW c \in Clients, NEW i \in SubIds,
         \A j \in SubIds \ {i} : subs'[j] = subs[j],
         Dated(subs'[i]), subs'[i].status # "none", subs'[i].end # NoTime,
         batch' = batch,
         \/ req'[c] = NoReq
         \/ req'[c].id = i /\ HeldFresh(req'[c].row, subs'[i])
  PROVE  DatesInv'
  <1>1. UnpaidAccessEnds' /\ \A j \in SubIds : subs'[j].status # "none" => subs'[j].end # NoTime
    BY DEF DatesInv, UnpaidAccessEnds, Dated
  <1>2. RenewsActive' /\ \A d \in Commands : \A e \in batch'[d] : subs'[e.id].status # "none"
    <2>1. \A d \in Commands : \A e \in batch[d] : e.id \in SubIds
      BY DEF TypeOK, Loaded
    <2> QED BY <2>1 DEF DatesInv, RenewsActive
  <1>3. \A d \in Clients : req'[d].op # "none" /\ req'[d].id # 0 =>
          HeldFresh(req'[d].row, subs'[req'[d].id])
    BY DEF OneAtATime, NoReq
  <1> QED BY <1>1, <1>2, <1>3 DEF DatesInv

LEMMA SweepDates ==
  ASSUME TypeOK, TypeOK', OneAtATime, DatesInv, RenewsActive', NEW c \in Commands, Sweep(c)
  PROVE  DatesInv'
  <1>1. CASE StartSweep(c)
    <2>1. subs' = subs /\ req' = req /\ batch' = [batch EXCEPT ![c] = DueRows(c)]
      BY <1>1 DEF StartSweep
    <2>2. \A e \in DueRows(c) : subs[e.id].status # "none"
      BY DEF DueRows, Due, DueForRenewal, DueToExpire, DueToSuspend
    <2>3. \A d \in Commands : \A e \in batch'[d] : subs'[e.id].status # "none"
      BY <2>1, <2>2 DEF DatesInv, TypeOK
    <2> QED BY <2>1, <2>3 DEF DatesInv, UnpaidAccessEnds
  <1>2. CASE Process(c) \/ SweepDies(c)
    <2>1. PICK e \in batch[c] : e.id \in SubIds /\ Swept(e.id)
      BY <1>2, SweptByCommand DEF DatesInv, OneAtATime
    <2>2. req' = req /\ \A d \in Commands : batch'[d] \subseteq batch[d]
      BY <1>2, SweptByCommand DEF DatesInv, OneAtATime
    <2>3. \A j \in SubIds : /\ Ends(subs[j], subs'[j])
                            /\ subs'[j].trialEndsAt = subs[j].trialEndsAt
                            /\ subs[j].endsAt # NoTime => subs'[j].endsAt # NoTime
                            /\ subs[j].end # NoTime => subs'[j].end # NoTime
      BY <2>1 DEF Swept, Ends
    <2>4. /\ UnpaidAccessEnds'
          /\ \A j \in SubIds : subs[j].status # "none" =>
                subs'[j].status # "none" /\ subs'[j].end # NoTime
      <3>1. \A j \in SubIds : subs[j].status # "none" => subs'[j].status # "none"
        BY <2>3 DEF Ends, EndedStates
      <3> QED BY <2>3, <3>1 DEF DatesInv, UnpaidAccessEnds, Ends, EndedStates
    <2>5. \A j \in SubIds : subs'[j].status # "none" => subs'[j].end # NoTime
      <3>1. \A j \in SubIds \ {e.id} : subs'[j] = subs[j]
        BY <2>1 DEF Swept
      <3>2. subs[e.id].status # "none"
        BY DEF DatesInv
      <3> QED BY <2>4, <3>1, <3>2 DEF DatesInv
    <2>6. \A d \in Commands : \A f \in batch'[d] : subs'[f.id].status # "none"
      <3>1. \A d \in Commands : \A f \in batch[d] : f.id \in SubIds /\ subs[f.id].status # "none"
        BY DEF DatesInv, TypeOK, Loaded
      <3> QED BY <2>2, <2>4, <3>1
    <2>7. ASSUME NEW d \in Clients, req[d].op # "none", req[d].id # 0
          PROVE  HeldFresh(req[d].row, subs'[req[d].id])
      <3>1. req[d].id \in SubIds
        BY <2>7 DEF TypeOK, NoReq
      <3>2. HeldFresh(req[d].row, subs[req[d].id])
        BY <2>7 DEF DatesInv
      <3> QED BY <2>3, <2>4, <3>1, <3>2 DEF HeldFresh, Ends
    <2> QED BY <2>2, <2>4, <2>5, <2>6, <2>7 DEF DatesInv
  <1> QED BY <1>1, <1>2 DEF Sweep

LEMMA RequestDates ==
  ASSUME TypeOK, TypeOK', OneAtATime, DatesInv, NEW c \in Clients,
         WebRequest(c) \/ BillingEvent(c)
  PROVE  DatesInv'
  <1>c. Collects /\ now \in Nat /\ now # NoTime /\ now + GraceDays # NoTime
    <2>1. provider = "manual" /\ now \in Nat
      BY DEF OneAtATime, Manual, TypeOK
    <2>2. now + GraceDays \in Nat
      BY <2>1, DaysAssumption
    <2> QED BY <2>1, <2>2 DEF Collects, NoTime
  <1>r. /\ req[c].row \in Row
        /\ req[c].op # "none" /\ req[c].op # "checkout" =>
             /\ req[c].id \in SubIds /\ subs[req[c].id] \in Row
             /\ req[c].id # 0
    BY HeldType DEF SubIds
  <1>d. \A i \in SubIds : subs[i] \in Row /\ Dated(subs[i])
    BY DEF TypeOK, DatesInv, UnpaidAccessEnds, Dated
  <1>e. ASSUME EndRequest(c) PROVE req'[c] = NoReq /\ batch' = batch
    BY <1>e DEF EndRequest, TypeOK
  <1>h. ASSUME req[c].op # "none", req[c].op # "checkout"
        PROVE  /\ HeldFresh(req[c].row, subs[req[c].id])
               /\ subs[req[c].id].end # NoTime
    BY <1>h, <1>r DEF DatesInv, HeldFresh
  \* a handler's write and its end
  <1>w. ASSUME NEW i \in SubIds, NEW row, subs' = [subs EXCEPT ![i] = row], EndRequest(c),
               Dated(row), row.status # "none", row.end # NoTime
        PROVE  DatesInv'
    <2>1. /\ subs'[i] = row
          /\ \A j \in SubIds \ {i} : subs'[j] = subs[j]
      BY <1>w DEF TypeOK
    <2> QED BY <1>w, <2>1, <1>e, HandledStep
  \* a row loaded by the request
  <1>l. ASSUME NEW i \in SubIds, NEW op, LoadsRow(c, op, i), subs[i].status # "none",
               subs' = subs, batch' = batch
        PROVE  DatesInv'
    <2>1. req'[c].id = i /\ req'[c].row = subs[i]
      BY <1>l DEF LoadsRow, TypeOK
    <2>2. subs[i].end # NoTime
      BY <1>l DEF DatesInv
    <2>3. HeldFresh(subs[i], subs[i])
      BY <1>l, <2>2 DEF HeldFresh, Ends
    <2> QED BY <1>l, <1>d, <2>1, <2>2, <2>3, HandledStep
  <1>1. CASE LoadCheckout(c)
    <2>0. subs' = subs /\ batch' = batch
      BY <1>1 DEF LoadCheckout
    <2>1. CASE \E i \in SubIds : IsCurrent(i) /\ LoadsRow(c, "checkout", i)
      BY <2>0, <2>1, <1>l DEF IsCurrent, Active, ActiveStates
    <2>2. CASE req' = [req EXCEPT ![c] = [op |-> "checkout", id |-> 0, row |-> NoRow]]
      <3>1. \A d \in Clients : req'[d].id = 0
        BY <2>2 DEF OneAtATime, TypeOK
      <3> QED BY <2>0, <3>1 DEF DatesInv, UnpaidAccessEnds, RenewsActive
    <2> QED BY <1>1, <2>1, <2>2 DEF LoadCheckout
  <1>2. CASE LoadCurrent(c)
    BY <1>2, <1>l DEF LoadCurrent, IsCurrent, Active, ActiveStates
  <1>3. CASE LoadEvent(c)
    BY <1>3, <1>l DEF LoadEvent
  <1>4. CASE RetryInvoice(c)
    <2>1. subs' = subs /\ batch' = batch
      BY <1>4 DEF RetryInvoice
    <2>2. PICK inv \in invoices :
            IF subs[inv.sub].status = "past_due"
            THEN LoadsRow(c, "settle", inv.sub) ELSE UNCHANGED req
      BY <1>4 DEF RetryInvoice
    <2>3. inv.sub \in SubIds
      BY DEF TypeOK, Invoice
    <2>4. CASE UNCHANGED req
      BY <2>1, <2>4 DEF DatesInv, UnpaidAccessEnds, RenewsActive
    <2>5. CASE subs[inv.sub].status = "past_due" /\ LoadsRow(c, "settle", inv.sub)
      BY <2>1, <2>3, <2>5, <1>l
    <2> QED BY <2>2, <2>4, <2>5
  <1>5. CASE Checkout(c)
    <2>1. PICK i \in SubIds, len \in Intervals :
            /\ IF req[c].id = 0 THEN IsNext(i) ELSE i = req[c].id
            /\ LET on == Activated(CheckedOut(req[c].row, len), now)
               IN Charge(i, "activation", Save(subs[i], req[c].row, on), on)
      BY <1>5, <1>c DEF Checkout
    <2> DEFINE on == Activated(CheckedOut(req[c].row, len), now)
               row == Save(subs[i], req[c].row, on)
    <2>2. /\ subs' = [subs EXCEPT ![i] = row]
          /\ EndRequest(c)
      BY <1>5, <1>c, <2>1 DEF Charge, Checkout
    <2>3. /\ on \in Row /\ on.status = "active" /\ on.end # NoTime
          /\ req[c].op = "checkout"
      <3>1. CheckedOut(req[c].row, len) \in Row
        BY <1>r, PlanTypes, <1>c
      <3>2. on \in Row /\ on.status = "active" /\ on.end > now
        BY <3>1, <1>c, OperationTypes, ActivatedEnd DEF Activated, Row
      <3> QED BY <1>5, <1>c, <3>2 DEF Checkout, NoTime
    <2> HIDE DEF on
    <2>4. Dated(row) /\ row.status # "none" /\ row.end # NoTime
      <3>1. CASE req[c].id = 0
        <4>1. req[c].row = NoRow
          BY <3>1 DEF TypeOK, NoReq, SubIds
        <4>2. row.status = "active" /\ row.end = on.end
          BY <4>1, <2>3 DEF Save, Written, NoRow
        <4> QED BY <4>2, <2>3 DEF Dated
      <3>2. CASE req[c].id # 0
        <4>1. i = req[c].id /\ HeldFresh(req[c].row, subs[i])
          BY <2>1, <2>3, <3>2 DEF DatesInv
        <4>2. subs[i].end # NoTime
          BY <4>1 DEF DatesInv, HeldFresh
        <4> QED BY <1>r, <1>d, <2>3, <4>1, <4>2, HandledRow
      <3> QED BY <3>1, <3>2
    <2> HIDE DEF row
    <2> QED BY <2>2, <2>4, <1>w
  <1>6. CASE ProviderRefuses(c)
    BY <1>6, <1>c DEF ProviderRefuses, Collects
  <1>7. CASE ChangePlan(c)
    <2>1. PICK len \in Intervals :
            LET mem == [req[c].row EXCEPT !.interval = len]
                row == Save(subs[req[c].id], req[c].row, mem)
            IN Charge(req[c].id, "proration", row, row) \/ Store(req[c].id, req[c].row, mem)
      BY <1>7 DEF ChangePlan
    <2> DEFINE i == req[c].id
               mem == [req[c].row EXCEPT !.interval = len]
               row == Save(subs[i], req[c].row, mem)
    <2>2. /\ i \in SubIds /\ req[c].row \in Row /\ subs[i] \in Row /\ batch' = batch
          /\ HeldFresh(req[c].row, subs[i]) /\ subs[i].end # NoTime
      BY <1>7, <1>r, <1>h DEF ChangePlan
    <2>3. subs' = [subs EXCEPT ![i] = row]
      BY <2>1, <1>c DEF Charge, Store
    <2>4. /\ row.status = subs[i].status /\ row.trialEndsAt = subs[i].trialEndsAt
          /\ row.end = subs[i].end /\ row.endsAt = subs[i].endsAt
      BY <2>2 DEF Save, Written, Row
    <2> HIDE DEF row
    <2>5. /\ subs'[i] = row
          /\ \A j \in SubIds \ {i} : subs'[j] = subs[j]
      BY <2>2, <2>3 DEF TypeOK
    <2>6. Dated(row) /\ row.status # "none" /\ row.end # NoTime
          /\ HeldFresh(req[c].row, row)
      BY <2>2, <2>4, <1>d DEF Dated, HeldFresh, Ends
    <2>7. \/ req'[c] = NoReq
          \/ req'[c].id = i /\ req'[c].row = req[c].row
      <3>1. req' \in {[req EXCEPT ![c] = NoReq], [req EXCEPT ![c].op = "quantity"]}
        BY <1>7 DEF ChangePlan
      <3>2. req[c] \in [op : Requests, id : SubIds, row : Row]
        BY <1>7 DEF ChangePlan, TypeOK, NoReq
      <3> QED BY <3>1, <3>2 DEF TypeOK
    <2> QED BY <2>2, <2>5, <2>6, <2>7, HandledStep
  <1>8. CASE ChangeQuantity(c)
    <2>1. /\ req[c].id \in SubIds /\ subs[req[c].id].end # NoTime
          /\ subs[req[c].id].status # "none"
      BY <1>8, <1>r, <1>h DEF ChangeQuantity, HeldFresh
    <2>2. subs' = [subs EXCEPT ![req[c].id] = subs[req[c].id]] /\ EndRequest(c)
      <3>1. subs' = subs => subs' = [subs EXCEPT ![req[c].id] = subs[req[c].id]]
        BY DEF TypeOK
      <3> QED BY <1>8, <1>c, <3>1 DEF ChangeQuantity, Charge, NoWrite
    <2> QED BY <2>1, <2>2, <1>d, <1>w
  <1>9. CASE Cancel(c) \/ Resume(c) \/ Settle(c) \/ (ApplyEvent(c) /\ req[c].op # "activated")
    <2> DEFINE i == req[c].id
               held == req[c].row
    <2>1. /\ req[c].op \in Requests \ {"checkout"} /\ EndRequest(c)
          /\ \E mem \in {CancelScheduled(held), CanceledNow(held, now), Resumed(held),
                         Settled(held), PastDue(held, now), Suspended(held)} :
               subs' = [subs EXCEPT ![i] = Save(subs[i], held, mem)]
      BY <1>9 DEF Cancel, Resume, Settle, ApplyEvent, Store, Requests
    <2>2. PICK mem \in {CancelScheduled(held), CanceledNow(held, now), Resumed(held),
                        Settled(held), PastDue(held, now), Suspended(held)} :
            subs' = [subs EXCEPT ![i] = Save(subs[i], held, mem)]
      BY <2>1
    <2>3. /\ i \in SubIds /\ held \in Row /\ subs[i] \in Row /\ Dated(subs[i])
          /\ HeldFresh(held, subs[i]) /\ subs[i].end # NoTime /\ held.end # NoTime
      BY <2>1, <1>r, <1>h, <1>d DEF Requests, HeldFresh
    <2>4. held.status # "none"
      BY <2>3 DEF HeldFresh
    <2>5. mem \in Row
      BY <2>3, <1>c, OperationTypes
    <2>6. /\ mem.end = held.end
          /\ mem.status \in {"active", "canceled", "suspended"} \/
             /\ mem.status \in {held.status, "past_due"}
             /\ mem.status = "past_due" /\ held.status # "past_due" => mem.endsAt # NoTime
             /\ mem.trialEndsAt = held.trialEndsAt
             /\ mem.endsAt = held.endsAt \/ mem.endsAt # NoTime
      <3>1. CASE mem \in {CanceledNow(held, now), Resumed(held), Settled(held), Suspended(held)}
        BY <2>3, <3>1 DEF CanceledNow, Resumed, Settled, Suspended, Row
      <3>2. CASE mem = CancelScheduled(held)
        BY <2>3, <3>2 DEF CancelScheduled, Row
      <3>3. CASE mem = PastDue(held, now)
        BY <2>3, <1>c, <3>3 DEF PastDue, Row
      <3> QED BY <3>1, <3>2, <3>3
    <2>7. mem.status # "none"
      BY <2>4, <2>6
    <2> HIDE DEF held, i
    <2>8. /\ Dated(Save(subs[i], held, mem))
          /\ Save(subs[i], held, mem).status # "none"
          /\ Save(subs[i], held, mem).end # NoTime
      BY <2>3, <2>5, <2>6, <2>7, HandledRow DEF EndedStates
    <2> QED BY <2>1, <2>2, <2>3, <2>8, <1>w
  <1>10. CASE ApplyEvent(c) /\ req[c].op = "activated"
    <2> DEFINE i == req[c].id
               on == Activated(req[c].row, now)
    <2>1. /\ subs' = [subs EXCEPT ![i] = Save(subs[i], req[c].row, on)]
          /\ EndRequest(c)
      BY <1>10, <1>c DEF ApplyEvent, Charge
    <2>2. /\ i \in SubIds /\ req[c].row \in Row /\ subs[i] \in Row /\ Dated(subs[i])
          /\ HeldFresh(req[c].row, subs[i]) /\ subs[i].end # NoTime
      BY <1>10, <1>r, <1>h, <1>d
    <2>3. on \in Row /\ on.status = "active" /\ on.end # NoTime
      <3>1. on.end > now /\ on.end # NoTime
        BY <2>2, <1>c, ActivatedEnd DEF NoTime
      <3>2. on \in Row
        BY <2>2, <1>c, OperationTypes
      <3>3. on.status = "active"
        BY <2>2 DEF Activated, Row
      <3> QED BY <3>1, <3>2, <3>3
    <2> HIDE DEF on, i
    <2>4. /\ Dated(Save(subs[i], req[c].row, on))
          /\ Save(subs[i], req[c].row, on).status # "none"
          /\ Save(subs[i], req[c].row, on).end # NoTime
      BY <2>2, <2>3, HandledRow
    <2> QED BY <2>1, <2>2, <2>4, <1>w
  <1>11. CASE RequestDies(c)
    <2>1. subs' = subs /\ batch' = batch /\ \A d \in Clients : req'[d] = NoReq
      BY <1>11 DEF RequestDies, NoWrite, TypeOK, OneAtATime
    <2> QED BY <2>1 DEF DatesInv, UnpaidAccessEnds, RenewsActive, NoReq
  <1> QED BY <1>1, <1>2, <1>3, <1>4, <1>5, <1>6, <1>7, <1>8, <1>9, <1>10, <1>11
          DEF WebRequest, BillingEvent

LEMMA DatesInit == Init => DatesInv
  <1> SUFFICES ASSUME Init PROVE DatesInv
    OBVIOUS
  <1>1. \A len \in Intervals : /\ TrialStarted(len, 0).status = "trialing"
                               /\ TrialStarted(len, 0).trialEndsAt # NoTime
                               /\ TrialStarted(len, 0).end # NoTime
    BY DaysAssumption DEF TrialStarted, NoRow, NoTime
  <1>2. \A i \in SubIds : \/ subs[i].status = "none"
                          \/ /\ subs[i].status = "trialing" /\ subs[i].trialEndsAt # NoTime
                             /\ subs[i].end # NoTime
    BY <1>1 DEF Init, Created, NoRow
  <1>3. \A c \in Clients : req[c] = NoReq
    BY DEF Init
  <1> QED BY <1>2, <1>3 DEF Init, DatesInv, UnpaidAccessEnds, RenewsActive, Commands, NoReq

LEMMA DatesNext ==
  ASSUME TypeOK, TypeOK', OneAtATime, DatesInv, [Next]_vars
  PROVE  DatesInv'
  <1>1. CASE Tick \/ SwitchProvider \/ InvoicePaidEvent \/ UNCHANGED vars
    <2>1. subs' = subs /\ req' = req /\ batch' = batch
      BY <1>1 DEF Tick, SwitchProvider, InvoicePaidEvent, vars
    <2> QED BY <2>1 DEF DatesInv, UnpaidAccessEnds, RenewsActive
  <1>2. RenewsActive'
    BY RenewsActiveKept DEF DatesInv
  <1> QED BY <1>1, <1>2, SweepDates, RequestDates DEF Next

\* With the manual provider and one request or event at a time, no trial and
\* no failed payment gives access without a date that ends it, whatever the
\* commands write from rows they loaded earlier and wherever they die.
THEOREM UnpaidAccessIsDated ==
  ASSUME OneAtATime
  PROVE  Spec => []UnpaidAccessEnds
  <1>1. TypeOK /\ DatesInv /\ [Next]_vars => (TypeOK /\ DatesInv)'
    BY NextType, DatesNext
  <1>2. Init => TypeOK /\ DatesInv
    BY InitType, DatesInit
  <1>3. DatesInv => UnpaidAccessEnds
    BY DEF DatesInv
  <1> QED BY <1>1, <1>2, <1>3, PTL DEF Spec
=============================================================================
