---------------------------- MODULE CreditLedger ----------------------------
(***************************************************************************)
(* Credits: what the agent reserves before a request to a model provider   *)
(* (luna-agent/src/provider/budgeted.ts, persistence/postgres.ts), how the *)
(* worker settles the usage the provider reports and the windows of        *)
(* project usage (internal/billing/ledger.go, ai_usage.go), and who pays   *)
(* (internal/project/billing_owner_transfer.go).                           *)
(*                                                                         *)
(* Transactions hold the lock of one wallet, never of two: statements that *)
(* are not under it are steps of their own.                                *)
(***************************************************************************)
EXTENDS Integers, Sequences, FiniteSetsExt

CONSTANTS
  Users, NoUser,
  Callers,     \* the users who have runs
  Calls,       \* requests to the provider, one credit hold each
  Windows,     \* metered windows of the project
  Workers,     \* tasks that settle usage; the schedule lets them overlap
  Nobody,
  Credits,     \* what each wallet holds in the beginning
  Risk,        \* max_risk_credits of a hold
  Costs,       \* what the usage a provider reports may cost
  Fee,         \* what a window costs
  MaxMoves,    \* bound: recharges and adjustments by administrators
  MaxFaults    \* bound: worker stops

ASSUME CreditAssumption ==
  /\ NoUser \notin Users /\ Callers \subseteq Users /\ Nobody \notin Workers
  /\ Calls \cap Windows = {} /\ IsFiniteSet(Calls) /\ IsFiniteSet(Windows)
  /\ Credits \in Nat /\ Risk \in Nat \ {0} /\ Fee \in Nat \ {0}
  /\ Costs \subseteq Nat
  /\ MaxMoves \in Nat /\ MaxFaults \in Nat

VARIABLES
  wallet,    \* user_wallets: balance and the transaction that has the row
  hold,      \* ai.model_credit_holds
  usage,     \* settlement_status of ai.model_usages
  call,      \* where BudgetedModelProvider is with a request, the cost reported
  served,    \* history: the provider has worked on the request
  owner,     \* projects.billing_owner_user_id
  offer,     \* the recipient of a pending ownership transfer
  task,      \* the settlement tasks in flight
  debits,    \* billing_ledger_entries: who paid for a call or a window
  deposits,  \* billing_ledger_entries of administrators, added up
  moves, faults

vars == <<wallet, hold, usage, call, served, owner, offer, task,
          debits, deposits, moves, faults>>
world == <<owner, offer, moves, faults>>
books == <<wallet, debits, deposits>>

(***************************************************************************)
(* State.                                                                  *)

\* The states activeAIReservationHolds and createModelCreditHold add up.
Reserving == {"held", "usage_recorded", "hold_deficit", "reconciliation_required"}

HoldStates == Reserving \cup {"absent", "released", "settled"}

NoHold == [state |-> "absent", user |-> NoUser, cost |-> 0]

\* coalesce(actual_credits, max_risk_credits)
Claimed(h) == IF h.state \in {"usage_recorded", "hold_deficit"} THEN h.cost ELSE Risk

\* Mutant of Reserved: the hold that is being settled counts as well.
ReservedByAll(u, own) ==
  SumFunctionOnSet([c \in Calls |-> Claimed(hold[c])],
    {c \in Calls : hold[c].user = u /\ hold[c].state \in Reserving})

\* The sum over the holds of a user that are not over, without one of them.
Reserved(u, own) ==
  SumFunctionOnSet([c \in Calls |-> Claimed(hold[c])],
    {c \in Calls \ own : hold[c].user = u /\ hold[c].state \in Reserving})

Idle == [pc |-> "idle", todo |-> {}, item |-> NoUser, user |-> NoUser,
         seen |-> 0, reserved |-> 0]

TypeOK ==
  /\ wallet \in [Users -> [balance : Int, lock : Workers \cup {Nobody}]]
  /\ hold \in [Calls -> [state : HoldStates, user : Users \cup {NoUser}, cost : Nat]]
  /\ usage \in [Calls -> {"absent", "pending", "reconciliation_required", "settled"}]
  /\ call \in [Calls -> [pc : {"idle", "reserved", "sent", "report", "unknown",
                             "release", "over"}, cost : Costs \cup {0}]]
  /\ served \in [Calls -> BOOLEAN]
  /\ owner \in Users /\ offer \in Users \cup {NoUser}
  /\ task \in [Workers ->
       [pc : {"idle", "usages", "usage", "owner", "window"},
        todo : SUBSET Calls, item : Calls \cup Windows \cup {NoUser},
        user : Users \cup {NoUser}, seen : Int, reserved : Nat]]
  /\ debits \in [Calls \cup Windows -> Seq(Users)]
  /\ deposits \in [Users -> Int]
  /\ moves \in 0..MaxMoves /\ faults \in 0..MaxFaults

Init ==
  /\ wallet = [u \in Users |-> [balance |-> Credits, lock |-> Nobody]]
  /\ hold = [c \in Calls |-> NoHold]
  /\ usage = [c \in Calls |-> "absent"]
  /\ call = [c \in Calls |-> [pc |-> "idle", cost |-> 0]]
  /\ served = [c \in Calls |-> FALSE]
  /\ owner \in Users /\ offer = NoUser
  /\ task = [k \in Workers |-> Idle]
  /\ debits = [x \in Calls \cup Windows |-> <<>>]
  /\ deposits = [u \in Users |-> 0]
  /\ moves = 0 /\ faults = 0

Free(u) == wallet[u].lock = Nobody
Go(c, pc) == call' = [call EXCEPT ![c].pc = pc]
SetHold(c, state) == hold' = [hold EXCEPT ![c].state = state]

-----------------------------------------------------------------------------
(* A request to the provider.                                              *)

\* Mutant of Reserve: the wallet is read without "for update".
ReserveUnlocked(c, u) ==
  /\ call[c].pc = "idle"
  /\ Risk <= wallet[u].balance - Reserved(u, {})
  /\ hold' = [hold EXCEPT ![c] = [state |-> "held", user |-> u, cost |-> 0]]
  /\ Go(c, "reserved")
  /\ UNCHANGED <<books, usage, served, task, world>>

\* createModelCreditHold: the holds of this user whose lease has run out go to
\* reconciliation, the others are added up, all under the lock of the wallet. A
\* lease (three hours) outlives every request that is still being made.
Reserve(c, u) ==
  /\ call[c].pc = "idle"
  /\ Free(u)
  /\ Risk <= wallet[u].balance - Reserved(u, {})
  /\ \E lapsed \in SUBSET {d \in Calls : /\ call[d].pc = "over" /\ hold[d].user = u
                                          /\ hold[d].state = "held"} :
       hold' = [d \in Calls |->
         IF d = c THEN [state |-> "held", user |-> u, cost |-> 0]
         ELSE IF d \in lapsed THEN [hold[d] EXCEPT !.state = "reconciliation_required"]
         ELSE hold[d]]
  /\ Go(c, "reserved")
  /\ UNCHANGED <<books, usage, served, task, world>>

Dispatch(c) ==
  /\ call[c].pc = "reserved"
  /\ Go(c, "sent")
  /\ UNCHANGED <<books, hold, usage, served, task, world>>

\* The run was cancelled before anything was sent, or the request is invalid.
CallOff(c) ==
  /\ call[c].pc = "reserved"
  /\ Go(c, "release")
  /\ UNCHANGED <<books, hold, usage, served, task, world>>

Serve(c) ==
  /\ call[c].pc = "sent" /\ ~served[c]
  /\ served' = [served EXCEPT ![c] = TRUE]
  /\ UNCHANGED <<books, hold, usage, call, task, world>>

\* A response that is not 2xx: "rejected".
Refuse(c) ==
  /\ call[c].pc = "sent" /\ ~served[c]
  /\ Go(c, "release")
  /\ UNCHANGED <<books, hold, usage, served, task, world>>

\* The run is cancelled while fetch waits or the body is read: transportError
\* calls it "not_dispatched" whenever the signal is aborted.
CancelSent(c) ==
  /\ call[c].pc = "sent"
  /\ Go(c, "release")
  /\ UNCHANGED <<books, hold, usage, served, task, world>>

\* A timeout, a broken connection, an invalid body, or a response without usage.
LoseAnswer(c) ==
  /\ call[c].pc = "sent"
  /\ Go(c, "unknown")
  /\ UNCHANGED <<books, hold, usage, served, task, world>>

\* The response ends with usage that is valid; what it costs follows from the
\* prices the hold has kept.
Answer(c, cost) ==
  /\ call[c].pc = "sent" /\ served[c]
  /\ call' = [call EXCEPT ![c] = [pc |-> "report", cost |-> cost]]
  /\ UNCHANGED <<books, hold, usage, served, task, world>>

\* recordReportedModelUsage. The answer of the commit may be lost, and the
\* statements may fail: finalizeFailure follows.
Record(c) ==
  /\ call[c].pc = "report"
  /\ \/ /\ hold[c].state = "held"
        /\ LET deficit == call[c].cost > Risk IN
           /\ hold' = [hold EXCEPT ![c].cost = call[c].cost,
                ![c].state = IF deficit THEN "hold_deficit" ELSE "usage_recorded"]
           /\ usage' = [usage EXCEPT ![c] =
                IF deficit THEN "reconciliation_required" ELSE "pending"]
        /\ Go(c, "over") \/ Go(c, "unknown")
     \/ UNCHANGED <<hold, usage>> /\ Go(c, "unknown")
  /\ UNCHANGED <<books, served, task, world>>

\* markModelUsageUnavailable, of a hold that is still held.
MarkUnavailable(c) ==
  /\ call[c].pc = "unknown"
  /\ IF hold[c].state = "held" THEN SetHold(c, "reconciliation_required") ELSE UNCHANGED hold
  /\ Go(c, "over")
  /\ UNCHANGED <<books, usage, served, task, world>>

\* releaseModelCreditHold.
Release(c) ==
  /\ call[c].pc = "release"
  /\ IF hold[c].state = "held" THEN SetHold(c, "released") ELSE UNCHANGED hold
  /\ Go(c, "over")
  /\ UNCHANGED <<books, usage, served, task, world>>

\* The process ends, the last statement fails, or the consumer leaves the
\* generator early, which runs neither of its branches: the hold stays held.
Abandon(c) ==
  /\ call[c].pc \notin {"idle", "over"}
  /\ Go(c, "over")
  /\ UNCHANGED <<books, hold, usage, served, task, world>>

CallStep(c) ==
  \/ \E u \in Callers : Reserve(c, u)
  \/ Dispatch(c) \/ CallOff(c) \/ Serve(c) \/ Refuse(c) \/ CancelSent(c) \/ LoseAnswer(c)
  \/ \E cost \in Costs : Answer(c, cost)
  \/ Record(c) \/ MarkUnavailable(c) \/ Release(c) \/ Abandon(c)

-----------------------------------------------------------------------------
(* Settlement. Every pass of billing:ai and billing:runtime is a task of   *)
(* its own, one transaction per usage or window.                           *)

Recorded == {c \in Calls : usage[c] = "pending" /\ hold[c].state = "usage_recorded"}

Pay(u, x, balance) ==
  /\ wallet' = [wallet EXCEPT ![u] = [balance |-> balance, lock |-> Nobody]]
  /\ debits' = [debits EXCEPT ![x] = Append(@, u)]
  /\ UNCHANGED deposits

Unlock(u) ==
  /\ wallet' = [wallet EXCEPT ![u].lock = Nobody]
  /\ UNCHANGED <<debits, deposits>>

\* ErrReservedBalance: what is left has to cover the holds, if there are any.
TooLittle(k, amount) == task[k].reserved > 0 /\ task[k].seen - amount < task[k].reserved

\* SettlePendingAIModelUsage reads the list once.
ListUsages(k) ==
  /\ task[k].pc = "idle" /\ Recorded # {}
  /\ task' = [task EXCEPT ![k] = [Idle EXCEPT !.pc = "usages", !.todo = Recorded]]
  /\ UNCHANGED <<books, hold, usage, call, served, world>>

EndUsages(k) ==
  /\ task[k].pc = "usages" /\ task[k].todo = {}
  /\ task' = [task EXCEPT ![k] = Idle]
  /\ UNCHANGED <<books, hold, usage, call, served, world>>

\* settleReportedAIUsage: wallet, hold and usage are locked in this order. What
\* another pass has settled since the list was read is skipped.
LockForUsage(k, c) ==
  LET u == hold[c].user IN
  /\ task[k].pc = "usages" /\ c \in task[k].todo
  /\ Free(u)
  /\ IF c \in Recorded
     THEN /\ wallet' = [wallet EXCEPT ![u].lock = k]
          /\ task' = [task EXCEPT ![k].pc = "usage", ![k].item = c, ![k].user = u,
               ![k].todo = @ \ {c},
               ![k].seen = wallet[u].balance, ![k].reserved = Reserved(u, {c})]
     ELSE /\ UNCHANGED wallet
          /\ task' = [task EXCEPT ![k].todo = @ \ {c}]
  /\ UNCHANGED <<debits, deposits, hold, usage, call, served, world>>

\* debitUsagesForUser, and the two rows that are settled with it.
PostUsage(k) ==
  LET c == task[k].item IN
  /\ task[k].pc = "usage"
  /\ IF TooLittle(k, hold[c].cost)
     THEN Unlock(task[k].user) /\ UNCHANGED <<hold, usage>>
     ELSE /\ IF debits[c] = <<>>
             THEN Pay(task[k].user, c, task[k].seen - hold[c].cost)
             ELSE Unlock(task[k].user)
          /\ SetHold(c, "settled")
          /\ usage' = [usage EXCEPT ![c] = "settled"]
  /\ task' = [task EXCEPT ![k] = [Idle EXCEPT !.pc = "usages", !.todo = task[k].todo]]
  /\ UNCHANGED <<call, served, world>>

\* debitUsages: the owner is read before the wallet is locked.
ReadOwner(k, w) ==
  /\ task[k].pc = "idle"
  /\ task' = [task EXCEPT ![k] = [Idle EXCEPT !.pc = "owner", !.item = w, !.user = owner]]
  /\ UNCHANGED <<books, hold, usage, call, served, world>>

\* Mutant of LockForWindow: the wallet is read without "for update".
LockNothing(k) ==
  LET u == task[k].user IN
  /\ task[k].pc = "owner"
  /\ UNCHANGED wallet
  /\ task' = [task EXCEPT ![k].pc = "window",
       ![k].seen = wallet[u].balance, ![k].reserved = Reserved(u, {})]
  /\ UNCHANGED <<debits, deposits, hold, usage, call, served, world>>

\* debitUsagesForUser: a window that is in the books is skipped.
LockForWindow(k) ==
  LET u == task[k].user IN
  /\ task[k].pc = "owner"
  /\ Free(u)
  /\ IF debits[task[k].item] = <<>>
     THEN /\ wallet' = [wallet EXCEPT ![u].lock = k]
          /\ task' = [task EXCEPT ![k].pc = "window",
               ![k].seen = wallet[u].balance, ![k].reserved = Reserved(u, {})]
     ELSE UNCHANGED wallet /\ task' = [task EXCEPT ![k] = Idle]
  /\ UNCHANGED <<debits, deposits, hold, usage, call, served, world>>

\* Mutant of PostWindow: no unique index on the usage records.
PostTwice(k) ==
  /\ task[k].pc = "window"
  /\ IF TooLittle(k, Fee)
     THEN Unlock(task[k].user)
     ELSE Pay(task[k].user, task[k].item, task[k].seen - Fee)
  /\ task' = [task EXCEPT ![k] = Idle]
  /\ UNCHANGED <<hold, usage, call, served, world>>

\* Two owners have two wallets, so two tasks may both have found the window
\* unpaid: the unique index idx_billing_usage_resource_meter lets one insert it.
PostWindow(k) ==
  /\ task[k].pc = "window"
  /\ IF TooLittle(k, Fee) \/ debits[task[k].item] # <<>>
     THEN Unlock(task[k].user)
     ELSE Pay(task[k].user, task[k].item, task[k].seen - Fee)
  /\ task' = [task EXCEPT ![k] = Idle]
  /\ UNCHANGED <<hold, usage, call, served, world>>

\* A worker stops: its transaction is rolled back.
WorkerStops(k) ==
  /\ task[k].pc # "idle" /\ faults < MaxFaults
  /\ faults' = faults + 1
  /\ IF task[k].pc \in {"usage", "window"} THEN Unlock(task[k].user) ELSE UNCHANGED books
  /\ task' = [task EXCEPT ![k] = Idle]
  /\ UNCHANGED <<hold, usage, call, served, owner, offer, moves>>

UsageStep(k) ==
  \/ ListUsages(k) \/ EndUsages(k) \/ PostUsage(k)
  \/ \E c \in Calls : LockForUsage(k, c)

WindowStep(k) ==
  \/ \E w \in Windows : ReadOwner(k, w)
  \/ LockForWindow(k) \/ PostWindow(k)

-----------------------------------------------------------------------------
(* Administrators and owners.                                              *)

\* ApplyWalletTransaction with a positive amount.
Recharge(u) ==
  /\ moves < MaxMoves /\ moves' = moves + 1
  /\ Free(u)
  /\ wallet' = [wallet EXCEPT ![u].balance = @ + 1]
  /\ deposits' = [deposits EXCEPT ![u] = @ + 1]
  /\ UNCHANGED <<hold, usage, call, served, owner, offer, task, debits, faults>>

\* ApplyWalletTransaction with a negative amount: the holds are left covered.
Adjust(u) ==
  /\ moves < MaxMoves /\ moves' = moves + 1
  /\ Free(u)
  /\ Reserved(u, {}) > 0 => wallet[u].balance - 1 >= Reserved(u, {})
  /\ wallet' = [wallet EXCEPT ![u].balance = @ - 1]
  /\ deposits' = [deposits EXCEPT ![u] = @ - 1]
  /\ UNCHANGED <<hold, usage, call, served, owner, offer, task, debits, faults>>

\* BillingOwnerTransferService.Request: one pending request per project.
OfferOwnership(u) ==
  /\ offer = NoUser /\ u # owner
  /\ offer' = u
  /\ UNCHANGED <<books, hold, usage, call, served, owner, task, moves, faults>>

\* Decide, or the request expires. The owner changes nowhere else.
DecideOffer ==
  /\ offer # NoUser
  /\ owner' \in {owner, offer}
  /\ offer' = NoUser
  /\ UNCHANGED <<books, hold, usage, call, served, task, moves, faults>>

PeopleStep ==
  \/ \E u \in Users : Recharge(u) \/ Adjust(u) \/ OfferOwnership(u)
  \/ DecideOffer

-----------------------------------------------------------------------------

Next ==
  \/ \E c \in Calls : CallStep(c)
  \/ \E k \in Workers : UsageStep(k) \/ WindowStep(k) \/ WorkerStops(k)
  \/ PeopleStep

Spec == Init /\ [][Next]_vars

-----------------------------------------------------------------------------
(* Properties.                                                             *)

\* What a hold may cost at most, and the open holds of a user together.
AtMost(h) == IF Claimed(h) < Risk THEN Claimed(h) ELSE Risk
AtRisk(u) == SumFunctionOnSet([c \in Calls |-> AtMost(hold[c])],
  {c \in Calls : hold[c].user = u /\ hold[c].state \in Reserving})

\* What the open holds of a user may cost at most is there to be paid: charges,
\* adjustments, other requests and settlements leave it in the wallet. (A hold
\* counts with no more than its risk: a provider may report more than that.)
HoldsAreCovered ==
  \A u \in Users : AtRisk(u) > 0 => AtRisk(u) <= wallet[u].balance

\* What a user has paid for requests and windows, by the ledger.
Price(x) == IF x \in Calls THEN hold[x].cost ELSE Fee
Times(x, u) == Cardinality({i \in DOMAIN debits[x] : debits[x][i] = u})
Paid(u) == SumFunctionOnSet([x \in Calls \cup Windows |-> Price(x) * Times(x, u)],
  Calls \cup Windows)

\* A balance is the sum of the entries of its ledger, whichever transactions
\* write whole balances next to one another.
BalanceIsLedger ==
  \A u \in Users : wallet[u].balance = Credits + deposits[u] - Paid(u)

\* Usage is in the books of its user exactly when it counts as settled and once,
\* and a window is charged once, to one user, over all passes and both owners.
PaidOnce ==
  /\ \A c \in Calls :
       /\ hold[c].state = "settled" <=> usage[c] = "settled"
       /\ debits[c] = IF usage[c] = "settled" THEN <<hold[c].user>> ELSE <<>>
  /\ \A w \in Windows : Len(debits[w]) <= 1

\* Reported usage is never turned away for lack of credits: whatever was charged
\* or reserved since the request was sent, its cost is still there, unless another
\* request of the user has cost more than its hold.
UsageIsCovered ==
  \A k \in Workers :
    task[k].pc = "usage" /\ TooLittle(k, hold[task[k].item].cost) =>
      \E d \in Calls : hold[d].state = "hold_deficit" /\ hold[d].user = task[k].user

-----------------------------------------------------------------------------
(* What the documents say of the program and the code does not do; refuted  *)
(* under doc_free_call.cfg.                                                *)

\* docs-internal/11:140-142: when the outcome of a request cannot be known its
\* hold goes to reconciliation; a hold may be released when the provider refused
\* the request or nothing was sent.
ServedIsAccounted == \A c \in Calls : hold[c].state = "released" => ~served[c]
=============================================================================
