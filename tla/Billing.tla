------------------------------- MODULE Billing -------------------------------
(***************************************************************************)
(* One organization's subscription and credits (billing.service.ts).  The  *)
(* payment provider announces changes of a subscription by webhooks,       *)
(* delivered late, repeatedly and out of order; each delivery records its  *)
(* event, reads the subscription back, writes its row and grants the       *)
(* period's allowance.  Meanwhile work is charged to the credits under     *)
(* idempotency keys, charges are reversed, and operators grant credits.    *)
(* Requests overlap, throw and die between any two statements.  The names  *)
(* that other modules use as well carry a prefix: money has one proof      *)
(* module, which extends this module and BudgetReservations.               *)
(***************************************************************************)
EXTENDS Integers, FiniteSets, FiniteSetsExt, Functions

CONSTANTS
  Callers,         \* requests that can be under way at once
  ChargeKeys,      \* idempotency keys of charges
  Amount,          \* [ChargeKeys -> credits charged under each]
  Events,          \* webhook events the provider can send
  KindOf,          \* [Events -> what the event is about]
  Plans,
  Nothing,
  MonthlyCredits,  \* [Plans -> Nat]
  Gift,            \* credits an operator grants at a time
  MaxLots,         \* bound of the rows of credit_grants
  MaxCalls,        \* bound of the requests made
  MaxTime,         \* bound of the clock; billing period p is the time from p to p + 1
  MaxCrashes       \* bound of the requests that die and the statements that throw

ASSUME BillingConstants ==
  /\ Plans # {} /\ ChargeKeys \cap Events = {} /\ Nothing \notin ChargeKeys \cup Events
  /\ Amount \in [ChargeKeys -> Nat \ {0}]
  /\ KindOf \in [Events -> {"subscription", "failed", "paid"}]
  /\ MonthlyCredits \in [Plans -> Nat] /\ Gift \in Nat \ {0}
  /\ MaxLots \in Nat /\ MaxCalls \in Nat /\ MaxTime \in Nat /\ MaxCrashes \in Nat
  /\ IsFiniteSet(Callers) /\ IsFiniteSet(ChargeKeys)

VARIABLES
  provider,     \* the subscription at the provider
  event,        \* [Events -> BillingWebhookEvent.status; UNSENT and SENT have no row]
  sub,          \* the Subscription row
  lot,          \* [Lots -> the CreditGrant rows, in the order they were granted]
  logged,       \* lots whose GRANT or REVERSAL entry is in the ledger
  charged,      \* [ChargeKeys -> Nat], the CONSUMPTION entry of each key; 0: none
  call,         \* [Callers -> what the request is doing and what it has read]
  time, calls, crashes,
  subscribed,   \* history: <<plan, period>> the provider has had ACTIVE
  told,         \* history: [ChargeKeys -> what callers were told was consumed]
  lateSync      \* history: two handlers fetched before either wrote the row, and both wrote

billed == <<provider, event, sub, subscribed, lateSync>>
credits == <<lot, logged, charged, told>>
counters == <<time, calls, crashes>>
billingVars == <<billed, credits, call, counters>>

Lots == 1 .. MaxLots
Never == MaxTime + 1
NoKey == <<>>
NoLot == [source |-> "NONE", amount |-> 0, remaining |-> 0, expiresAt |-> 0,
          grantKey |-> NoKey]
Rows == [source : {"NONE", "MONTHLY_ALLOWANCE", "MANUAL", "REVERSAL"}, amount : Nat,
         remaining : Int, expiresAt : 0 .. Never, grantKey : (Plans \X Nat) \cup {NoKey}]

EventStatus == {"UNSENT", "SENT", "RECEIVED", "PROCESSED", "IGNORED", "FAILED"}
(* ACTIVE stands for TRIALING too, CANCELED for every other status. *)
SubscriptionStatus == {"NONE", "ACTIVE", "CANCELED"}
Subscriptions == [status : SubscriptionStatus, plan : Plans, period : Nat]
NoSubscription == [status |-> "NONE", plan |-> CHOOSE p \in Plans : TRUE, period |-> 0]

Handling == {"record", "fetch", "upsert", "allowance", "grant", "invoice", "close",
             "ignore", "failing"}
CallStages == {"idle", "load", "charge", "reissue", "log"} \cup Handling
(* A request is about the key it charges or the event it handles. *)
NoCall == [stage |-> "idle", about |-> Nothing, webhook |-> FALSE, now |-> 0,
           seen |-> [l \in Lots |-> NoLot], remote |-> NoSubscription,
           behind |-> FALSE, lot |-> 0]
Calls == [stage : CallStages, about : ChargeKeys \cup Events \cup {Nothing}, webhook : BOOLEAN,
          now : Nat, seen : [Lots -> Rows], remote : Subscriptions, behind : BOOLEAN,
          lot : Lots \cup {0}]

At(c, stage) == call[c].stage = stage
Goto(c, stage) == call' = [call EXCEPT ![c].stage = stage]
End(c) == call' = [call EXCEPT ![c] = NoCall]

Granted == {l \in Lots : lot[l].source # "NONE"}
NextLot == Cardinality(Granted) + 1

(* An operator named X_Y is X with the bug Y; the mutants of the run use it. *)

-----------------------------------------------------------------------------
(* Credits: planDeduction() *)

Spendable(rows, now) == {l \in Lots : rows[l].remaining > 0 /\ rows[l].expiresAt > now}

(* Soonest to expire first, then the oldest. *)
Before(rows, l, m) ==
  \/ rows[l].expiresAt < rows[m].expiresAt
  \/ rows[l].expiresAt = rows[m].expiresAt /\ l < m

(* What is left to take when the loop comes to lot l. *)
Outstanding(rows, now, amount, l) ==
  amount - SumFunctionOnSet([m \in Lots |-> rows[m].remaining],
                            {m \in Spendable(rows, now) : Before(rows, m, l)})

Take(rows, now, amount, l) ==
  IF l \in Spendable(rows, now) /\ Outstanding(rows, now, amount, l) > 0
  THEN Min({rows[l].remaining, Outstanding(rows, now, amount, l)}) ELSE 0

Planned(c, l) == Take(call[c].seen, call[c].now, Amount[call[c].about], l)
Spent(c) == SumFunction([l \in Lots |-> Planned(c, l)])

-----------------------------------------------------------------------------
(* consumeCredits, reverseCredits, grantCredits *)

Open(c, stage, k) ==
  /\ At(c, "idle") /\ calls < MaxCalls
  /\ calls' = calls + 1
  /\ call' = [call EXCEPT ![c] = [NoCall EXCEPT !.stage = stage, !.about = k, !.now = time]]
  /\ UNCHANGED <<billed, time, crashes>>

(* A key that has an entry is answered from it and charged nothing. *)
Replay(c, k) ==
  /\ At(c, "idle") /\ calls < MaxCalls /\ charged[k] > 0
  /\ calls' = calls + 1
  /\ told' = [told EXCEPT ![k] = @ \cup {charged[k]}]
  /\ UNCHANGED <<billed, lot, logged, charged, call, time, crashes>>

Consume(c, k) == charged[k] = 0 /\ Open(c, "load", k) /\ UNCHANGED credits

Load(c) ==
  /\ At(c, "load")
  /\ call' = [call EXCEPT ![c].stage = "charge", ![c].seen = lot]
  /\ UNCHANGED <<billed, credits, counters>>

Deducted(c) == [l \in Lots |-> [lot[l] EXCEPT !.remaining = @ - Planned(c, l)]]

Entry_Asked(c) == Amount[call[c].about]
Entry(c) == Spent(c)

(* The key of an entry is unique: a second one rolls the transaction back. *)
Duplicate_Unchecked(c) == FALSE
Duplicate(c) == Spent(c) > 0 /\ charged[call[c].about] > 0

(* One transaction: the decrements of the plan and the entry. *)
Charge(c) ==
  LET k == call[c].about
  IN  /\ At(c, "charge") /\ End(c)
      /\ IF Duplicate(c)
         THEN UNCHANGED credits
         ELSE /\ lot' = Deducted(c)
              /\ charged' = [charged EXCEPT ![k] = @ + Entry(c)]
              /\ told' = [told EXCEPT ![k] = @ \cup {Spent(c)}]
              /\ UNCHANGED logged
      /\ UNCHANGED <<billed, counters>>

Reverse(c, k) == charged[k] > 0 /\ Open(c, "reissue", k) /\ UNCHANGED credits

NewLot(source, amount, expiresAt, grantKey) ==
  /\ NextLot \in Lots
  /\ lot' = [lot EXCEPT ![NextLot] =
               [source |-> source, amount |-> amount, remaining |-> amount,
                expiresAt |-> expiresAt, grantKey |-> grantKey]]

(* The entry of a charge names no lot, so a reversal restores none: it       *)
(* always reissues, as a lot that never expires.                             *)
Reissue(c) ==
  /\ At(c, "reissue") /\ End(c)
  /\ NewLot("REVERSAL", charged[call[c].about], Never, NoKey)
  /\ logged' = logged \cup {NextLot}
  /\ UNCHANGED <<billed, charged, told, counters>>

GrantCredits(c) ==
  /\ At(c, "idle") /\ calls < MaxCalls
  /\ calls' = calls + 1
  /\ \E expiresAt \in {Never, time + 1} : NewLot("MANUAL", Gift, expiresAt, NoKey)
  /\ call' = [call EXCEPT ![c].stage = "log", ![c].lot = NextLot]
  /\ UNCHANGED <<billed, logged, charged, told, time, crashes>>

(* The GRANT entry, written after the lot and not in one transaction with it.*)
Log(c) ==
  /\ At(c, "log")
  /\ logged' = logged \cup {call[c].lot}
  /\ IF call[c].webhook THEN Goto(c, "close") ELSE End(c)
  /\ UNCHANGED <<billed, lot, charged, told, counters>>

-----------------------------------------------------------------------------
(* The provider *)

(* The subscription changes and an event says so. *)
ProviderMoves(e) ==
  /\ KindOf[e] = "subscription" /\ event[e] = "UNSENT"
  /\ \E p \in Plans, status \in {"ACTIVE", "CANCELED"} :
       /\ status = "CANCELED" => provider.status = "ACTIVE" /\ p = provider.plan
       /\ provider' = [status |-> status, plan |-> p,
                       period |-> IF status = "ACTIVE" THEN time ELSE provider.period]
  /\ provider' # provider
  /\ event' = [event EXCEPT ![e] = "SENT"]
  /\ subscribed' = IF provider'.status = "ACTIVE"
                   THEN subscribed \cup {<<provider'.plan, provider'.period>>} ELSE subscribed
  /\ UNCHANGED <<sub, lateSync, credits, call, counters>>

ProviderSends(e) ==
  /\ KindOf[e] # "subscription" /\ event[e] = "UNSENT" /\ provider.status # "NONE"
  /\ event' = [event EXCEPT ![e] = "SENT"]
  /\ UNCHANGED <<provider, sub, subscribed, lateSync, credits, call, counters>>

TimePasses ==
  /\ time < MaxTime
  /\ time' = time + 1
  /\ UNCHANGED <<billed, credits, call, calls, crashes>>

-----------------------------------------------------------------------------
(* handleWebhook *)

SetEvent(c, status) == event' = [event EXCEPT ![call[c].about] = status]

(* Any event may be delivered at any time, again and again; one that has a   *)
(* row which is not FAILED is answered and changes nothing.  Events of the   *)
(* other mode, which are stored and never applied, are not among Events.     *)
Deliver(c, e) ==
  /\ At(c, "idle") /\ calls < MaxCalls
  /\ event[e] \in {"SENT", "FAILED"}
  /\ calls' = calls + 1
  /\ call' = [call EXCEPT ![c] = [NoCall EXCEPT !.stage = "record", !.about = e,
                                                !.webhook = TRUE]]
  /\ UNCHANGED <<billed, credits, time, crashes>>

Record(c) ==
  /\ At(c, "record")
  /\ SetEvent(c, "RECEIVED")
  /\ Goto(c, IF KindOf[call[c].about] = "subscription" THEN "fetch" ELSE "invoice")
  /\ UNCHANGED <<provider, sub, subscribed, lateSync, credits, counters>>

(* The subscription is read back: the event may be out of order. *)
Fetch(c) ==
  /\ At(c, "fetch")
  /\ call' = [call EXCEPT ![c].stage = "upsert", ![c].remote = provider]
  /\ UNCHANGED <<billed, credits, counters>>

Entitled(status) == status = "ACTIVE"

Written_CreateOnly(c) ==
  IF sub.status # "NONE" THEN sub
  ELSE [status |-> call[c].remote.status, plan |-> call[c].remote.plan,
        period |-> call[c].remote.period, failed |-> FALSE]

(* The row as it was fetched; what is known of failed payments stays. *)
Written(c) == [status |-> call[c].remote.status, plan |-> call[c].remote.plan,
               period |-> call[c].remote.period, failed |-> sub.failed]

Upsert(c) ==
  /\ At(c, "upsert")
  /\ sub' = Written(c)
  /\ lateSync' = (lateSync \/ call[c].behind)
  /\ call' = [b \in Callers |->
                IF b = c
                THEN [call[c] EXCEPT !.stage = IF Entitled(call[c].remote.status)
                                               THEN "allowance" ELSE "close"]
                ELSE IF At(b, "upsert") THEN [call[b] EXCEPT !.behind = TRUE] ELSE call[b]]
  /\ UNCHANGED <<provider, event, subscribed, credits, counters>>

GrantKey_Now(c) == <<call[c].remote.plan, time>>
GrantKey(c) == <<call[c].remote.plan, call[c].remote.period>>
GrantedUnder(key) == \E l \in Granted : lot[l].grantKey = key

(* A plan without credits, or a period already granted. *)
AllowanceFind(c) ==
  /\ At(c, "allowance")
  /\ Goto(c, IF MonthlyCredits[call[c].remote.plan] = 0 \/ GrantedUnder(GrantKey(c))
             THEN "close" ELSE "grant")
  /\ UNCHANGED <<billed, credits, counters>>

(* grantKey is unique: the slower of two handlers throws. *)
AllowanceCreate(c) ==
  /\ At(c, "grant")
  /\ IF GrantedUnder(GrantKey(c))
     THEN Goto(c, "failing") /\ UNCHANGED lot
     ELSE /\ NewLot("MONTHLY_ALLOWANCE", MonthlyCredits[call[c].remote.plan],
                    call[c].remote.period + 1, GrantKey(c))
          /\ call' = [call EXCEPT ![c].stage = "log", ![c].lot = NextLot]
  /\ UNCHANGED <<billed, logged, charged, told, counters>>

(* markPaymentFailed, clearPaymentFailure: of a subscription without a row,  *)
(* nothing is remembered.                                                    *)
Invoice(c) ==
  /\ At(c, "invoice")
  /\ IF sub.status = "NONE"
     THEN Goto(c, "ignore") /\ UNCHANGED sub
     ELSE /\ Goto(c, "close")
          /\ sub' = [sub EXCEPT !.failed = KindOf[call[c].about] = "failed"]
  /\ UNCHANGED <<provider, event, subscribed, lateSync, credits, counters>>

Outcome == [close |-> "PROCESSED", ignore |-> "IGNORED", failing |-> "FAILED"]

Close(c) ==
  /\ call[c].stage \in DOMAIN Outcome /\ End(c)
  /\ SetEvent(c, Outcome[call[c].stage])
  /\ UNCHANGED <<provider, sub, subscribed, lateSync, credits, counters>>

-----------------------------------------------------------------------------
(* Failures *)

Failure == crashes < MaxCrashes /\ crashes' = crashes + 1

(* What throws while an event is applied is caught and recorded. *)
Throw(c) ==
  /\ Failure /\ call[c].webhook
  /\ call[c].stage \in {"fetch", "upsert", "allowance", "grant", "log", "invoice", "close",
                       "ignore"}
  /\ Goto(c, "failing")
  /\ UNCHANGED <<billed, credits, time, calls>>

RequestDies(c) ==
  /\ Failure /\ ~At(c, "idle") /\ End(c)
  /\ UNCHANGED <<billed, credits, time, calls>>

-----------------------------------------------------------------------------
BillingInit ==
  /\ provider = NoSubscription
  /\ event = [e \in Events |-> "UNSENT"]
  /\ sub = [status |-> "NONE", plan |-> NoSubscription.plan, period |-> 0, failed |-> FALSE]
  /\ lot = [l \in Lots |-> NoLot] /\ logged = {}
  /\ charged = [k \in ChargeKeys |-> 0]
  /\ call = [c \in Callers |-> NoCall]
  /\ time = 0 /\ calls = 0 /\ crashes = 0
  /\ subscribed = {} /\ told = [k \in ChargeKeys |-> {}]
  /\ lateSync = FALSE

CreditStep(c) ==
  \/ \E k \in ChargeKeys : Replay(c, k) \/ Consume(c, k) \/ Reverse(c, k)
  \/ Load(c) \/ Charge(c) \/ Reissue(c) \/ GrantCredits(c) \/ Log(c)

WebhookStep(c) ==
  \/ \E e \in Events : Deliver(c, e)
  \/ Record(c) \/ Fetch(c) \/ Upsert(c) \/ AllowanceFind(c) \/ AllowanceCreate(c)
  \/ Invoice(c) \/ Close(c)

BillingNext ==
  \/ \E c \in Callers : CreditStep(c) \/ WebhookStep(c) \/ Throw(c) \/ RequestDies(c)
  \/ \E e \in Events : ProviderMoves(e) \/ ProviderSends(e)
  \/ TimePasses

BillingSpec == BillingInit /\ [][BillingNext]_billingVars

-----------------------------------------------------------------------------
(* Properties *)

(* Every variable keeps the shape of the rows and messages it stands for. *)
BillingTypeOK ==
  /\ provider \in Subscriptions
  /\ event \in [Events -> EventStatus]
  /\ sub \in [status : SubscriptionStatus, plan : Plans, period : Nat, failed : BOOLEAN]
  /\ lot \in [Lots -> Rows] /\ logged \subseteq Lots
  /\ charged \in [ChargeKeys -> Nat]
  /\ call \in [Callers -> Calls]
  /\ time \in Nat /\ calls \in Nat /\ crashes \in Nat
  /\ subscribed \subseteq Plans \X Nat
  /\ told \in [ChargeKeys -> SUBSET Nat]
  /\ lateSync \in BOOLEAN

(* "A cached balance that drifts from its ledger is a billing dispute": every*)
(* credit taken from a lot is in the entry of a charge and the reverse, and  *)
(* a lot without its own entry is being logged or was left by a failure.     *)
LedgerMatchesLots ==
  /\ SumFunction([l \in Lots |-> lot[l].amount - lot[l].remaining]) = SumFunction(charged)
  /\ Cardinality((Granted \ logged) \ {call[c].lot : c \in Callers}) <= crashes

(* "A retried job never charges twice": whatever calls with one key overlap, *)
(* fail or come again, those answered were told of one charge or of none.    *)
ChargedOnce == \A k \in ChargeKeys : told[k] \subseteq {0, charged[k]}

(* "A replay must not grant a second month of credits": one allowance per    *)
(* plan and period, however often, late or together its events are handled,  *)
(* and only for what the provider really had active.                         *)
AllowanceIsDue ==
  LET allowances == {l \in Lots : lot[l].source = "MONTHLY_ALLOWANCE"}
  IN  /\ \A l \in allowances : lot[l].grantKey \in subscribed
      /\ \A l, m \in allowances : lot[l].grantKey = lot[m].grantKey => l = m

(* "The event may be out of order, and the provider is the authority": once  *)
(* every event of the subscription has been processed, in whatever order,    *)
(* the row is what the provider has, unless two handlers crossed.            *)
SubscriptionIsCurrent ==
  (/\ \A e \in Events : KindOf[e] = "subscription" => event[e] \in {"UNSENT", "PROCESSED"}
   /\ ~lateSync)
  => \A field \in {"status", "plan", "period"} : sub[field] = provider[field]

=============================================================================
