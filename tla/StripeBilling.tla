----------------------------- MODULE StripeBilling -----------------------------
(***************************************************************************)
(* Billing of one organisation: POST /v1/billing/webhook mirrors Stripe's   *)
(* subscriptions into the Subscription row and refills CreditBalance.       *)
(*                                                                         *)
(* Stripe sends every event until an answer of 200 reaches it, in any       *)
(* order, to any API process.  The handler is an `async def` that calls the *)
(* database synchronously, so a process handles one event at a time, and    *)
(* two processes interleave at every statement.                             *)
(***************************************************************************)
EXTENDS Integers, FiniteSets

CONSTANTS
    Plans,           \* plans with a EUR price
    Included,        \* included_credits of a plan
    Subs,            \* subscriptions the organisation may open at Stripe
    Servers,         \* API processes
    SignupCredits,   \* DEFAULT_SIGNUP_CREDITS
    Pack,            \* credits of one purchase
    MaxEvents,       \* bound: events of Stripe
    MaxFaults        \* bound: late answers and crashes of an API process

None     == "none"
Unmapped == "usd"      \* a price that only stripe_price_id_usd names

ASSUME BillingAssumption ==
    /\ None \notin Subs /\ Plans \cap {None, Unmapped} = {}
    /\ Included \in [Plans -> Nat]
    /\ SignupCredits \in Nat /\ Pack \in Nat
    /\ MaxEvents \in Nat /\ MaxFaults \in Nat

VARIABLES
    stripe,    \* the state of each subscription at Stripe
    events,    \* what Stripe has to tell
    acked,     \* events that Stripe got {"received": True} for
    refused,   \* events that Stripe got {"received": False} for, a 200 as well
    subrow,    \* the Subscription row
    balance,   \* the CreditBalance row
    h,         \* what an API process does
    refills,   \* history: refills that a subscription event caused
    bought,    \* history: purchases added to the balance
    owed,      \* history: paid invoices skipped and not refilled since
    cut,       \* history: whether a process died between a row and its refill
    overlap,   \* history: whether two processes ever handled events at once
    dups,      \* answers that Stripe did not see in time
    crashes    \* crashes of an API process

vars == <<stripe, events, acked, refused, subrow, balance, h, refills, bought,
          owed, cut, overlap, dups, crashes>>

db     == <<subrow, balance>>
audit  == <<refills, bought, owed, cut>>
limits == <<dups, crashes>>

-----------------------------------------------------------------------------
(* Values. *)

Statuses == {"active", "past_due"}

\* What the router's branches tell apart.
SubscriptionTypes == {"created", "updated"}
EventTypes == SubscriptionTypes \cup {"deleted", "invoice", "credits"}

NoRow == [plan |-> None, sub |-> None, status |-> None]
SubRow == {NoRow} \cup [plan : Plans, sub : Subs, status : Statuses]

Event == [type : EventTypes, sub : Subs \cup {None},
          plan : Plans \cup {Unmapped, None}, status : Statuses \cup {None}, n : 1..MaxEvents]

NoEvent == [type |-> None, sub |-> None, plan |-> None, status |-> None, n |-> 0]
Idle == [pc |-> "idle", ev |-> NoEvent, row |-> NoRow, plan |-> None, left |-> 0, incl |-> 0]

Busy(s) == h[s].pc # "idle"

\* No handler runs.
Quiet == \A s \in Servers : ~Busy(s)

\* What Stripe counts as delivered, and repeats no more.
Delivered == acked \cup refused

\* A subscription event is between the row's commit and the refill it brings.
Refilling(s) == h[s].pc \in {"load", "allot"} /\ h[s].ev.type \in SubscriptionTypes

\* Events that the handler can process: its price maps to a local plan.
Known(e) == e.type \in SubscriptionTypes => e.plan \in Plans

TypeOK ==
    /\ stripe \in [Subs -> [live : BOOLEAN, plan : Plans \cup {Unmapped, None}]]
    /\ events \subseteq Event
    /\ acked \subseteq events /\ refused \subseteq events
    /\ subrow \in SubRow
    /\ balance \in [left : Nat, incl : Nat]
    /\ h \in [Servers -> [pc : {"idle", "commit", "load", "allot", "answer", "refuse"},
                          ev : Event \cup {NoEvent}, row : SubRow,
                          plan : Plans \cup {None}, left : Nat, incl : Nat]]
    /\ refills \in Nat /\ bought \in Nat
    /\ owed \subseteq events
    /\ cut \in BOOLEAN /\ overlap \in BOOLEAN
    /\ dups \in Nat /\ crashes \in Nat /\ dups + crashes <= MaxFaults

Init ==
    /\ stripe = [s \in Subs |-> [live |-> FALSE, plan |-> None]]
    /\ events = {} /\ acked = {} /\ refused = {}
    /\ subrow = NoRow
    /\ balance = [left |-> SignupCredits, incl |-> SignupCredits]
    /\ h = [s \in Servers |-> Idle]
    /\ refills = 0 /\ bought = 0 /\ owed = {}
    /\ cut = FALSE /\ overlap = FALSE /\ dups = 0 /\ crashes = 0

-----------------------------------------------------------------------------
(* Stripe: the customer pays, changes and cancels; each deed is an event. *)

\* The i-th event of a deed.
Msg(type, sub, plan, status, i) ==
    [type |-> type, sub |-> sub, plan |-> plan, status |-> status, n |-> Cardinality(events) + i]

Tell(msgs) ==
    /\ \A m \in msgs : m.n <= MaxEvents
    /\ events' = events \cup msgs

StripeFrame == UNCHANGED <<acked, refused, db, h, audit, overlap, limits>>

\* create_checkout_session offers a checkout whatever the organisation has;
\* paying opens a subscription, in EUR or in USD, and its first invoice.
Subscribe(sub, plan) ==
    /\ stripe[sub].plan = None
    /\ stripe' = [stripe EXCEPT ![sub] = [live |-> TRUE, plan |-> plan]]
    /\ Tell({Msg("created", sub, plan, "active", 1), Msg("invoice", sub, None, None, 2)})
    /\ StripeFrame

\* A change of plan, a failed payment, or nothing this program looks at.
Modify(sub, plan, status) ==
    /\ stripe[sub].live
    /\ stripe' = [stripe EXCEPT ![sub].plan = plan]
    /\ Tell({Msg("updated", sub, plan, status, 1)})
    /\ StripeFrame

Renew(sub) ==
    /\ stripe[sub].live
    /\ Tell({Msg("invoice", sub, None, None, 1)})
    /\ UNCHANGED stripe /\ StripeFrame

Cancel(sub) ==
    /\ stripe[sub].live
    /\ stripe' = [stripe EXCEPT ![sub].live = FALSE]
    /\ Tell({Msg("deleted", sub, stripe[sub].plan, None, 1)})
    /\ StripeFrame

\* create_credit_checkout_session: a pack of credits is paid for.
Buy ==
    /\ Tell({Msg("credits", None, None, None, 1)})
    /\ UNCHANGED stripe /\ StripeFrame

-----------------------------------------------------------------------------
(* The handler, stripe_webhook. *)

\* Stripe repeats an event whose answer is late, so two processes may have it.
Send(s, e) ==
    /\ ~Busy(s) /\ e \in events \ Delivered
    /\ overlap' = (overlap \/ \E t \in Servers : Busy(t))
    /\ IF \E t \in Servers : h[t].ev = e
       THEN dups + crashes < MaxFaults /\ dups' = dups + 1
       ELSE UNCHANGED dups
    /\ UNCHANGED <<stripe, events, acked, refused, crashes>>

\* Where a process stands, and what it remembers of its reads.
At(s, e, pc, row, plan) ==
    h' = [h EXCEPT ![s] = [pc |-> pc, ev |-> e, row |-> row, plan |-> plan, left |-> 0, incl |-> 0]]

\* upsert_subscription_from_stripe_object reads the row; a price that no plan
\* names is NotFoundError, which changes nothing and leaves the event unanswered.
ReceiveSubscription(s, e) ==
    /\ Send(s, e)
    /\ e.type \in SubscriptionTypes /\ Known(e)
    /\ At(s, e, "commit", subrow, e.plan)
    /\ UNCHANGED <<db, audit>>

\* Mutants: every subscription event refills, only the first one does, only a
\* change does.
PlanChangedAlways(s) == h[s] # Idle
PlanChangedFirst(s) == h[s].row = NoRow
PlanChangedLater(s) == h[s].row # NoRow /\ h[s].row.plan # h[s].plan

PlanChanged(s) == h[s].row = NoRow \/ h[s].row.plan # h[s].plan

\* Its commit: an INSERT loses to another one (organization_id is unique, the
\* answer is 500); an UPDATE writes the columns that differ from what was read.
CommitSubscription(s) ==
    LET old == h[s].row
        new == [plan |-> h[s].plan, sub |-> h[s].ev.sub, status |-> h[s].ev.status]
    IN  /\ h[s].pc = "commit"
        /\ \/ /\ old = NoRow /\ subrow # NoRow
              /\ h' = [h EXCEPT ![s] = Idle]
              /\ UNCHANGED subrow
           \/ /\ old = NoRow => subrow = NoRow
              /\ subrow' = [c \in DOMAIN subrow |-> IF new[c] # old[c] THEN new[c] ELSE subrow[c]]
              /\ At(s, h[s].ev, IF PlanChanged(s) THEN "load" ELSE "answer", NoRow,
                    IF PlanChanged(s) THEN h[s].plan ELSE None)
        /\ UNCHANGED <<stripe, events, acked, refused, balance, audit, overlap, limits>>

\* Mutant: an invoice without its row raises, so that Stripe sends it again.
ReceiveInvoiceRaises(s, e) ==
    /\ Send(s, e)
    /\ e.type = "invoice" /\ subrow.sub = e.sub
    /\ At(s, e, "load", NoRow, subrow.plan)
    /\ UNCHANGED <<db, audit>>

\* refill_credits_for_invoice: without a row of that subscription it skips.
ReceiveInvoice(s, e) ==
    /\ Send(s, e)
    /\ e.type = "invoice"
    /\ IF subrow.sub = e.sub
       THEN At(s, e, "load", NoRow, subrow.plan) /\ UNCHANGED owed
       ELSE At(s, e, "answer", NoRow, None) /\ owed' = owed \cup {e}
    /\ UNCHANGED <<db, refills, bought, cut>>

\* set_plan_allotment reads the balance ...
LoadBalance(s) ==
    /\ h[s].pc = "load"
    /\ h' = [h EXCEPT ![s].pc = "allot", ![s].left = balance.left, ![s].incl = balance.incl]
    /\ UNCHANGED <<stripe, events, acked, refused, db, audit, overlap, limits>>

\* Mutant: the allotment is added to what is left.
SetAllotmentAdds(s) ==
    LET c == Included[h[s].plan]
    IN  /\ h[s].pc = "allot"
        /\ balance' = [left |-> balance.left + c, incl |-> c]
        /\ At(s, h[s].ev, "answer", NoRow, None)
        /\ refills' = IF h[s].ev.type = "invoice" THEN refills ELSE refills + 1
        /\ owed' = {} /\ cut' = FALSE
        /\ UNCHANGED <<stripe, events, acked, refused, subrow, bought, overlap, limits>>

\* ... and sets both columns; those it had read so already are not written.
SetAllotment(s) ==
    LET c == Included[h[s].plan]
    IN  /\ h[s].pc = "allot"
        /\ balance' = [left |-> IF h[s].left # c THEN c ELSE balance.left,
                       incl |-> IF h[s].incl # c THEN c ELSE balance.incl]
        /\ At(s, h[s].ev, "answer", NoRow, None)
        /\ refills' = IF h[s].ev.type = "invoice" THEN refills ELSE refills + 1
        /\ owed' = {} /\ cut' = FALSE
        /\ UNCHANGED <<stripe, events, acked, refused, subrow, bought, overlap, limits>>

\* Mutant: a purchase of an organisation without a subscription is skipped.
ReceivePurchaseSubscribed(s, e) ==
    /\ Send(s, e)
    /\ e.type = "credits"
    /\ IF subrow = NoRow
       THEN UNCHANGED <<balance, bought>>
       ELSE balance' = [balance EXCEPT !.left = @ + Pack] /\ bought' = bought + 1
    /\ At(s, e, "answer", NoRow, None)
    /\ UNCHANGED <<subrow, refills, owed, cut>>

\* apply_credit_purchase: one atomic UPDATE.
ReceivePurchase(s, e) ==
    /\ Send(s, e)
    /\ e.type = "credits"
    /\ balance' = [balance EXCEPT !.left = @ + Pack]
    /\ bought' = bought + 1
    /\ At(s, e, "answer", NoRow, None)
    /\ UNCHANGED <<subrow, refills, owed, cut>>

\* No branch of the handler is for customer.subscription.deleted.
ReceiveOther(s, e) ==
    /\ Send(s, e)
    /\ e.type = "deleted"
    /\ At(s, e, "answer", NoRow, None)
    /\ UNCHANGED <<db, audit>>

\* An event whose signature does not verify (another secret, a timestamp out of
\* tolerance) is logged and answered 200 all the same: nothing is done for it,
\* and Stripe does not send it again.  Without a secret the error is not a 200
\* and the event is repeated, which changes nothing.
Refuse(s, e) ==
    /\ Send(s, e)
    /\ At(s, e, "refuse", NoRow, None)
    /\ UNCHANGED <<db, audit>>

\* The 200 reaches Stripe, or comes too late for it.
Answer(s) ==
    /\ \/ h[s].pc = "answer" /\ acked' = acked \cup {h[s].ev} /\ UNCHANGED <<refused, dups>>
       \/ h[s].pc = "refuse" /\ refused' = refused \cup {h[s].ev} /\ UNCHANGED <<acked, dups>>
       \/ /\ h[s].pc \in {"answer", "refuse"}
          /\ dups + crashes < MaxFaults /\ dups' = dups + 1
          /\ UNCHANGED <<acked, refused>>
    /\ h' = [h EXCEPT ![s] = Idle]
    /\ UNCHANGED <<stripe, events, db, audit, overlap, crashes>>

-----------------------------------------------------------------------------
(* The rest of the program, and the process. *)

\* Mutant: the decrement is not conditional.
ChargeUnchecked ==
    /\ balance' = [balance EXCEPT !.left = @ - 1]
    /\ UNCHANGED <<stripe, events, acked, refused, subrow, h, audit, overlap, limits>>

\* UsageService.charge, for a lookup: an atomic conditional decrement.
Charge ==
    /\ balance.left >= 1
    /\ balance' = [balance EXCEPT !.left = @ - 1]
    /\ UNCHANGED <<stripe, events, acked, refused, subrow, h, audit, overlap, limits>>

\* A process dies, maybe with the row committed and its refill still to come.
Crash(s) ==
    /\ Busy(s) /\ dups + crashes < MaxFaults
    /\ crashes' = crashes + 1
    /\ cut' = (cut \/ Refilling(s))
    /\ h' = [h EXCEPT ![s] = Idle]
    /\ UNCHANGED <<stripe, events, acked, refused, db, refills, bought, owed, overlap, dups>>

Customer ==
    \/ \E sub \in Subs, plan \in Plans \cup {Unmapped} : Subscribe(sub, plan)
    \/ \E sub \in Subs, plan \in Plans, status \in Statuses : Modify(sub, plan, status)
    \/ \E sub \in Subs : Renew(sub) \/ Cancel(sub)
    \/ Buy

\* An event that verifies, by its type.
Handle(s, e) ==
    \/ ReceiveSubscription(s, e) \/ ReceiveInvoice(s, e)
    \/ ReceivePurchase(s, e) \/ ReceiveOther(s, e)

Receive(s, e) == Handle(s, e) \/ Refuse(s, e)

HandlerStep(s) == CommitSubscription(s) \/ LoadBalance(s) \/ SetAllotment(s) \/ Answer(s)

Next ==
    \/ Customer
    \/ \E s \in Servers : (\E e \in events : Receive(s, e)) \/ HandlerStep(s) \/ Crash(s)
    \/ Charge

Spec == Init /\ [][Next]_vars

\* A handler runs on, and Stripe repeats what is not answered; no event has to
\* fail its verification.
FairSpec ==
    /\ Spec
    /\ \A s \in Servers : WF_vars(HandlerStep(s))
    /\ \A n \in 1..MaxEvents :
          WF_vars(\E s \in Servers, e \in events : e.n = n /\ Handle(s, e))
-----------------------------------------------------------------------------
(* Properties. *)

OfType(S, T) == {e \in S : e.type \in T}

\* While a customer stays on one plan, subscription events refill the credits
\* at most once, however often Stripe repeats them and whichever process gets
\* them: a repeated event "must not re-refill and wipe out credits the org
\* already spent" (upsert_subscription_from_stripe_object).
OnePlanOneRefill ==
    Cardinality({e.plan : e \in OfType(events, SubscriptionTypes)} \ {Unmapped}) <= 1
        => refills <= 1

\* A refill resets the balance: what is left beyond the largest allotment the
\* organisation ever had was bought, however many invoices and events arrive
\* (set_plan_allotment is absolute, add_credits alone stacks).
NothingStacks ==
    \E c \in {SignupCredits} \cup {Included[e.plan] : e \in {x \in events : x.plan \in Plans}} :
        balance.left <= c + Pack * bought

\* Of the purchases that Stripe counts as delivered only those are lost whose
\* event did not verify (stripe_webhook answers them 200 too): every other one
\* was added, and one is added twice only when an answer was lost or a process
\* died (apply_credit_purchase keeps no record of the checkout session).
PurchasesCounted ==
    /\ Cardinality(OfType(acked, {"credits"})) <= bought
    /\ bought <= Cardinality(OfType(events, {"credits"})) + dups + crashes

\* Whenever no handler runs the allotment is the one of the mirrored plan,
\* whatever came, repeated or was refused and in which order, as long as no two
\* handled events at once and none died between the row's commit and its refill
\* with no refill since (upsert_subscription_from_stripe_object).
AllotmentFollowsPlan ==
    (Quiet /\ ~cut /\ ~overlap /\ subrow # NoRow) => balance.incl = Included[subrow.plan]

\* An invoice paid before the row of its subscription exists is skipped, and
\* "subscription.created's own refill covers that case instead"
\* (refill_credits_for_invoice): for an organisation that subscribes once this is
\* so as soon as one subscription event was answered that did verify, unless a
\* process died between the row and that refill and nothing refilled since.
FirstInvoiceCovered ==
    (/\ Quiet /\ ~cut /\ OfType(acked, SubscriptionTypes) # {}
     /\ Cardinality({s \in Subs : stripe[s].plan # None}) = 1)
        => owed = {}

\* In the end every event whose price and status are known is answered, by its
\* effect or by a refusal: an INSERT that lost to another process, a crash or a
\* lost answer only delays it.  (A status that SubscriptionStatus does not name
\* is an error at every delivery, as is an unknown price; no Status here is one.)
\* Events are at most MaxEvents and an answer is final, so "in the end" is a
\* state that stays.
EventsSettle ==
    <>[](\A e \in events : Known(e) => e \in Delivered)
=============================================================================
