-------------------------- MODULE StripeBilling_proofs --------------------------
(***************************************************************************)
(* Theorems about StripeBilling, for every number of plans, subscriptions   *)
(* and API processes, and every bound.                                     *)
(***************************************************************************)
EXTENDS StripeBilling, FiniteSetTheorems, TLAPS

-----------------------------------------------------------------------------
(* The inductive invariant: the types, and where the plans come from that a *)
(* process or the row holds.                                               *)

Handler ==
    [pc : {"idle", "commit", "load", "allot", "answer", "refuse"}, ev : Event \cup {NoEvent},
     row : SubRow, plan : Plans \cup {None}, left : Nat, incl : Nat]

\* Stripe told of plan p.
Told(p) == p \in Plans /\ \E e \in events : e.plan = p

EventsOK ==
    /\ IsFiniteSet(events)
    /\ \A e \in events :
          /\ e.type \in SubscriptionTypes => e.sub \in Subs /\ e.status \in Statuses
          /\ e.type = "invoice" => e.sub \in Subs

PlansTold ==
    /\ subrow # NoRow => Told(subrow.plan)
    /\ \A s \in Servers :
          /\ Busy(s) => h[s].ev \in events
          /\ h[s].pc \in {"commit", "load", "allot"} => Told(h[s].plan)
          /\ h[s].pc = "commit" => /\ h[s].ev.type \in SubscriptionTypes
                                   /\ h[s].row # NoRow => subrow # NoRow

BillingInv == TypeOK /\ EventsOK /\ PlansTold /\ NothingStacks

-----------------------------------------------------------------------------
(* Lemmas. *)

LEMMA RowTypes ==
    /\ NoRow \in SubRow
    /\ \A R \in SubRow : R # NoRow => R.plan \in Plans /\ R.sub \in Subs /\ R.status \in Statuses
    /\ \A p \in Plans, sub \in Subs, st \in Statuses :
          [plan |-> p, sub |-> sub, status |-> st] \in SubRow
  BY DEF SubRow, NoRow

\* What a process that gets an event or ends one holds.
LEMMA AtType ==
    ASSUME TypeOK, NEW s \in Servers, NEW e \in Event,
           NEW pc \in {"commit", "load", "answer", "refuse"}, NEW R \in SubRow,
           NEW p \in Plans \cup {None}, At(s, e, pc, R, p)
    PROVE  /\ h' \in [Servers -> Handler]
           /\ h'[s].pc = pc /\ h'[s].ev = e /\ h'[s].row = R /\ h'[s].plan = p
           /\ \A t \in Servers \ {s} : h'[t] = h[t]
<1>1. h \in [Servers -> Handler]
  BY DEF TypeOK, Handler
<1>2. [pc |-> pc, ev |-> e, row |-> R, plan |-> p, left |-> 0, incl |-> 0] \in Handler
  BY DEF Handler
<1> QED
  BY <1>1, <1>2 DEF At

\* A bound of NothingStacks that is as large as a plan's allotment ...
LEMMA StackWithin ==
    ASSUME NEW p, Told(p), balance.left <= Included[p] + Pack * bought
    PROVE  NothingStacks
  BY DEF Told, NothingStacks

\* ... and the one that holds already, when no event is forgotten.
LEMMA StackKept ==
    ASSUME NothingStacks, events \subseteq events', bought' = bought,
           balance.left \in Nat, balance'.left \in Nat, bought \in Nat,
           balance'.left <= balance.left
    PROVE  NothingStacks'
<1>1. PICK c \in {SignupCredits} \cup {Included[e.plan] : e \in {x \in events : x.plan \in Plans}} :
         balance.left <= c + Pack * bought
  BY DEF NothingStacks
<1>2. c \in Nat /\ Pack * bought \in Nat
  BY BillingAssumption
<1>3. balance'.left <= c + Pack * bought'
  BY <1>1, <1>2
<1>4. c \in {SignupCredits} \cup {Included[e.plan] : e \in {x \in events' : x.plan \in Plans}}
  BY <1>1
<1> QED
  BY <1>3, <1>4 DEF NothingStacks

\* ... or for one purchase more.
LEMMA StackBought ==
    ASSUME NothingStacks, events' = events, bought \in Nat, bought' = bought + 1,
           balance \in [left : Nat, incl : Nat], balance' = [balance EXCEPT !.left = @ + Pack]
    PROVE  NothingStacks'
<1>1. PICK c \in {SignupCredits} \cup {Included[e.plan] : e \in {x \in events : x.plan \in Plans}} :
         balance.left <= c + Pack * bought
  BY DEF NothingStacks
<1>2. c \in Nat /\ balance.left \in Nat /\ Pack \in Nat
  BY BillingAssumption
<1>3. Pack * bought' = Pack * bought + Pack /\ Pack * bought \in Nat
  BY <1>2
<1>4. balance'.left = balance.left + Pack
  OBVIOUS
<1>5. balance'.left <= c + Pack * bought'
  BY <1>1, <1>2, <1>3, <1>4
<1> QED
  BY <1>5 DEF NothingStacks

LEMMA InitInv == Init => BillingInv
<1> SUFFICES ASSUME Init PROVE BillingInv
  OBVIOUS
<1>1. Idle \in Handler
  BY RowTypes DEF Idle, Handler
<1>2. TypeOK
  <2>1. h \in [Servers -> Handler]
    BY <1>1 DEF Init
  <2>2. stripe \in [Subs -> [live : BOOLEAN, plan : Plans \cup {Unmapped, None}]]
    BY DEF Init
  <2>3. subrow \in SubRow /\ balance \in [left : Nat, incl : Nat]
    BY RowTypes, BillingAssumption DEF Init
  <2>4. /\ events \subseteq Event /\ acked \subseteq events /\ refused \subseteq events
        /\ owed \subseteq events /\ cut \in BOOLEAN /\ overlap \in BOOLEAN
    BY DEF Init
  <2>5. /\ refills \in Nat /\ bought \in Nat
        /\ dups \in Nat /\ crashes \in Nat /\ dups + crashes <= MaxFaults
    BY BillingAssumption DEF Init
  <2> QED
    BY <2>1, <2>2, <2>3, <2>4, <2>5 DEF TypeOK, Handler
<1>3. EventsOK
  BY FS_EmptySet DEF Init, EventsOK
<1>4. PlansTold
  BY DEF Init, PlansTold, Busy, Idle
<1>5. NothingStacks
  BY BillingAssumption DEF Init, NothingStacks
<1> QED
  BY <1>2, <1>3, <1>4, <1>5 DEF BillingInv

-----------------------------------------------------------------------------
(* What Stripe does only adds events. *)

LEMMA TellInv ==
    ASSUME BillingInv, StripeFrame, NEW msgs, Tell(msgs), IsFiniteSet(msgs),
           msgs \subseteq Event,
           \A m \in msgs : /\ m.type \in SubscriptionTypes => m.sub \in Subs /\ m.status \in Statuses
                           /\ m.type = "invoice" => m.sub \in Subs,
           stripe' \in [Subs -> [live : BOOLEAN, plan : Plans \cup {Unmapped, None}]]
    PROVE  BillingInv'
<1>1. events' = events \cup msgs
  BY DEF Tell
<1>2. TypeOK'
  BY <1>1 DEF BillingInv, TypeOK, StripeFrame, db, audit, limits
<1>3. EventsOK'
  BY <1>1, FS_Union DEF BillingInv, EventsOK
<1>4. PlansTold'
  BY <1>1 DEF BillingInv, PlansTold, Told, Busy, StripeFrame, db
<1>5. NothingStacks'
  BY <1>1, StackKept DEF BillingInv, TypeOK, StripeFrame, db, audit
<1> QED
  BY <1>2, <1>3, <1>4, <1>5 DEF BillingInv

\* A message of one event, in its bound.
LEMMA MsgType ==
    ASSUME BillingInv, NEW type \in EventTypes, NEW sub \in Subs \cup {None},
           NEW plan \in Plans \cup {Unmapped, None}, NEW status \in Statuses \cup {None},
           NEW i \in {1, 2}, Msg(type, sub, plan, status, i).n <= MaxEvents
    PROVE  /\ Msg(type, sub, plan, status, i) \in Event
           /\ Msg(type, sub, plan, status, i).type = type
           /\ Msg(type, sub, plan, status, i).sub = sub
           /\ Msg(type, sub, plan, status, i).status = status
<1>1. Cardinality(events) \in Nat
  BY FS_CardinalityType DEF BillingInv, EventsOK
<1>2. Cardinality(events) + i \in 1..MaxEvents
  BY <1>1, BillingAssumption DEF Msg
<1> QED
  BY <1>2 DEF Msg, Event

LEMMA CustomerInv == BillingInv /\ Customer => BillingInv'
<1> SUFFICES ASSUME BillingInv, Customer PROVE BillingInv'
  OBVIOUS
<1>0. stripe \in [Subs -> [live : BOOLEAN, plan : Plans \cup {Unmapped, None}]]
  BY DEF BillingInv, TypeOK
<1>1. CASE \E sub \in Subs, plan \in Plans \cup {Unmapped} : Subscribe(sub, plan)
  <2>1. PICK sub \in Subs, plan \in Plans \cup {Unmapped} : Subscribe(sub, plan)
    BY <1>1
  <2> DEFINE a == Msg("created", sub, plan, "active", 1)
             b == Msg("invoice", sub, None, None, 2)
  <2>2. Tell({a, b}) /\ StripeFrame
    BY <2>1 DEF Subscribe
  <2>3. a \in Event /\ a.type = "created" /\ a.sub = sub /\ a.status = "active"
    BY <2>2, MsgType DEF Tell, EventTypes, SubscriptionTypes, Statuses
  <2>4. b \in Event /\ b.type = "invoice" /\ b.sub = sub
    BY <2>2, MsgType DEF Tell, EventTypes
  <2>5. stripe' \in [Subs -> [live : BOOLEAN, plan : Plans \cup {Unmapped, None}]]
    BY <1>0, <2>1 DEF Subscribe
  <2>6. IsFiniteSet({a, b})
    <3> HIDE DEF a, b
    <3>0. IsFiniteSet({a})
      BY FS_Singleton
    <3>1. IsFiniteSet({a} \cup {b})
      BY <3>0, FS_AddElement
    <3> QED
      BY <3>1, {a, b} = {a} \cup {b}
  <2> HIDE DEF a, b
  <2> QED
    BY <2>2, <2>3, <2>4, <2>5, <2>6, TellInv DEF SubscriptionTypes, Statuses
<1>2. CASE \E sub \in Subs, plan \in Plans, status \in Statuses : Modify(sub, plan, status)
  <2>1. PICK sub \in Subs, plan \in Plans, status \in Statuses : Modify(sub, plan, status)
    BY <1>2
  <2> DEFINE a == Msg("updated", sub, plan, status, 1)
  <2>2. Tell({a}) /\ StripeFrame
    BY <2>1 DEF Modify
  <2>3. a \in Event /\ a.type = "updated" /\ a.sub = sub /\ a.status = status
    BY <2>2, MsgType DEF Tell, EventTypes, SubscriptionTypes
  <2>4. stripe' \in [Subs -> [live : BOOLEAN, plan : Plans \cup {Unmapped, None}]]
    BY <1>0, <2>1 DEF Modify
  <2> HIDE DEF a
  <2> QED
    BY <2>2, <2>3, <2>4, TellInv, FS_Singleton DEF SubscriptionTypes
<1>3. CASE \E sub \in Subs : Renew(sub)
  <2>1. PICK sub \in Subs : Renew(sub)
    BY <1>3
  <2> DEFINE a == Msg("invoice", sub, None, None, 1)
  <2>2. Tell({a}) /\ StripeFrame /\ stripe' = stripe
    BY <2>1 DEF Renew
  <2>3. a \in Event /\ a.type = "invoice" /\ a.sub = sub
    BY <2>2, MsgType DEF Tell, EventTypes
  <2> HIDE DEF a
  <2> QED
    BY <1>0, <2>2, <2>3, TellInv, FS_Singleton DEF SubscriptionTypes
<1>4. CASE \E sub \in Subs : Cancel(sub)
  <2>1. PICK sub \in Subs : Cancel(sub)
    BY <1>4
  <2> DEFINE a == Msg("deleted", sub, stripe[sub].plan, None, 1)
  <2>2. Tell({a}) /\ StripeFrame
    BY <2>1 DEF Cancel
  <2>3. stripe[sub].plan \in Plans \cup {Unmapped, None}
    BY <1>0
  <2>4. a \in Event /\ a.type = "deleted"
    <3>1. a.n <= MaxEvents
      BY <2>2 DEF Tell
    <3>2. "deleted" \in EventTypes /\ None \in Statuses \cup {None}
      BY DEF EventTypes
    <3> QED
      BY <2>3, <3>1, <3>2, MsgType
  <2>5. stripe' \in [Subs -> [live : BOOLEAN, plan : Plans \cup {Unmapped, None}]]
    BY <1>0, <2>1 DEF Cancel
  <2> HIDE DEF a
  <2> QED
    BY <2>2, <2>4, <2>5, TellInv, FS_Singleton DEF SubscriptionTypes
<1>5. CASE Buy
  <2> DEFINE a == Msg("credits", None, None, None, 1)
  <2>1. Tell({a}) /\ StripeFrame /\ stripe' = stripe
    BY <1>5 DEF Buy
  <2>2. a \in Event /\ a.type = "credits"
    BY <2>1, MsgType DEF Tell, EventTypes
  <2> HIDE DEF a
  <2> QED
    BY <1>0, <2>1, <2>2, TellInv, FS_Singleton DEF SubscriptionTypes
<1> QED
  BY <1>1, <1>2, <1>3, <1>4, <1>5 DEF Customer

-----------------------------------------------------------------------------
(* The handler. *)

\* The invariant after a step that leaves Stripe alone, from its parts.
LEMMA FromParts ==
    ASSUME BillingInv, UNCHANGED <<stripe, events>>,
           acked' \subseteq events, refused' \subseteq events, owed' \subseteq events,
           subrow' \in SubRow, balance' \in [left : Nat, incl : Nat],
           h' \in [Servers -> Handler], refills' \in Nat, bought' \in Nat,
           cut' \in BOOLEAN, overlap' \in BOOLEAN, dups' \in Nat, crashes' \in Nat, dups' + crashes' <= MaxFaults,
           PlansTold', NothingStacks'
    PROVE  BillingInv'
<1>1. TypeOK'
  BY DEF BillingInv, TypeOK, Handler
<1>2. EventsOK'
  BY DEF BillingInv, EventsOK
<1> QED
  BY <1>1, <1>2 DEF BillingInv

\* What Send leaves as it was.
LEMMA SendKeeps ==
    ASSUME BillingInv, NEW s \in Servers, NEW e \in events, Send(s, e)
    PROVE  /\ UNCHANGED <<stripe, events, acked, refused>> /\ e \in Event
           /\ overlap' \in BOOLEAN /\ dups' \in Nat /\ crashes' \in Nat
           /\ dups' + crashes' <= MaxFaults
<1>1. /\ events \subseteq Event /\ overlap \in BOOLEAN /\ dups \in Nat /\ crashes \in Nat
      /\ dups + crashes <= MaxFaults
  BY DEF BillingInv, TypeOK
<1>2. UNCHANGED <<stripe, events, acked, refused, crashes>>
  BY DEF Send
<1>3. overlap' \in BOOLEAN
  BY DEF Send
<1>4. dups' = dups \/ (dups + crashes < MaxFaults /\ dups' = dups + 1)
  BY DEF Send
<1>5. dups' \in Nat /\ dups' + crashes <= MaxFaults
  BY <1>1, <1>4, BillingAssumption
<1> QED
  BY <1>1, <1>2, <1>3, <1>5

\* PlansTold after one process moved to where it holds what it may.
LEMMA ToldAfter ==
    ASSUME BillingInv, NEW s \in Servers, events' = events,
           subrow' = subrow \/ Told(subrow'.plan),
           \A t \in Servers \ {s} : h'[t] = h[t],
           h'[s].pc # "idle" => h'[s].ev \in events,
           h'[s].pc \in {"commit", "load", "allot"} => Told(h'[s].plan),
           h'[s].pc = "commit" => /\ h'[s].ev.type \in SubscriptionTypes
                                  /\ h'[s].row # NoRow => subrow' # NoRow
    PROVE  PlansTold'
<1>1. subrow' = subrow \/ subrow' # NoRow
  BY BillingAssumption DEF Told, NoRow
<1> QED
  BY <1>1 DEF BillingInv, PlansTold, Told, Busy

\* NothingStacks after a step that leaves the balance alone.
LEMMA StackSame ==
    ASSUME BillingInv, UNCHANGED <<events, balance, bought>>
    PROVE  NothingStacks'
  BY DEF BillingInv, NothingStacks

LEMMA HandleInv ==
    ASSUME BillingInv, NEW s \in Servers, NEW e \in events, Handle(s, e)
    PROVE  BillingInv'
<1>0. /\ subrow \in SubRow /\ balance \in [left : Nat, incl : Nat] /\ acked \subseteq events
      /\ refused \subseteq events /\ cut \in BOOLEAN /\ owed \subseteq events /\ refills \in Nat
      /\ bought \in Nat /\ TypeOK
  BY DEF BillingInv, TypeOK
<1>1. Send(s, e)
  BY DEF Handle, ReceiveSubscription, ReceiveInvoice, ReceivePurchase, ReceiveOther
<1>2. /\ UNCHANGED <<stripe, events, acked, refused>> /\ e \in Event
      /\ overlap' \in BOOLEAN /\ dups' \in Nat /\ crashes' \in Nat
      /\ dups' + crashes' <= MaxFaults
  BY <1>1, SendKeeps
<1>3. None \in Plans \cup {None} /\ NoRow \in SubRow
  BY RowTypes
<1>4. CASE ReceiveSubscription(s, e)
  <2>1. /\ e.type \in SubscriptionTypes /\ e.plan \in Plans /\ Told(e.plan)
        /\ At(s, e, "commit", subrow, e.plan) /\ UNCHANGED <<db, audit>>
    BY <1>4 DEF ReceiveSubscription, Known, Told
  <2>2. /\ h' \in [Servers -> Handler]
        /\ h'[s].pc = "commit" /\ h'[s].ev = e /\ h'[s].row = subrow /\ h'[s].plan = e.plan
        /\ \A t \in Servers \ {s} : h'[t] = h[t]
    BY <1>0, <1>2, <2>1, AtType
  <2>3. PlansTold'
    BY <1>2, <2>1, <2>2, ToldAfter DEF db
  <2>4. NothingStacks'
    BY <1>2, <2>1, StackSame DEF db, audit
  <2> QED
    BY <1>0, <1>2, <2>1, <2>2, <2>3, <2>4, FromParts DEF db, audit
<1>5. CASE ReceiveInvoice(s, e)
  <2>1. e.type = "invoice" /\ e.sub \in Subs /\ UNCHANGED <<db, refills, bought, cut>>
    BY <1>5 DEF ReceiveInvoice, BillingInv, EventsOK
  <2>2. NothingStacks'
    BY <1>2, <2>1, StackSame DEF db
  <2>3. CASE subrow.sub = e.sub
    <3>1. subrow # NoRow
      BY <2>1, <2>3, BillingAssumption DEF NoRow
    <3>2. Told(subrow.plan) /\ subrow.plan \in Plans
      BY <3>1 DEF BillingInv, PlansTold, Told
    <3>3. At(s, e, "load", NoRow, subrow.plan) /\ owed' = owed
      BY <1>5, <2>3 DEF ReceiveInvoice
    <3>4. /\ h' \in [Servers -> Handler]
          /\ h'[s].pc = "load" /\ h'[s].ev = e /\ h'[s].plan = subrow.plan
          /\ \A t \in Servers \ {s} : h'[t] = h[t]
      BY <1>0, <1>2, <1>3, <3>2, <3>3, AtType
    <3>5. PlansTold'
      BY <1>2, <2>1, <3>2, <3>4, ToldAfter DEF db
    <3> QED
      BY <1>0, <1>2, <2>1, <2>2, <3>3, <3>4, <3>5, FromParts DEF db
  <2>4. CASE subrow.sub # e.sub
    <3>1. At(s, e, "answer", NoRow, None) /\ owed' = owed \cup {e}
      BY <1>5, <2>4 DEF ReceiveInvoice
    <3>2. /\ h' \in [Servers -> Handler]
          /\ h'[s].pc = "answer" /\ h'[s].ev = e
          /\ \A t \in Servers \ {s} : h'[t] = h[t]
      BY <1>0, <1>2, <1>3, <3>1, AtType
    <3>3. PlansTold'
      BY <1>2, <2>1, <3>2, ToldAfter DEF db
    <3> QED
      BY <1>0, <1>2, <2>1, <2>2, <3>1, <3>2, <3>3, FromParts DEF db
  <2> QED
    BY <2>3, <2>4
<1>6. CASE ReceivePurchase(s, e) \/ ReceiveOther(s, e)
  <2>1. At(s, e, "answer", NoRow, None) /\ UNCHANGED <<subrow, refills, owed, cut>>
    BY <1>6 DEF ReceivePurchase, ReceiveOther, db, audit
  <2>2. /\ h' \in [Servers -> Handler]
        /\ h'[s].pc = "answer" /\ h'[s].ev = e
        /\ \A t \in Servers \ {s} : h'[t] = h[t]
    BY <1>0, <1>2, <1>3, <2>1, AtType
  <2>3. PlansTold'
    BY <1>2, <2>1, <2>2, ToldAfter
  <2>4. CASE ReceivePurchase(s, e)
    <3>1. balance' = [balance EXCEPT !.left = @ + Pack] /\ bought' = bought + 1
      BY <2>4 DEF ReceivePurchase
    <3>2. balance' \in [left : Nat, incl : Nat] /\ bought' \in Nat
      BY <1>0, <3>1, BillingAssumption
    <3>3. NothingStacks'
      BY <1>0, <1>2, <3>1, StackBought DEF BillingInv
    <3> QED
      BY <1>0, <1>2, <2>1, <2>2, <2>3, <3>2, <3>3, FromParts
  <2>5. CASE ReceiveOther(s, e)
    <3>1. UNCHANGED <<balance, bought>>
      BY <2>5 DEF ReceiveOther, db, audit
    <3>2. NothingStacks'
      BY <1>2, <3>1, StackSame
    <3> QED
      BY <1>0, <1>2, <2>1, <2>2, <2>3, <3>1, <3>2, FromParts
  <2> QED
    BY <1>6, <2>4, <2>5
<1> QED
  BY <1>4, <1>5, <1>6 DEF Handle

LEMMA RefuseInv ==
    ASSUME BillingInv, NEW s \in Servers, NEW e \in events, Refuse(s, e)
    PROVE  BillingInv'
<1>0. /\ subrow \in SubRow /\ balance \in [left : Nat, incl : Nat] /\ acked \subseteq events
      /\ refused \subseteq events /\ cut \in BOOLEAN /\ owed \subseteq events /\ refills \in Nat
      /\ bought \in Nat /\ TypeOK
  BY DEF BillingInv, TypeOK
<1>1. Send(s, e) /\ At(s, e, "refuse", NoRow, None) /\ UNCHANGED <<db, audit>>
  BY DEF Refuse
<1>2. /\ UNCHANGED <<stripe, events, acked, refused>> /\ e \in Event
      /\ overlap' \in BOOLEAN /\ dups' \in Nat /\ crashes' \in Nat
      /\ dups' + crashes' <= MaxFaults
  BY <1>1, SendKeeps
<1>3. /\ h' \in [Servers -> Handler]
      /\ h'[s].pc = "refuse" /\ h'[s].ev = e
      /\ \A t \in Servers \ {s} : h'[t] = h[t]
  BY <1>0, <1>1, <1>2, AtType, RowTypes
<1>4. PlansTold'
  BY <1>1, <1>2, <1>3, ToldAfter DEF db
<1>5. NothingStacks'
  BY <1>1, <1>2, StackSame DEF db, audit
<1> QED
  BY <1>0, <1>1, <1>2, <1>3, <1>4, <1>5, FromParts DEF db, audit

\* A process that ends, by its answer, an error or a crash, is idle.
LEMMA ToIdle ==
    ASSUME BillingInv, NEW s \in Servers, h' = [h EXCEPT ![s] = Idle]
    PROVE  h' \in [Servers -> Handler] /\ h'[s].pc = "idle" /\ \A t \in Servers \ {s} : h'[t] = h[t]
<1>1. Idle \in Handler /\ Idle.pc = "idle"
  BY RowTypes DEF Idle, Handler
<1>2. h \in [Servers -> Handler]
  BY DEF BillingInv, TypeOK, Handler
<1> QED
  BY <1>1, <1>2

LEMMA CommitInv ==
    ASSUME BillingInv, NEW s \in Servers, CommitSubscription(s)
    PROVE  BillingInv'
<1> DEFINE new == [plan |-> h[s].plan, sub |-> h[s].ev.sub, status |-> h[s].ev.status]
<1>0. /\ subrow \in SubRow /\ balance \in [left : Nat, incl : Nat] /\ acked \subseteq events
      /\ refused \subseteq events /\ cut \in BOOLEAN /\ owed \subseteq events /\ refills \in Nat
      /\ bought \in Nat /\ TypeOK
      /\ events \subseteq Event /\ h \in [Servers -> Handler] /\ h[s].row \in SubRow
      /\ overlap \in BOOLEAN /\ dups \in Nat /\ crashes \in Nat /\ dups + crashes <= MaxFaults
  BY DEF BillingInv, TypeOK, Handler
<1>1. /\ UNCHANGED <<stripe, events, acked, refused, balance, audit, overlap, limits>>
      /\ h[s].pc = "commit"
  BY DEF CommitSubscription
<1>2. h[s].ev \in events /\ Told(h[s].plan) /\ h[s].ev.type \in SubscriptionTypes
  BY <1>1 DEF BillingInv, PlansTold, Busy
<1>3. h[s].ev.sub \in Subs /\ h[s].ev.status \in Statuses /\ h[s].plan \in Plans
  BY <1>2 DEF BillingInv, EventsOK, Told
<1>4. NothingStacks'
  BY <1>1, StackSame DEF audit
<1>5. CASE h[s].row = NoRow /\ subrow # NoRow /\ h' = [h EXCEPT ![s] = Idle] /\ UNCHANGED subrow
  <2>1. /\ h' \in [Servers -> Handler] /\ h'[s].pc = "idle"
        /\ \A t \in Servers \ {s} : h'[t] = h[t]
    BY <1>5, ToIdle
  <2>2. PlansTold'
    BY <1>1, <1>5, <2>1, ToldAfter
  <2> QED
    BY <1>0, <1>1, <1>4, <1>5, <2>1, <2>2, FromParts DEF audit, limits
<1>6. CASE /\ h[s].row = NoRow => subrow = NoRow
           /\ subrow' = [c \in DOMAIN subrow |-> IF new[c] # h[s].row[c] THEN new[c] ELSE subrow[c]]
           /\ At(s, h[s].ev, IF PlanChanged(s) THEN "load" ELSE "answer", NoRow,
                 IF PlanChanged(s) THEN h[s].plan ELSE None)
  <2>1. DOMAIN subrow = {"plan", "sub", "status"}
    BY <1>0 DEF SubRow, NoRow
  <2>2. subrow'.plan \in {h[s].plan, subrow.plan} /\ subrow'.sub \in {h[s].ev.sub, subrow.sub}
        /\ subrow'.status \in {h[s].ev.status, subrow.status}
    BY <1>6, <2>1
  <2>3. subrow' = [plan |-> subrow'.plan, sub |-> subrow'.sub, status |-> subrow'.status]
    BY <1>6, <2>1
  <2>4. subrow' \in SubRow /\ Told(subrow'.plan)
    <3>1. CASE subrow = NoRow
      <4>1. h[s].row = NoRow
        BY <1>1, <3>1 DEF BillingInv, PlansTold
      <4>2. None \notin Plans /\ None \notin Subs /\ None \notin Statuses
        BY BillingAssumption DEF Statuses, None
      <4>3. subrow' = new
        BY <1>3, <1>6, <2>1, <2>3, <4>1, <4>2 DEF NoRow
      <4> QED
        BY <1>2, <1>3, <4>3, RowTypes
    <3>2. CASE subrow # NoRow
      <4>1. subrow.plan \in Plans /\ subrow.sub \in Subs /\ subrow.status \in Statuses
        BY <1>0, <3>2, RowTypes
      <4>2. Told(subrow.plan)
        BY <3>2 DEF BillingInv, PlansTold
      <4>3. subrow'.plan \in Plans /\ subrow'.sub \in Subs /\ subrow'.status \in Statuses
        BY <1>3, <2>2, <4>1
      <4>4. subrow' \in SubRow
        BY <2>3, <4>3, RowTypes
      <4> QED
        BY <1>2, <2>2, <4>2, <4>4
    <3> QED
      BY <3>1, <3>2
  <2>5. PlansTold' /\ h' \in [Servers -> Handler]
    <3>1. CASE PlanChanged(s)
      <4>1. At(s, h[s].ev, "load", NoRow, h[s].plan)
        BY <1>6, <3>1
      <4>2. /\ h' \in [Servers -> Handler] /\ h'[s].pc = "load" /\ h'[s].ev = h[s].ev
            /\ h'[s].plan = h[s].plan /\ \A t \in Servers \ {s} : h'[t] = h[t]
        BY <1>0, <1>2, <1>3, <4>1, AtType, RowTypes
      <4>3. Told(h'[s].plan) /\ h'[s].ev \in events
        BY <1>2, <4>2
      <4> QED
        BY <1>1, <2>4, <4>2, <4>3, ToldAfter
    <3>2. CASE ~PlanChanged(s)
      <4>1. At(s, h[s].ev, "answer", NoRow, None)
        BY <1>6, <3>2
      <4>2. /\ h' \in [Servers -> Handler] /\ h'[s].pc = "answer" /\ h'[s].ev = h[s].ev
            /\ \A t \in Servers \ {s} : h'[t] = h[t]
        BY <1>0, <1>2, <4>1, AtType, RowTypes
      <4>3. h'[s].ev \in events
        BY <1>2, <4>2
      <4> QED
        BY <1>1, <2>4, <4>2, <4>3, ToldAfter
    <3> QED
      BY <3>1, <3>2
  <2> QED
    BY <1>0, <1>1, <1>4, <2>4, <2>5, FromParts DEF audit, limits
<1> QED
  BY <1>5, <1>6 DEF CommitSubscription

LEMMA RefillInv ==
    ASSUME BillingInv, NEW s \in Servers, LoadBalance(s) \/ SetAllotment(s)
    PROVE  BillingInv'
<1>0. /\ subrow \in SubRow /\ balance \in [left : Nat, incl : Nat] /\ acked \subseteq events
      /\ refused \subseteq events /\ cut \in BOOLEAN /\ owed \subseteq events /\ refills \in Nat
      /\ bought \in Nat /\ TypeOK
      /\ events \subseteq Event /\ h \in [Servers -> Handler]
      /\ overlap \in BOOLEAN /\ dups \in Nat /\ crashes \in Nat /\ dups + crashes <= MaxFaults
  BY DEF BillingInv, TypeOK, Handler
<1>1. h[s].pc \in {"load", "allot"}
  BY DEF LoadBalance, SetAllotment
<1>2. h[s].ev \in events /\ Told(h[s].plan)
  BY <1>1 DEF BillingInv, PlansTold, Busy
<1>3. CASE LoadBalance(s)
  <2>1. /\ UNCHANGED <<stripe, events, acked, refused, db, audit, overlap, limits>>
        /\ h' = [h EXCEPT ![s].pc = "allot", ![s].left = balance.left, ![s].incl = balance.incl]
    BY <1>3 DEF LoadBalance
  <2>2. h' \in [Servers -> Handler]
    <3> DEFINE H == [h[s] EXCEPT !.pc = "allot", !.left = balance.left, !.incl = balance.incl]
    <3>1. h[s] \in Handler /\ balance.left \in Nat /\ balance.incl \in Nat
      BY <1>0
    <3>2. H \in Handler
      BY <3>1 DEF Handler
    <3>3. h' = [h EXCEPT ![s] = H]
      BY <1>0, <2>1
    <3> QED
      BY <1>0, <3>2, <3>3
  <2>3. /\ h'[s].pc = "allot" /\ h'[s].ev = h[s].ev /\ h'[s].plan = h[s].plan
        /\ \A t \in Servers \ {s} : h'[t] = h[t]
    BY <1>0, <2>1 DEF Handler
  <2>4. Told(h'[s].plan) /\ h'[s].ev \in events
    BY <1>2, <2>3
  <2>5. PlansTold'
    BY <2>1, <2>3, <2>4, ToldAfter DEF db
  <2>6. NothingStacks'
    BY <2>1, StackSame DEF db, audit
  <2> QED
    BY <1>0, <2>1, <2>2, <2>5, <2>6, FromParts DEF db, audit, limits
<1>4. CASE SetAllotment(s)
  <2> DEFINE c == Included[h[s].plan]
  <2>1. /\ UNCHANGED <<stripe, events, acked, refused, subrow, bought, overlap, limits>>
        /\ At(s, h[s].ev, "answer", NoRow, None) /\ refills' \in {refills, refills + 1}
        /\ owed' = {} /\ cut' = FALSE
        /\ balance' = [left |-> IF h[s].left # c THEN c ELSE balance.left,
                       incl |-> IF h[s].incl # c THEN c ELSE balance.incl]
    BY <1>4 DEF SetAllotment
  <2>2. c \in Nat
    BY <1>2, BillingAssumption DEF Told
  <2>3. balance' \in [left : Nat, incl : Nat] /\ balance'.left \in {c, balance.left}
    BY <1>0, <2>1, <2>2
  <2>4. /\ h' \in [Servers -> Handler] /\ h'[s].pc = "answer" /\ h'[s].ev = h[s].ev
        /\ \A t \in Servers \ {s} : h'[t] = h[t]
    BY <1>0, <1>2, <2>1, AtType, RowTypes
  <2>5. PlansTold'
    BY <1>2, <2>1, <2>4, ToldAfter
  <2>8. /\ UNCHANGED <<stripe, events>> /\ acked' \subseteq events /\ refused' \subseteq events
        /\ owed' \subseteq events /\ subrow' \in SubRow /\ refills' \in Nat /\ bought' \in Nat
        /\ cut' \in BOOLEAN /\ overlap' \in BOOLEAN /\ dups' \in Nat /\ crashes' \in Nat
        /\ dups' + crashes' <= MaxFaults
    <3>1. /\ UNCHANGED <<stripe, events, acked, refused, subrow, bought, overlap, dups, crashes>>
          /\ refills' \in {refills, refills + 1} /\ owed' = {} /\ cut' = FALSE
      BY <2>1 DEF limits
    <3>2. refills' \in Nat
      BY <1>0, <3>1
    <3> QED
      BY <1>0, <3>1, <3>2
  <2>6. CASE balance'.left = c
    <3>1. Pack * bought \in Nat
      BY <1>0, BillingAssumption
    <3>2. balance'.left <= c + Pack * bought
      BY <2>2, <2>6, <3>1
    <3>3. c \in {SignupCredits} \cup {Included[e.plan] : e \in {x \in events' : x.plan \in Plans}}
      BY <1>2, <2>1 DEF Told
    <3>4. bought' = bought
      BY <2>1
    <3> HIDE DEF c
    <3>5. NothingStacks'
      BY <3>2, <3>3, <3>4 DEF NothingStacks
    <3> QED
      BY <2>3, <2>4, <2>5, <2>8, <3>5, FromParts
  <2>7. CASE balance'.left = balance.left
    <3>1. balance.left \in Nat /\ balance'.left \in Nat /\ balance'.left <= balance.left
      BY <1>0, <2>7
    <3>2. NothingStacks'
      BY <1>0, <2>1, <3>1, StackKept DEF BillingInv
    <3> QED
      BY <2>3, <2>4, <2>5, <2>8, <3>2, FromParts
  <2> QED
    BY <2>3, <2>6, <2>7
<1> QED
  BY <1>3, <1>4

LEMMA RestInv ==
    ASSUME BillingInv, Charge \/ \E s \in Servers : Answer(s) \/ Crash(s)
    PROVE  BillingInv'
<1>0. /\ subrow \in SubRow /\ balance \in [left : Nat, incl : Nat] /\ acked \subseteq events
      /\ refused \subseteq events /\ cut \in BOOLEAN /\ owed \subseteq events /\ refills \in Nat
      /\ bought \in Nat /\ h \in [Servers -> Handler]
      /\ overlap \in BOOLEAN /\ dups \in Nat /\ crashes \in Nat /\ dups + crashes <= MaxFaults
  BY DEF BillingInv, TypeOK, Handler
<1>1. CASE Charge
  <2>1. /\ UNCHANGED <<stripe, events, acked, refused, subrow, h, audit, overlap, limits>>
        /\ balance.left >= 1 /\ balance' = [balance EXCEPT !.left = @ - 1]
    BY <1>1 DEF Charge
  <2>2. balance' \in [left : Nat, incl : Nat] /\ balance'.left <= balance.left
        /\ balance.left \in Nat /\ balance'.left \in Nat
    BY <1>0, <2>1
  <2>3. NothingStacks'
    BY <1>0, <2>1, <2>2, StackKept DEF BillingInv, audit
  <2>4. PlansTold'
    BY <2>1 DEF BillingInv, PlansTold, Told, Busy
  <2> QED
    BY <1>0, <2>1, <2>2, <2>3, <2>4, FromParts DEF audit, limits
<1>2. CASE \E s \in Servers : Answer(s) \/ Crash(s)
  <2>1. PICK s \in Servers : Answer(s) \/ Crash(s)
    BY <1>2
  <2>2. /\ UNCHANGED <<stripe, events, db, refills, bought, owed, overlap>>
        /\ h' = [h EXCEPT ![s] = Idle] /\ cut' \in {cut, cut \/ Refilling(s)}
    BY <2>1 DEF Answer, Crash, audit
  <2>3. h[s].ev \in events
    BY <2>1 DEF Answer, Crash, Busy, BillingInv, PlansTold
  <2>4. acked' \subseteq events /\ refused' \subseteq events /\ cut' \in BOOLEAN
    BY <1>0, <2>1, <2>2, <2>3 DEF Answer, Crash, Refilling
  <2>5. dups' \in Nat /\ crashes' \in Nat /\ dups' + crashes' <= MaxFaults
    BY <1>0, <2>1, BillingAssumption DEF Answer, Crash
  <2>6. /\ h' \in [Servers -> Handler] /\ h'[s].pc = "idle"
        /\ \A t \in Servers \ {s} : h'[t] = h[t]
    BY <2>2, ToIdle
  <2>7. PlansTold'
    BY <2>2, <2>6, ToldAfter DEF db
  <2>8. NothingStacks'
    BY <2>2, StackSame DEF db
  <2> QED
    BY <1>0, <2>2, <2>4, <2>5, <2>6, <2>7, <2>8, FromParts DEF db
<1> QED
  BY <1>1, <1>2

-----------------------------------------------------------------------------
(* Theorems. *)

LEMMA StutterInv == BillingInv /\ UNCHANGED vars => BillingInv'
<1> SUFFICES ASSUME BillingInv, UNCHANGED vars PROVE BillingInv'
  OBVIOUS
<1>1. UNCHANGED <<stripe, events, acked, refused, subrow, balance, h, refills, bought, owed,
                  cut, overlap, dups, crashes>>
  BY DEF vars
<1>2. TypeOK'
  BY <1>1 DEF BillingInv, TypeOK
<1>3. EventsOK' /\ PlansTold' /\ NothingStacks'
  BY <1>1 DEF BillingInv, EventsOK, PlansTold, Told, Busy, NothingStacks
<1> QED
  BY <1>2, <1>3 DEF BillingInv

\* Every reachable state keeps BillingInv.
THEOREM BillingInvariant == Spec => []BillingInv
<1>1. BillingInv /\ [Next]_vars => BillingInv'
  <2> SUFFICES ASSUME BillingInv, [Next]_vars PROVE BillingInv'
    OBVIOUS
  <2>1. CASE Customer
    BY <2>1, CustomerInv
  <2>2. CASE \E s \in Servers, e \in events : Receive(s, e)
    BY <2>2, HandleInv, RefuseInv DEF Receive
  <2>3. CASE \E s \in Servers : HandlerStep(s)
    BY <2>3, CommitInv, RefillInv, RestInv DEF HandlerStep
  <2>4. CASE Charge \/ \E s \in Servers : Crash(s)
    BY <2>4, RestInv
  <2>5. CASE UNCHANGED vars
    BY <2>5, StutterInv
  <2> QED
    BY <2>1, <2>2, <2>3, <2>4, <2>5 DEF Next
<1> QED
  BY <1>1, InitInv, PTL DEF Spec

\* Whatever Stripe sends and however often, whichever processes interleave or
\* die, billing keeps its types; in particular no balance is negative
\* (try_deduct_credits is conditional) and the row is always a whole one.
THEOREM BillingTypeCorrect == Spec => []TypeOK
<1>1. BillingInv => TypeOK
  BY DEF BillingInv
<1> QED
  BY <1>1, BillingInvariant, PTL

\* Refills never stack: what is left beyond the largest allotment that Stripe
\* ever told of was bought (set_plan_allotment, add_credits).
THEOREM RefillsNeverStack == Spec => []NothingStacks
<1>1. BillingInv => NothingStacks
  BY DEF BillingInv
<1> QED
  BY <1>1, BillingInvariant, PTL

-----------------------------------------------------------------------------
(* What a step does, for the invariants below.                              *)

OthersRun(s) == \A t \in Servers \ {s} : h'[t] = h[t]

LEMMA HandleFacts ==
    ASSUME BillingInv, NEW s \in Servers, NEW e \in events, Handle(s, e)
    PROVE  /\ h[s].pc = "idle" /\ e \notin acked /\ h'[s].ev = e /\ OthersRun(s)
           /\ UNCHANGED <<stripe, events, acked, subrow, refills, cut, crashes>>
           /\ overlap' = (overlap \/ \E t \in Servers : Busy(t))
           /\ dups' = IF \E t \in Servers : h[t].ev = e THEN dups + 1 ELSE dups
           /\ \/ /\ e.type \in SubscriptionTypes /\ e.plan \in Plans
                 /\ h'[s].pc = "commit" /\ h'[s].row = subrow /\ h'[s].plan = e.plan
                 /\ UNCHANGED <<balance, bought, owed>>
              \/ /\ e.type = "invoice" /\ subrow.sub = e.sub
                 /\ h'[s].pc = "load" /\ h'[s].plan = subrow.plan
                 /\ UNCHANGED <<balance, bought, owed>>
              \/ /\ e.type = "invoice" /\ subrow.sub # e.sub /\ h'[s].pc = "answer"
                 /\ UNCHANGED <<balance, bought>>
              \/ /\ e.type = "credits" /\ h'[s].pc = "answer"
                 /\ bought' = bought + 1 /\ balance'.incl = balance.incl /\ owed' = owed
              \/ /\ e.type = "deleted" /\ h'[s].pc = "answer" /\ UNCHANGED <<balance, bought, owed>>
<1>1. Send(s, e)
  BY DEF Handle, ReceiveSubscription, ReceiveInvoice, ReceivePurchase, ReceiveOther
<1>2. /\ h[s].pc = "idle" /\ e \notin acked /\ UNCHANGED <<stripe, events, acked, crashes>>
      /\ overlap' = (overlap \/ \E t \in Servers : Busy(t))
      /\ dups' = IF \E t \in Servers : h[t].ev = e THEN dups + 1 ELSE dups
  BY <1>1 DEF Send, Busy, Delivered
<1>3. UNCHANGED <<subrow, refills, cut>>
  BY DEF Handle, ReceiveSubscription, ReceiveInvoice, ReceivePurchase, ReceiveOther, db, audit
<1>4. e \in Event /\ subrow \in SubRow /\ TypeOK
  BY DEF BillingInv, TypeOK
<1>5. CASE ReceiveSubscription(s, e)
  <2>1. /\ e.type \in SubscriptionTypes /\ e.plan \in Plans /\ At(s, e, "commit", subrow, e.plan)
        /\ UNCHANGED <<balance, bought, owed>>
    BY <1>5 DEF ReceiveSubscription, Known, db, audit
  <2> QED
    BY <1>2, <1>3, <1>4, <2>1, AtType DEF OthersRun
<1>6. CASE ReceiveInvoice(s, e)
  <2>1. e.type = "invoice" /\ e.sub \in Subs /\ UNCHANGED <<balance, bought>>
    BY <1>6 DEF ReceiveInvoice, db, BillingInv, EventsOK
  <2>2. CASE subrow.sub = e.sub
    <3>1. subrow.plan \in Plans
      BY <1>4, <2>1, <2>2, RowTypes, BillingAssumption DEF NoRow
    <3>2. At(s, e, "load", NoRow, subrow.plan) /\ owed' = owed
      BY <1>6, <2>2 DEF ReceiveInvoice
    <3> QED
      BY <1>2, <1>3, <1>4, <2>1, <2>2, <3>1, <3>2, AtType, RowTypes DEF OthersRun
  <2>3. CASE subrow.sub # e.sub
    <3>1. At(s, e, "answer", NoRow, None)
      BY <1>6, <2>3 DEF ReceiveInvoice
    <3> QED
      BY <1>2, <1>3, <1>4, <2>1, <2>3, <3>1, AtType, RowTypes DEF OthersRun
  <2> QED
    BY <2>2, <2>3
<1>7. CASE ReceivePurchase(s, e) \/ ReceiveOther(s, e)
  <2>1. /\ At(s, e, "answer", NoRow, None)
        /\ \/ /\ e.type = "credits" /\ owed' = owed
              /\ bought' = bought + 1 /\ balance' = [balance EXCEPT !.left = @ + Pack]
           \/ e.type = "deleted" /\ UNCHANGED <<balance, bought, owed>>
    BY <1>7 DEF ReceivePurchase, ReceiveOther, db, audit
  <2>2. balance \in [left : Nat, incl : Nat]
    BY <1>4 DEF TypeOK
  <2>3. balance' = [balance EXCEPT !.left = @ + Pack] => balance'.incl = balance.incl
    BY <2>2
  <2> QED
    BY <1>2, <1>3, <1>4, <2>1, <2>3, AtType, RowTypes DEF OthersRun
<1> QED
  BY <1>5, <1>6, <1>7 DEF Handle

LEMMA RefuseFacts ==
    ASSUME BillingInv, NEW s \in Servers, NEW e \in events, Refuse(s, e)
    PROVE  /\ h[s].pc = "idle" /\ h'[s].pc = "refuse" /\ h'[s].ev = e /\ OthersRun(s)
           /\ UNCHANGED <<stripe, events, acked, subrow, balance, refills, bought, owed, cut, crashes>>
           /\ overlap' = (overlap \/ \E t \in Servers : Busy(t))
           /\ dups' = dups \/ dups' = dups + 1
<1>1. Send(s, e) /\ At(s, e, "refuse", NoRow, None) /\ UNCHANGED <<db, audit>>
  BY DEF Refuse
<1>2. e \in Event /\ TypeOK
  BY DEF BillingInv, TypeOK
<1>3. h'[s].pc = "refuse" /\ h'[s].ev = e /\ OthersRun(s)
  BY <1>1, <1>2, AtType, RowTypes DEF OthersRun
<1> QED
  BY <1>1, <1>3 DEF Send, Busy, db, audit

LEMMA CommitFacts ==
    ASSUME BillingInv, NEW s \in Servers, CommitSubscription(s)
    PROVE  /\ h[s].pc = "commit" /\ h[s].ev.type \in SubscriptionTypes /\ h[s].ev \in events
           /\ UNCHANGED <<stripe, events, acked, balance, refills, bought, owed, cut>>
           /\ UNCHANGED <<overlap, dups, crashes>> /\ OthersRun(s)
           /\ \/ /\ h[s].row = NoRow /\ subrow # NoRow /\ UNCHANGED subrow
                 /\ h'[s].pc = "idle" /\ h'[s].ev = NoEvent
              \/ /\ h[s].row = NoRow => subrow = NoRow
                 /\ h'[s].ev = h[s].ev
                 /\ subrow' # NoRow
                 /\ subrow'.plan \in {h[s].plan, subrow.plan}
                 /\ subrow'.sub \in {h[s].ev.sub, subrow.sub}
                 /\ subrow = NoRow => subrow'.plan = h[s].plan /\ subrow'.sub = h[s].ev.sub
                 /\ h[s].row = subrow => subrow'.plan = h[s].plan
                 /\ IF PlanChanged(s) THEN h'[s].pc = "load" /\ h'[s].plan = h[s].plan
                                      ELSE h'[s].pc = "answer"
<1> DEFINE new == [plan |-> h[s].plan, sub |-> h[s].ev.sub, status |-> h[s].ev.status]
<1>0. subrow \in SubRow /\ h[s].row \in SubRow /\ TypeOK
  BY DEF BillingInv, TypeOK
<1>1. /\ UNCHANGED <<stripe, events, acked, balance, refills, bought, owed, cut>>
      /\ UNCHANGED <<overlap, dups, crashes>> /\ h[s].pc = "commit"
  BY DEF CommitSubscription, audit, limits
<1>2. h[s].ev \in events /\ Told(h[s].plan) /\ h[s].ev.type \in SubscriptionTypes
  BY <1>1 DEF BillingInv, PlansTold, Busy
<1>3. /\ h[s].ev.sub \in Subs /\ h[s].ev.status \in Statuses /\ h[s].plan \in Plans
      /\ h[s].ev \in Event
  BY <1>2 DEF BillingInv, EventsOK, Told, TypeOK
<1>4. CASE h[s].row = NoRow /\ subrow # NoRow /\ h' = [h EXCEPT ![s] = Idle] /\ UNCHANGED subrow
  <2>1. h'[s] = Idle /\ OthersRun(s)
    BY <1>4, ToIdle DEF BillingInv, TypeOK, OthersRun
  <2> QED
    BY <1>1, <1>2, <1>4, <2>1 DEF Idle
<1>5. CASE /\ h[s].row = NoRow => subrow = NoRow
           /\ subrow' = [c \in DOMAIN subrow |-> IF new[c] # h[s].row[c] THEN new[c] ELSE subrow[c]]
           /\ At(s, h[s].ev, IF PlanChanged(s) THEN "load" ELSE "answer", NoRow,
                 IF PlanChanged(s) THEN h[s].plan ELSE None)
  <2>1. DOMAIN subrow = {"plan", "sub", "status"}
    BY <1>0 DEF SubRow, NoRow
  <2>2. /\ subrow'.plan = IF h[s].plan # h[s].row.plan THEN h[s].plan ELSE subrow.plan
        /\ subrow'.sub = IF h[s].ev.sub # h[s].row.sub THEN h[s].ev.sub ELSE subrow.sub
    BY <1>5, <2>1
  <2>3. None \notin Plans /\ None \notin Subs /\ NoRow.plan = None /\ NoRow.sub = None
    BY BillingAssumption DEF NoRow
  <2>4. subrow = NoRow => h[s].row = NoRow
    BY <1>1 DEF BillingInv, PlansTold
  <2>5. /\ subrow = NoRow => subrow'.plan = h[s].plan /\ subrow'.sub = h[s].ev.sub
        /\ h[s].row = subrow => subrow'.plan = h[s].plan
    BY <1>3, <2>2, <2>3, <2>4
  <2>6. subrow # NoRow => subrow.plan \in Plans
    BY <1>0, RowTypes
  <2>7. subrow' # NoRow
    BY <1>3, <2>2, <2>3, <2>5, <2>6
  <2>8. /\ h'[s].ev = h[s].ev /\ OthersRun(s)
        /\ IF PlanChanged(s) THEN h'[s].pc = "load" /\ h'[s].plan = h[s].plan
                             ELSE h'[s].pc = "answer"
    <3>1. CASE PlanChanged(s)
      <4>1. At(s, h[s].ev, "load", NoRow, h[s].plan)
        BY <1>5, <3>1
      <4> QED
        BY <1>0, <1>3, <3>1, <4>1, AtType, RowTypes DEF OthersRun
    <3>2. CASE ~PlanChanged(s)
      <4>1. At(s, h[s].ev, "answer", NoRow, None)
        BY <1>5, <3>2
      <4> QED
        BY <1>0, <1>3, <3>2, <4>1, AtType, RowTypes DEF OthersRun
    <3> QED
      BY <3>1, <3>2
  <2>9. subrow'.plan \in {h[s].plan, subrow.plan} /\ subrow'.sub \in {h[s].ev.sub, subrow.sub}
    BY <2>2
  <2>10. h[s].row = NoRow => subrow = NoRow
    BY <1>5
  <2> QED
    BY <1>1, <1>2, <2>5, <2>7, <2>8, <2>9, <2>10
<1> QED
  BY <1>4, <1>5 DEF CommitSubscription

LEMMA RefillFacts ==
    ASSUME BillingInv, NEW s \in Servers, LoadBalance(s) \/ SetAllotment(s)
    PROVE  /\ UNCHANGED <<stripe, events, acked, subrow, bought, overlap, dups, crashes>>
           /\ OthersRun(s) /\ h'[s].ev = h[s].ev /\ h[s].ev \in events
           /\ \/ /\ h[s].pc = "load" /\ h'[s].pc = "allot" /\ h'[s].plan = h[s].plan
                 /\ h'[s].incl = balance.incl /\ UNCHANGED <<balance, refills, owed, cut>>
              \/ /\ h[s].pc = "allot" /\ h'[s].pc = "answer" /\ owed' = {} /\ cut' = FALSE
                 /\ h[s].incl = balance.incl => balance'.incl = Included[h[s].plan]
                 /\ refills' = IF h[s].ev.type = "invoice" THEN refills ELSE refills + 1
<1>0. TypeOK /\ h \in [Servers -> Handler] /\ balance \in [left : Nat, incl : Nat]
  BY DEF BillingInv, TypeOK, Handler
<1>1. h[s].pc \in {"load", "allot"}
  BY DEF LoadBalance, SetAllotment
<1>2. h[s].ev \in events
  BY <1>1 DEF BillingInv, PlansTold, Busy
<1>3. CASE LoadBalance(s)
  <2>1. /\ UNCHANGED <<stripe, events, acked, subrow, bought, overlap, dups, crashes>>
        /\ UNCHANGED <<balance, refills, owed, cut>> /\ h[s].pc = "load"
        /\ h' = [h EXCEPT ![s].pc = "allot", ![s].left = balance.left, ![s].incl = balance.incl]
    BY <1>3 DEF LoadBalance, db, audit, limits
  <2>2. /\ h'[s].pc = "allot" /\ h'[s].ev = h[s].ev /\ h'[s].plan = h[s].plan
        /\ h'[s].incl = balance.incl /\ OthersRun(s)
    BY <1>0, <2>1 DEF Handler, OthersRun
  <2> QED
    BY <1>2, <2>1, <2>2
<1>4. CASE SetAllotment(s)
  <2> DEFINE c == Included[h[s].plan]
  <2>1. /\ UNCHANGED <<stripe, events, acked, subrow, bought, overlap, dups, crashes>>
        /\ At(s, h[s].ev, "answer", NoRow, None) /\ owed' = {} /\ cut' = FALSE /\ h[s].pc = "allot"
        /\ refills' = IF h[s].ev.type = "invoice" THEN refills ELSE refills + 1
        /\ balance'.incl = IF h[s].incl # c THEN c ELSE balance.incl
    BY <1>4 DEF SetAllotment, limits
  <2>2. h'[s].pc = "answer" /\ h'[s].ev = h[s].ev /\ OthersRun(s)
    BY <1>0, <1>2, <2>1, AtType, RowTypes DEF OthersRun, TypeOK
  <2> QED
    BY <1>2, <2>1, <2>2
<1> QED
  BY <1>3, <1>4

LEMMA EndFacts ==
    ASSUME BillingInv, NEW s \in Servers, Answer(s) \/ Crash(s)
    PROVE  /\ UNCHANGED <<stripe, events, subrow, balance, refills, bought, owed, overlap>>
           /\ OthersRun(s) /\ Busy(s) /\ h[s].ev \in events
           /\ h'[s].pc = "idle" /\ h'[s].ev = NoEvent
           /\ \/ /\ h[s].pc \in {"answer", "refuse"} /\ crashes' = crashes /\ cut' = cut
                 /\ \/ h[s].pc = "answer" /\ acked' = acked \cup {h[s].ev} /\ dups' = dups
                    \/ h[s].pc = "refuse" /\ acked' = acked /\ dups' = dups
                    \/ acked' = acked /\ dups' = dups + 1
              \/ /\ acked' = acked /\ dups' = dups /\ crashes' = crashes + 1
                 /\ cut' = (cut \/ Refilling(s))
<1>1. /\ h' = [h EXCEPT ![s] = Idle] /\ Busy(s)
      /\ UNCHANGED <<stripe, events, subrow, balance, refills, bought, owed, overlap>>
  BY DEF Answer, Crash, Busy, db, audit
<1>2. h'[s] = Idle /\ OthersRun(s)
  BY <1>1, ToIdle DEF OthersRun, BillingInv, TypeOK
<1>3. h[s].ev \in events
  BY <1>1 DEF BillingInv, PlansTold
<1> QED
  BY <1>1, <1>2, <1>3 DEF Answer, Crash, Idle, audit

LEMMA ChargeFacts ==
    ASSUME BillingInv, Charge
    PROVE  /\ balance'.incl = balance.incl
           /\ UNCHANGED <<stripe, events, acked, subrow, h, refills, bought, owed, cut>>
           /\ UNCHANGED <<overlap, dups, crashes>>
<1>1. balance \in [left : Nat, incl : Nat] /\ balance' = [balance EXCEPT !.left = @ - 1]
  BY DEF BillingInv, TypeOK, Charge
<1> QED
  BY <1>1 DEF Charge, audit, limits

LEMMA CustomerFacts ==
    ASSUME BillingInv, Customer
    PROVE  /\ UNCHANGED <<acked, subrow, balance, h, refills, bought, owed, cut>>
           /\ UNCHANGED <<overlap, dups, crashes>> /\ events \subseteq events'
<1>1. /\ UNCHANGED <<acked, subrow, balance, h, refills, bought, owed, cut>>
      /\ UNCHANGED <<overlap, dups, crashes>>
  BY DEF Customer, Subscribe, Modify, Renew, Cancel, Buy, StripeFrame, db, audit, limits
<1>2. events \subseteq events'
  BY DEF Customer, Subscribe, Modify, Renew, Cancel, Buy, Tell
<1> QED
  BY <1>1, <1>2

\* The steps, by what they do.
Steps ==
    \/ Customer \/ Charge
    \/ \E s \in Servers : (\E e \in events : Handle(s, e)) \/ CommitSubscription(s)
    \/ \E s \in Servers, e \in events : Refuse(s, e)
    \/ \E s \in Servers : LoadBalance(s) \/ SetAllotment(s)
    \/ \E s \in Servers : Answer(s) \/ Crash(s)
    \/ UNCHANGED vars

LEMMA NextSteps == [Next]_vars => Steps
  BY DEF Next, Steps, HandlerStep, Receive

-----------------------------------------------------------------------------
(* One refill for a customer who stays on one plan. *)

SubPlans == Plans \cap {e.plan : e \in OfType(events, SubscriptionTypes)}

OnePlan == \A p, q \in SubPlans : p = q

RefillOK ==
    /\ subrow # NoRow => subrow.plan \in SubPlans
    /\ \A s \in Servers :
          /\ h[s].pc = "commit" =>
                h[s].plan \in SubPlans /\ (h[s].row # NoRow => h[s].row.plan \in SubPlans)
          /\ h[s].pc \in {"load", "allot"} => h[s].ev.type \in SubscriptionTypes \cup {"invoice"}
    /\ OnePlan =>
          /\ refills \in {0, 1}
          /\ \A s \in Servers : Refilling(s) => refills = 0
          /\ \A s, t \in Servers : Refilling(s) /\ Refilling(t) => s = t
          /\ subrow = NoRow => refills = 0 /\ \A s \in Servers : ~Refilling(s)

LEMMA PlansKept ==
    ASSUME events \subseteq events'
    PROVE  SubPlans \subseteq SubPlans' /\ (OnePlan' => OnePlan)
  BY DEF SubPlans, OnePlan, OfType

LEMMA RefillStep ==
    ASSUME BillingInv, RefillOK, [Next]_vars
    PROVE  RefillOK'
<1>0. subrow \in SubRow /\ refills \in Nat
  BY DEF BillingInv, TypeOK
<1>1. CASE Customer \/ Charge \/ UNCHANGED vars
  <2>1. UNCHANGED <<subrow, h, refills>> /\ events \subseteq events'
    BY <1>1, CustomerFacts, ChargeFacts DEF vars
  <2> QED
    BY <2>1, PlansKept DEF RefillOK, Refilling
<1>2. ASSUME NEW s \in Servers, NEW e \in events, Handle(s, e) PROVE RefillOK'
  <2>1. /\ UNCHANGED <<events, subrow, refills>> /\ OthersRun(s) /\ h'[s].ev = e
        /\ \/ /\ h'[s].pc = "commit" /\ h'[s].row = subrow /\ h'[s].plan = e.plan
              /\ e.type \in SubscriptionTypes /\ e.plan \in Plans
           \/ h'[s].pc = "load" /\ e.type = "invoice"
           \/ h'[s].pc = "answer"
    BY <1>2, HandleFacts DEF SubscriptionTypes
  <2>2. ~Refilling(s)' /\ \A t \in Servers \ {s} : Refilling(t)' = Refilling(t)
    BY <2>1 DEF Refilling, OthersRun, SubscriptionTypes
  <2>3. h'[s].pc = "commit" =>
          h'[s].plan \in SubPlans' /\ (h'[s].row # NoRow => h'[s].row.plan \in SubPlans')
    BY <2>1 DEF RefillOK, SubPlans, OfType
  <2>4. SubPlans \subseteq SubPlans' /\ (OnePlan' => OnePlan)
    BY <2>1, PlansKept
  <2> QED
    BY <2>1, <2>2, <2>3, <2>4 DEF RefillOK, OthersRun
<1>3. ASSUME NEW s \in Servers, CommitSubscription(s) PROVE RefillOK'
  <2>1. /\ h[s].pc = "commit" /\ h[s].ev.type \in SubscriptionTypes /\ UNCHANGED <<events, refills>>
        /\ OthersRun(s)
        /\ \/ subrow' = subrow /\ h'[s].pc = "idle"
           \/ /\ h[s].row = NoRow => subrow = NoRow
              /\ subrow' # NoRow /\ subrow'.plan \in {h[s].plan, subrow.plan}
              /\ subrow = NoRow => subrow'.plan = h[s].plan
              /\ IF PlanChanged(s) THEN h'[s].pc = "load" ELSE h'[s].pc = "answer"
              /\ h'[s].ev = h[s].ev
    BY <1>3, CommitFacts
  <2>2. SubPlans \subseteq SubPlans' /\ (OnePlan' => OnePlan)
    BY <2>1, PlansKept
  <2>3. \A t \in Servers \ {s} : Refilling(t)' = Refilling(t)
    BY <2>1 DEF Refilling, OthersRun
  <2>4. h[s].plan \in SubPlans /\ (h[s].row # NoRow => h[s].row.plan \in SubPlans)
    BY <2>1 DEF RefillOK
  <2>5. subrow' # NoRow => subrow'.plan \in SubPlans
    BY <2>1, <2>4 DEF RefillOK
  <2>6. OnePlan /\ Refilling(s)' => h[s].row = NoRow
    BY <2>1, <2>4 DEF PlanChanged, Refilling, OnePlan
  <2>7. OnePlan /\ Refilling(s)' =>
           /\ subrow = NoRow /\ subrow' # NoRow /\ refills = 0 /\ \A t \in Servers : ~Refilling(t)
    BY <2>1, <2>6 DEF RefillOK, Refilling
  <2>8. subrow' = NoRow => subrow = NoRow /\ ~Refilling(s)'
    BY <2>1 DEF Refilling
  <2>9. h'[s].pc # "commit" /\ \A t \in Servers \ {s} : h'[t] = h[t]
    BY <2>1 DEF OthersRun
  <2>10. subrow' # NoRow => subrow'.plan \in SubPlans'
    BY <2>2, <2>5
  <2>11. ASSUME NEW t \in Servers, h'[t].pc = "commit"
         PROVE  h'[t].plan \in SubPlans' /\ (h'[t].row # NoRow => h'[t].row.plan \in SubPlans')
    BY <2>2, <2>9, <2>11 DEF RefillOK
  <2>12. ASSUME OnePlan'
         PROVE  /\ refills' \in {0, 1}
                /\ \A t \in Servers : Refilling(t)' => refills' = 0
                /\ \A t, u \in Servers : Refilling(t)' /\ Refilling(u)' => t = u
                /\ subrow' = NoRow => refills' = 0 /\ \A t \in Servers : ~Refilling(t)'
    BY <2>1, <2>2, <2>3, <2>7, <2>8, <2>12 DEF RefillOK
  <2>13. \A t \in Servers : h'[t].pc \in {"load", "allot"} =>
            h'[t].ev.type \in SubscriptionTypes \cup {"invoice"}
    BY <2>1, <2>9 DEF RefillOK
  <2> QED
    BY <2>10, <2>11, <2>12, <2>13 DEF RefillOK
<1>4. ASSUME NEW s \in Servers, LoadBalance(s) \/ SetAllotment(s) PROVE RefillOK'
  <2>1. /\ UNCHANGED <<events, subrow>> /\ OthersRun(s) /\ h'[s].ev = h[s].ev /\ h[s].ev \in events
        /\ \/ h[s].pc = "load" /\ h'[s].pc = "allot" /\ UNCHANGED refills
           \/ /\ h[s].pc = "allot" /\ h'[s].pc = "answer"
              /\ refills' = IF h[s].ev.type = "invoice" THEN refills ELSE refills + 1
    BY <1>4, RefillFacts
  <2>2. SubPlans \subseteq SubPlans' /\ (OnePlan' => OnePlan)
    BY <2>1, PlansKept
  <2>3. \A t \in Servers \ {s} : Refilling(t)' = Refilling(t)
    BY <2>1 DEF Refilling, OthersRun
  <2>4. \/ refills' = refills /\ Refilling(s)' = Refilling(s)
        \/ refills' = refills /\ ~Refilling(s)'
        \/ Refilling(s) /\ ~Refilling(s)' /\ refills' = refills + 1
    <3>1. h[s].ev.type \in SubscriptionTypes \cup {"invoice"} => 
             (h[s].ev.type # "invoice" => h[s].ev.type \in SubscriptionTypes)
      OBVIOUS
    <3>2. h[s].pc \in {"load", "allot"} => h[s].ev.type \in SubscriptionTypes \cup {"invoice"}
      BY DEF RefillOK
    <3> QED
      BY <2>1, <3>1, <3>2 DEF Refilling
  <2> QED
    BY <2>1, <2>2, <2>3, <2>4 DEF RefillOK, OthersRun
<1>5. ASSUME NEW s \in Servers, Answer(s) \/ Crash(s) PROVE RefillOK'
  <2>1. /\ UNCHANGED <<events, subrow, refills>> /\ OthersRun(s) /\ h'[s].pc = "idle"
    BY <1>5, EndFacts
  <2>2. ~Refilling(s)' /\ \A t \in Servers \ {s} : Refilling(t)' = Refilling(t)
    BY <2>1 DEF Refilling, OthersRun
  <2>3. SubPlans \subseteq SubPlans' /\ (OnePlan' => OnePlan)
    BY <2>1, PlansKept
  <2> QED
    BY <2>1, <2>2, <2>3 DEF RefillOK, OthersRun
<1>6. ASSUME NEW s \in Servers, NEW e \in events, Refuse(s, e) PROVE RefillOK'
  <2>1. UNCHANGED <<events, subrow, refills>> /\ OthersRun(s) /\ h'[s].pc = "refuse"
    BY <1>6, RefuseFacts
  <2>2. ~Refilling(s)' /\ \A t \in Servers \ {s} : Refilling(t)' = Refilling(t)
    BY <2>1 DEF Refilling, OthersRun
  <2>3. SubPlans \subseteq SubPlans' /\ (OnePlan' => OnePlan)
    BY <2>1, PlansKept
  <2> QED
    BY <2>1, <2>2, <2>3 DEF RefillOK, OthersRun
<1> QED
  BY <1>1, <1>2, <1>3, <1>4, <1>5, <1>6, NextSteps DEF Steps

\* Two different things are two.
LEMMA TwoElements ==
    ASSUME NEW p, NEW q, p # q
    PROVE  IsFiniteSet({p, q}) /\ Cardinality({p, q}) = 2
<1>1. IsFiniteSet({p}) /\ Cardinality({p}) = 1
  BY FS_Singleton
<1>2. q \notin {p}
  OBVIOUS
<1>3. {p, q} = {p} \cup {q}
  OBVIOUS
<1> QED
  BY <1>1, <1>2, <1>3, FS_AddElement

\* Refills follow a change of the plan that the row has, and the row is written
\* once for one plan: while a customer stays on it, no repetition and no
\* interleaving refills twice (upsert_subscription_from_stripe_object).
THEOREM OnePlanRefillsOnce == Spec => []OnePlanOneRefill
<1>1. Init => RefillOK
  BY DEF Init, RefillOK, Idle, Refilling
<1>2. BillingInv /\ RefillOK /\ [Next]_vars => RefillOK'
  BY RefillStep
<1>3. BillingInv /\ RefillOK => OnePlanOneRefill
  <2> DEFINE P == {e.plan : e \in OfType(events, SubscriptionTypes)} \ {Unmapped}
  <2> SUFFICES ASSUME BillingInv, RefillOK, Cardinality(P) <= 1 PROVE refills <= 1
    BY DEF OnePlanOneRefill
  <2>1. IsFiniteSet(P)
    <3>1. IsFiniteSet(OfType(events, SubscriptionTypes))
      BY FS_Subset DEF BillingInv, EventsOK, OfType
    <3> DEFINE S == OfType(events, SubscriptionTypes)
               T == {e.plan : e \in S}
               f == [e \in S |-> e.plan]
    <3>2. f \in Surjection(S, T)
      BY DEF Surjection
    <3> HIDE DEF S, T, f
    <3>3. IsFiniteSet(T)
      BY <3>1, <3>2, FS_Surjection DEF S
    <3> QED
      BY <3>3, FS_Subset DEF S, T
  <2>2. OnePlan
    <3> SUFFICES ASSUME NEW p \in SubPlans, NEW q \in SubPlans, p # q PROVE FALSE
      BY DEF OnePlan
    <3>1. {p, q} \subseteq P
      BY BillingAssumption DEF SubPlans
    <3>2. Cardinality({p, q}) = 2 /\ IsFiniteSet({p, q})
      BY TwoElements
    <3>3. Cardinality({p, q}) <= Cardinality(P) /\ Cardinality(P) \in Nat
      BY <2>1, <3>1, FS_Subset, FS_CardinalityType
    <3> HIDE DEF P
    <3> QED
      BY <3>2, <3>3
  <2> QED
    BY <2>2 DEF RefillOK
<1> QED
  BY <1>1, <1>2, <1>3, BillingInvariant, PTL DEF Spec

-----------------------------------------------------------------------------
(* Every purchase is added. *)

\* An event as its process counts it: one that it refuses is none.
Taken(s) == IF h[s].pc = "refuse" THEN NoEvent ELSE h[s].ev

\* The purchases that were added and are not forgotten by both sides.
Purchases == OfType(acked \cup {Taken(s) : s \in Servers}, {"credits"})

BoughtOK ==
    /\ Cardinality(Purchases) <= bought
    /\ bought <= Cardinality(Purchases) + dups + crashes

\* One that handles no event holds none.
HeldOK == \A s \in Servers : ~Busy(s) => h[s].ev = NoEvent

LEMMA PurchasesFinite ==
    ASSUME BillingInv, HeldOK
    PROVE  Purchases \subseteq events /\ IsFiniteSet(Purchases) /\ Cardinality(Purchases) \in Nat
<1>1. Purchases \subseteq events
  BY DEF Purchases, Taken, OfType, BillingInv, TypeOK, PlansTold, HeldOK, NoEvent, None
<1>2. IsFiniteSet(events)
  BY DEF BillingInv, EventsOK
<1>3. IsFiniteSet(Purchases)
  BY <1>1, <1>2, FS_Subset
<1> QED
  BY <1>1, <1>3, FS_CardinalityType

\* One purchase more, or less, or neither.
LEMMA CountOne ==
    ASSUME NEW P, IsFiniteSet(P), NEW e, NEW Q, Q \in {P, P \cup {e}, P \ {e}}
    PROVE  /\ Cardinality(P) \in Nat /\ Cardinality(Q) \in Nat
           /\ Q = P => Cardinality(Q) = Cardinality(P)
           /\ Q = P \cup {e} /\ e \notin P => Cardinality(Q) = Cardinality(P) + 1
           /\ Q = P \ {e} => /\ Cardinality(Q) <= Cardinality(P)
                             /\ Cardinality(P) <= Cardinality(Q) + 1
<1>1. Cardinality(P) \in Nat
  BY FS_CardinalityType
<1>2. IsFiniteSet(P \cup {e}) /\ (e \notin P => Cardinality(P \cup {e}) = Cardinality(P) + 1)
  BY FS_AddElement
<1>3. /\ IsFiniteSet(P \ {e})
      /\ Cardinality(P \ {e}) = IF e \in P THEN Cardinality(P) - 1 ELSE Cardinality(P)
  BY FS_RemoveElement
<1>4. Cardinality(P \cup {e}) \in Nat /\ Cardinality(P \ {e}) \in Nat
  BY <1>2, <1>3, FS_CardinalityType
<1> QED
  BY <1>1, <1>2, <1>3, <1>4

LEMMA HeldStep ==
    ASSUME BillingInv, HeldOK, [Next]_vars
    PROVE  HeldOK'
<1>1. CASE Customer \/ Charge \/ UNCHANGED vars
  <2>1. h' = h
    BY <1>1, CustomerFacts, ChargeFacts DEF vars
  <2> QED
    BY <2>1 DEF HeldOK, Busy
<1>2. ASSUME NEW s \in Servers, NEW e \in events, Handle(s, e) PROVE HeldOK'
  BY <1>2, HandleFacts DEF HeldOK, Busy, OthersRun
<1>3. ASSUME NEW s \in Servers, CommitSubscription(s) PROVE HeldOK'
  BY <1>3, CommitFacts DEF HeldOK, Busy, OthersRun
<1>4. ASSUME NEW s \in Servers, LoadBalance(s) \/ SetAllotment(s) PROVE HeldOK'
  BY <1>4, RefillFacts DEF HeldOK, Busy, OthersRun
<1>5. ASSUME NEW s \in Servers, Answer(s) \/ Crash(s) PROVE HeldOK'
  BY <1>5, EndFacts DEF HeldOK, Busy, OthersRun
<1>6. ASSUME NEW s \in Servers, NEW e \in events, Refuse(s, e) PROVE HeldOK'
  BY <1>6, RefuseFacts DEF HeldOK, Busy, OthersRun
<1> QED
  BY <1>1, <1>2, <1>3, <1>4, <1>5, <1>6, NextSteps DEF Steps

LEMMA BoughtStep ==
    ASSUME BillingInv, HeldOK, BoughtOK, [Next]_vars
    PROVE  BoughtOK'
<1>0. bought \in Nat /\ dups \in Nat /\ crashes \in Nat /\ IsFiniteSet(Purchases)
      /\ Cardinality(Purchases) \in Nat
  BY PurchasesFinite DEF BillingInv, TypeOK
<1>1. CASE Customer \/ Charge \/ UNCHANGED vars
  <2>1. UNCHANGED <<h, acked, bought, dups, crashes>>
    BY <1>1, CustomerFacts, ChargeFacts DEF vars
  <2> QED
    BY <2>1 DEF BoughtOK, Purchases, Taken
<1>2. ASSUME NEW s \in Servers, NEW e \in events, Handle(s, e) PROVE BoughtOK'
  <2>1. /\ h[s].pc = "idle" /\ e \notin acked /\ h'[s].ev = e /\ h'[s].pc # "refuse"
        /\ \A t \in Servers \ {s} : h'[t] = h[t]
        /\ UNCHANGED <<acked, crashes>>
        /\ dups' = IF \E t \in Servers : h[t].ev = e THEN dups + 1 ELSE dups
        /\ bought' = IF e.type = "credits" THEN bought + 1 ELSE bought
    BY <1>2, HandleFacts DEF SubscriptionTypes, OthersRun
  <2>2. Taken(s) = NoEvent /\ NoEvent.type # "credits"
    BY <2>1 DEF HeldOK, Busy, Taken, NoEvent, None
  <2>3. Purchases' = IF e.type = "credits" THEN Purchases \cup {e} ELSE Purchases
    <3>0. Taken(s)' = e /\ \A t \in Servers \ {s} : Taken(t)' = Taken(t)
      BY <2>1 DEF Taken
    <3>1. {Taken(t) : t \in Servers}' = {e} \cup {Taken(t) : t \in Servers \ {s}}
      BY <3>0
    <3>2. {Taken(t) : t \in Servers} = {NoEvent} \cup {Taken(t) : t \in Servers \ {s}}
      BY <2>2
    <3> QED
      BY <2>1, <2>2, <3>1, <3>2 DEF Purchases, OfType
  <2>4. e.type = "credits" /\ e \in Purchases => dups' = dups + 1
    <3>1. e.type = "credits" /\ e \in Purchases => \E t \in Servers : Taken(t) = e
      BY <2>1 DEF Purchases, OfType
    <3>2. \A t \in Servers : Taken(t) = e /\ e.type = "credits" => h[t].ev = e
      BY <2>2 DEF Taken
    <3> QED
      BY <2>1, <3>1, <3>2
  <2>9. dups' \in {dups, dups + 1}
    BY <2>1
  <2>5. /\ Purchases' = Purchases => Cardinality(Purchases') = Cardinality(Purchases)
        /\ Purchases' = Purchases \cup {e} /\ e \notin Purchases =>
              Cardinality(Purchases') = Cardinality(Purchases) + 1
    BY <1>0, CountOne
  <2>6. e \in Purchases => Purchases \cup {e} = Purchases
    OBVIOUS
  <2> QED
    BY <1>0, <2>1, <2>3, <2>4, <2>5, <2>6, <2>9 DEF BoughtOK
<1>3. ASSUME NEW s \in Servers, CommitSubscription(s) PROVE BoughtOK'
  <2>1. /\ UNCHANGED <<acked, bought, dups, crashes>> /\ OthersRun(s)
        /\ h[s].ev.type # "credits" /\ h'[s].ev.type # "credits"
    BY <1>3, CommitFacts DEF SubscriptionTypes, NoEvent, None
  <2>2. /\ Taken(s).type # "credits" /\ Taken(s)'.type # "credits"
        /\ \A t \in Servers \ {s} : Taken(t)' = Taken(t)
    BY <2>1 DEF Taken, OthersRun, NoEvent, None
  <2>3. Purchases' = Purchases
    BY <2>1, <2>2 DEF Purchases, OfType
  <2> QED
    BY <2>1, <2>3 DEF BoughtOK
<1>4. ASSUME NEW s \in Servers, LoadBalance(s) \/ SetAllotment(s) PROVE BoughtOK'
  <2>1. /\ UNCHANGED <<acked, bought, dups, crashes>> /\ OthersRun(s) /\ h'[s].ev = h[s].ev
        /\ h[s].pc # "refuse" /\ h'[s].pc # "refuse"
    BY <1>4, RefillFacts
  <2>2. \A t \in Servers : Taken(t)' = Taken(t)
    BY <2>1 DEF Taken, OthersRun
  <2> QED
    BY <2>1, <2>2 DEF BoughtOK, Purchases
<1>5. ASSUME NEW s \in Servers, Answer(s) \/ Crash(s) PROVE BoughtOK'
  <2> DEFINE e == Taken(s)
             X == {Taken(t) : t \in Servers \ {s}}
  <2>1. /\ bought' = bought /\ h'[s].pc = "idle" /\ h'[s].ev = NoEvent
        /\ \A t \in Servers \ {s} : h'[t] = h[t]
        /\ \/ /\ crashes' = crashes
              /\ \/ acked' = acked \cup {e} /\ dups' = dups
                 \/ acked' = acked /\ dups' = dups /\ e = NoEvent
                 \/ acked' = acked /\ dups' = dups + 1
           \/ acked' = acked /\ dups' = dups /\ crashes' = crashes + 1
    BY <1>5, EndFacts DEF Taken, OthersRun
  <2>2. NoEvent.type # "credits"
    BY DEF NoEvent, None
  <2>3. Taken(s)' = NoEvent /\ \A t \in Servers \ {s} : Taken(t)' = Taken(t)
    BY <2>1 DEF Taken
  <2>4. /\ {Taken(t) : t \in Servers} = {e} \cup X
        /\ {Taken(t) : t \in Servers}' = {NoEvent} \cup X
    BY <2>3
  <2>7. /\ Purchases = {x \in acked \cup {e} \cup X : x.type = "credits"}
        /\ Purchases' = {x \in acked' \cup {NoEvent} \cup X : x.type = "credits"}
    BY <2>4 DEF Purchases, OfType
  <2>8. dups \in Nat /\ crashes \in Nat
    BY <1>0
  <2> HIDE DEF e, X
  <2>5. \/ Purchases' = Purchases
        \/ Purchases' = Purchases \ {e} /\ dups' + crashes' = dups + crashes + 1
    <3>1. CASE acked' = acked \cup {e}
      BY <2>2, <2>7, <3>1
    <3>4. CASE acked' = acked /\ e = NoEvent
      BY <2>2, <2>7, <3>4
    <3>2. CASE acked' = acked /\ e \in acked \cup X
      BY <2>2, <2>7, <3>2
    <3>3. CASE acked' = acked /\ e \notin acked \cup X /\ e # NoEvent
      <4>1. Purchases' = Purchases \ {e}
        BY <2>2, <2>7, <3>3
      <4>2. acked' = acked \cup {e} => Purchases' = Purchases
        BY <2>2, <2>7
      <4> QED
        BY <2>1, <2>8, <3>3, <4>1, <4>2
    <3> QED
      BY <2>1, <3>1, <3>2, <3>3, <3>4
  <2>6. /\ Cardinality(Purchases') \in Nat
        /\ Purchases' = Purchases => Cardinality(Purchases') = Cardinality(Purchases)
        /\ Purchases' = Purchases \ {e} =>
              /\ Cardinality(Purchases') <= Cardinality(Purchases)
              /\ Cardinality(Purchases) <= Cardinality(Purchases') + 1
    BY <1>0, <2>5, CountOne
  <2> QED
    BY <1>0, <2>1, <2>5, <2>6 DEF BoughtOK
<1>6. ASSUME NEW s \in Servers, NEW e \in events, Refuse(s, e) PROVE BoughtOK'
  <2>1. /\ h[s].pc = "idle" /\ h'[s].pc = "refuse" /\ OthersRun(s)
        /\ UNCHANGED <<acked, bought, crashes>> /\ dups' \in {dups, dups + 1}
    BY <1>6, RefuseFacts
  <2>2. \A t \in Servers : Taken(t)' = Taken(t)
    BY <2>1 DEF Taken, OthersRun, HeldOK, Busy
  <2>3. Purchases' = Purchases
    BY <2>1, <2>2 DEF Purchases
  <2> QED
    BY <1>0, <2>1, <2>3 DEF BoughtOK
<1> QED
  BY <1>1, <1>2, <1>3, <1>4, <1>5, <1>6, NextSteps DEF Steps

\* Of the purchases that Stripe counts as delivered only those are not in the
\* balance whose event did not verify, and one is added twice only when an answer
\* was lost or a process died (stripe_webhook, apply_credit_purchase).
THEOREM PurchasesAreCounted == Spec => []PurchasesCounted
<1>1. Init => HeldOK /\ BoughtOK
  <2> SUFFICES ASSUME Init PROVE HeldOK /\ BoughtOK
    OBVIOUS
  <2>1. HeldOK
    BY DEF Init, HeldOK, Busy, Idle
  <2>2. Purchases = {}
    BY DEF Init, Purchases, Taken, OfType, Idle, NoEvent, None
  <2> QED
    BY <2>1, <2>2, FS_EmptySet DEF Init, BoughtOK
<1>2. BillingInv /\ HeldOK /\ BoughtOK /\ [Next]_vars => (HeldOK /\ BoughtOK)'
  BY HeldStep, BoughtStep
<1>3. BillingInv /\ HeldOK /\ BoughtOK => PurchasesCounted
  <2> SUFFICES ASSUME BillingInv, HeldOK, BoughtOK PROVE PurchasesCounted
    OBVIOUS
  <2> DEFINE A == OfType(acked, {"credits"})
             B == OfType(events, {"credits"})
  <2>1. A \subseteq Purchases /\ Purchases \subseteq B
    BY PurchasesFinite DEF Purchases, OfType
  <2>2. IsFiniteSet(Purchases) /\ IsFiniteSet(B)
    BY PurchasesFinite, FS_Subset DEF BillingInv, EventsOK, OfType
  <2> HIDE DEF A, B
  <2>3. Cardinality(A) <= Cardinality(Purchases) /\ Cardinality(Purchases) <= Cardinality(B)
        /\ IsFiniteSet(A)
    BY <2>1, <2>2, FS_Subset
  <2>4. /\ Cardinality(A) \in Nat /\ Cardinality(B) \in Nat /\ Cardinality(Purchases) \in Nat
        /\ bought \in Nat /\ dups \in Nat /\ crashes \in Nat
    BY <2>2, <2>3, FS_CardinalityType DEF BillingInv, TypeOK
  <2> QED
    BY <2>3, <2>4 DEF BoughtOK, PurchasesCounted, A, B
<1> QED
  BY <1>1, <1>2, <1>3, BillingInvariant, PTL DEF Spec

-----------------------------------------------------------------------------
(* The allotment of the mirrored plan. *)

Allotting(s) == h[s].pc \in {"load", "allot"}

\* While no two processes ever overlapped: what the one that is busy has read
\* is what is there, and an allotment that is not the plan's is about to be set
\* or was cut off.
AllotOK ==
    ~overlap =>
        /\ \A s, t \in Servers : Busy(s) /\ Busy(t) => s = t
        /\ \A s \in Servers :
              /\ h[s].pc = "commit" => h[s].row = subrow
              /\ h[s].pc = "allot" => h[s].incl = balance.incl
              /\ Allotting(s) => h[s].plan = subrow.plan
        /\ subrow # NoRow => \/ balance.incl = Included[subrow.plan] \/ cut
                             \/ \E s \in Servers : Refilling(s)

LEMMA AllotStep ==
    ASSUME BillingInv, AllotOK, [Next]_vars
    PROVE  AllotOK'
<1>1. CASE Customer \/ Charge \/ UNCHANGED vars
  <2>1. UNCHANGED <<h, subrow, overlap, cut>> /\ balance'.incl = balance.incl
    BY <1>1, CustomerFacts, ChargeFacts DEF vars
  <2> QED
    BY <2>1 DEF AllotOK, Busy, Allotting, Refilling
<1> SUFFICES ASSUME ~overlap', ~(Customer \/ Charge \/ UNCHANGED vars) PROVE AllotOK'
  BY <1>1 DEF AllotOK
<1>2. ASSUME NEW s \in Servers, NEW e \in events, Handle(s, e) PROVE AllotOK'
  <2>1. /\ h[s].pc = "idle" /\ OthersRun(s) /\ UNCHANGED <<subrow, cut>>
        /\ overlap' = (overlap \/ \E t \in Servers : Busy(t)) /\ balance'.incl = balance.incl
        /\ \/ h'[s].pc = "commit" /\ h'[s].row = subrow
           \/ h'[s].pc = "load" /\ h'[s].plan = subrow.plan
           \/ h'[s].pc = "answer"
    BY <1>2, HandleFacts
  <2>2. ~overlap /\ \A t \in Servers : ~Busy(t)
    BY <2>1
  <2>3. \A t \in Servers \ {s} : h'[t].pc = "idle"
    BY <2>1, <2>2 DEF OthersRun, Busy
  <2>4. \A t \in Servers : ~Refilling(t)
    BY <2>2 DEF Busy, Refilling
  <2> QED
    BY <2>1, <2>2, <2>3, <2>4 DEF AllotOK, Busy, Allotting
<1>3. ASSUME NEW s \in Servers, CommitSubscription(s) PROVE AllotOK'
  <2>1. /\ h[s].pc = "commit" /\ UNCHANGED <<balance, overlap, cut>> /\ OthersRun(s)
        /\ h[s].ev.type \in SubscriptionTypes
        /\ \/ h[s].row = NoRow /\ subrow # NoRow
           \/ /\ h'[s].ev = h[s].ev
              /\ subrow = NoRow => subrow'.plan = h[s].plan
              /\ h[s].row = subrow => subrow'.plan = h[s].plan
              /\ IF PlanChanged(s) THEN h'[s].pc = "load" /\ h'[s].plan = h[s].plan
                                   ELSE h'[s].pc = "answer"
    BY <1>3, CommitFacts
  <2>2. /\ h[s].row = subrow
        /\ \A t \in Servers \ {s} : h[t].pc = "idle"
        /\ subrow # NoRow => balance.incl = Included[subrow.plan] \/ cut
    BY <2>1 DEF AllotOK, Busy, Refilling
  <2>3. /\ subrow'.plan = h[s].plan /\ h'[s].ev.type \in SubscriptionTypes
        /\ IF PlanChanged(s) THEN h'[s].pc = "load" /\ h'[s].plan = h[s].plan
                             ELSE h'[s].pc = "answer"
    BY <2>1, <2>2
  <2>4. \A t \in Servers \ {s} : h'[t].pc = "idle"
    BY <2>1, <2>2 DEF OthersRun
  <2>5. CASE PlanChanged(s)
    BY <2>3, <2>4, <2>5 DEF AllotOK, Busy, Allotting, Refilling
  <2>6. CASE ~PlanChanged(s)
    <3>1. (balance'.incl = Included[subrow'.plan] \/ cut') /\ h'[s].pc = "answer"
      BY <2>1, <2>2, <2>3, <2>6 DEF PlanChanged
    <3> QED
      BY <2>4, <3>1 DEF AllotOK, Busy, Allotting
  <2> QED
    BY <2>5, <2>6
<1>4. ASSUME NEW s \in Servers, LoadBalance(s) \/ SetAllotment(s) PROVE AllotOK'
  <2>1. /\ UNCHANGED <<subrow, overlap>> /\ OthersRun(s)
        /\ \/ /\ h[s].pc = "load" /\ h'[s].pc = "allot" /\ h'[s].plan = h[s].plan
              /\ h'[s].incl = balance.incl /\ UNCHANGED <<balance, cut>> /\ h'[s].ev = h[s].ev
           \/ /\ h[s].pc = "allot" /\ h'[s].pc = "answer"
              /\ h[s].incl = balance.incl => balance'.incl = Included[h[s].plan]
    BY <1>4, RefillFacts
  <2>2. /\ h[s].plan = subrow.plan /\ (h[s].pc = "allot" => h[s].incl = balance.incl)
        /\ \A t \in Servers \ {s} : h[t].pc = "idle"
    BY <2>1 DEF AllotOK, Busy, Allotting
  <2>3. \A t \in Servers \ {s} : h'[t].pc = "idle"
    BY <2>1, <2>2 DEF OthersRun
  <2>4. h[s].pc = "load" => Refilling(s)' = Refilling(s)
    BY <2>1 DEF Refilling
  <2>5. \A t \in Servers \ {s} : ~Refilling(t)
    BY <2>2 DEF Refilling
  <2> QED
    BY <2>1, <2>2, <2>3, <2>4, <2>5 DEF AllotOK, Busy, Allotting
<1>5. ASSUME NEW s \in Servers, Answer(s) \/ Crash(s) PROVE AllotOK'
  <2>1. /\ UNCHANGED <<subrow, balance, overlap>> /\ OthersRun(s) /\ h'[s].pc = "idle"
        /\ (~Refilling(s) /\ cut' = cut) \/ cut' = (cut \/ Refilling(s))
    BY <1>5, EndFacts DEF Refilling
  <2>2. \A t \in Servers \ {s} : Refilling(t)' = Refilling(t) /\ Allotting(t)' = Allotting(t)
    BY <2>1 DEF OthersRun, Refilling, Allotting
  <2>3. \A t \in Servers : Busy(t)' => Busy(t) /\ h'[t] = h[t]
    BY <2>1 DEF OthersRun, Busy
  <2>4. cut \in BOOLEAN /\ ~Allotting(s)'
    BY <2>1 DEF BillingInv, TypeOK, Allotting
  <2>5. (\E t \in Servers : Refilling(t)) => cut' \/ \E t \in Servers : Refilling(t)'
    BY <2>1, <2>2
  <2>6. cut => cut'
    BY <2>1, <2>4
  <2> QED
    BY <2>1, <2>2, <2>3, <2>4, <2>5, <2>6 DEF AllotOK, Allotting, Busy, OthersRun
<1>6. ASSUME NEW s \in Servers, NEW e \in events, Refuse(s, e) PROVE AllotOK'
  <2>1. /\ h[s].pc = "idle" /\ h'[s].pc = "refuse" /\ OthersRun(s)
        /\ UNCHANGED <<subrow, balance, cut>>
        /\ overlap' = (overlap \/ \E t \in Servers : Busy(t))
    BY <1>6, RefuseFacts
  <2>2. ~overlap /\ \A t \in Servers : ~Busy(t)
    BY <2>1
  <2>3. \A t \in Servers \ {s} : h'[t].pc = "idle"
    BY <2>1, <2>2 DEF OthersRun, Busy
  <2>4. \A t \in Servers : ~Refilling(t)
    BY <2>2 DEF Busy, Refilling
  <2> QED
    BY <2>1, <2>2, <2>3, <2>4 DEF AllotOK, Busy, Allotting
<1> QED
  BY <1>2, <1>3, <1>4, <1>5, <1>6, NextSteps DEF Steps

\* In whatever order its events arrive and however often, refused ones among
\* them, whenever no handler runs the organisation's allotment is the one of the
\* plan that the row mirrors, if no two handled events at once and no process died
\* between the row and its refill with no refill since (stripe_webhook).
THEOREM AllotmentIsThePlans == Spec => []AllotmentFollowsPlan
<1>1. Init => AllotOK
  BY DEF Init, AllotOK, Busy, Allotting, Idle
<1>2. BillingInv /\ AllotOK /\ [Next]_vars => AllotOK'
  BY AllotStep
<1>3. AllotOK => AllotmentFollowsPlan
  BY DEF AllotOK, AllotmentFollowsPlan, Quiet, Busy, Refilling
<1> QED
  BY <1>1, <1>2, <1>3, BillingInvariant, PTL DEF Spec

-----------------------------------------------------------------------------
(* The first invoice. *)

Subscribed(sub) == sub \in Subs /\ stripe[sub].plan # None

OneSub == \A a, b \in Subs : Subscribed(a) /\ Subscribed(b) => a = b

\* What Stripe tells of was opened there, and opening it was told.
OpenedOK ==
    /\ \A sub \in Subs : stripe[sub].live => Subscribed(sub)
    /\ \A sub \in Subs : Subscribed(sub) =>
          \E e \in events : e.type = "created" /\ e.sub = sub
    /\ \A e \in events : e.type \in SubscriptionTypes \cup {"invoice"} => Subscribed(e.sub)

\* An event that got to its answer wrote the row, or found it; while there is one
\* subscription, an invoice that was skipped came before the row and is made up
\* for by the refill that the row brings.
CoverOK ==
    /\ subrow # NoRow => Subscribed(subrow.sub)
    /\ \A e \in acked : e.type \in SubscriptionTypes => subrow # NoRow
    /\ \A s \in Servers : h[s].pc \in {"load", "allot", "answer"}
                           /\ h[s].ev.type \in SubscriptionTypes => subrow # NoRow
    /\ OneSub /\ owed # {} => subrow = NoRow \/ cut \/ \E s \in Servers : Refilling(s)

LEMMA OpenedStep ==
    ASSUME BillingInv, OpenedOK, [Next]_vars
    PROVE  OpenedOK' /\ \A sub \in Subs : Subscribed(sub) => Subscribed(sub)'
<1>1. CASE UNCHANGED <<stripe, events>>
  BY <1>1 DEF OpenedOK, Subscribed
<1>2. stripe \in [Subs -> [live : BOOLEAN, plan : Plans \cup {Unmapped, None}]]
  BY DEF BillingInv, TypeOK
<1>3. None \notin Plans /\ None # Unmapped
  BY BillingAssumption DEF None, Unmapped
<1>4. ASSUME NEW sub \in Subs, NEW plan \in Plans \cup {Unmapped}, Subscribe(sub, plan)
      PROVE  OpenedOK' /\ \A t \in Subs : Subscribed(t) => Subscribed(t)'
  <2> DEFINE a == Msg("created", sub, plan, "active", 1)
             b == Msg("invoice", sub, None, None, 2)
  <2>1. events' = events \cup {a, b}
    BY <1>4 DEF Subscribe, Tell
  <2>2. a.type = "created" /\ a.sub = sub /\ b.sub = sub
    BY DEF Msg
  <2>3. \A t \in Subs : stripe'[t] = IF t = sub THEN [live |-> TRUE, plan |-> plan] ELSE stripe[t]
    BY <1>2, <1>4 DEF Subscribe
  <2>4. \A t \in Subs : Subscribed(t)' <=> t = sub \/ Subscribed(t)
    BY <1>3, <2>3 DEF Subscribed
  <2> HIDE DEF a, b
  <2>5. \A t \in Subs : stripe'[t].live => Subscribed(t)'
    BY <2>3, <2>4 DEF OpenedOK
  <2>6. \A t \in Subs : Subscribed(t)' => \E e \in events' : e.type = "created" /\ e.sub = t
    BY <2>1, <2>2, <2>4 DEF OpenedOK
  <2>7. \A e \in events' : e.type \in SubscriptionTypes \cup {"invoice"} => Subscribed(e.sub)'
    <3>1. \A e \in events : e.type \in SubscriptionTypes \cup {"invoice"} =>
              e.sub \in Subs /\ Subscribed(e.sub)
      BY DEF OpenedOK, Subscribed
    <3>2. Subscribed(sub)'
      BY <2>4
    <3> QED
      BY <2>1, <2>2, <2>4, <3>1, <3>2
  <2> QED
    BY <2>4, <2>5, <2>6, <2>7 DEF OpenedOK
<1>5. ASSUME NEW sub \in Subs, NEW plan \in Plans, NEW status \in Statuses, Modify(sub, plan, status)
      PROVE  OpenedOK' /\ \A t \in Subs : Subscribed(t) => Subscribed(t)'
  <2> DEFINE a == Msg("updated", sub, plan, status, 1)
  <2>1. events' = events \cup {a} /\ a.sub = sub /\ stripe[sub].live
    BY <1>5 DEF Modify, Tell, Msg
  <2>2. \A t \in Subs : /\ stripe'[t].live = stripe[t].live
                        /\ stripe'[t].plan = IF t = sub THEN plan ELSE stripe[t].plan
    BY <1>2, <1>5 DEF Modify
  <2>3. Subscribed(sub) /\ \A t \in Subs : Subscribed(t)' <=> Subscribed(t)
    BY <1>3, <2>1, <2>2 DEF Subscribed, OpenedOK
  <2> HIDE DEF a
  <2>4. \A e \in events : e.type \in SubscriptionTypes \cup {"invoice"} =>
            e.sub \in Subs /\ Subscribed(e.sub)
    BY DEF OpenedOK, Subscribed
  <2>5. \A e \in events' : e.type \in SubscriptionTypes \cup {"invoice"} => Subscribed(e.sub)'
    BY <2>1, <2>3, <2>4
  <2> QED
    BY <2>1, <2>2, <2>3, <2>5 DEF OpenedOK
<1>6. ASSUME NEW sub \in Subs, Renew(sub) \/ Cancel(sub)
      PROVE  OpenedOK' /\ \A t \in Subs : Subscribed(t) => Subscribed(t)'
  <2> DEFINE a == Msg("invoice", sub, None, None, 1)
             b == Msg("deleted", sub, stripe[sub].plan, None, 1)
  <2>1. /\ events' = events \cup {a} \/ events' = events \cup {b}
        /\ a.sub = sub /\ b.type = "deleted" /\ stripe[sub].live
    BY <1>6 DEF Renew, Cancel, Tell, Msg
  <2>2. \A t \in Subs : /\ stripe'[t].live => stripe[t].live
                        /\ stripe'[t].plan = stripe[t].plan
    BY <1>2, <1>6 DEF Renew, Cancel
  <2>3. Subscribed(sub) /\ \A t \in Subs : Subscribed(t)' <=> Subscribed(t)
    BY <2>1, <2>2 DEF Subscribed, OpenedOK
  <2> HIDE DEF a, b
  <2>4. \A e \in events : e.type \in SubscriptionTypes \cup {"invoice"} =>
            e.sub \in Subs /\ Subscribed(e.sub)
    BY DEF OpenedOK, Subscribed
  <2>5. \A e \in events' : e.type \in SubscriptionTypes \cup {"invoice"} => Subscribed(e.sub)'
    BY <2>1, <2>3, <2>4 DEF SubscriptionTypes
  <2> QED
    BY <2>1, <2>2, <2>3, <2>5 DEF OpenedOK
<1>7. CASE Buy
  <2> DEFINE a == Msg("credits", None, None, None, 1)
  <2>1. events' = events \cup {a} /\ a.type = "credits" /\ stripe' = stripe
    BY <1>7 DEF Buy, Tell, Msg
  <2> HIDE DEF a
  <2>2. \A t : Subscribed(t)' <=> Subscribed(t)
    BY <2>1 DEF Subscribed
  <2>3. \A e \in events' : e.type \in SubscriptionTypes \cup {"invoice"} => Subscribed(e.sub)'
    BY <2>1, <2>2 DEF OpenedOK, SubscriptionTypes
  <2> QED
    BY <2>1, <2>2, <2>3 DEF OpenedOK
<1>8. CASE Customer
  BY <1>4, <1>5, <1>6, <1>7, <1>8 DEF Customer
<1> QED
  BY <1>1, <1>8, HandleFacts, RefuseFacts, CommitFacts, RefillFacts, EndFacts, ChargeFacts, NextSteps
  DEF Steps, vars

\* The row's subscription, and the skipped invoices.
LEMMA CoverStep ==
    ASSUME BillingInv, OpenedOK, CoverOK, [Next]_vars
    PROVE  CoverOK'
<1>0. /\ \A sub \in Subs : Subscribed(sub) => Subscribed(sub)'
      /\ subrow # NoRow => subrow.sub \in Subs /\ Subscribed(subrow.sub)
      /\ OneSub' => OneSub
      /\ cut \in BOOLEAN /\ acked \subseteq events
  BY OpenedStep DEF OneSub, CoverOK, Subscribed, BillingInv, TypeOK
<1>1. CASE Customer \/ Charge \/ UNCHANGED vars
  <2>1. UNCHANGED <<h, subrow, acked, owed, cut>>
    BY <1>1, CustomerFacts, ChargeFacts DEF vars
  <2>2. subrow' # NoRow => Subscribed(subrow.sub)'
    <3> DEFINE r == subrow.sub
    <3>1. subrow'.sub = r /\ (subrow' # NoRow => Subscribed(r)')
      BY <1>0, <2>1
    <3> QED
      BY <3>1, <2>1 DEF Subscribed
  <2> QED
    BY <1>0, <2>1, <2>2 DEF CoverOK, Refilling
<1>2. ASSUME NEW s \in Servers, NEW e \in events, Handle(s, e) PROVE CoverOK'
  <2>1. /\ UNCHANGED <<stripe, subrow, acked, cut>> /\ OthersRun(s) /\ h'[s].ev = e
        /\ h[s].pc = "idle"
        /\ \/ h'[s].pc = "commit" /\ owed' = owed
           \/ h'[s].pc \in {"load", "answer"} /\ e.type \notin SubscriptionTypes /\ owed' = owed
           \/ h'[s].pc = "answer" /\ e.type = "invoice" /\ subrow.sub # e.sub
    BY <1>2, HandleFacts DEF SubscriptionTypes
  <2>2. OneSub /\ e.type = "invoice" /\ subrow.sub # e.sub => subrow = NoRow
    BY <1>0 DEF OneSub, OpenedOK, Subscribed
  <2>3. subrow' # NoRow => Subscribed(subrow.sub)'
    BY <2>1 DEF CoverOK, Subscribed
  <2>4. \A t \in Servers : Refilling(t) => Refilling(t)'
    BY <2>1 DEF OthersRun, Refilling
  <2>5. \A e2 \in acked' : e2.type \in SubscriptionTypes => subrow' # NoRow
    BY <2>1 DEF CoverOK
  <2>6. \A t \in Servers : h'[t].pc \in {"load", "allot", "answer"}
                           /\ h'[t].ev.type \in SubscriptionTypes => subrow' # NoRow
    BY <2>1 DEF CoverOK, OthersRun, SubscriptionTypes
  <2>7. OneSub' /\ owed' # {} => subrow' = NoRow \/ cut' \/ \E t \in Servers : Refilling(t)'
    BY <1>0, <2>1, <2>2, <2>4 DEF CoverOK
  <2> QED
    BY <2>3, <2>5, <2>6, <2>7 DEF CoverOK
<1>3. ASSUME NEW s \in Servers, CommitSubscription(s) PROVE CoverOK'
  <2>1. /\ h[s].pc = "commit" /\ h[s].ev.type \in SubscriptionTypes /\ h[s].ev \in events
        /\ UNCHANGED <<stripe, acked, owed, cut>> /\ OthersRun(s)
        /\ \/ subrow # NoRow /\ UNCHANGED subrow /\ h'[s].pc = "idle"
           \/ /\ h[s].row = NoRow => subrow = NoRow
              /\ h'[s].ev = h[s].ev
              /\ subrow' # NoRow /\ subrow'.sub \in {h[s].ev.sub, subrow.sub}
              /\ subrow = NoRow => subrow'.sub = h[s].ev.sub
              /\ IF PlanChanged(s) THEN h'[s].pc = "load" ELSE h'[s].pc = "answer"
    BY <1>3, CommitFacts
  <2>2. Subscribed(h[s].ev.sub)
    BY <2>1 DEF OpenedOK
  <2>3. subrow' # NoRow /\ Subscribed(subrow.sub)'
    BY <2>1, <2>2 DEF CoverOK, Subscribed
  <2>4. \A t \in Servers : Refilling(t) => Refilling(t)'
    BY <2>1 DEF OthersRun, Refilling
  <2>5. subrow = NoRow => Refilling(s)'
    BY <2>1 DEF PlanChanged, Refilling, BillingInv, PlansTold
  <2>6. OneSub' /\ owed' # {} => cut' \/ \E t \in Servers : Refilling(t)'
    BY <1>0, <2>1, <2>4, <2>5 DEF CoverOK
  <2> QED
    BY <2>3, <2>6 DEF CoverOK
<1>4. ASSUME NEW s \in Servers, LoadBalance(s) \/ SetAllotment(s) PROVE CoverOK'
  <2>1. /\ UNCHANGED <<stripe, subrow, acked>> /\ OthersRun(s) /\ h'[s].ev = h[s].ev
        /\ h[s].pc \in {"load", "allot"}
        /\ \/ /\ h'[s].pc = "allot" /\ owed' = owed
              /\ cut' = cut
           \/ owed' = {}
    BY <1>4, RefillFacts
  <2>2. subrow' # NoRow => Subscribed(subrow.sub)'
    BY <2>1 DEF CoverOK, Subscribed
  <2>3. \A t \in Servers : h'[t].pc \in {"load", "allot", "answer"}
                           /\ h'[t].ev.type \in SubscriptionTypes => subrow' # NoRow
    BY <2>1 DEF CoverOK, OthersRun
  <2>4. owed' # {} => cut' = cut /\ \A t \in Servers : Refilling(t) => Refilling(t)'
    BY <2>1 DEF OthersRun, Refilling
  <2> QED
    BY <1>0, <2>1, <2>2, <2>3, <2>4 DEF CoverOK
<1>5. ASSUME NEW s \in Servers, Answer(s) \/ Crash(s) PROVE CoverOK'
  <2>1. /\ UNCHANGED <<stripe, subrow, owed>> /\ OthersRun(s) /\ h'[s].pc = "idle"
        /\ \/ ~Refilling(s) /\ cut' = cut
           \/ cut' = (cut \/ Refilling(s))
        /\ \/ acked' = acked
           \/ h[s].pc = "answer" /\ acked' = acked \cup {h[s].ev}
    BY <1>5, EndFacts DEF Refilling
  <2>2. subrow' # NoRow => Subscribed(subrow.sub)'
    BY <2>1 DEF CoverOK, Subscribed
  <2>3. \A e \in acked' : e.type \in SubscriptionTypes => subrow' # NoRow
    BY <2>1 DEF CoverOK
  <2>4. \A t \in Servers : h'[t].pc \in {"load", "allot", "answer"}
                           /\ h'[t].ev.type \in SubscriptionTypes => subrow' # NoRow
    BY <2>1 DEF CoverOK, OthersRun
  <2>5. \A t \in Servers \ {s} : Refilling(t)' = Refilling(t)
    BY <2>1 DEF OthersRun, Refilling
  <2>6. (\E t \in Servers : Refilling(t)) => cut' \/ \E t \in Servers : Refilling(t)'
    BY <2>1, <2>5
  <2>7. cut => cut'
    BY <1>0, <2>1
  <2> QED
    BY <1>0, <2>1, <2>2, <2>3, <2>4, <2>6, <2>7 DEF CoverOK
<1>6. ASSUME NEW s \in Servers, NEW e \in events, Refuse(s, e) PROVE CoverOK'
  <2>1. /\ UNCHANGED <<stripe, subrow, acked, owed, cut>> /\ OthersRun(s)
        /\ h[s].pc = "idle" /\ h'[s].pc = "refuse"
    BY <1>6, RefuseFacts
  <2>2. subrow' # NoRow => Subscribed(subrow.sub)'
    BY <2>1 DEF CoverOK, Subscribed
  <2>3. \A t \in Servers : h'[t].pc \in {"load", "allot", "answer"}
                           /\ h'[t].ev.type \in SubscriptionTypes => subrow' # NoRow
    BY <2>1 DEF CoverOK, OthersRun
  <2>4. \A t \in Servers : Refilling(t) => Refilling(t)'
    BY <2>1 DEF OthersRun, Refilling
  <2> QED
    BY <1>0, <2>1, <2>2, <2>3, <2>4 DEF CoverOK
<1> QED
  BY <1>1, <1>2, <1>3, <1>4, <1>5, <1>6, NextSteps DEF Steps

\* An invoice that comes before the row of its subscription is skipped, and the
\* refill that the row brings makes up for it: an organisation that subscribed
\* once is owed none as soon as a subscription event of it was answered that did
\* verify, if none of its refills was cut off by the end of a process
\* (refill_credits_for_invoice, stripe_webhook).
THEOREM FirstInvoiceIsCovered == Spec => []FirstInvoiceCovered
<1>1. Init => OpenedOK /\ CoverOK
  BY DEF Init, OpenedOK, CoverOK, Subscribed, Idle
<1>2. BillingInv /\ OpenedOK /\ CoverOK /\ [Next]_vars => (OpenedOK /\ CoverOK)'
  BY OpenedStep, CoverStep
<1>3. BillingInv /\ OpenedOK /\ CoverOK => FirstInvoiceCovered
  <2> DEFINE B == {s \in Subs : stripe[s].plan # None}
  <2> SUFFICES ASSUME BillingInv, OpenedOK, CoverOK, Quiet, ~cut, Cardinality(B) = 1,
                      OfType(acked, SubscriptionTypes) # {}
               PROVE  owed = {}
    BY DEF FirstInvoiceCovered
  <2>1. IsFiniteSet(B)
    <3> DEFINE C == {e \in events : e.type = "created"}
               T == {e.sub : e \in C}
               f == [e \in C |-> e.sub]
    <3>1. IsFiniteSet(C)
      BY FS_Subset DEF BillingInv, EventsOK
    <3>2. f \in Surjection(C, T)
      BY DEF Surjection
    <3>3. B \subseteq T
      BY DEF OpenedOK, Subscribed
    <3> HIDE DEF B, C, T, f
    <3>4. IsFiniteSet(T)
      BY <3>1, <3>2, FS_Surjection
    <3> QED
      BY <3>3, <3>4, FS_Subset
  <2>2. PICK sub : B = {sub}
    <3> HIDE DEF B
    <3>1. B # {}
      BY FS_EmptySet
    <3>2. PICK b \in B : TRUE
      BY <3>1
    <3>3. Cardinality(B \ {b}) = 0 /\ IsFiniteSet(B \ {b})
      BY <2>1, <3>2, FS_RemoveElement
    <3>4. B \ {b} = {}
      BY <3>3, FS_EmptySet
    <3> QED
      BY <3>2, <3>4
  <2>3. OneSub
    BY <2>2 DEF OneSub, Subscribed
  <2>4. subrow # NoRow
    BY DEF OfType, CoverOK
  <2>5. \A s \in Servers : ~Refilling(s)
    BY DEF Quiet, Busy, Refilling
  <2> QED
    BY <2>3, <2>4, <2>5 DEF CoverOK
<1> QED
  BY <1>1, <1>2, <1>3, BillingInvariant, PTL DEF Spec
=============================================================================
