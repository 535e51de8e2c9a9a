---------------------------- MODULE Administration ----------------------------
(***************************************************************************)
(* What administrators set up for LLM calls: the registry of models, their *)
(* prices, the routes from tasks to models and the administrators          *)
(* themselves; and the metered calls that read it.                         *)
(*                                                                         *)
(* A request of an administrator is two steps: its SELECTs with the checks *)
(* and its write with the commit.  Nothing is locked in between, so other  *)
(* requests may commit what the checks would have refused.                 *)
(***************************************************************************)
EXTENDS Naturals, FiniteSets

CONSTANTS
    Users,          \* accounts that are or may become administrators
    Protected,      \* ADMIN_EMAILS
    FirstAdmins,    \* administrators at first
    Providers,
    Keyed,          \* providers with an API key
    Models,
    ProviderOf,     \* the provider of each model
    Inner,          \* the model the fallback provider takes by itself
    Tasks,          \* task types, with Default for '_default'
    Default,
    FirstRoutes,    \* task_routing_config at first
    Callers,        \* metered calls
    None,
    MaxDay,         \* bound: the calendar stops here
    MaxRequests     \* bound: requests of all administrators together

Keys == Providers \X Tasks
ASSUME NamesAssumption ==
    /\ None \notin Models /\ Default \in Tasks /\ Inner \in Models /\ Keyed \subseteq Providers
    /\ ProviderOf \in [Models -> Providers]
ASSUME FirstAssumption ==
    /\ FirstAdmins \subseteq Users /\ FirstAdmins # {}
    /\ FirstRoutes \in [Keys -> Models \cup {None}]
    /\ \A k \in Keys : FirstRoutes[k] # None => ProviderOf[FirstRoutes[k]] = k[1]
ASSUME BoundsAssumption == MaxDay \in Nat /\ MaxRequests \in Nat

VARIABLES
    today,
    registry,       \* model_registry: "none", "active" or "inactive"
    price,          \* pricing_config: the effective dates of each model's rows
    route,          \* task_routing_config
    admin,          \* users.is_admin
    req,            \* the open request of each user
    made,           \* requests so far
    call,           \* each metered call
    crossed,        \* history: models deleted, or routed to, over a change not read
    unpriced,       \* history: models whose price was deleted over a change not read
    outvoted        \* history: somebody no longer an administrator changed one

config == <<registry, price, route>>
history == <<crossed, unpriced, outvoted>>
vars == <<today, config, admin, req, made, call, history>>

States == {"none", "active", "inactive"}
Dates == 0..MaxDay
Outcomes == {"open", "unavailable", "ambiguous", "unrouted", "unregistered", "unpriced", "charged", "unsettled"}
Call == [task : Tasks, step : {"hold", "settle", "done"}, sent : Models, held : Models \cup {None},
         outcome : Outcomes, touched : BOOLEAN]

TypeOK ==
    /\ today \in Dates /\ made \in 0..MaxRequests
    /\ registry \in [Models -> States]
    /\ price \in [Models -> SUBSET Dates]
    /\ route \in [Keys -> Models \cup {None}]
    /\ admin \in [Users -> BOOLEAN]
    /\ call \in [Callers -> Call \cup {None}]
    /\ crossed \subseteq Models /\ unpriced \subseteq Models /\ outvoted \in BOOLEAN
    /\ \A k \in Keys : route[k] # None => ProviderOf[route[k]] = k[1]

\* The seeds of the migrations: every model active and priced.
Init ==
    /\ today = 0 /\ made = 0
    /\ registry = [m \in Models |-> "active"] /\ price = [m \in Models |-> {0}]
    /\ route = FirstRoutes /\ admin = [u \in Users |-> u \in FirstAdmins]
    /\ req = [u \in Users |-> None] /\ call = [c \in Callers |-> None]
    /\ crossed = {} /\ unpriced = {} /\ outvoted = FALSE

-----------------------------------------------------------------------------
(* What the calls look up *)

Active(m) == registry[m] = "active"
PricedOn(dates, day) == \E d \in dates : d <= day
Priced(m) == PricedOn(price[m], today)

\* The exact task, or the default; one_or_none raises if two providers have it.
For(t) == {k \in Keys : k[2] = t /\ route[k] # None}
Found(t) == IF For(t) # {} THEN For(t) ELSE For(Default)
Ambiguous(t) == \E k, l \in Found(t) : k # l

-----------------------------------------------------------------------------
(* The two steps of a request *)

\* require_admin and the SELECTs: "row" is the row the request has loaded, if
\* it has, "seen" what its checks have looked at.
Read(u, does, on, to, row, seen) ==
    /\ req[u] = None /\ admin[u]
    /\ made < MaxRequests /\ made' = made + 1
    /\ req' = [req EXCEPT ![u] = [does |-> does, on |-> on, to |-> to, row |-> row, seen |-> seen]]
    /\ UNCHANGED <<today, config, admin, call, history>>

Doing(u, does) == req[u] # None /\ req[u].does = does

NoRow == <<"none">>
Lost == <<"lost">>
\* A deleted row is gone for the requests that have loaded it: their UPDATE or
\* DELETE finds none with its id, also when an equal one is inserted again.
Done(u, gone) ==
    /\ req' = [x \in Users |-> IF x = u THEN None
                               ELSE IF req[x] # None /\ gone # NoRow /\ req[x].row = gone
                                 THEN [req[x] EXCEPT !.row = Lost] ELSE req[x]]
    /\ UNCHANGED <<today, made, admin, outvoted>>
Kept(u) == req[u].row # Lost

\* What is in a committed transaction touches the calls in flight.
Configured(reg, pr, rt) ==
    /\ registry' = reg /\ price' = pr /\ route' = rt
    /\ call' = [c \in Callers |-> IF call[c] # None /\ <<reg, pr, rt>> # config
                                    THEN [call[c] EXCEPT !.touched = TRUE] ELSE call[c]]
Unconfigured == UNCHANGED <<config, call>>

ModelRow(m) == <<"model", m>>
PriceRow(m, d) == <<"price", m, d>>
RouteRow(k) == <<"route", k>>

-----------------------------------------------------------------------------
(* Models *)

ReadForCreateModel(u, m) == /\ registry[m] = "none"
                            /\ Read(u, "createModel", m, "active", NoRow, {})

\* The UNIQUE constraint answers 500.
CreateModel(u) ==
    /\ Doing(u, "createModel")
    /\ LET m == req[u].on IN
       IF registry[m] = "none" THEN Configured([registry EXCEPT ![m] = "active"], price, route)
                               ELSE Unconfigured
    /\ Done(u, NoRow) /\ UNCHANGED <<crossed, unpriced>>

ReadForUpdateModel(u, m, to) == /\ registry[m] # "none"
                                /\ Read(u, "updateModel", m, to, ModelRow(m), registry[m])

\* Only a value that differs from the one loaded is in the UPDATE.
UpdateModel(u) ==
    /\ Doing(u, "updateModel")
    /\ LET r == req[u] IN
       IF Kept(u) /\ r.to # r.seen THEN Configured([registry EXCEPT ![r.on] = r.to], price, route)
                                   ELSE Unconfigured
    /\ Done(u, NoRow) /\ UNCHANGED <<crossed, unpriced>>

RoutesTo(m) == {k \in Keys : route[k] = m}
DefaultRoutesTo(m) == {k \in Keys : k[2] = Default /\ route[k] = m}
NoDefaultRoutesTo(m) == DefaultRoutesTo(m) = {}
NoRoutesTo(m) == RoutesTo(m) = {}

ReadForDeleteModel(u, m) == /\ registry[m] # "none" /\ NoRoutesTo(m)
                            /\ Read(u, "deleteModel", m, "none", ModelRow(m), RoutesTo(m))

DeleteModel(u) ==
    LET m == req[u].on IN
    /\ Doing(u, "deleteModel")
    /\ IF Kept(u)
         THEN /\ Configured([registry EXCEPT ![m] = "none"], price, route)
              /\ crossed' = IF RoutesTo(m) = req[u].seen THEN crossed ELSE crossed \cup {m}
              /\ Done(u, ModelRow(m))
         ELSE Unconfigured /\ Done(u, NoRow) /\ UNCHANGED crossed
    /\ UNCHANGED unpriced

-----------------------------------------------------------------------------
(* Prices.  What a price is does not matter here: Metering has it change.  *)

ReadForCreatePrice(u, m, d) == /\ registry[m] # "none" /\ d \notin price[m]
                               /\ Read(u, "createPrice", m, d, NoRow, {})

CreatePrice(u) ==
    /\ Doing(u, "createPrice")
    /\ LET r == req[u] IN
       IF r.to \notin price[r.on]
         THEN Configured(registry, [price EXCEPT ![r.on] = @ \cup {r.to}], route)
         ELSE Unconfigured
    /\ Done(u, NoRow) /\ UNCHANGED <<crossed, unpriced>>

\* What the check of delete_pricing looks at.
PriceView(m, d) == [current |-> d <= today, active |-> Active(m),
                    others |-> {e \in price[m] \ {d} : e <= today}]
LastPriceOfIdle(view) == view.current /\ ~view.active /\ view.others = {}
LastPrice(view) == view.current /\ view.active /\ view.others = {}

ReadForDeletePrice(u, m, d) == /\ d \in price[m] /\ ~LastPrice(PriceView(m, d))
                               /\ Read(u, "deletePrice", m, d, PriceRow(m, d), PriceView(m, d))

DeletePrice(u) ==
    LET m == req[u].on
        d == req[u].to IN
    /\ Doing(u, "deletePrice")
    /\ IF Kept(u)
         THEN /\ Configured(registry, [price EXCEPT ![m] = @ \ {d}], route)
              /\ unpriced' = IF PriceView(m, d) = req[u].seen THEN unpriced ELSE unpriced \cup {m}
              /\ Done(u, PriceRow(m, d))
         ELSE Unconfigured /\ Done(u, NoRow) /\ UNCHANGED unpriced
    /\ UNCHANGED crossed

-----------------------------------------------------------------------------
(* Routes *)

RoutableByAny(p, m) == Active(m)
Routable(p, m) == Active(m) /\ ProviderOf[m] = p

\* The UNIQUE constraint is on provider and task: two providers may have one.
ReadForCreateRoute(u, k, m) == /\ Routable(k[1], m) /\ route[k] = None
                               /\ Read(u, "createRoute", k, m, NoRow, Active(m))

WriteRoute(u) ==
    LET m == req[u].to IN
    /\ Configured(registry, price, [route EXCEPT ![req[u].on] = m])
    /\ crossed' = IF m # None /\ Active(m) # req[u].seen THEN crossed \cup {m} ELSE crossed
    /\ UNCHANGED unpriced

Untouched == Unconfigured /\ UNCHANGED <<crossed, unpriced>>

CreateRoute(u) ==
    /\ Doing(u, "createRoute")
    /\ IF route[req[u].on] = None THEN WriteRoute(u) ELSE Untouched
    /\ Done(u, NoRow)

\* An update to the model the route has writes nothing.
ReadForUpdateRoute(u, k, m) == /\ route[k] \notin {None, m} /\ Routable(k[1], m)
                               /\ Read(u, "updateRoute", k, m, RouteRow(k), Active(m))

UpdateRoute(u) ==
    /\ Doing(u, "updateRoute")
    /\ IF Kept(u) THEN WriteRoute(u) ELSE Untouched
    /\ Done(u, NoRow)

ReadForDeleteRoute(u, k) == /\ route[k] # None
                            /\ Read(u, "deleteRoute", k, None, RouteRow(k), {})

DeleteRoute(u) ==
    /\ Doing(u, "deleteRoute")
    /\ IF Kept(u) THEN WriteRoute(u) /\ Done(u, RouteRow(req[u].on)) ELSE Untouched /\ Done(u, NoRow)

-----------------------------------------------------------------------------
(* Administrators *)

MayDemoteAny(u, v) == v \notin Protected
MayDemote(u, v) == v # u /\ v \notin Protected

ReadForToggle(u, v, to) == /\ to \/ MayDemote(u, v)
                           /\ Read(u, "toggle", v, to, NoRow, admin[v])

Toggle(u) ==
    LET r == req[u] IN
    /\ Doing(u, "toggle")
    /\ admin' = IF r.to # r.seen THEN [admin EXCEPT ![r.on] = r.to] ELSE admin
    /\ outvoted' = (outvoted \/ ~admin[u])
    /\ req' = [req EXCEPT ![u] = None]
    /\ UNCHANGED <<today, config, made, call, crossed, unpriced>>

-----------------------------------------------------------------------------
(* A metered call: MeteredLLMProvider.complete resolves the route, reserve *)
(* resolves it again and looks up the price, settle charges the answer.    *)

Ended(c, why) == call' = [call EXCEPT ![c].step = "done", ![c].outcome = why]
Calls == UNCHANGED <<today, config, admin, req, made, history>>

New(t, sent) == [task |-> t, step |-> "hold", sent |-> sent, held |-> None, outcome |-> "open", touched |-> FALSE]
Refused(t, why) == [New(t, Inner) EXCEPT !.step = "done", !.outcome = why]

Dispatch(c, t) ==
    /\ call[c] = None /\ t # Default
    /\ \/ Ambiguous(t) /\ call' = [call EXCEPT ![c] = Refused(t, "ambiguous")]
       \/ Found(t) = {} /\ call' = [call EXCEPT ![c] = New(t, Inner)]
       \/ /\ ~Ambiguous(t)
          /\ \E k \in Found(t) :
               call' = [call EXCEPT ![c] = IF k[1] \in Keyed THEN New(t, route[k])
                                                              ELSE Refused(t, "unavailable")]
    /\ Calls

\* What reserve does with the route it has found.
Why(m) == IF ~Active(m) THEN "unregistered" ELSE "unpriced"
MayHoldUnpriced(m) == Active(m)
MayHold(m) == Active(m) /\ Priced(m)

Hold(c) ==
    /\ call[c] # None /\ call[c].step = "hold"
    /\ LET t == call[c].task IN
       \/ Ambiguous(t) /\ Ended(c, "ambiguous")
       \/ Found(t) = {} /\ Ended(c, "unrouted")
       \/ /\ ~Ambiguous(t)
          /\ \E k \in Found(t) :
               IF MayHold(route[k])
                 THEN call' = [call EXCEPT ![c].step = "settle", ![c].held = route[k]]
                 ELSE Ended(c, Why(route[k]))
    /\ Calls

\* The answer names the model it was asked for; a failed call is Metering's.
Settle(c) ==
    /\ call[c] # None /\ call[c].step = "settle"
    /\ LET m == call[c].sent IN Ended(c, IF Active(m) /\ Priced(m) THEN "charged" ELSE "unsettled")
    /\ Calls

-----------------------------------------------------------------------------
Tick ==
    /\ today < MaxDay /\ today' = today + 1
    /\ UNCHANGED <<config, admin, req, made, call, history>>

Begin(u) ==
    \/ \E m \in Models : ReadForCreateModel(u, m) \/ ReadForDeleteModel(u, m)
    \/ \E m \in Models, to \in {"active", "inactive"} : ReadForUpdateModel(u, m, to)
    \/ \E m \in Models, d \in Dates : ReadForCreatePrice(u, m, d) \/ ReadForDeletePrice(u, m, d)
    \/ \E k \in Keys, m \in Models : ReadForCreateRoute(u, k, m) \/ ReadForUpdateRoute(u, k, m)
    \/ \E k \in Keys : ReadForDeleteRoute(u, k)
    \/ \E v \in Users, to \in BOOLEAN : ReadForToggle(u, v, to)

Finish(u) ==
    \/ CreateModel(u) \/ UpdateModel(u) \/ DeleteModel(u) \/ CreatePrice(u) \/ DeletePrice(u)
    \/ CreateRoute(u) \/ UpdateRoute(u) \/ DeleteRoute(u) \/ Toggle(u)

Serve(c) == (\E t \in Tasks : Dispatch(c, t)) \/ Hold(c) \/ Settle(c)

Next == Tick \/ (\E u \in Users : Begin(u) \/ Finish(u)) \/ \E c \in Callers : Serve(c)

Spec == Init /\ [][Next]_vars

-----------------------------------------------------------------------------
(* Properties *)

\* "Cannot delete if referenced by task_routing_config" (REQ-022:986): no route
\* leads to a model that is not registered, unless the model was deleted, or the
\* route written, over a change the request had not read.
RoutesAreRegistered == \A k \in Keys :
    route[k] # None => registry[route[k]] # "none" \/ route[k] \in crossed

\* "Cannot delete the only current pricing" (REQ-022:1060): an active model does
\* not lose its last price, unless another deletion, an activation or midnight
\* came between the check and the delete.
KeepsPrice == \A m \in Models :
    Active(m) /\ Priced(m) => PricedOn(price'[m], today') \/ m \in unpriced'
StaysPriced == [][KeepsPrice]_vars

\* There is always an administrator: nobody removes themselves, and two who
\* remove each other do so only when one of them was already removed.
SomeAdmin == (\E u \in Users : admin[u]) \/ outvoted

\* A call for which money is held was sent to the model it is held for and can be
\* charged for it, unless the set-up was changed while it was in flight.
HeldIsCharged == \A c \in Callers :
    call[c] # None /\ call[c].held # None /\ ~call[c].touched
        => call[c].held = call[c].sent /\ call[c].outcome # "unsettled"
=============================================================================
