------------------------- MODULE AdministrationProofs -------------------------
(***************************************************************************)
(* Theorems of Administration, for any models, routes, requests and calls: *)
(* its types, and that what the checks promise is lost only in the races   *)
(* the histories name.                                                     *)
(***************************************************************************)
EXTENDS Administration, TLAPS

(* What the checks of an open request have seen: facts about what was read *)
(* and never about the state, which may have moved since.                  *)
SeenOK(u, r) ==
    /\ r = [does |-> r.does, on |-> r.on, to |-> r.to, row |-> r.row, seen |-> r.seen]
    /\ r.does \in {"createModel", "updateModel", "deleteModel", "createPrice", "deletePrice"} => r.on \in Models
    /\ r.does = "updateModel" => r.to \in {"active", "inactive"}
    /\ r.does = "deleteModel" => r.seen = {}
    /\ r.does \in {"createPrice", "deletePrice"} => r.to \in Dates
    /\ r.does = "deletePrice" => ~LastPrice(r.seen)
    /\ r.does \in {"createRoute", "updateRoute", "deleteRoute"} => r.on \in Keys
    /\ r.does \in {"createRoute", "updateRoute"}
          => r.to \in Models /\ ProviderOf[r.to] = r.on[1] /\ r.seen = TRUE
    /\ r.does = "deleteRoute" => r.to = None
    /\ r.does = "toggle" => r.on \in Users /\ r.to \in BOOLEAN /\ (r.to \/ r.on # u)

(* What a call that nothing was committed under has looked up still holds. *)
CallOK(x) ==
    /\ x.outcome # "unsettled" \/ x.touched
    /\ x.step = "hold" => x.held = None
    /\ x.step = "hold" /\ ~x.touched =>
          ~Ambiguous(x.task) /\ \A k \in Found(x.task) : route[k] = x.sent
    /\ x.held # None /\ ~x.touched => x.held = x.sent
    /\ x.step = "settle" /\ ~x.touched => Active(x.sent) /\ Priced(x.sent)

Inv ==
    /\ TypeOK
    /\ \A u \in Users : req[u] # None => SeenOK(u, req[u])
    /\ \A c \in Callers : call[c] # None => CallOK(call[c])
    /\ RoutesAreRegistered
    /\ SomeAdmin

LEMMA InitInv == Init => Inv
<1> SUFFICES ASSUME Init PROVE Inv
  OBVIOUS
<1> USE NamesAssumption, FirstAssumption, BoundsAssumption
<1>1. TypeOK
  <2>1. 0 \in Dates /\ made \in 0..MaxRequests
    BY DEF Init, Dates
  <2>2. price \in [Models -> SUBSET Dates]
    BY <2>1 DEF Init
  <2>3. registry \in [Models -> States] /\ admin \in [Users -> BOOLEAN]
    BY DEF Init, States
  <2>4. call \in [Callers -> Call \cup {None}]
    BY DEF Init
  <2>5. route \in [Keys -> Models \cup {None}] /\ \A k \in Keys : route[k] # None => ProviderOf[route[k]] = k[1]
    BY DEF Init
  <2> QED
    BY <2>1, <2>2, <2>3, <2>4, <2>5 DEF Init, TypeOK
<1>2. RoutesAreRegistered
  BY <1>1 DEF Init, TypeOK, RoutesAreRegistered
<1> QED
  BY <1>1, <1>2 DEF Init, Inv, SomeAdmin

-----------------------------------------------------------------------------
(* What the operators the actions share do to the parts of Inv.            *)

(* The first step of a request records what its guards have seen.          *)
LEMMA ReadKeeps ==
    ASSUME Inv, NEW u \in Users, NEW does, NEW on, NEW to, NEW row, NEW seen,
           Read(u, does, on, to, row, seen),
           SeenOK(u, [does |-> does, on |-> on, to |-> to, row |-> row, seen |-> seen])
    PROVE  Inv' /\ KeepsPrice
<1> USE DEF Read, config, history
<1>1. TypeOK'
  BY BoundsAssumption DEF Inv, TypeOK, Keys
<1>2. \A x \in Users : req'[x] # None => SeenOK(x, req'[x])
  <2> SUFFICES ASSUME NEW x \in Users, req'[x] # None PROVE SeenOK(x, req'[x])
    OBVIOUS
  <2>1. x # u => req'[x] = req[x]
    OBVIOUS
  <2>2. x = u => req'[x] = [does |-> does, on |-> on, to |-> to, row |-> row, seen |-> seen]
                 \/ req'[x] = req[x]
    OBVIOUS
  <2> QED
    BY <2>1, <2>2 DEF Inv
<1>3. (\A c \in Callers : call[c] # None => CallOK(call[c]))'
  BY DEF Inv, CallOK, Ambiguous, Found, For, Active, Priced
<1>4. RoutesAreRegistered' /\ SomeAdmin' /\ KeepsPrice
  BY DEF Inv, RoutesAreRegistered, SomeAdmin, KeepsPrice, Priced
<1> QED
  BY <1>1, <1>2, <1>3, <1>4 DEF Inv, SeenOK, LastPrice, Dates, Keys

(* A request that ends leaves the others with what they have seen.         *)
LEMMA DoneKeeps ==
    ASSUME Inv, NEW u \in Users, NEW gone, Done(u, gone)
    PROVE  (\A x \in Users : req[x] # None => SeenOK(x, req[x]))'
<1> SUFFICES ASSUME NEW x \in Users, req'[x] # None PROVE SeenOK(x, req'[x])
  BY DEF SeenOK, LastPrice, Dates, Keys
<1>1. x # u /\ req[x] # None
  BY DEF Done
<1>2. req'[x] = req[x] \/ req'[x] = [req[x] EXCEPT !.row = Lost]
  BY <1>1 DEF Done
<1>3. SeenOK(x, req[x])
  BY <1>1 DEF Inv
<1>4. SeenOK(x, [req[x] EXCEPT !.row = Lost])
  BY <1>3 DEF SeenOK, Lost
<1> QED
  BY <1>2, <1>3, <1>4

(* A commit marks the calls in flight, unless it changes nothing.          *)
LEMMA ConfiguredKeeps ==
    ASSUME Inv, NEW reg, NEW pr, NEW rt, Configured(reg, pr, rt), today' = today
    PROVE  /\ call' \in [Callers -> Call \cup {None}]
           /\ (\A c \in Callers : call[c] # None => CallOK(call[c]))'
<1>0. call \in [Callers -> Call \cup {None}]
  BY DEF Inv, TypeOK
<1>1. ASSUME <<reg, pr, rt>> = config
      PROVE  /\ call' \in [Callers -> Call \cup {None}]
             /\ (\A c \in Callers : call[c] # None => CallOK(call[c]))'
  <2>1. call' = call /\ registry' = registry /\ price' = price /\ route' = route
    BY <1>0, <1>1 DEF Configured, config
  <2> QED
    BY <2>1, <1>0 DEF Inv, CallOK, Ambiguous, Found, For, Active, Priced
<1>2. ASSUME <<reg, pr, rt>> # config
      PROVE  /\ call' \in [Callers -> Call \cup {None}]
             /\ (\A c \in Callers : call[c] # None => CallOK(call[c]))'
  <2>1. call' = [c \in Callers |-> IF call[c] # None THEN [call[c] EXCEPT !.touched = TRUE] ELSE call[c]]
    BY <1>2 DEF Configured
  <2>2. ASSUME NEW c \in Callers, call[c] # None
        PROVE  /\ call'[c] \in Call /\ call'[c].touched = TRUE
               /\ call'[c].step = call[c].step /\ call'[c].held = call[c].held
    <3>1. call[c] \in Call
      BY <1>0, <2>2
    <3>2. call'[c] = [call[c] EXCEPT !.touched = TRUE]
      BY <2>1, <2>2
    <3> QED
      BY <3>1, <3>2 DEF Call
  <2>3. call' \in [Callers -> Call \cup {None}]
    BY <1>0, <2>1, <2>2
  <2>4. ASSUME NEW c \in Callers, call'[c] # None PROVE CallOK(call[c])'
    <3>1. call[c] # None
      BY <2>1, <2>4
    <3>2. call[c].step = "hold" => call[c].held = None
      BY <3>1 DEF Inv, CallOK
    <3> QED
      BY <2>2, <3>1, <3>2 DEF CallOK
  <2> QED
    BY <2>3, <2>4
<1> QED
  BY <1>1, <1>2
-----------------------------------------------------------------------------
(* The second step of a request                                            *)

ConfigOK ==
    /\ registry \in [Models -> States]
    /\ price \in [Models -> SUBSET Dates]
    /\ route \in [Keys -> Models \cup {None}]
    /\ \A k \in Keys : route[k] # None => ProviderOf[route[k]] = k[1]
    /\ crossed \subseteq Models /\ unpriced \subseteq Models
    /\ RoutesAreRegistered

(* What Inv says of the tables.                                            *)
LEMMA Has == Inv => ConfigOK
BY DEF Inv, TypeOK, ConfigOK

(* A write that leaves the configuration in order leaves Inv.              *)
LEMMA WriteKeeps ==
    ASSUME Inv, NEW u \in Users, NEW gone, Done(u, gone), ConfigOK',
           (\E reg, pr, rt : Configured(reg, pr, rt)) \/ Unconfigured
    PROVE  Inv'
<1>1. today' = today /\ made' = made /\ admin' = admin /\ outvoted' = outvoted
  BY DEF Done
<1>2. /\ call' \in [Callers -> Call \cup {None}]
      /\ (\A c \in Callers : call[c] # None => CallOK(call[c]))'
  <2>1. CASE Unconfigured
    BY <1>1, <2>1 DEF Unconfigured, config, Inv, TypeOK, CallOK, Ambiguous, Found, For, Active, Priced
  <2>2. CASE \E reg, pr, rt : Configured(reg, pr, rt)
    BY <1>1, <2>2, ConfiguredKeeps
  <2> QED
    BY <2>1, <2>2
<1>3. TypeOK'
  BY <1>1, <1>2 DEF Inv, TypeOK, ConfigOK
<1>4. (\A x \in Users : req[x] # None => SeenOK(x, req[x]))'
  BY DoneKeeps
<1>5. SomeAdmin'
  BY <1>1 DEF Inv, SomeAdmin
<1> QED
  BY <1>2, <1>3, <1>4, <1>5 DEF Inv, ConfigOK

(* The route written is for a model of its provider, and the model is      *)
(* registered or has left the registry since the request looked.           *)
LEMMA RouteWritten ==
    ASSUME Inv, NEW u \in Users, WriteRoute(u), req[u].on \in Keys,
           req[u].to # None =>
              req[u].to \in Models /\ ProviderOf[req[u].to] = req[u].on[1] /\ req[u].seen = TRUE
    PROVE  ConfigOK' /\ (\E reg, pr, rt : Configured(reg, pr, rt)) /\ price' = price
<1> DEFINE m == req[u].to
           k == req[u].on
<1>1. ConfigOK
  BY Has
<1>2. /\ registry' = registry /\ price' = price /\ unpriced' = unpriced
      /\ route' = [route EXCEPT ![k] = m]
      /\ crossed' = IF m # None /\ Active(m) # req[u].seen THEN crossed \cup {m} ELSE crossed
  BY DEF WriteRoute, Configured
<1>3. route' \in [Keys -> Models \cup {None}] /\ crossed' \subseteq Models
  BY <1>1, <1>2 DEF ConfigOK
<1>4. \A l \in Keys : route'[l] # None => ProviderOf[route'[l]] = l[1]
  BY <1>1, <1>2 DEF ConfigOK
<1>5. RoutesAreRegistered'
  <2> SUFFICES ASSUME NEW l \in Keys, route'[l] # None
               PROVE  registry'[route'[l]] # "none" \/ route'[l] \in crossed'
    BY DEF RoutesAreRegistered
  <2>1. CASE l # k
    BY <2>1, <1>1, <1>2 DEF ConfigOK, RoutesAreRegistered
  <2>2. CASE l = k
    <3>1. route'[l] = m
      BY <2>2, <1>1, <1>2 DEF ConfigOK
    <3>2. m # None /\ req[u].seen = TRUE
      BY <3>1
    <3>3. CASE Active(m)
      BY <3>1, <3>3, <1>2 DEF Active
    <3>4. CASE ~Active(m)
      <4>1. Active(m) # req[u].seen
        BY <3>2, <3>4, Zenon DEF Active
      <4>2. crossed' = crossed \cup {m}
        BY <4>1, <3>2, <1>2, Zenon
      <4> QED
        BY <4>2, <3>1
    <3> QED
      BY <3>3, <3>4
  <2> QED
    BY <2>1, <2>2
<1>6. \E reg, pr, rt : Configured(reg, pr, rt)
  BY DEF WriteRoute
<1> QED
  BY <1>1, <1>2, <1>3, <1>4, <1>5, <1>6 DEF ConfigOK

(* What was checked of the model holds of the route that is written.       *)
LEMMA RoutesKeep ==
    ASSUME Inv, NEW u \in Users, CreateRoute(u) \/ UpdateRoute(u) \/ DeleteRoute(u)
    PROVE  Inv' /\ KeepsPrice
<1>1. req[u] # None /\ SeenOK(u, req[u]) /\ req[u].does \in {"createRoute", "updateRoute", "deleteRoute"}
  BY DEF Inv, CreateRoute, UpdateRoute, DeleteRoute, Doing
<1>2. /\ req[u].on \in Keys
      /\ req[u].to # None =>
           req[u].to \in Models /\ ProviderOf[req[u].to] = req[u].on[1] /\ req[u].seen = TRUE
  BY <1>1 DEF SeenOK
<1>3. WriteRoute(u) \/ Untouched
  BY DEF CreateRoute, UpdateRoute, DeleteRoute
<1>4. PICK gone : Done(u, gone)
  BY DEF CreateRoute, UpdateRoute, DeleteRoute
<1>5. /\ ConfigOK' /\ price' = price
      /\ (\E reg, pr, rt : Configured(reg, pr, rt)) \/ Unconfigured
  <2>1. CASE WriteRoute(u)
    BY <2>1, <1>2, RouteWritten
  <2>2. CASE Untouched
    BY <2>2, Has DEF Untouched, Unconfigured, config, ConfigOK, RoutesAreRegistered
  <2> QED
    BY <1>3, <2>1, <2>2
<1>6. Inv'
  BY <1>4, <1>5, WriteKeeps
<1>7. KeepsPrice
  BY <1>4, <1>5 DEF KeepsPrice, Done, Priced
<1> QED
  BY <1>6, <1>7

(* A model that is deleted has no routes, or it is one of those crossed.   *)
LEMMA ModelsKeep ==
    ASSUME Inv, NEW u \in Users, CreateModel(u) \/ UpdateModel(u) \/ DeleteModel(u)
    PROVE  Inv' /\ KeepsPrice
<1> DEFINE m == req[u].on
<1>1. /\ req[u] # None /\ SeenOK(u, req[u]) /\ m \in Models
      /\ req[u].does = "deleteModel" => req[u].seen = {}
      /\ req[u].does = "updateModel" => req[u].to \in {"active", "inactive"}
  BY DEF Inv, CreateModel, UpdateModel, DeleteModel, Doing, SeenOK
<1>2. ConfigOK
  BY Has
<1>3. PICK gone : Done(u, gone)
  BY DEF CreateModel, UpdateModel, DeleteModel
<1>4. (\E reg, pr, rt : Configured(reg, pr, rt)) \/ Unconfigured
  BY DEF CreateModel, UpdateModel, DeleteModel
<1>5. price' = price /\ route' = route /\ unpriced' = unpriced
  BY DEF CreateModel, UpdateModel, DeleteModel, Configured, Unconfigured, config
<1>6. ASSUME CreateModel(u) \/ UpdateModel(u)
      PROVE  /\ crossed' = crossed
             /\ registry' = registry \/ \E s \in {"active", "inactive"} : registry' = [registry EXCEPT ![m] = s]
  BY <1>1, <1>6 DEF CreateModel, UpdateModel, Configured, Unconfigured, config, Doing
<1>7. ASSUME DeleteModel(u)
      PROVE  \/ registry' = registry /\ crossed' = crossed
             \/ /\ registry' = [registry EXCEPT ![m] = "none"]
                /\ crossed' = IF RoutesTo(m) = {} THEN crossed ELSE crossed \cup {m}
  BY <1>1, <1>7 DEF DeleteModel, Configured, Unconfigured, config, Doing
<1>8. registry' \in [Models -> States] /\ crossed' \subseteq Models
  BY <1>1, <1>2, <1>6, <1>7 DEF ConfigOK, States
<1>9. RoutesAreRegistered'
  <2> SUFFICES ASSUME NEW k \in Keys, route[k] # None
               PROVE  registry'[route[k]] # "none" \/ route[k] \in crossed'
    BY <1>5 DEF RoutesAreRegistered
  <2>1. route[k] \in Models /\ (registry[route[k]] # "none" \/ route[k] \in crossed)
    BY <1>2 DEF ConfigOK, RoutesAreRegistered
  <2>2. route[k] = m => RoutesTo(m) # {}
    BY DEF RoutesTo
  <2> QED
    BY <1>1, <1>2, <1>6, <1>7, <2>1, <2>2 DEF ConfigOK
<1>10. ConfigOK'
  BY <1>2, <1>5, <1>8, <1>9 DEF ConfigOK
<1>11. Inv'
  BY <1>3, <1>4, <1>10, WriteKeeps
<1>12. KeepsPrice
  BY <1>3, <1>5 DEF KeepsPrice, Done, Priced
<1> QED
  BY <1>11, <1>12
(* A price that is deleted leaves another in force, or what was counted    *)
(* has changed.                                                            *)
LEMMA PricesKeep ==
    ASSUME Inv, NEW u \in Users, CreatePrice(u) \/ DeletePrice(u)
    PROVE  Inv' /\ KeepsPrice
<1> DEFINE m == req[u].on
           d == req[u].to
<1>1. /\ req[u] # None /\ SeenOK(u, req[u]) /\ m \in Models /\ d \in Dates
      /\ req[u].does = "deletePrice" => ~LastPrice(req[u].seen)
  BY DEF Inv, CreatePrice, DeletePrice, Doing, SeenOK
<1>2. ConfigOK
  BY Has
<1>3. PICK gone : Done(u, gone)
  BY DEF CreatePrice, DeletePrice
<1>4. (\E reg, pr, rt : Configured(reg, pr, rt)) \/ Unconfigured
  BY DEF CreatePrice, DeletePrice
<1>5. registry' = registry /\ route' = route /\ crossed' = crossed
  BY DEF CreatePrice, DeletePrice, Configured, Unconfigured, config
<1>6. ASSUME CreatePrice(u)
      PROVE  /\ unpriced' = unpriced
             /\ price' = price \/ price' = [price EXCEPT ![m] = @ \cup {d}]
  BY <1>6 DEF CreatePrice, Configured, Unconfigured, config
<1>7. ASSUME DeletePrice(u)
      PROVE  \/ price' = price /\ unpriced' = unpriced
             \/ /\ price' = [price EXCEPT ![m] = @ \ {d}]
                /\ unpriced' = IF PriceView(m, d) = req[u].seen THEN unpriced ELSE unpriced \cup {m}
                /\ ~LastPrice(req[u].seen)
  BY <1>1, <1>7 DEF DeletePrice, Configured, Unconfigured, config, Doing
<1>8. price' \in [Models -> SUBSET Dates] /\ unpriced' \subseteq Models
  BY <1>1, <1>2, <1>6, <1>7 DEF ConfigOK
<1>9. ConfigOK'
  BY <1>2, <1>5, <1>8 DEF ConfigOK, RoutesAreRegistered
<1>10. Inv'
  BY <1>3, <1>4, <1>9, WriteKeeps
<1>11. KeepsPrice
  <2> SUFFICES ASSUME NEW n \in Models, Active(n), Priced(n)
               PROVE  PricedOn(price'[n], today) \/ n \in unpriced'
    BY <1>3 DEF KeepsPrice, Done
  <2>1. PICK e \in price[n] : e <= today
    BY DEF Priced, PricedOn
  <2>2. CASE e \in price'[n]
    BY <2>1, <2>2 DEF PricedOn
  <2>3. CASE e \notin price'[n]
    <3>1. n = m /\ e = d /\ price' = [price EXCEPT ![m] = @ \ {d}] /\ ~LastPrice(req[u].seen)
          /\ unpriced' = IF PriceView(m, d) = req[u].seen THEN unpriced ELSE unpriced \cup {m}
      BY <1>1, <1>2, <1>6, <1>7, <2>1, <2>3 DEF ConfigOK
    <3>2. CASE PriceView(m, d) # req[u].seen
      BY <3>1, <3>2
    <3>3. CASE PriceView(m, d) = req[u].seen
      <4>1. {f \in price[m] \ {d} : f <= today} # {}
        <5>1. PriceView(m, d).current /\ PriceView(m, d).active
          BY <2>1, <3>1 DEF PriceView
        <5>2. PriceView(m, d).others = {f \in price[m] \ {d} : f <= today}
          BY DEF PriceView
        <5>3. ~LastPrice(PriceView(m, d))
          BY <3>1, <3>3, Zenon
        <5> QED
          BY <5>1, <5>2, <5>3, Zenon DEF LastPrice
      <4>2. PICK f \in price[m] \ {d} : f <= today
        BY <4>1
      <4> QED
        BY <1>2, <3>1, <4>2 DEF PricedOn, ConfigOK
    <3> QED
      BY <3>2, <3>3
  <2> QED
    BY <2>2, <2>3
<1> QED
  BY <1>10, <1>11

(* Who removes another is still there, or was outvoted.                    *)
LEMMA ToggleKeeps ==
    ASSUME Inv, NEW u \in Users, Toggle(u)
    PROVE  Inv' /\ KeepsPrice
<1>1. /\ req[u] # None /\ req[u].on \in Users /\ req[u].to \in BOOLEAN
      /\ req[u].to \/ req[u].on # u
  BY DEF Inv, Toggle, Doing, SeenOK
<1>2. /\ admin' = IF req[u].to # req[u].seen THEN [admin EXCEPT ![req[u].on] = req[u].to] ELSE admin
      /\ outvoted' = (outvoted \/ ~admin[u])
      /\ req' = [req EXCEPT ![u] = None]
      /\ UNCHANGED <<today, registry, price, route, made, call, crossed, unpriced>>
  BY DEF Toggle, config
<1>3. admin' \in [Users -> BOOLEAN] /\ outvoted' \in BOOLEAN
  BY <1>1, <1>2 DEF Inv, TypeOK
<1>4. TypeOK'
  BY <1>2, <1>3 DEF Inv, TypeOK
<1>5. (\A x \in Users : req[x] # None => SeenOK(x, req[x]))'
  <2> SUFFICES ASSUME NEW x \in Users, req'[x] # None PROVE SeenOK(x, req'[x])
    BY DEF SeenOK, LastPrice, Dates, Keys
  <2>1. req'[x] = req[x]
    BY <1>2
  <2> QED
    BY <2>1 DEF Inv
<1>6. (\A c \in Callers : call[c] # None => CallOK(call[c]))'
  BY <1>2 DEF Inv, CallOK, Ambiguous, Found, For, Active, Priced
<1>7. RoutesAreRegistered' /\ KeepsPrice
  BY <1>2 DEF Inv, RoutesAreRegistered, KeepsPrice, Priced
<1>8. SomeAdmin'
  <2>1. CASE ~admin[u]
    BY <2>1, <1>2 DEF SomeAdmin
  <2>2. CASE admin[u]
    <3>1. admin'[u]
      BY <1>1, <1>2, <2>2 DEF Inv, TypeOK
    <3> QED
      BY <3>1 DEF SomeAdmin
  <2> QED
    BY <2>1, <2>2
<1> QED
  BY <1>4, <1>5, <1>6, <1>7, <1>8 DEF Inv
-----------------------------------------------------------------------------
(* Calls, the calendar and the first steps                                 *)

(* A step of a call in which the others stay what they are.                *)
LEMMA CallKeeps ==
    ASSUME Inv, NEW c \in Callers, NEW x \in Call, CallOK(x), call' = [call EXCEPT ![c] = x], Calls
    PROVE  Inv' /\ KeepsPrice
<1> USE DEF Calls, config, history
<1>1. TypeOK'
  BY DEF Inv, TypeOK
<1>2. (\A b \in Callers : call[b] # None => CallOK(call[b]))'
  <2> SUFFICES ASSUME NEW b \in Callers, call'[b] # None PROVE CallOK(call[b])'
    OBVIOUS
  <2>1. CallOK(call'[b])
    BY DEF Inv, TypeOK
  <2> QED
    BY <2>1 DEF CallOK, Ambiguous, Found, For, Active, Priced
<1>3. (\A u \in Users : req[u] # None => SeenOK(u, req[u]))'
  BY DEF Inv, SeenOK, LastPrice, Dates, Keys
<1>4. RoutesAreRegistered' /\ SomeAdmin' /\ KeepsPrice
  BY DEF Inv, RoutesAreRegistered, SomeAdmin, KeepsPrice, Priced
<1> QED
  BY <1>1, <1>2, <1>3, <1>4 DEF Inv

(* A route that is found is a model, and the only one found if none raises.*)
LEMMA FoundRoutes ==
    ASSUME Inv, NEW t, NEW k \in Found(t)
    PROVE  /\ k \in Keys /\ route[k] \in Models
           /\ ~Ambiguous(t) => \A l \in Found(t) : l = k
BY DEF Inv, TypeOK, Found, For, Ambiguous

LEMMA DispatchKeeps ==
    ASSUME Inv, NEW c \in Callers, NEW t \in Tasks, Dispatch(c, t)
    PROVE  Inv' /\ KeepsPrice
<1> USE NamesAssumption
<1>1. Calls
  BY DEF Dispatch
<1>2. ASSUME NEW why \in Outcomes, why # "unsettled"
      PROVE  Refused(t, why) \in Call /\ CallOK(Refused(t, why))
  BY <1>2 DEF Refused, New, Call, CallOK, Outcomes
<1>3. ASSUME NEW m \in Models, ~Ambiguous(t), \A l \in Found(t) : route[l] = m
      PROVE  New(t, m) \in Call /\ CallOK(New(t, m))
  BY <1>3 DEF New, Call, CallOK, Outcomes
<1>4. CASE call' = [call EXCEPT ![c] = Refused(t, "ambiguous")]
  BY <1>1, <1>2, <1>4, CallKeeps DEF Outcomes
<1>5. CASE Found(t) = {} /\ call' = [call EXCEPT ![c] = New(t, Inner)]
  <2>1. ~Ambiguous(t)
    BY <1>5 DEF Ambiguous
  <2> QED
    BY <1>1, <1>3, <1>5, <2>1, CallKeeps
<1>6. ASSUME ~Ambiguous(t), NEW k \in Found(t),
             call' = [call EXCEPT ![c] = IF k[1] \in Keyed THEN New(t, route[k]) ELSE Refused(t, "unavailable")]
      PROVE  Inv' /\ KeepsPrice
  <2>1. route[k] \in Models /\ \A l \in Found(t) : route[l] = route[k]
    BY <1>6, FoundRoutes
  <2>2. CASE k[1] \in Keyed
    BY <1>1, <1>3, <1>6, <2>1, <2>2, CallKeeps
  <2>3. CASE k[1] \notin Keyed
    BY <1>1, <1>2, <1>6, <2>3, CallKeeps DEF Outcomes
  <2> QED
    BY <2>2, <2>3
<1> QED
  BY <1>4, <1>5, <1>6 DEF Dispatch

(* The end of a call that had not gone unsettled, for a reason it may.     *)
LEMMA EndKeeps ==
    ASSUME Inv, NEW c \in Callers, call[c] # None, NEW why \in Outcomes, Ended(c, why), Calls,
           why # "unsettled" \/ call[c].touched
    PROVE  Inv' /\ KeepsPrice
<1> DEFINE x == [call[c] EXCEPT !.step = "done", !.outcome = why]
<1>1. call[c] \in Call /\ CallOK(call[c])
  BY DEF Inv, TypeOK
<1>2. /\ x \in Call /\ x.step = "done" /\ x.outcome = why
      /\ x.touched = call[c].touched /\ x.held = call[c].held /\ x.sent = call[c].sent
  BY <1>1 DEF Call
<1>3. CallOK(x)
  BY <1>1, <1>2 DEF CallOK
<1>4. call' = [call EXCEPT ![c] = x]
  BY DEF Ended
<1> HIDE DEF x
<1> QED
  BY <1>2, <1>3, <1>4, CallKeeps

LEMMA HoldKeeps ==
    ASSUME Inv, NEW c \in Callers, Hold(c)
    PROVE  Inv' /\ KeepsPrice
<1> DEFINE t == call[c].task
<1>1. Calls /\ call[c] # None /\ call[c].step = "hold"
  BY DEF Hold
<1>2. call[c] \in Call /\ CallOK(call[c])
  BY <1>1 DEF Inv, TypeOK
<1>3. CASE Ended(c, "ambiguous") \/ Ended(c, "unrouted")
  BY <1>1, <1>3, EndKeeps DEF Outcomes
<1>4. ASSUME ~Ambiguous(t), NEW k \in Found(t),
             IF MayHold(route[k])
               THEN call' = [call EXCEPT ![c].step = "settle", ![c].held = route[k]]
               ELSE Ended(c, Why(route[k]))
      PROVE  Inv' /\ KeepsPrice
  <2>1. CASE ~MayHold(route[k])
    BY <1>1, <1>4, <2>1, EndKeeps DEF Outcomes, Why
  <2>2. CASE MayHold(route[k])
    <3> DEFINE x == [call[c] EXCEPT !.step = "settle", !.held = route[k]]
    <3>1. route[k] \in Models
      BY FoundRoutes
    <3>2. /\ x \in Call /\ x.step = "settle" /\ x.held = route[k]
          /\ x.touched = call[c].touched /\ x.sent = call[c].sent /\ x.outcome = call[c].outcome
      BY <1>2, <3>1 DEF Call
    <3>3. ~x.touched => route[k] = x.sent
      BY <1>1, <1>2, <1>4, <3>2 DEF CallOK
    <3>4. CallOK(x)
      BY <1>2, <2>2, <3>2, <3>3 DEF CallOK, MayHold
    <3>5. call' = [call EXCEPT ![c] = x]
      BY <1>4, <2>2
    <3> HIDE DEF x
    <3> QED
      BY <1>1, <3>2, <3>4, <3>5, CallKeeps
  <2> QED
    BY <2>1, <2>2
<1> QED
  BY <1>3, <1>4 DEF Hold

LEMMA SettleKeeps ==
    ASSUME Inv, NEW c \in Callers, Settle(c)
    PROVE  Inv' /\ KeepsPrice
<1>1. Calls /\ call[c] # None /\ call[c].step = "settle"
  BY DEF Settle
<1>2. CallOK(call[c])
  BY <1>1 DEF Inv
<1>3. CASE Active(call[c].sent) /\ Priced(call[c].sent)
  BY <1>1, <1>3, EndKeeps DEF Settle, Outcomes
<1>4. CASE ~(Active(call[c].sent) /\ Priced(call[c].sent))
  <2>1. call[c].touched
    BY <1>1, <1>2, <1>4 DEF CallOK
  <2> QED
    BY <1>1, <1>4, <2>1, EndKeeps DEF Settle, Outcomes
<1> QED
  BY <1>3, <1>4

LEMMA TickKeeps == ASSUME Inv, Tick PROVE Inv' /\ KeepsPrice
<1> USE BoundsAssumption DEF Tick, config, history
<1>1. today \in 0..MaxDay /\ today' \in 0..MaxDay /\ today <= today'
  BY DEF Inv, TypeOK, Dates
<1>2. TypeOK'
  BY <1>1 DEF Inv, TypeOK, Dates
<1>3. \A m \in Models : Priced(m) => Priced(m)'
  BY <1>1 DEF Inv, TypeOK, Dates, Priced, PricedOn
<1>4. (\A c \in Callers : call[c] # None => CallOK(call[c]))'
  <2> SUFFICES ASSUME NEW c \in Callers, call[c] # None PROVE CallOK(call[c])'
    OBVIOUS
  <2>1. call[c] \in Call /\ CallOK(call[c])
    BY DEF Inv, TypeOK
  <2>2. Priced(call[c].sent) => Priced(call[c].sent)'
    BY <1>3, <2>1 DEF Call, Priced
  <2> QED
    BY <2>1, <2>2 DEF CallOK, Ambiguous, Found, For, Active
<1>5. (\A u \in Users : req[u] # None => SeenOK(u, req[u]))'
  BY DEF Inv, SeenOK, LastPrice, Dates, Keys
<1>6. RoutesAreRegistered' /\ SomeAdmin'
  BY DEF Inv, RoutesAreRegistered, SomeAdmin
<1>7. KeepsPrice
  BY <1>3 DEF KeepsPrice, Priced
<1> QED
  BY <1>2, <1>4, <1>5, <1>6, <1>7 DEF Inv
LEMMA BeginKeeps ==
    ASSUME Inv, NEW u \in Users, Begin(u)
    PROVE  Inv' /\ KeepsPrice
<1>1. ASSUME NEW m \in Models, ReadForCreateModel(u, m) \/ ReadForDeleteModel(u, m)
      PROVE  Inv' /\ KeepsPrice
  BY <1>1, ReadKeeps DEF ReadForCreateModel, ReadForDeleteModel, SeenOK, NoRoutesTo
<1>2. ASSUME NEW m \in Models, NEW to \in {"active", "inactive"}, ReadForUpdateModel(u, m, to)
      PROVE  Inv' /\ KeepsPrice
  BY <1>2, ReadKeeps DEF ReadForUpdateModel, SeenOK
<1>3. ASSUME NEW m \in Models, NEW d \in Dates, ReadForCreatePrice(u, m, d)
      PROVE  Inv' /\ KeepsPrice
  BY <1>3, ReadKeeps DEF ReadForCreatePrice, SeenOK
<1>4. ASSUME NEW m \in Models, NEW d \in Dates, ReadForDeletePrice(u, m, d)
      PROVE  Inv' /\ KeepsPrice
  <2>1. Read(u, "deletePrice", m, d, PriceRow(m, d), PriceView(m, d)) /\ ~LastPrice(PriceView(m, d))
    BY <1>4 DEF ReadForDeletePrice
  <2> QED
    BY <2>1, ReadKeeps DEF SeenOK
<1>5. ASSUME NEW k \in Keys, NEW m \in Models, ReadForCreateRoute(u, k, m)
      PROVE  Inv' /\ KeepsPrice
  <2>1. Read(u, "createRoute", k, m, NoRow, TRUE) /\ ProviderOf[m] = k[1]
    BY <1>5 DEF ReadForCreateRoute, Routable, Active
  <2> QED
    BY <2>1, ReadKeeps DEF SeenOK
<1>6. ASSUME NEW k \in Keys, NEW m \in Models, ReadForUpdateRoute(u, k, m)
      PROVE  Inv' /\ KeepsPrice
  <2>1. Read(u, "updateRoute", k, m, RouteRow(k), TRUE) /\ ProviderOf[m] = k[1]
    BY <1>6 DEF ReadForUpdateRoute, Routable, Active
  <2> QED
    BY <2>1, ReadKeeps DEF SeenOK
<1>7. ASSUME NEW k \in Keys, ReadForDeleteRoute(u, k)
      PROVE  Inv' /\ KeepsPrice
  BY <1>7, ReadKeeps DEF ReadForDeleteRoute, SeenOK
<1>8. ASSUME NEW v \in Users, NEW to \in BOOLEAN, ReadForToggle(u, v, to)
      PROVE  Inv' /\ KeepsPrice
  <2>1. Read(u, "toggle", v, to, NoRow, admin[v]) /\ (to \/ v # u)
    BY <1>8 DEF ReadForToggle, MayDemote
  <2> QED
    BY <2>1, ReadKeeps DEF SeenOK
<1> QED
  BY <1>1, <1>2, <1>3, <1>4, <1>5, <1>6, <1>7, <1>8 DEF Begin

LEMMA StepKeeps == Inv /\ [Next]_vars => Inv' /\ [KeepsPrice]_vars
<1> SUFFICES ASSUME Inv, [Next]_vars PROVE Inv' /\ [KeepsPrice]_vars
  OBVIOUS
<1>1. CASE Tick
  BY <1>1, TickKeeps
<1>2. ASSUME NEW u \in Users, Begin(u) \/ Finish(u) PROVE Inv' /\ KeepsPrice
  BY <1>2, BeginKeeps, ModelsKeep, PricesKeep, RoutesKeep, ToggleKeeps DEF Finish
<1>3. ASSUME NEW c \in Callers, Serve(c) PROVE Inv' /\ KeepsPrice
  BY <1>3, DispatchKeeps, HoldKeeps, SettleKeeps DEF Serve
<1>4. CASE UNCHANGED vars
  <2> USE <1>4 DEF vars, config, history
  <2>1. TypeOK' /\ RoutesAreRegistered' /\ SomeAdmin'
    BY DEF Inv, TypeOK, RoutesAreRegistered, SomeAdmin
  <2>2. (\A u \in Users : req[u] # None => SeenOK(u, req[u]))'
    BY DEF Inv, SeenOK, LastPrice, Dates, Keys
  <2>3. (\A c \in Callers : call[c] # None => CallOK(call[c]))'
    BY DEF Inv, CallOK, Ambiguous, Found, For, Active, Priced
  <2> QED
    BY <2>1, <2>2, <2>3 DEF Inv
<1> QED
  BY <1>1, <1>2, <1>3, <1>4 DEF Next

LEMMA InvHolds == Spec => []Inv
BY InitInv, StepKeeps, PTL DEF Spec

-----------------------------------------------------------------------------
(* The theorems                                                            *)

(* Whatever requests and calls interleave, the registry, the prices, the   *)
(* routes and the calls keep their types, and a route is for a model of    *)
(* its own provider (admin_management_service.py:478-485, 533-540).        *)
THEOREM TypeCorrect == Spec => []TypeOK
<1>1. Inv => TypeOK
  BY DEF Inv
<1> QED
  BY <1>1, InvHolds, PTL

(* The check of delete_model and those of create_routing and               *)
(* update_routing keep every route on a registered model; only a request   *)
(* that writes over a change it had not read can part them.                *)
THEOREM RoutesRegistered == Spec => []RoutesAreRegistered
<1>1. Inv => RoutesAreRegistered
  BY DEF Inv
<1> QED
  BY <1>1, InvHolds, PTL

(* The self-demotion check of toggle_admin always leaves an administrator, *)
(* unless one who had been removed meanwhile completed a request.          *)
THEOREM AdminRemains == Spec => []SomeAdmin
<1>1. Inv => SomeAdmin
  BY DEF Inv
<1> QED
  BY <1>1, InvHolds, PTL

(* The two lookups of MeteredLLMProvider.complete and reserve agree, and   *)
(* settle finds what reserve found, when nothing was committed in between. *)
THEOREM HeldCharged == Spec => []HeldIsCharged
<1>1. Inv => HeldIsCharged
  BY DEF Inv, CallOK, HeldIsCharged
<1> QED
  BY <1>1, InvHolds, PTL

(* The LAST_PRICING check of delete_pricing leaves an active model with a  *)
(* price in force, unless what it looked at has changed before the delete. *)
THEOREM PriceKept == Spec => StaysPriced
BY InvHolds, StepKeeps, PTL DEF Spec, StaysPriced
=============================================================================
