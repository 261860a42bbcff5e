--------------------------- MODULE ServicesProofs ---------------------------
(***************************************************************************)
(* For every table of services, ring, table of metrics, set of routes and  *)
(* size of the screen: what the log, the metrics, the routes and the       *)
(* terminal keep, and which requests a route answers.                      *)
(***************************************************************************)
EXTENDS Services, SequenceTheorems, FiniteSetTheorems, WellFoundedInduction, TLAPS

\* Every set of natural numbers that is not empty has a least element.
LEMMA LeastNumber ==
    ASSUME NEW S \in SUBSET Nat, S # {}
    PROVE  \E m \in S : \A k \in S : m <= k
<1> DEFINE R == OpToRel(<, Nat)
<1>1. \A x, y \in Nat : x < y => <<x, y>> \in R
  BY DEF OpToRel
<1>2. IsWellFoundedOn(R, Nat)
  BY NatLessThanWellFounded
<1> HIDE DEF R
<1>3. PICK m \in S : \A k \in S : ~(<<k, m>> \in R)
  BY <1>2, WFMin
<1>4. \A k \in S : ~(k < m)
  BY <1>1, <1>3
<1> QED BY <1>4

\* Induction up to N.
LEMMA UpTo ==
    ASSUME NEW N \in Nat, NEW S, 0 \in S,
           \A n \in 1 .. N : n - 1 \in S => n \in S
    PROVE  \A n \in 0 .. N : n \in S
<1> DEFINE Bad == {n \in 0 .. N : n \notin S}
<1> SUFFICES ASSUME Bad # {} PROVE FALSE
  OBVIOUS
<1>1. Bad \in SUBSET Nat
  OBVIOUS
<1>2. PICK m \in Bad : \A k \in Bad : m <= k
  BY <1>1, LeastNumber
<1>3. m \in 1 .. N /\ m \notin S
  BY <1>2
<1>4. m - 1 \in 0 .. N /\ m - 1 \notin Bad
  BY <1>2, <1>3
<1> QED BY <1>3, <1>4

-----------------------------------------------------------------------------
\* The API server.
AnyRoute ==
    [method : AllMethods \cup {"GET"}, path : Seq(STRING),
     handler : AllHandlers \cup {NotFound}]

RegisteredRoute == [method : AllMethods, path : Seq(STRING), handler : AllHandlers]

\* What a slot holds of the route it was registered for.
Answers(slot, route) ==
    /\ slot.method = route.method /\ slot.handler = route.handler
    /\ \/ IsPrefix(route.path, slot.path)
       \/ IsPrefix(slot.path, route.path) /\ Len(slot.path) = MAX_PATH_LENGTH

SlotsAnswer ==
    /\ routes \in [1 .. MAX_ROUTES -> AnyRoute]
    /\ \A i \in 1 .. MAX_ROUTES : Len(routes[i].path) <= MAX_PATH_LENGTH
    /\ route_count \in 0 .. MAX_ROUTES
    /\ registered \in Seq(RegisteredRoute) /\ Len(registered) = route_count
    /\ \A i \in 1 .. route_count : Answers(routes[i], registered[i])

\* The first slots hold the routes of api_init unchanged.
BuiltinsFirst ==
    initialized_first =>
        /\ Len(BuiltinRoutes) <= route_count
        /\ \A i \in 1 .. Len(BuiltinRoutes) : routes[i] = BuiltinRoutes[i]

ApiInv ==
    /\ SlotsAnswer
    /\ initialized_first \in BOOLEAN
    /\ BuiltinsFirst

LEMMA SamePath ==
    ASSUME NEW p \in Seq(STRING), NEW q \in Seq(STRING), Len(p) = Len(q), IsPrefix(p, q)
    PROVE  p = q
<1>1. SubSeq(p, 1, Len(p)) = SubSeq(q, 1, Len(p))
  BY DEF IsPrefix
<1>2. SubSeq(p, 1, Len(p)) = p /\ SubSeq(q, 1, Len(q)) = q
  OBVIOUS
<1> QED BY <1>1, <1>2

LEMMA BuiltinsShape ==
    /\ BuiltinRoutes \in Seq(RegisteredRoute)
    /\ Len(BuiltinRoutes) \in Nat /\ Len(BuiltinRoutes) <= MAX_ROUTES
    /\ \A i \in 1 .. Len(BuiltinRoutes) :
          /\ BuiltinRoutes[i] \in RegisteredRoute
          /\ Len(BuiltinRoutes[i].path) < MAX_PATH_LENGTH
<1>1. BuiltinRoutes \in Seq(RegisteredRoute)
  BY ApiAssumption DEF RegisteredRoute
<1>2. DOMAIN BuiltinRoutes = 1 .. Len(BuiltinRoutes)
  BY <1>1
<1>3. ASSUME NEW i \in 1 .. Len(BuiltinRoutes)
      PROVE  /\ BuiltinRoutes[i] \in RegisteredRoute
             /\ Len(BuiltinRoutes[i].path) < MAX_PATH_LENGTH
  <2>1. BuiltinRoutes[i] \in RegisteredRoute
    BY <1>1, ElementOfSeq
  <2> QED BY <1>2, <2>1, ApiAssumption
<1> QED BY <1>1, <1>3, ApiAssumption

\* One path copied over another: it begins what the slot then holds, or it was cut
\* off at the end of the slot.  Over itself or nothing it stays what it is.
LEMMA CopiedOver ==
    ASSUME NEW old \in Seq(STRING), Len(old) <= MAX_PATH_LENGTH,
           NEW path \in Seq(STRING)
    PROVE  LET c == Copied(old, path) IN
           /\ c \in Seq(STRING) /\ Len(c) <= MAX_PATH_LENGTH
           /\ \/ IsPrefix(path, c)
              \/ IsPrefix(c, path) /\ Len(c) = MAX_PATH_LENGTH
           /\ Len(path) < MAX_PATH_LENGTH /\ old \in {<< >>, path} => c = path
<1> DEFINE M == MAX_PATH_LENGTH
           new == SubSeq(path, 1, IF Len(path) < M THEN Len(path) ELSE M)
           c == Copied(old, path)
<1>1. M \in Nat \ {0} /\ Len(path) \in Nat /\ Len(old) \in Nat
  BY ApiAssumption
<1>2. CASE Len(path) < M
  <2>1. new = path
    BY <1>2
  <2>2. CASE Len(path) >= Len(old)
    <3>1. c = path
      BY <2>1, <2>2, <1>2 DEF Copied
    <3> QED BY <3>1, <1>1, <1>2 DEF IsPrefix
  <2>3. CASE Len(path) < Len(old)
    <3>1. c = path \o SubSeq(old, Len(path) + 1, Len(old))
      <4>1. c = IF Len(new) >= Len(old) THEN new
                ELSE new \o SubSeq(old, Len(new) + 1, Len(old))
        BY DEF Copied
      <4> HIDE DEF new, c
      <4> QED BY <4>1, <2>1, <2>3, <1>1
    <3>2. /\ c \in Seq(STRING) /\ Len(c) = Len(old)
          /\ \A i \in 1 .. Len(path) : c[i] = path[i]
      BY <3>1, <2>3, <1>1
    <3> HIDE DEF c
    <3>3. SubSeq(path, 1, Len(path)) = SubSeq(c, 1, Len(path))
      BY <3>2, <2>3, <1>1
    <3>4. IsPrefix(path, c)
      BY <3>2, <3>3, <2>3 DEF IsPrefix
    <3>5. old \notin {<< >>, path}
      BY <2>3, <1>1
    <3> QED BY <3>2, <3>4, <3>5 DEF c
  <2> QED BY <2>2, <2>3, <1>1
<1>3. CASE ~(Len(path) < M)
  <2>1. new = SubSeq(path, 1, M)
    BY <1>3
  <2>2. new \in Seq(STRING) /\ Len(new) = M /\ \A i \in 1 .. M : new[i] = path[i]
    BY <2>1, <1>1, <1>3
  <2>3. c = new
    BY <2>2, <1>1 DEF Copied
  <2> HIDE DEF new, c
  <2>4. SubSeq(new, 1, M) = SubSeq(path, 1, M)
    BY <2>2, <1>1, <1>3
  <2>5. IsPrefix(c, path)
    BY <2>2, <2>3, <2>4, <1>1, <1>3 DEF IsPrefix
  <2> QED BY <2>2, <2>3, <2>5, <1>3 DEF c
<1> QED BY <1>2, <1>3

\* Routes registered behind those known, of which the last ones are dropped when
\* the slots are used up.
LEMMA RegisterStep ==
    ASSUME SlotsAnswer, NEW count \in 0 .. route_count,
           NEW known \in Seq(RegisteredRoute), Len(known) = count,
           \A i \in 1 .. count : Answers(routes[i], known[i]),
           NEW added \in Seq(RegisteredRoute),
           RegisterAll(count, known, added)
    PROVE  /\ SlotsAnswer'
           /\ route_count' = Filled(count, added)
           /\ \A i \in 1 .. count : routes'[i] = routes[i]
           /\ \A i \in 1 .. MAX_ROUTES :
                 i \in count + 1 .. route_count' =>
                    routes'[i] = Registered(routes[i], added[i - count])
<1> DEFINE n == Filled(count, added)
           all == known \o added
<1>1. /\ MAX_ROUTES \in Nat /\ count \in Nat /\ count <= MAX_ROUTES
      /\ Len(added) \in Nat
  BY ApiAssumption DEF SlotsAnswer
<1>2. n \in count .. MAX_ROUTES /\ n - count <= Len(added)
  BY <1>1 DEF Filled
<1>3. Len(all) = count + Len(added) /\ Filled(0, all) = n
  BY <1>1 DEF Filled
<1>4. /\ route_count' = n
      /\ registered' = SubSeq(all, 1, n)
      /\ routes' = [i \in 1 .. MAX_ROUTES |->
                      IF i \in count + 1 .. n
                      THEN Registered(routes[i], added[i - count])
                      ELSE routes[i]]
  BY <1>3 DEF RegisterAll
<1> HIDE DEF n
<1>5. /\ registered' \in Seq(RegisteredRoute) /\ Len(registered') = n
      /\ \A i \in 1 .. n :
            registered'[i] = IF i <= count THEN known[i] ELSE added[i - count]
  <2>1. all \in Seq(RegisteredRoute)
    OBVIOUS
  <2>2. \A i \in 1 .. Len(all) : all[i] = IF i <= count THEN known[i] ELSE added[i - count]
    BY <1>1, <1>3
  <2> HIDE DEF all
  <2>3. n \in Nat /\ n <= Len(all)
    BY <1>1, <1>2, <1>3
  <2>4. /\ SubSeq(all, 1, n) \in Seq(RegisteredRoute) /\ Len(SubSeq(all, 1, n)) = n
        /\ \A i \in 1 .. n : SubSeq(all, 1, n)[i] = all[i]
    BY <2>1, <2>3
  <2> QED BY <1>4, <2>2, <2>3, <2>4
<1>6. ASSUME NEW i \in 1 .. MAX_ROUTES, i \in count + 1 .. n
      PROVE  /\ routes'[i] \in AnyRoute /\ Len(routes'[i].path) <= MAX_PATH_LENGTH
             /\ Answers(routes'[i], registered'[i])
  <2> DEFINE r == added[i - count]
             c == Copied(routes[i].path, r.path)
  <2>1. r \in RegisteredRoute
    <3>1. i - count \in 1 .. Len(added)
      BY <1>1, <1>2, <1>6
    <3> QED BY <3>1, ElementOfSeq
  <2>2. routes[i] \in AnyRoute /\ Len(routes[i].path) <= MAX_PATH_LENGTH
    BY DEF SlotsAnswer
  <2> HIDE DEF r
  <2>3. routes[i].path \in Seq(STRING) /\ r.path \in Seq(STRING)
    BY <2>1, <2>2 DEF AnyRoute, RegisteredRoute
  <2>4. /\ c \in Seq(STRING) /\ Len(c) <= MAX_PATH_LENGTH
        /\ \/ IsPrefix(r.path, c)
           \/ IsPrefix(c, r.path) /\ Len(c) = MAX_PATH_LENGTH
    BY <2>2, <2>3, CopiedOver
  <2> HIDE DEF c
  <2>5. routes'[i] = [r EXCEPT !.path = c]
    BY <1>4, <1>6 DEF r, c, Registered
  <2>6. /\ routes'[i].path = c /\ routes'[i].method = r.method
        /\ routes'[i].handler = r.handler /\ routes'[i] \in AnyRoute
    BY <2>1, <2>4, <2>5 DEF AnyRoute, RegisteredRoute
  <2>7. registered'[i] = r
    BY <1>1, <1>2, <1>5, <1>6 DEF r
  <2> QED BY <2>4, <2>6, <2>7 DEF Answers
<1>7. ASSUME NEW i \in 1 .. MAX_ROUTES, i \notin count + 1 .. n
      PROVE  routes'[i] = routes[i]
  BY <1>4, <1>7
<1>8. routes' \in [1 .. MAX_ROUTES -> AnyRoute]
  <2>1. \A i \in 1 .. MAX_ROUTES : routes'[i] \in AnyRoute
    BY <1>6, <1>7 DEF SlotsAnswer
  <2> QED BY <1>4, <2>1
<1>9. \A i \in 1 .. MAX_ROUTES : Len(routes'[i].path) <= MAX_PATH_LENGTH
  BY <1>6, <1>7 DEF SlotsAnswer
<1>10. ASSUME NEW i \in 1 .. n PROVE Answers(routes'[i], registered'[i])
  <2>1. CASE i <= count
    <3>1. i \in 1 .. count /\ i \in 1 .. MAX_ROUTES /\ i \notin count + 1 .. n
      BY <1>1, <1>2, <2>1
    <3> QED BY <1>5, <1>7, <3>1, <2>1
  <2>2. CASE ~(i <= count)
    <3>1. i \in count + 1 .. n /\ i \in 1 .. MAX_ROUTES
      BY <1>1, <1>2, <2>2
    <3> QED BY <1>6, <3>1
  <2> QED BY <2>1, <2>2
<1>11. SlotsAnswer'
  <2>1. route_count' \in 0 .. MAX_ROUTES /\ Len(registered') = route_count'
    BY <1>1, <1>2, <1>4, <1>5
  <2>2. \A i \in 1 .. route_count' : Answers(routes'[i], registered'[i])
    BY <1>4, <1>10
  <2> QED BY <1>5, <1>8, <1>9, <2>1, <2>2 DEF SlotsAnswer, Answers
<1>12. \A i \in 1 .. count : routes'[i] = routes[i]
  BY <1>1, <1>2, <1>7
<1> QED BY <1>4, <1>11, <1>12 DEF n

LEMMA ApiInitInv == Init => ApiInv
<1> SUFFICES ASSUME Init PROVE ApiInv
  OBVIOUS
<1>1. /\ routes = [i \in 1 .. MAX_ROUTES |->
                     [method |-> "GET", path |-> << >>, handler |-> NotFound]]
      /\ route_count = 0 /\ registered = << >> /\ initialized_first = FALSE
  BY DEF Init, ApiInit, Route
<1>2. [method |-> "GET", path |-> << >>, handler |-> NotFound] \in AnyRoute
  BY DEF AnyRoute
<1>3. SlotsAnswer
  BY <1>1, <1>2, ApiAssumption DEF SlotsAnswer
<1> QED BY <1>1, <1>3 DEF ApiInv, BuiltinsFirst

\* A route of others goes behind all that are there.
LEMMA RegisterRouteStep ==
    ASSUME ApiInv, NEW method \in Methods, NEW path \in Paths,
           NEW handler \in Handlers, api_register_route(method, path, handler)
    PROVE  ApiInv'
<1> DEFINE added == <<Route(method, path, handler)>>
<1>1. Route(method, path, handler) \in RegisteredRoute
  BY ApiAssumption DEF Route, RegisteredRoute, AllMethods, AllHandlers
<1>2. added \in Seq(RegisteredRoute) /\ Len(added) = 1
  BY <1>1
<1>3. RegisterAll(route_count, registered, added) /\ UNCHANGED initialized_first
  BY DEF api_register_route
<1> HIDE DEF added
<1>4. /\ SlotsAnswer'
      /\ route_count' = Filled(route_count, added)
      /\ \A i \in 1 .. route_count : routes'[i] = routes[i]
  <2>1. /\ route_count \in 0 .. route_count /\ registered \in Seq(RegisteredRoute)
        /\ Len(registered) = route_count
        /\ \A i \in 1 .. route_count : Answers(routes[i], registered[i])
    BY DEF ApiInv, SlotsAnswer
  <2> QED BY <1>2, <1>3, <2>1, RegisterStep DEF ApiInv
<1>5. route_count' >= route_count /\ route_count' \in Nat /\ route_count \in Nat
  BY <1>2, <1>4, ApiAssumption DEF Filled, ApiInv, SlotsAnswer
<1>6. BuiltinsFirst'
  BY <1>3, <1>4, <1>5, BuiltinsShape DEF ApiInv, BuiltinsFirst
<1> QED BY <1>3, <1>4, <1>6 DEF ApiInv

\* api_init puts its routes into slots that are empty or hold the same routes.
LEMMA ApiInitStep == ASSUME ApiInv, api_init PROVE ApiInv'
<1> DEFINE B == BuiltinRoutes
<1>1. /\ B \in Seq(RegisteredRoute) /\ Len(B) \in Nat /\ Len(B) <= MAX_ROUTES
      /\ \A i \in 1 .. Len(B) :
            B[i] \in RegisteredRoute /\ Len(B[i].path) < MAX_PATH_LENGTH
  BY BuiltinsShape
<1>2. /\ RegisterAll(0, << >>, B)
      /\ initialized_first' =
            (initialized_first \/ \A i \in 1 .. MAX_ROUTES : routes[i].path = << >>)
  BY DEF api_init, NoneKept
<1>3. /\ SlotsAnswer'
      /\ route_count' = Filled(0, B)
      /\ \A i \in 1 .. MAX_ROUTES :
            i \in 0 + 1 .. route_count' =>
               routes'[i] = Registered(routes[i], B[i - 0])
  <2>1. /\ 0 \in 0 .. route_count /\ << >> \in Seq(RegisteredRoute)
        /\ Len(<< >>) = 0
        /\ \A i \in 1 .. 0 : Answers(routes[i], << >>[i])
    BY DEF ApiInv, SlotsAnswer
  <2>2. SlotsAnswer
    BY DEF ApiInv
  <2> HIDE DEF B
  <2> QED BY <1>1, <1>2, <2>1, <2>2, RegisterStep
<1>4. route_count' = Len(B)
  BY <1>1, <1>3, ApiAssumption DEF Filled
<1>5. ASSUME initialized_first', NEW i \in 1 .. Len(B) PROVE routes'[i] = B[i]
  <2>1. i \in 1 .. MAX_ROUTES /\ i \in 0 + 1 .. route_count' /\ i - 0 = i
    BY <1>1, <1>4, ApiAssumption
  <2>2. routes[i] \in AnyRoute /\ Len(routes[i].path) <= MAX_PATH_LENGTH
    BY <2>1 DEF ApiInv, SlotsAnswer
  <2>3. B[i] \in RegisteredRoute /\ Len(B[i].path) < MAX_PATH_LENGTH
    BY <1>1
  <2>4. routes[i].path \in {<< >>, B[i].path}
    BY <1>2, <1>5, <2>1 DEF ApiInv, BuiltinsFirst
  <2>5. routes'[i] = [B[i] EXCEPT !.path = Copied(routes[i].path, B[i].path)]
    BY <1>3, <2>1 DEF Registered
  <2>6. routes[i].path \in Seq(STRING) /\ B[i].path \in Seq(STRING)
    BY <2>2, <2>3 DEF AnyRoute, RegisteredRoute
  <2>7. Copied(routes[i].path, B[i].path) = B[i].path
    BY <2>2, <2>3, <2>4, <2>6, CopiedOver
  <2> QED BY <2>3, <2>5, <2>7 DEF RegisteredRoute
<1>6. BuiltinsFirst'
  BY <1>1, <1>4, <1>5 DEF BuiltinsFirst
<1>7. initialized_first' \in BOOLEAN
  BY <1>2
<1> QED BY <1>3, <1>6, <1>7 DEF ApiInv

LEMMA NextApiInv == ApiInv /\ [Next]_vars => ApiInv'
<1> SUFFICES ASSUME ApiInv, [Next]_vars PROVE ApiInv'
  OBVIOUS
<1>1. CASE ApiNext
  BY <1>1, ApiInitStep, RegisterRouteStep DEF ApiNext
<1>2. CASE UNCHANGED api_vars
  BY <1>2 DEF api_vars, ApiInv, SlotsAnswer, Answers, BuiltinsFirst
<1> QED BY <1>1, <1>2 DEF Next, vars

LEMMA SpecApiInv == Spec => []ApiInv
<1> QED BY ApiInitInv, NextApiInv, PTL DEF Spec

\* The slot that answers is one of those that match.
LEMMA FirstMatches ==
    ASSUME ApiInv, NEW method, NEW path, Matching(method, path) # {}
    PROVE  LET i == FirstOfSlots(Matching(method, path)) IN
           /\ i \in Matching(method, path)
           /\ \A j \in Matching(method, path) : i <= j
           /\ api_handle_request(method, path) = routes[i].handler
<1> DEFINE M == Matching(method, path)
<1>1. M \in SUBSET Nat
  BY DEF ApiInv, SlotsAnswer, Matching
<1>2. \E i \in M : \A j \in M : i <= j
  BY <1>1, LeastNumber
<1> HIDE DEF M
<1>3. /\ FirstOfSlots(M) \in M
      /\ \A j \in M : FirstOfSlots(M) <= j
  BY <1>2 DEF FirstOfSlots
<1>4. api_handle_request(method, path) = routes[FirstOfSlots(M)].handler
  BY DEF api_handle_request, M
<1> QED BY <1>3, <1>4 DEF M

\* If api_init is called before anything is registered, each of its routes is
\* answered by its own handler from then on, whatever is registered later, however
\* long the paths are that slots held before, and whenever api_init runs again.
THEOREM OwnHandlersAnswer == Spec => []BuiltinsAnswer
<1>1. ApiInv => BuiltinsAnswer
  <2> SUFFICES ASSUME ApiInv, initialized_first, NEW i \in DOMAIN BuiltinRoutes
               PROVE  api_handle_request(BuiltinRoutes[i].method, BuiltinRoutes[i].path)
                        = BuiltinRoutes[i].handler
    BY DEF BuiltinsAnswer
  <2> DEFINE B == BuiltinRoutes
             M == Matching(B[i].method, B[i].path)
             f == FirstOfSlots(M)
  <2>1. /\ DOMAIN B = 1 .. Len(B) /\ Len(B) \in Nat
        /\ route_count \in Nat /\ Len(B) <= route_count
        /\ \A k \in 1 .. Len(B) : routes[k] = B[k]
    BY BuiltinsShape DEF ApiInv, SlotsAnswer, BuiltinsFirst
  <2>2. i \in M
    BY <2>1 DEF Matching
  <2>3. /\ f \in M /\ f <= i
        /\ api_handle_request(B[i].method, B[i].path) = routes[f].handler
    BY <2>2, FirstMatches
  <2>4. f \in 1 .. Len(B) /\ routes[f].method = B[i].method /\ routes[f].path = B[i].path
    BY <2>1, <2>3 DEF Matching
  <2> HIDE DEF f
  <2>5. f = i
    BY <2>1, <2>4, ApiAssumption
  <2> QED BY <2>1, <2>3, <2>5 DEF f
<1> QED BY <1>1, SpecApiInv, PTL

\* Whatever ends of longer paths are left in the slots: a handler gets no request
\* whose path does not begin with one it was registered for.
THEOREM OnlyBelowThePath == Spec => []AnswersBelowItsPath
<1>1. ApiInv => AnswersBelowItsPath
  <2> SUFFICES ASSUME ApiInv, NEW method \in AllMethods, NEW i \in 1 .. MAX_ROUTES,
                      api_handle_request(method, routes[i].path) # NotFound
               PROVE  \E k \in DOMAIN registered :
                        /\ registered[k].method = method
                        /\ registered[k].handler =
                              api_handle_request(method, routes[i].path)
                        /\ Below(routes[i].path, registered[k].path)
    BY DEF AnswersBelowItsPath
  <2> DEFINE path == routes[i].path
             k == FirstOfSlots(Matching(method, path))
  <2>1. Matching(method, path) # {}
    BY DEF api_handle_request
  <2>2. /\ k \in Matching(method, path)
        /\ api_handle_request(method, path) = routes[k].handler
    BY <2>1, FirstMatches
  <2> HIDE DEF k
  <2>3. k \in 1 .. route_count /\ routes[k].method = method /\ routes[k].path = path
    BY <2>2 DEF Matching
  <2>4. Answers(routes[k], registered[k]) /\ k \in DOMAIN registered
    BY <2>3 DEF ApiInv, SlotsAnswer
  <2> QED BY <2>2, <2>3, <2>4 DEF Answers, Below
<1> QED BY <1>1, SpecApiInv, PTL

\* However often api_init runs and whatever is registered: a route whose slot holds
\* no more than its own path gets an answer, its handler's or that of an earlier
\* route for the same method.
THEOREM RoutesGetAnswer == Spec => []RoutesAnswer
<1>1. ApiInv => RoutesAnswer
  <2> SUFFICES ASSUME ApiInv, NEW k \in DOMAIN registered,
                      Len(routes[k].path) = Len(registered[k].path)
               PROVE  \E j \in 1 .. k :
                        /\ registered[j].method = registered[k].method
                        /\ Below(registered[k].path, registered[j].path)
                        /\ api_handle_request(registered[k].method, registered[k].path)
                              = registered[j].handler
    BY DEF RoutesAnswer
  <2> DEFINE method == registered[k].method
             path == registered[k].path
             M == Matching(method, path)
             f == FirstOfSlots(M)
  <2>1. /\ k \in 1 .. route_count /\ route_count \in Nat /\ route_count <= MAX_ROUTES
        /\ DOMAIN registered = 1 .. route_count
        /\ Answers(routes[k], registered[k])
    BY ApiAssumption DEF ApiInv, SlotsAnswer
  <2>2. path \in Seq(STRING) /\ routes[k].path \in Seq(STRING)
    <3>1. registered[k] \in RegisteredRoute
      BY <2>1, ElementOfSeq DEF ApiInv, SlotsAnswer
    <3>2. routes[k] \in AnyRoute
      BY <2>1, ApiAssumption DEF ApiInv, SlotsAnswer
    <3> QED BY <3>1, <3>2 DEF RegisteredRoute, AnyRoute
  <2>3. routes[k].path = path
    BY <2>1, <2>2, SamePath DEF Answers
  <2>4. k \in M
    BY <2>1, <2>3 DEF Matching, Answers
  <2>5. /\ f \in M /\ f <= k /\ api_handle_request(method, path) = routes[f].handler
    BY <2>4, FirstMatches
  <2> HIDE DEF f
  <2>6. f \in 1 .. route_count /\ routes[f].method = method /\ routes[f].path = path
    BY <2>5 DEF Matching
  <2>7. Answers(routes[f], registered[f]) /\ f \in 1 .. k
    BY <2>1, <2>5, <2>6 DEF ApiInv, SlotsAnswer
  <2> QED BY <2>5, <2>6, <2>7 DEF Answers, Below
<1> QED BY <1>1, SpecApiInv, PTL

-----------------------------------------------------------------------------
\* The services and the monitor's figures.
StatsType ==
    [used : [Resources -> Nat], active_connections : Nat,
     network_rx : 0 .. WORD - 1, network_tx : 0 .. WORD - 1]

ServicesInv ==
    /\ ConnectionsTypeOK
    /\ stats \in StatsType
    /\ enabled \subseteq DOMAIN Table
    /\ initialized \subseteq DOMAIN Table
    /\ capacity \in [Resources -> Nat]
    /\ used \in [Resources -> Nat] /\ \A r \in Resources : used[r] <= capacity[r]

OpenSlots == {i \in Slots : connections[i] # "CLOSED"}

LEMMA OpenSlotsFinite ==
    /\ IsFiniteSet(OpenSlots) /\ IsFiniteSet(OpenSlots')
    /\ get_active_connections = Cardinality(OpenSlots)
    /\ get_active_connections' = Cardinality(OpenSlots')
    /\ get_active_connections \in Nat /\ get_active_connections' \in Nat
<1>1. IsFiniteSet(Slots)
  BY NetworkAssumption, FS_Interval DEF Slots
<1>2. IsFiniteSet(OpenSlots) /\ IsFiniteSet(OpenSlots')
  BY <1>1, FS_Subset DEF OpenSlots
<1> QED BY <1>2, FS_CardinalityType DEF get_active_connections, OpenSlots

LEMMA InitServicesInv == Init => ServicesInv
<1> SUFFICES ASSUME Init PROVE ServicesInv
  OBVIOUS
<1>1. stats = ZeroStats /\ ZeroStats \in StatsType
  BY MonitorAssumption DEF Init, MonitorInit, ZeroStats, StatsType
<1>2. ConnectionsTypeOK
  BY DEF Init, AllClosed, ConnectionsTypeOK
<1> QED BY <1>1, <1>2 DEF Init, ServicesInv

LEMMA NextServicesInv == ServicesInv /\ [Next]_vars => ServicesInv'
<1> SUFFICES ASSUME ServicesInv, [Next]_vars PROVE ServicesInv'
  OBVIOUS
<1>1. ASSUME UNCHANGED <<kept_vars, stats>> PROVE ServicesInv'
  BY <1>1 DEF ServicesInv, kept_vars, service_vars, ConnectionsTypeOK
<1>2. ASSUME init_system PROVE ServicesInv'
  <2>1. ConnectionsTypeOK'
    BY <1>2 DEF init_system, ServicesInv, ConnectionsTypeOK, AllClosed
  <2>2. PICK size \in [Resources -> MemorySizes \cup {DiskSize}] :
           capacity' = [r \in Resources |-> IF r \in Restarted THEN size[r] ELSE capacity[r]]
    BY <1>2 DEF init_system
  <2>3. \A r \in Resources : size[r] \in Nat
    BY ServicesAssumption
  <2>4. used' = [r \in Resources |-> IF r \in Restarted THEN 0 ELSE used[r]]
    BY <1>2 DEF init_system
  <2>5. /\ capacity' \in [Resources -> Nat] /\ used' \in [Resources -> Nat]
        /\ \A r \in Resources : used'[r] <= capacity'[r]
    BY <2>2, <2>3, <2>4 DEF ServicesInv
  <2> QED BY <1>2, <2>1, <2>5 DEF init_system, ServicesInv, monitor_vars
<1>3. ASSUME NEW name \in AskedNames, enable_service(name) \/ disable_service(name)
      PROVE  ServicesInv'
  <2>1. Meant(name) \subseteq DOMAIN Table
    BY DEF Meant
  <2> QED BY <1>3, <2>1 DEF enable_service, disable_service, ServicesInv, monitor_vars,
             ConnectionsTypeOK
<1>4. ASSUME Network PROVE ServicesInv'
  <2>1. ConnectionsTypeOK'
    <3>1. ASSUME NEW i \in Slots, NEW s \in {"LISTEN", "SYN_SENT", "FIN_WAIT"},
                 connections' = [connections EXCEPT ![i] = s]
          PROVE  ConnectionsTypeOK'
      BY <3>1 DEF ServicesInv, ConnectionsTypeOK
    <3>2. FreeSlot \subseteq Slots
      BY DEF FreeSlot
    <3> QED BY <1>4, <3>1, <3>2 DEF Network, NetworkNext, tcp_listen, tcp_connect, tcp_close
  <2> QED BY <1>4, <2>1 DEF Network, ServicesInv, monitor_vars, service_vars
<1>5. ASSUME NEW r \in Resources, Use(r) PROVE ServicesInv'
  <2>1. PICK n \in 0 .. capacity[r] : used' = [used EXCEPT ![r] = n]
    BY <1>5 DEF Use
  <2>2. n \in Nat /\ n <= capacity[r]
    BY <2>1 DEF ServicesInv
  <2>3. used' \in [Resources -> Nat] /\ \A q \in Resources : used'[q] <= capacity[q]
    BY <2>1, <2>2 DEF ServicesInv
  <2> QED BY <1>5, <2>3 DEF Use, ServicesInv, monitor_vars, service_vars, ConnectionsTypeOK
<1>6. ASSUME Logging \/ Recording PROVE ServicesInv'
  BY <1>1, <1>6 DEF Logging, Recording, log_message, check_alerts, Log, record_metric
<1>7. ASSUME Refreshing PROVE ServicesInv'
  <2>1. UNCHANGED kept_vars
    BY <1>7 DEF Refreshing
  <2>2. CASE update_system_stats(used, get_active_connections)
    <3> DEFINE rx == (stats.network_rx + 1024) % WORD
               tx == (stats.network_tx + 512) % WORD
    <3>1. rx \in 0 .. WORD - 1 /\ tx \in 0 .. WORD - 1
      BY MonitorAssumption DEF ServicesInv, StatsType
    <3>2. stats' = [used |-> used, active_connections |-> get_active_connections,
                    network_rx |-> rx, network_tx |-> tx]
      BY <2>2 DEF update_system_stats
    <3> HIDE DEF rx, tx
    <3>3. stats' \in StatsType
      BY <3>1, <3>2, OpenSlotsFinite DEF ServicesInv, StatsType
    <3> QED BY <2>1, <3>3 DEF ServicesInv, kept_vars, service_vars, ConnectionsTypeOK
  <2>3. CASE monitoring_init
    <3>1. stats' = ZeroStats /\ ZeroStats \in StatsType
      BY <2>3, MonitorAssumption DEF monitoring_init, ZeroStats, StatsType
    <3> QED BY <2>1, <3>1 DEF ServicesInv, kept_vars, service_vars, ConnectionsTypeOK
  <2> QED BY <1>7, <2>2, <2>3 DEF Refreshing
<1>8. ASSUME UNCHANGED system_vars PROVE ServicesInv'
  BY <1>1, <1>8 DEF system_vars, monitor_vars
<1> QED BY <1>2, <1>3, <1>4, <1>5, <1>6, <1>7, <1>8 DEF Next, System, Services, vars

LEMMA SpecServicesInv == Spec => []ServicesInv
<1> QED BY InitServicesInv, NextServicesInv, PTL DEF Spec

-----------------------------------------------------------------------------
\* The terminal.
Screen ==
    [row : Rows, column : Columns, buffer : [Rows -> [Columns -> Characters \cup {Space}]],
     line : Seq(Characters), lines : Seq(Seq(Characters))]

\* The row d above a row, the last one being above the first.
RowAbove(row, d) == IF d <= row THEN row - d ELSE row - d + VGA_HEIGHT

\* The lines and the row each is read in.
Legible(t) ==
    /\ t \in Screen
    /\ Len(t.line) <= VGA_WIDTH /\ Len(t.lines) < VGA_HEIGHT
    /\ \A k \in 1 .. Len(t.lines) : Len(t.lines[k]) <= VGA_WIDTH
    /\ \A x \in 1 .. Len(t.line) : t.buffer[t.row][x - 1] = t.line[x]
    /\ \A k \in 1 .. Len(t.lines) : \A x \in 1 .. Len(t.lines[k]) :
          t.buffer[RowAbove(t.row, Len(t.lines) + 1 - k)][x - 1] = t.lines[k][x]

\* The cursor is behind the line that is being written.
AtEndOfLine(t) == Legible(t) /\ Len(t.line) = t.column

LEMMA RowsAbove ==
    ASSUME NEW row \in Rows, NEW d \in 0 .. VGA_HEIGHT - 1
    PROVE  /\ RowAbove(row, d) \in Rows
           /\ (row - d) % VGA_HEIGHT = RowAbove(row, d)
           /\ RowAbove(row, d) = row => d = 0
           /\ d + 1 < VGA_HEIGHT => RowAbove(RowBelow(row), d + 1) = RowAbove(row, d)
<1>1. VGA_HEIGHT \in Nat \ {0} /\ row \in 0 .. VGA_HEIGHT - 1
  BY ConsoleAssumption DEF Rows
<1>2. (row - d) % VGA_HEIGHT = RowAbove(row, d)
  <2>1. ASSUME NEW x \in Int, -VGA_HEIGHT <= x, x < VGA_HEIGHT
        PROVE  x % VGA_HEIGHT = IF x < 0 THEN x + VGA_HEIGHT ELSE x
    BY <1>1, <2>1
  <2>2. /\ row - d \in Int /\ -VGA_HEIGHT <= row - d /\ row - d < VGA_HEIGHT
        /\ row - d < 0 <=> ~(d <= row)
    BY <1>1
  <2> QED BY <2>1, <2>2 DEF RowAbove
<1> QED BY <1>1, <1>2 DEF RowAbove, RowBelow, Rows

\* A character goes to the end of the line and to the row of the cursor only.
LEMMA PutLegible ==
    ASSUME NEW t, AtEndOfLine(t), NEW c \in Characters,
           NEW put, put = [t EXCEPT !.buffer[t.row][t.column] = c, !.line = Append(@, c)]
    PROVE  /\ Legible(put)
           /\ put.column = t.column /\ Len(put.line) = t.column + 1
<1>1. /\ t \in Screen /\ t.row \in Rows /\ t.column \in Columns
      /\ t.line \in Seq(Characters) /\ Len(t.line) = t.column
      /\ t.lines \in Seq(Seq(Characters)) /\ Len(t.lines) \in Nat
      /\ t.buffer \in [Rows -> [Columns -> Characters \cup {Space}]]
  BY DEF AtEndOfLine, Legible, Screen
<1>2. /\ VGA_WIDTH \in Nat \ {0} /\ VGA_HEIGHT \in Nat \ {0}
      /\ t.column \in Nat /\ t.column < VGA_WIDTH
  BY <1>1, ConsoleAssumption DEF Columns
<1>3. /\ put.row = t.row /\ put.column = t.column /\ put.lines = t.lines
      /\ put.line = Append(t.line, c)
      /\ put.buffer = [t.buffer EXCEPT ![t.row][t.column] = c]
      /\ put \in Screen
  <2>1. [t.buffer EXCEPT ![t.row][t.column] = c] \in
          [Rows -> [Columns -> Characters \cup {Space}]]
    BY <1>1
  <2>2. Append(t.line, c) \in Seq(Characters)
    BY <1>1
  <2> QED BY <1>1, <2>1, <2>2 DEF Screen
<1>4. /\ Len(put.line) = t.column + 1 /\ put.line[t.column + 1] = c
      /\ \A x \in 1 .. t.column : put.line[x] = t.line[x]
  BY <1>1, <1>2, <1>3
<1>5. ASSUME NEW x \in 1 .. Len(put.line)
      PROVE  put.buffer[put.row][x - 1] = put.line[x]
  <2>1. CASE x = t.column + 1
    BY <1>1, <1>2, <1>3, <1>4, <2>1
  <2>2. CASE x # t.column + 1
    <3>1. x \in 1 .. Len(t.line) /\ x - 1 # t.column /\ x - 1 \in Columns
      BY <1>1, <1>2, <1>4, <2>2 DEF Columns
    <3>2. t.buffer[t.row][x - 1] = t.line[x]
      BY <3>1 DEF AtEndOfLine, Legible
    <3> QED BY <1>1, <1>3, <1>4, <3>1, <3>2
  <2> QED BY <2>1, <2>2
<1>6. ASSUME NEW k \in 1 .. Len(put.lines), NEW x \in 1 .. Len(put.lines[k])
      PROVE  put.buffer[RowAbove(put.row, Len(put.lines) + 1 - k)][x - 1] = put.lines[k][x]
  <2> DEFINE d == Len(t.lines) + 1 - k
  <2>1. d \in 0 .. VGA_HEIGHT - 1 /\ d # 0
    BY SMTT(30), <1>1, <1>2, <1>3 DEF AtEndOfLine, Legible
  <2>2. RowAbove(t.row, d) \in Rows /\ RowAbove(t.row, d) # t.row
    BY <1>1, <2>1, RowsAbove
  <2>3. t.buffer[RowAbove(t.row, d)][x - 1] = t.lines[k][x]
    BY <1>3 DEF AtEndOfLine, Legible
  <2> HIDE DEF d
  <2>4. put.buffer[RowAbove(t.row, d)] = t.buffer[RowAbove(t.row, d)]
    BY <1>1, <1>3, <2>2
  <2> QED BY <1>3, <2>3, <2>4 DEF d
<1>7. Len(put.line) <= VGA_WIDTH
  BY <1>2, <1>4
<1>8. /\ Len(put.lines) < VGA_HEIGHT
      /\ \A k \in 1 .. Len(put.lines) : Len(put.lines[k]) <= VGA_WIDTH
  BY <1>3 DEF AtEndOfLine, Legible
<1>9. Legible(put)
  BY <1>3, <1>5, <1>6, <1>7, <1>8 DEF Legible
<1> QED BY <1>3, <1>4, <1>9

\* In the next row a new line begins, and the oldest line is given up when there
\* is no row left for it.
LEMMA NextRowLegible ==
    ASSUME NEW t, Legible(t) PROVE AtEndOfLine(NextRow(t, 0))
<1> DEFINE u == NextRow(t, 0)
           all == Append(t.lines, t.line)
           n == Len(t.lines)
           m == IF n + 1 < VGA_HEIGHT THEN n + 1 ELSE VGA_HEIGHT - 1
           gone == n + 1 - m
<1>1. /\ t \in Screen /\ t.row \in Rows
      /\ t.line \in Seq(Characters) /\ t.lines \in Seq(Seq(Characters))
      /\ n \in Nat /\ n < VGA_HEIGHT /\ VGA_HEIGHT \in Nat \ {0}
  BY ConsoleAssumption DEF Legible, Screen
<1>2. /\ all \in Seq(Seq(Characters)) /\ Len(all) = n + 1 /\ all[n + 1] = t.line
      /\ \A k \in 1 .. n : all[k] = t.lines[k]
  BY <1>1
<1>3. m \in Nat /\ m < VGA_HEIGHT /\ gone \in 0 .. 1 /\ m + gone = n + 1
  <2> HIDE DEF n
  <2>1. CASE n + 1 < VGA_HEIGHT
    BY <1>1, <2>1
  <2>2. CASE ~(n + 1 < VGA_HEIGHT)
    <3>1. n + 1 = VGA_HEIGHT
      BY <1>1, <2>2
    <3> QED BY <1>1, <2>2, <3>1
  <2> QED BY <2>1, <2>2
<1>4. ASSUME NEW k \in 1 .. n + 1, NEW x \in 1 .. Len(all[k])
      PROVE  /\ t.buffer[RowAbove(t.row, n + 1 - k)][x - 1] = all[k][x]
             /\ Len(all[k]) <= VGA_WIDTH
  <2>1. CASE k = n + 1
    <3>1. RowAbove(t.row, n + 1 - k) = t.row
      BY <1>1, <2>1 DEF RowAbove, Rows
    <3> QED BY <1>2, <2>1, <3>1 DEF Legible
  <2>2. CASE k # n + 1
    <3>1. k \in 1 .. n
      BY <1>1, <2>2
    <3> QED BY <1>2, <3>1 DEF Legible
  <2> QED BY <2>1, <2>2
<1>5. \A k \in 1 .. n + 1 : Len(all[k]) <= VGA_WIDTH
  <2> SUFFICES ASSUME NEW k \in 1 .. n + 1 PROVE Len(all[k]) <= VGA_WIDTH
    OBVIOUS
  <2>1. CASE k = n + 1
    BY <1>2, <2>1 DEF Legible
  <2>2. CASE k # n + 1
    <3>1. k \in 1 .. n
      BY <1>1, <2>2
    <3> QED BY <1>2, <3>1 DEF Legible
  <2> QED BY <2>1, <2>2
<1> HIDE DEF all
<1>6. /\ LastOnes(all) \in Seq(Seq(Characters)) /\ Len(LastOnes(all)) = m
      /\ \A k \in 1 .. m : LastOnes(all)[k] = all[k + gone]
  <2>1. CASE n + 1 < VGA_HEIGHT
    <3>1. LastOnes(all) = SubSeq(all, 1, n + 1)
      BY <1>2, <2>1 DEF LastOnes
    <3>2. m = n + 1 /\ gone = 0
      BY <1>1, <2>1
    <3> QED BY <1>1, <1>2, <3>1, <3>2
  <2>2. CASE ~(n + 1 < VGA_HEIGHT)
    <3>1. n + 1 = VGA_HEIGHT /\ m = n /\ gone = 1
      BY <1>1, <2>2
    <3>2. LastOnes(all) = SubSeq(all, 2, n + 1)
      BY <1>2, <2>2, <3>1, <1>1 DEF LastOnes
    <3> HIDE DEF m, gone, n
    <3>3. /\ LastOnes(all) \in Seq(Seq(Characters)) /\ Len(LastOnes(all)) = n
          /\ \A k \in 1 .. n : LastOnes(all)[k] = all[k + 1]
      BY <1>1, <1>2, <3>2
    <3> QED BY <3>1, <3>3
  <2> QED BY <2>1, <2>2
<1>7. /\ u.row = RowBelow(t.row) /\ u.column = 0 /\ u.lines = LastOnes(all)
      /\ u.line = << >> /\ u.buffer = t.buffer /\ u \in Screen
  <2>1. RowBelow(t.row) \in Rows /\ 0 \in Columns
    BY <1>1, ConsoleAssumption DEF RowBelow, Rows, Columns
  <2>2. << >> \in Seq(Characters)
    OBVIOUS
  <2>3. LastOnes(all) \in Seq(Seq(Characters))
    BY <1>6
  <2> DEFINE ls == LastOnes(all)
             r == RowBelow(t.row)
  <2>4. u = [t EXCEPT !.row = r, !.column = 0, !.lines = ls, !.line = << >>]
    BY DEF NextRow, all
  <2> HIDE DEF u, ls, r
  <2> QED BY <1>1, <2>1, <2>2, <2>3, <2>4 DEF Screen, r, ls
<1> HIDE DEF u, m, gone
<1>8. ASSUME NEW k \in 1 .. m, NEW x \in 1 .. Len(LastOnes(all)[k])
      PROVE  t.buffer[RowAbove(RowBelow(t.row), m + 1 - k)][x - 1] = LastOnes(all)[k][x]
  <2>1. /\ k + gone \in 1 .. n + 1 /\ m - k \in 0 .. VGA_HEIGHT - 1
        /\ m - k + 1 < VGA_HEIGHT + 1 /\ n + 1 - (k + gone) = m - k
        /\ m + 1 - k = m - k + 1 /\ m - k + 1 < VGA_HEIGHT
    BY <1>1, <1>3
  <2>2. RowAbove(RowBelow(t.row), m - k + 1) = RowAbove(t.row, m - k)
    BY <1>1, <2>1, RowsAbove
  <2>3. LastOnes(all)[k] = all[k + gone]
    BY <1>6
  <2>4. t.buffer[RowAbove(t.row, n + 1 - (k + gone))][x - 1] = all[k + gone][x]
    BY <1>4, <2>1, <2>3
  <2> QED BY <2>1, <2>2, <2>3, <2>4
<1>9. \A k \in 1 .. m : Len(LastOnes(all)[k]) <= VGA_WIDTH
  <2> SUFFICES ASSUME NEW k \in 1 .. m PROVE Len(LastOnes(all)[k]) <= VGA_WIDTH
    OBVIOUS
  <2>1. k + gone \in 1 .. n + 1
    BY <1>1, <1>3
  <2> QED BY <1>5, <1>6, <2>1
<1>10. Len(u.line) = 0 /\ Len(u.lines) = m /\ 0 <= VGA_WIDTH
  BY <1>6, <1>7, ConsoleAssumption
<1>11. Legible(u)
  <2>1. \A x \in 1 .. Len(u.line) : u.buffer[u.row][x - 1] = u.line[x]
    BY <1>10
  <2>2. \A k \in 1 .. Len(u.lines) : \A x \in 1 .. Len(u.lines[k]) :
          u.buffer[RowAbove(u.row, Len(u.lines) + 1 - k)][x - 1] = u.lines[k][x]
    BY <1>7, <1>8, <1>10
  <2> QED BY <1>3, <1>7, <1>9, <1>10, <2>1, <2>2 DEF Legible
<1> QED BY <1>7, <1>10, <1>11 DEF AtEndOfLine, u

LEMMA PutcharLegible ==
    ASSUME NEW t, AtEndOfLine(t), NEW c \in Characters \cup {NewLine}
    PROVE  AtEndOfLine(terminal_putchar(t, c))
<1>1. CASE c = NewLine
  BY <1>1, NextRowLegible DEF terminal_putchar, ColumnOfNewLine, AtEndOfLine
<1>2. CASE c # NewLine
  <2> DEFINE put == [t EXCEPT !.buffer[t.row][t.column] = c, !.line = Append(@, c)]
  <2>1. /\ Legible(put)
        /\ put.column = t.column /\ Len(put.line) = t.column + 1
    BY <1>2, PutLegible
  <2>2. terminal_putchar(t, c) = IF t.column + 1 = VGA_WIDTH THEN NextRow(put, 0)
                                 ELSE [put EXCEPT !.column = @ + 1]
    BY <1>2 DEF terminal_putchar
  <2> HIDE DEF put
  <2>3. CASE t.column + 1 = VGA_WIDTH
    BY <2>1, <2>2, <2>3, NextRowLegible
  <2>4. CASE t.column + 1 # VGA_WIDTH
    <3> DEFINE new == [put EXCEPT !.column = @ + 1]
    <3>1. t.column + 1 \in Columns
      <4>1. t.column \in Columns
        BY DEF AtEndOfLine, Legible, Screen
      <4> QED BY <2>4, <4>1, ConsoleAssumption DEF Columns
    <3>2. /\ new.row = put.row /\ new.column = t.column + 1 /\ new.buffer = put.buffer
          /\ new.line = put.line /\ new.lines = put.lines /\ new \in Screen
      BY <2>1, <3>1 DEF Legible, Screen
    <3> HIDE DEF new
    <3>3. AtEndOfLine(new)
      BY <2>1, <3>2 DEF AtEndOfLine, Legible
    <3> QED BY <2>2, <2>4, <3>3 DEF new
  <2> QED BY <2>3, <2>4
<1> QED BY <1>1, <1>2

\* A text of any length, character by character: the recursive function of Written
\* exists, and every screen on the way is legible.
LEMMA WrittenLegible ==
    ASSUME NEW t, AtEndOfLine(t), NEW text \in Seq(Characters \cup {NewLine}),
           Written(t, text)
    PROVE  AtEndOfLine(Terminal')
<1> DEFINE L == Len(text)
           Step(g, n) == [k \in 0 .. n |->
                            IF k = 0 THEN t ELSE terminal_putchar(g[k - 1], text[k])]
           f == CHOOSE g : g = Step(g, L)
           S == {n \in 0 .. L : \E g : g = Step(g, n)}
           T == {n \in 0 .. L : AtEndOfLine(f[n])}
<1>1. L \in Nat /\ \A n \in 1 .. L : text[n] \in Characters \cup {NewLine}
  BY ElementOfSeq
<1>2. Terminal' = [row |-> f[L].row, column |-> f[L].column, buffer |-> f[L].buffer,
                   line |-> f[L].line, lines |-> f[L].lines]
  <2>1. /\ terminal_row' = f[L].row /\ terminal_column' = f[L].column
        /\ terminal_buffer' = f[L].buffer /\ line' = f[L].line /\ lines' = f[L].lines
    BY DEF Written
  <2> HIDE DEF f
  <2> QED BY <2>1 DEF Terminal
<1>3. 0 \in S
  <2> DEFINE g == [k \in 0 .. 0 |-> t]
  <2>1. g = Step(g, 0)
    OBVIOUS
  <2>2. 0 \in 0 .. L
    BY <1>1
  <2> HIDE DEF Step, g
  <2> QED BY <2>1, <2>2
<1>4. ASSUME NEW n \in 1 .. L, n - 1 \in S PROVE n \in S
  <2>1. PICK g : g = Step(g, n - 1)
    BY <1>4
  <2> DEFINE h == [k \in 0 .. n |->
                     IF k = n THEN terminal_putchar(g[n - 1], text[n]) ELSE g[k]]
  <2>2. /\ n \in Nat /\ n # 0 /\ n - 1 \in 0 .. n /\ n \in 0 .. L
        /\ h[n] = terminal_putchar(g[n - 1], text[n])
        /\ \A k \in 0 .. n - 1 : h[k] = g[k]
    BY <1>1
  <2>3. \A k \in 0 .. n - 1 :
          g[k] = IF k = 0 THEN t ELSE terminal_putchar(g[k - 1], text[k])
    <3> SUFFICES ASSUME NEW k \in 0 .. n - 1
                 PROVE g[k] = IF k = 0 THEN t ELSE terminal_putchar(g[k - 1], text[k])
      OBVIOUS
    <3>1. g[k] = Step(g, n - 1)[k]
      BY <2>1
    <3> QED BY <3>1
  <2>4. DOMAIN h = 0 .. n /\ h = [k \in 0 .. n |-> h[k]]
    OBVIOUS
  <2> HIDE DEF h
  <2>5. \A k \in 0 .. n :
          h[k] = IF k = 0 THEN t ELSE terminal_putchar(h[k - 1], text[k])
    BY <2>2, <2>3
  <2>6. h = Step(h, n)
    BY <2>4, <2>5
  <2> HIDE DEF Step
  <2> QED BY <2>2, <2>6
<1>5. f = Step(f, L)
  <2>1. L \in S
    <3> HIDE DEF S, L
    <3>1. \A n \in 1 .. L : n - 1 \in S => n \in S
      BY <1>4
    <3>2. \A n \in 0 .. L : n \in S
      BY <1>1, <1>3, <3>1, UpTo
    <3> QED BY <1>1, <3>2
  <2> HIDE DEF Step
  <2> QED BY <2>1
<1> HIDE DEF f
<1>6. f[0] = t /\ \A n \in 1 .. L : f[n] = terminal_putchar(f[n - 1], text[n])
  <2>1. \A n \in 0 .. L : f[n] = Step(f, L)[n]
    BY <1>5
  <2>2. f[0] = t
    BY <1>1, <2>1
  <2>3. ASSUME NEW n \in 1 .. L PROVE f[n] = terminal_putchar(f[n - 1], text[n])
    <3>1. n \in 0 .. L /\ n # 0
      BY <1>1
    <3> QED BY <2>1, <3>1
  <2> QED BY <2>2, <2>3
<1>7. 0 \in T
  BY <1>1, <1>6
<1>8. ASSUME NEW n \in 1 .. L, n - 1 \in T PROVE n \in T
  <2>1. n \in 0 .. L /\ AtEndOfLine(f[n - 1]) /\ text[n] \in Characters \cup {NewLine}
    BY <1>1, <1>8
  <2>2. AtEndOfLine(terminal_putchar(f[n - 1], text[n]))
    BY <2>1, PutcharLegible
  <2> QED BY <1>6, <2>1, <2>2
<1>9. L \in T
  <2> HIDE DEF T, L
  <2>1. \A n \in 1 .. L : n - 1 \in T => n \in T
    BY <1>8
  <2>2. \A n \in 0 .. L : n \in T
    BY <1>1, <1>7, <2>1, UpTo
  <2> QED BY <1>1, <2>2
<1>10. AtEndOfLine(f[L])
  BY <1>9
<1> HIDE DEF T
<1>11. f[L] \in Screen
  BY <1>10 DEF AtEndOfLine, Legible
<1>12. Terminal' = f[L]
  BY <1>2, <1>11 DEF Screen
<1> QED BY <1>10, <1>12

LEMMA BlankLegible == AtEndOfLine(Blank)
<1>1. 0 \in Rows /\ 0 \in Columns
  BY ConsoleAssumption DEF Rows, Columns
<1>2. Cleared \in [Rows -> [Columns -> Characters \cup {Space}]]
  BY DEF Cleared
<1>3. /\ Blank.row = 0 /\ Blank.column = 0 /\ Blank.buffer = Cleared
      /\ Blank.line = << >> /\ Blank.lines = << >> /\ Blank \in Screen
  <2>1. << >> \in Seq(Characters) /\ << >> \in Seq(Seq(Characters))
    OBVIOUS
  <2> QED BY <1>1, <1>2, <2>1 DEF Blank, Screen
<1> QED BY <1>3, ConsoleAssumption DEF AtEndOfLine, Legible

ConsoleInv == AtEndOfLine(Terminal)

LEMMA SpecConsoleInv == Spec => []ConsoleInv
<1>1. Init => ConsoleInv
  <2>1. Init => Terminal = Blank
    BY DEF Init, ConsoleInit, Terminal, Blank
  <2> QED BY <2>1, BlankLegible DEF ConsoleInv
<1>2. ConsoleInv /\ [Next]_vars => ConsoleInv'
  <2> SUFFICES ASSUME ConsoleInv, [Next]_vars PROVE ConsoleInv'
    OBVIOUS
  <2>1. CASE ConsoleNext
    <3>1. ASSUME NEW text \in Texts, terminal_write(text) PROVE ConsoleInv'
      BY <3>1, WrittenLegible, ConsoleAssumption DEF terminal_write, ConsoleInv
    <3>2. ASSUME kernel_main PROVE ConsoleInv'
      BY <3>2, WrittenLegible, BlankLegible, ConsoleAssumption DEF kernel_main, ConsoleInv
    <3> QED BY <2>1, <3>1, <3>2 DEF ConsoleNext
  <2>2. CASE UNCHANGED console_vars
    <3>1. Terminal' = Terminal
      BY <2>2 DEF console_vars, Terminal
    <3> QED BY <3>1 DEF ConsoleInv
  <2> QED BY <2>1, <2>2 DEF Next, vars
<1> QED BY <1>1, <1>2, PTL DEF Spec

\* For every screen and every text, longer than the screen or not: what was written
\* last can be read in the rows above the cursor.
THEOREM LatestReadable == Spec => []LatestLinesKept
<1>1. ConsoleInv => LatestLinesKept
  <2> SUFFICES ASSUME ConsoleInv, NEW k \in 1 .. Len(Append(lines, line)),
                      NEW x \in 1 .. Len(Append(lines, line)[k])
               PROVE  terminal_buffer
                        [(terminal_row - (Len(Append(lines, line)) - k)) % VGA_HEIGHT][x - 1]
                          = Append(lines, line)[k][x]
    BY DEF LatestLinesKept
  <2> DEFINE latest == Append(lines, line)
             n == Len(lines)
             d == n + 1 - k
  <2>1. /\ terminal_row \in Rows /\ n \in Nat /\ n < VGA_HEIGHT
        /\ lines \in Seq(Seq(Characters)) /\ line \in Seq(Characters)
        /\ \A y \in 1 .. Len(line) : terminal_buffer[terminal_row][y - 1] = line[y]
        /\ \A j \in 1 .. n : \A y \in 1 .. Len(lines[j]) :
              terminal_buffer[RowAbove(terminal_row, n + 1 - j)][y - 1] = lines[j][y]
    BY SMTT(30) DEF ConsoleInv, AtEndOfLine, Legible, Screen, Terminal
  <2>2. /\ Len(latest) = n + 1 /\ latest[n + 1] = line
        /\ \A j \in 1 .. n : latest[j] = lines[j]
    BY <2>1
  <2> HIDE DEF latest, n
  <2>3. d \in 0 .. VGA_HEIGHT - 1 /\ Len(latest) - k = d
    BY <2>1, <2>2, ConsoleAssumption DEF latest
  <2>4. (terminal_row - (Len(latest) - k)) % VGA_HEIGHT = RowAbove(terminal_row, d)
    BY <2>1, <2>3, RowsAbove
  <2>5. terminal_buffer[RowAbove(terminal_row, d)][x - 1] = latest[k][x]
    <3>1. CASE k = n + 1
      <4>1. RowAbove(terminal_row, d) = terminal_row
        BY <2>1, <3>1, ConsoleAssumption DEF RowAbove, Rows
      <4> QED BY <2>1, <2>2, <3>1, <4>1 DEF latest
    <3>2. CASE k # n + 1
      <4>1. k \in 1 .. n
        BY <2>1, <2>2, <3>2 DEF latest
      <4> QED BY <2>1, <2>2, <4>1 DEF latest
    <3> QED BY <3>1, <3>2
  <2> QED BY <2>4, <2>5 DEF latest
<1> QED BY <1>1, SpecConsoleInv, PTL

-----------------------------------------------------------------------------
\* The log.
Entries(n) == [level : Levels \cup {WARNING}, no : 1 .. n]

\* The place d before the head, the last one being before the first.
Before(head, d) == IF d <= head THEN head - d ELSE head - d + MAX_LOG_ENTRIES

\* The ring is as full as it can be, and the d-th message from the last one is in the
\* d-th place before the head.
RingLatest(ring, messages) ==
    /\ messages \in Seq(Entries(Len(messages)))
    /\ ring.buffer \in [Places -> Entries(Len(messages)) \cup {Empty}]
    /\ ring.head \in Places
    /\ ring.count = IF Len(messages) < MAX_LOG_ENTRIES THEN Len(messages)
                    ELSE MAX_LOG_ENTRIES
    /\ \A d \in 1 .. ring.count :
          ring.buffer[Before(ring.head, d)] = messages[Len(messages) + 1 - d]

LEMMA PlacesBefore ==
    ASSUME NEW head \in Places, NEW next, next = (head + 1) % MAX_LOG_ENTRIES
    PROVE  /\ next \in Places
           /\ Before(next, 1) = head
           /\ \A d \in 2 .. MAX_LOG_ENTRIES :
                 /\ Before(head, d - 1) \in Places \ {head}
                 /\ Before(next, d) = Before(head, d - 1)
<1>1. MAX_LOG_ENTRIES \in Nat \ {0} /\ head \in 0 .. MAX_LOG_ENTRIES - 1
  BY MonitorAssumption DEF Places
<1>2. next = IF head + 1 = MAX_LOG_ENTRIES THEN 0 ELSE head + 1
  BY <1>1
<1> QED BY <1>1, <1>2 DEF Before, Places

\* One message more.
LEMMA LoggedLatest ==
    ASSUME NEW l, RingLatest(l.ring, l.messages), NEW level \in Levels \cup {WARNING}
    PROVE  RingLatest(Logged(l, level).ring, Logged(l, level).messages)
<1> DEFINE n == Len(l.messages)
           entry == [level |-> level, no |-> n + 1]
           ring == l.ring
           new == Put(ring, entry)
           messages == Append(l.messages, entry)
<1>1. Logged(l, level).ring = new /\ Logged(l, level).messages = messages
  BY DEF Logged
<1>2. /\ l.messages \in Seq(Entries(n)) /\ n \in Nat
      /\ ring.buffer \in [Places -> Entries(n) \cup {Empty}]
      /\ ring.head \in Places
      /\ ring.count = IF n < MAX_LOG_ENTRIES THEN n ELSE MAX_LOG_ENTRIES
      /\ \A d \in 1 .. ring.count :
            ring.buffer[Before(ring.head, d)] = l.messages[n + 1 - d]
  BY DEF RingLatest
<1>3. MAX_LOG_ENTRIES \in Nat \ {0}
  BY MonitorAssumption
<1>4. Entries(n) \subseteq Entries(n + 1) /\ entry \in Entries(n + 1)
  BY <1>2 DEF Entries
<1>5. /\ new.buffer = [ring.buffer EXCEPT ![ring.head] = entry]
      /\ new.head = (ring.head + 1) % MAX_LOG_ENTRIES
      /\ new.count = CountedUpTo(ring.count)
  BY DEF Put
<1> HIDE DEF n, ring, new, entry
<1>6. /\ Len(messages) = n + 1
      /\ messages[n + 1] = entry
      /\ \A i \in 1 .. n : messages[i] = l.messages[i]
  BY <1>2 DEF n
<1>7. messages \in Seq(Entries(n + 1))
  <2>1. l.messages \in Seq(Entries(n + 1))
    BY <1>2, <1>4, SeqMonotonic
  <2> QED BY <1>4, <2>1
<1> HIDE DEF messages
<1>8. /\ new.head \in Places /\ Before(new.head, 1) = ring.head
      /\ \A d \in 2 .. MAX_LOG_ENTRIES :
            /\ Before(ring.head, d - 1) \in Places \ {ring.head}
            /\ Before(new.head, d) = Before(ring.head, d - 1)
  BY <1>2, <1>5, PlacesBefore
<1>9. new.count = IF n + 1 < MAX_LOG_ENTRIES THEN n + 1 ELSE MAX_LOG_ENTRIES
  BY <1>2, <1>3, <1>5 DEF CountedUpTo
<1>10. new.buffer \in [Places -> Entries(n + 1) \cup {Empty}]
  BY <1>2, <1>4, <1>5
<1>11. ASSUME NEW d \in 1 .. new.count
       PROVE  new.buffer[Before(new.head, d)] = messages[n + 2 - d]
  <2>1. CASE d = 1
    BY <1>2, <1>5, <1>6, <1>8, <2>1
  <2>2. CASE d # 1
    <3>1. /\ d \in 2 .. MAX_LOG_ENTRIES /\ d - 1 \in 1 .. ring.count
          /\ n + 1 - (d - 1) \in 1 .. n /\ n + 1 - (d - 1) = n + 2 - d
      BY <1>2, <1>3, <1>9, <2>2
    <3>2. new.buffer[Before(new.head, d)] = ring.buffer[Before(ring.head, d - 1)]
      BY <1>2, <1>5, <1>8, <3>1
    <3> QED BY <1>2, <1>6, <3>1, <3>2
  <2> QED BY <2>1, <2>2
<1>12. RingLatest(new, messages)
  <2>1. \A d \in 1 .. new.count :
           new.buffer[Before(new.head, d)] = messages[Len(messages) + 1 - d]
    <3>1. \A d \in 1 .. new.count : Len(messages) + 1 - d = n + 2 - d
      BY <1>2, <1>3, <1>6, <1>9
    <3> QED BY <1>11, <3>1
  <2> QED BY <1>6, <1>7, <1>8, <1>9, <1>10, <2>1 DEF RingLatest
<1> QED BY <1>1, <1>12

\* The alerts log nothing, or one or two messages.
LEMMA WarnedLatest ==
    ASSUME NEW l, RingLatest(l.ring, l.messages), NEW resource, NEW free
    PROVE  RingLatest(Warned(l, resource, free).ring, Warned(l, resource, free).messages)
<1> QED BY LoggedLatest DEF Warned

-----------------------------------------------------------------------------
\* The metrics.

\* What names are made of.  All of it is in STRING, but no prover knows that of "c".
Letters == STRING \cup {"c", "d", "m", "n", "r", "t"}

\* The premise of MetricsKeepApart.
Apart(last, name) ==
    /\ last[name] # Never
    /\ Len(name) < NAME_LENGTH
    /\ \A other \in MetricNames \ {name} :
          last[other] # Never => ~IsPrefix(name, Kept(other)) /\ ~IsPrefix(other, name)

\* Every entry was made for a name that was recorded, and a name apart from the
\* others finds its own value.
TableApart(table, last) ==
    /\ table \in Seq([name : Seq(Letters), value : Nat])
    /\ Len(table) <= MAX_METRICS
    /\ last \in [MetricNames -> Nat \cup {Never}]
    /\ \A i \in 1 .. Len(table) :
          \E name \in MetricNames : last[name] # Never /\ table[i].name = Kept(name)
    /\ \A name \in MetricNames : Apart(last, name) =>
          IF Found(table, name) = {} THEN Len(table) = MAX_METRICS
          ELSE table[First(Found(table, name))].value = last[name]

LEMMA NamesKept ==
    ASSUME NEW name \in MetricNames
    PROVE  /\ name \in Seq(Letters) /\ Kept(name) \in Seq(Letters)
           /\ Len(Kept(name)) < NAME_LENGTH
           /\ Len(name) < NAME_LENGTH => Kept(name) = name
           /\ IsPrefix(name, name)
<1>1. name \in Seq(Letters)
  <2>1. /\ cpu_usage \in Seq(Letters) /\ memory_usage \in Seq(Letters)
        /\ disk_usage \in Seq(Letters)
    BY DEF cpu_usage, memory_usage, disk_usage, Letters
  <2>2. network_rx \in Seq(Letters) /\ network_tx \in Seq(Letters)
    BY DEF network_rx, network_tx, Letters
  <2>3. Seq(STRING) \subseteq Seq(Letters)
    BY SeqMonotonic DEF Letters
  <2> QED BY <2>1, <2>2, <2>3, MonitorAssumption DEF MetricNames
<1>2. Len(name) \in Nat /\ NAME_LENGTH \in Nat \ {0, 1, 2}
  BY <1>1, MonitorAssumption
<1>3. CASE Len(name) < NAME_LENGTH
  BY <1>1, <1>2, <1>3 DEF Kept, IsPrefix
<1>4. CASE ~(Len(name) < NAME_LENGTH)
  <2>1. Kept(name) = SubSeq(name, 1, NAME_LENGTH - 1)
    BY <1>4 DEF Kept
  <2>2. /\ SubSeq(name, 1, NAME_LENGTH - 1) \in Seq(Letters)
        /\ Len(SubSeq(name, 1, NAME_LENGTH - 1)) = NAME_LENGTH - 1
    BY <1>1, <1>2, <1>4
  <2> QED BY <1>1, <1>2, <1>4, <2>1, <2>2 DEF IsPrefix
<1> QED BY <1>3, <1>4

LEMMA FirstFound ==
    ASSUME NEW table, NEW name, Len(table) \in Nat, DOMAIN table = 1 .. Len(table),
           Found(table, name) # {}
    PROVE  /\ First(Found(table, name)) \in Found(table, name)
           /\ First(Found(table, name)) \in 1 .. Len(table)
<1> DEFINE F == Found(table, name)
<1>1. F \in SUBSET Nat /\ F \subseteq 1 .. Len(table)
  BY DEF Found
<1>2. \E i \in F : \A j \in F : i <= j
  BY <1>1, LeastNumber
<1> HIDE DEF F
<1>3. First(F) \in F
  BY <1>2 DEF First
<1> QED BY <1>1, <1>3 DEF F

\* One metric more.  Only the entry it is found at changes, or one is added for it, and
\* a name apart from it is found at neither.
LEMMA RecordedApart ==
    ASSUME NEW m, TableApart(m.table, m.last), NEW new \in MetricNames, NEW value \in Nat
    PROVE  TableApart(Recorded(m, new, value).table, Recorded(m, new, value).last)
<1> DEFINE table == m.table
           last == m.last
           after == Record(table, new, value)
           later == [last EXCEPT ![new] = value]
           found == Found(table, new)
           n == Len(table)
           Entry == [name : Seq(Letters), value : Nat]
<1>1. Recorded(m, new, value).table = after /\ Recorded(m, new, value).last = later
  BY DEF Recorded
<1>2. /\ table \in Seq(Entry) /\ n \in Nat /\ n <= MAX_METRICS /\ MAX_METRICS \in Nat
      /\ last \in [MetricNames -> Nat \cup {Never}]
      /\ \A i \in 1 .. n :
            \E name \in MetricNames : last[name] # Never /\ table[i].name = Kept(name)
      /\ \A name \in MetricNames : Apart(last, name) =>
            IF Found(table, name) = {} THEN n = MAX_METRICS
            ELSE table[First(Found(table, name))].value = last[name]
  BY MonitorAssumption DEF TableApart
<1>3. DOMAIN table = 1 .. n
  BY <1>2
<1>4. after = IF found # {} THEN [table EXCEPT ![First(found)].value = value]
              ELSE IF n < MAX_METRICS
              THEN Append(table, [name |-> Kept(new), value |-> value])
              ELSE table
  BY DEF Record
<1>5. value # Never
  BY DEF Never
<1>6. /\ later \in [MetricNames -> Nat \cup {Never}] /\ later[new] = value
      /\ \A name \in MetricNames \ {new} : later[name] = last[name]
      /\ \A name \in MetricNames : last[name] # Never => later[name] # Never
  BY <1>2, <1>5
<1>7. ASSUME NEW name \in MetricNames, name # new, Apart(later, name)
      PROVE  /\ Apart(last, name)
             /\ ~IsPrefix(name, Kept(new)) /\ ~IsPrefix(new, name)
  BY <1>5, <1>6, <1>7 DEF Apart
<1>8. /\ Kept(new) \in Seq(Letters) /\ IsPrefix(new, new)
      /\ Len(new) < NAME_LENGTH => Kept(new) = new
  BY NamesKept
<1> HIDE DEF after, later, found, table, last, n
<1>9. CASE found # {}
  <2> DEFINE k == First(found)
  <2>1. k \in found /\ k \in 1 .. n /\ IsPrefix(new, table[k].name)
    <3>1. k \in found /\ k \in 1 .. n
      BY <1>2, <1>3, <1>9, FirstFound DEF found, n
    <3> QED BY <3>1 DEF found, Found
  <2> HIDE DEF k
  <2>2. after = [table EXCEPT ![k].value = value]
    BY <1>4, <1>9 DEF k
  <2>3. /\ after \in Seq(Entry) /\ Len(after) = n /\ DOMAIN after = 1 .. n
        /\ after[k].value = value
        /\ \A i \in 1 .. n : /\ after[i].name = table[i].name
                             /\ i # k => after[i].value = table[i].value
    <3>1. \A i \in 1 .. n : table[i] \in Entry
      BY <1>2, ElementOfSeq DEF n
    <3>2. [table[k] EXCEPT !.value = value] \in Entry
      BY <2>1, <3>1
    <3>3. after = [table EXCEPT ![k] = [table[k] EXCEPT !.value = value]]
      BY <2>2
    <3>4. after \in Seq(Entry) /\ Len(after) = n
      BY <1>2, <2>1, <3>2, <3>3, ExceptSeq DEF n
    <3>5. /\ after[k] = [table[k] EXCEPT !.value = value]
          /\ \A i \in 1 .. n : i # k => after[i] = table[i]
      BY <1>2, <1>3, <2>1, <3>3
    <3>6. after[k].value = value /\ after[k].name = table[k].name
      BY <2>1, <3>1, <3>5
    <3>7. DOMAIN after = 1 .. n
      BY <3>4
    <3>8. \A i \in 1 .. n : i # k => after[i].value = table[i].value
      BY <3>5
    <3>9. \A i \in 1 .. n : after[i].name = table[i].name
      BY <3>5, <3>6
    <3> QED BY <3>4, <3>6, <3>7, <3>8, <3>9
  <2>4. \A name : Found(after, name) = Found(table, name)
    BY <1>3, <2>3 DEF Found
  <2>5. ASSUME NEW name \in MetricNames, Apart(later, name)
        PROVE  IF Found(after, name) = {} THEN n = MAX_METRICS
               ELSE after[First(Found(after, name))].value = later[name]
    <3>1. CASE name = new
      BY <1>6, <1>9, <2>3, <2>4, <3>1 DEF found, k
    <3>2. CASE name # new
      <4> DEFINE j == First(Found(table, name))
      <4>1. Apart(last, name) /\ ~IsPrefix(new, name) /\ later[name] = last[name]
        BY <1>6, <1>7, <2>5, <3>2
      <4>2. CASE Found(table, name) = {}
        BY <1>2, <2>4, <4>1, <4>2
      <4>3. CASE Found(table, name) # {}
        <5>1. j \in 1 .. n /\ IsPrefix(name, table[j].name)
          <6>1. j \in Found(table, name) /\ j \in 1 .. n
            BY <1>2, <1>3, <4>3, FirstFound DEF n
          <6> QED BY <6>1 DEF Found
        <5>2. table[j].value = last[name]
          BY <1>2, <4>1, <4>3
        <5> HIDE DEF j
        <5>3. j # k
          <6> SUFFICES ASSUME j = k PROVE FALSE
            OBVIOUS
          <6>1. PICK made \in MetricNames : last[made] # Never /\ table[k].name = Kept(made)
            BY <1>2, <2>1
          <6>2. made = name
            BY <4>1, <5>1, <6>1 DEF Apart
          <6>3. table[k].name = name
            BY <4>1, <6>1, <6>2, NamesKept DEF Apart
          <6> QED BY <2>1, <4>1, <6>3
        <5>4. after[j].value = later[name]
          BY <2>3, <4>1, <5>1, <5>2, <5>3
        <5> QED BY <2>4, <4>3, <5>4 DEF j
      <4> QED BY <4>2, <4>3
    <3> QED BY <3>1, <3>2
  <2>6. \A i \in 1 .. n :
          \E name \in MetricNames : later[name] # Never /\ after[i].name = Kept(name)
    BY ZenonT(30), <1>2, <1>6, <2>3
  <2> QED BY <1>1, <1>2, <1>6, <2>3, <2>5, <2>6 DEF TableApart
<1>10. CASE found = {} /\ n < MAX_METRICS
  <2> DEFINE made == [name |-> Kept(new), value |-> value]
  <2>1. after = Append(table, made) /\ made \in Entry
    BY <1>4, <1>8, <1>10
  <2>2. made.name = Kept(new) /\ made.value = value
    OBVIOUS
  <2> HIDE DEF made
  <2>3. /\ after \in Seq(Entry) /\ Len(after) = n + 1 /\ DOMAIN after = 1 .. n + 1
        /\ after[n + 1] = made /\ \A i \in 1 .. n : after[i] = table[i]
    BY <1>2, <2>1 DEF n
  <2>4. ASSUME NEW name \in MetricNames, Apart(later, name)
        PROVE  IF Found(after, name) = {} THEN n + 1 = MAX_METRICS
               ELSE after[First(Found(after, name))].value = later[name]
    <3>1. CASE name = new
      <4>1. IsPrefix(new, after[n + 1].name)
        BY <1>8, <2>2, <2>3, <2>4, <3>1 DEF Apart
      <4>2. Found(after, new) = {n + 1}
        <5>1. \A i \in 1 .. n : ~IsPrefix(new, after[i].name)
          BY <1>3, <1>10, <2>3 DEF Found, found
        <5>2. \A i \in 1 .. n + 1 : IsPrefix(new, after[i].name) <=> i = n + 1
          BY <1>2, <4>1, <5>1
        <5>3. n + 1 \in 1 .. n + 1
          BY <1>2
        <5> QED BY <2>3, <5>2, <5>3 DEF Found
      <4>3. First(Found(after, new)) = n + 1
        BY <1>2, <4>2 DEF First
      <4> QED BY <1>6, <2>2, <2>3, <3>1, <4>2, <4>3
    <3>2. CASE name # new
      <4>1. Apart(last, name) /\ ~IsPrefix(name, Kept(new)) /\ later[name] = last[name]
        BY <1>6, <1>7, <2>4, <3>2
      <4>2. Found(after, name) = Found(table, name)
        BY <1>2, <1>3, <2>2, <2>3, <4>1 DEF Found
      <4>3. Found(table, name) # {}
        BY <1>2, <1>10, <4>1
      <4>4. First(Found(table, name)) \in 1 .. n
        BY <1>2, <1>3, <4>3, FirstFound DEF n
      <4> QED BY <1>2, <2>3, <4>1, <4>2, <4>3, <4>4
    <3> QED BY <3>1, <3>2
  <2>5. \A i \in 1 .. n + 1 :
          \E name \in MetricNames : later[name] # Never /\ after[i].name = Kept(name)
    <3> SUFFICES ASSUME NEW i \in 1 .. n + 1
                 PROVE \E name \in MetricNames :
                          later[name] # Never /\ after[i].name = Kept(name)
      OBVIOUS
    <3>1. CASE i = n + 1
      BY <1>5, <1>6, <2>2, <2>3, <3>1
    <3>2. CASE i # n + 1
      <4>1. i \in 1 .. n
        BY <1>2, <3>2
      <4> QED BY <1>2, <1>6, <2>3, <4>1
    <3> QED BY <3>1, <3>2
  <2>6. n + 1 <= MAX_METRICS
    BY <1>2, <1>10
  <2> QED BY <1>1, <1>6, <2>3, <2>4, <2>5, <2>6 DEF TableApart
<1>11. CASE found = {} /\ ~(n < MAX_METRICS)
  <2>1. after = table /\ n = MAX_METRICS
    BY <1>2, <1>4, <1>11
  <2>2. ASSUME NEW name \in MetricNames, Apart(later, name)
        PROVE  IF Found(after, name) = {} THEN Len(after) = MAX_METRICS
               ELSE after[First(Found(after, name))].value = later[name]
    <3>1. CASE name = new
      BY <1>11, <2>1, <3>1 DEF found, n
    <3>2. CASE name # new
      BY <1>2, <1>6, <1>7, <2>1, <2>2, <3>2 DEF n
    <3> QED BY <3>1, <3>2
  <2>3. /\ after \in Seq(Entry) /\ Len(after) <= MAX_METRICS
        /\ \A i \in 1 .. Len(after) :
              \E name \in MetricNames : later[name] # Never /\ after[i].name = Kept(name)
    BY <1>2, <1>6, <2>1 DEF n
  <2> QED BY <1>1, <1>6, <2>2, <2>3 DEF TableApart
<1> QED BY <1>9, <1>10, <1>11

-----------------------------------------------------------------------------
\* The monitor as a whole.
MonitorInv ==
    /\ RingLatest(log, logged)
    /\ log \in [buffer : [Places -> LogEntry \cup {Empty}],
                head : Places, count : 0 .. MAX_LOG_ENTRIES]
    /\ Len(logged) <= MaxLogged
    /\ TableApart(metrics, recorded)

\* With no more messages than MaxLogged the numbers in the ring are as its type says.
LEMMA RingType ==
    ASSUME NEW ring, NEW messages, RingLatest(ring, messages),
           Len(messages) <= MaxLogged
    PROVE  /\ ring.buffer \in [Places -> LogEntry \cup {Empty}]
           /\ ring.head \in Places /\ ring.count \in 0 .. MAX_LOG_ENTRIES
           /\ messages \in Seq(LogEntry)
<1>1. /\ messages \in Seq(Entries(Len(messages))) /\ Len(messages) \in Nat
      /\ ring.buffer \in [Places -> Entries(Len(messages)) \cup {Empty}]
      /\ ring.head \in Places
      /\ ring.count = IF Len(messages) < MAX_LOG_ENTRIES THEN Len(messages)
                      ELSE MAX_LOG_ENTRIES
  BY DEF RingLatest
<1>2. Entries(Len(messages)) \subseteq LogEntry
  BY <1>1, MonitorAssumption DEF Entries, LogEntry
<1>3. messages \in Seq(LogEntry)
  BY <1>1, <1>2, SeqMonotonic
<1> QED BY <1>1, <1>2, <1>3, MonitorAssumption

\* The log becomes one that grew by messages, or stays.
LEMMA LogStep ==
    ASSUME MonitorInv, NEW l, RingLatest(l.ring, l.messages), Log(l),
           \/ l = Logs
           \/ \E k, level : l = Logged(k, level)
    PROVE  MonitorInv'
<1>1. /\ log' = l.ring /\ logged' = l.messages /\ Len(l.messages) <= MaxLogged
      /\ UNCHANGED <<metrics, recorded>>
  BY DEF Log
<1>2. /\ l.ring.buffer \in [Places -> LogEntry \cup {Empty}]
      /\ l.ring.head \in Places /\ l.ring.count \in 0 .. MAX_LOG_ENTRIES
  BY <1>1, RingType
<1>3. l.ring = [buffer |-> l.ring.buffer, head |-> l.ring.head, count |-> l.ring.count]
  <2>1. CASE l = Logs
    BY <2>1 DEF MonitorInv, Logs
  <2>2. ASSUME NEW k, NEW level, l = Logged(k, level)
        PROVE  l.ring = [buffer |-> l.ring.buffer, head |-> l.ring.head,
                         count |-> l.ring.count]
    BY <2>2 DEF Logged, Put
  <2> QED BY <2>1, <2>2
<1>4. log' \in [buffer : [Places -> LogEntry \cup {Empty}],
                head : Places, count : 0 .. MAX_LOG_ENTRIES]
  BY <1>1, <1>2, <1>3
<1>5. RingLatest(log', logged') /\ TableApart(metrics', recorded')
  BY <1>1 DEF MonitorInv
<1> QED BY <1>1, <1>4, <1>5 DEF MonitorInv, RingLatest, TableApart, Apart, Found

LEMMA EmptyMonitor ==
    /\ RingLatest(EmptyLog, << >>)
    /\ EmptyLog \in [buffer : [Places -> LogEntry \cup {Empty}],
                     head : Places, count : 0 .. MAX_LOG_ENTRIES]
    /\ Len(<< >>) <= MaxLogged
    /\ TableApart(<< >>, NothingRecorded)
<1>1. MAX_LOG_ENTRIES \in Nat \ {0} /\ MaxLogged \in Nat /\ MAX_METRICS \in Nat
  BY MonitorAssumption
<1>2. 0 \in Places
  BY <1>1 DEF Places
<1>3. RingLatest(EmptyLog, << >>)
  BY <1>1, <1>2 DEF RingLatest, EmptyLog
<1>4. TableApart(<< >>, NothingRecorded)
  <2>1. \A name \in MetricNames : NothingRecorded[name] = Never
    BY DEF NothingRecorded
  <2> QED BY <1>1, <2>1 DEF TableApart, Apart, NothingRecorded
<1> QED BY <1>1, <1>2, <1>3, <1>4 DEF EmptyLog

LEMMA NextMonitorInv == ServicesInv /\ MonitorInv /\ [Next]_vars => MonitorInv'
<1> SUFFICES ASSUME ServicesInv, MonitorInv, [Next]_vars PROVE MonitorInv'
  OBVIOUS
<1>1. ASSUME UNCHANGED <<log, logged, metrics, recorded>> PROVE MonitorInv'
  BY <1>1 DEF MonitorInv, RingLatest, TableApart, Apart, Found
<1>2. ASSUME Logging PROVE MonitorInv'
  <2>1. RingLatest(Logs.ring, Logs.messages)
    BY DEF Logs, MonitorInv
  <2>2. ASSUME NEW level \in Levels, log_message(level) PROVE MonitorInv'
    BY <2>1, <2>2, LoggedLatest, LogStep DEF log_message
  <2>3. ASSUME check_alerts(Free) PROVE MonitorInv'
    <3> DEFINE one == Warned(Logs, "memory", Free)
               two == Warned(one, "disk", Free)
    <3>1. RingLatest(one.ring, one.messages)
      BY <2>1, WarnedLatest
    <3>2. one = Logs \/ one = Logged(Logs, WARNING)
      BY DEF Warned
    <3>3. two = one \/ two = Logged(one, WARNING)
      BY DEF Warned
    <3>4. Log(two)
      BY <2>3 DEF check_alerts
    <3> HIDE DEF one
    <3>5. RingLatest(two.ring, two.messages)
      BY <3>1, WarnedLatest
    <3> HIDE DEF two
    <3> QED BY <3>2, <3>3, <3>4, <3>5, LogStep
  <2> QED BY <1>2, <2>2, <2>3 DEF Logging
<1>3. ASSUME NEW m, TableApart(m.table, m.last), RecordAs(m), UNCHANGED <<log, logged>>
      PROVE  MonitorInv'
  <2>1. TableApart(metrics', recorded')
    BY <1>3 DEF RecordAs
  <2> QED BY <1>3, <2>1 DEF MonitorInv, RingLatest, TableApart, Apart, Found
<1>4. TableApart(Records.table, Records.last)
  BY DEF Records, MonitorInv
<1>5. ASSUME Recording PROVE MonitorInv'
  <2>1. PICK name \in Names, value \in Values : record_metric(name, value)
    BY <1>5 DEF Recording
  <2>2. name \in MetricNames /\ value \in Nat
    BY MonitorAssumption DEF MetricNames
  <2>3. TableApart(Recorded(Records, name, value).table,
                   Recorded(Records, name, value).last)
    BY <1>4, <2>2, RecordedApart
  <2> QED BY <1>3, <2>1, <2>3 DEF record_metric
<1>6. ASSUME update_system_stats(used, get_active_connections) PROVE MonitorInv'
  <2> DEFINE rx == (stats.network_rx + 1024) % WORD
             tx == (stats.network_tx + 512) % WORD
             cpu == Recorded(Records, cpu_usage, CPU)
             memory == Recorded(cpu, memory_usage, used["memory"])
             disk == Recorded(memory, disk_usage, used["disk"])
             received == Recorded(disk, network_rx, rx)
             sent == Recorded(received, network_tx, tx)
  <2>1. RecordAs(sent) /\ UNCHANGED <<log, logged>>
    BY <1>6 DEF update_system_stats
  <2>2. /\ CPU \in Nat /\ used["memory"] \in Nat /\ used["disk"] \in Nat
        /\ rx \in Nat /\ tx \in Nat
    <3>1. stats.network_rx + 1024 \in Nat /\ stats.network_tx + 512 \in Nat
      BY MonitorAssumption DEF ServicesInv, StatsType
    <3>2. rx \in Nat /\ tx \in Nat
      BY <3>1, MonitorAssumption
    <3>3. used["memory"] \in Nat /\ used["disk"] \in Nat
      BY DEF ServicesInv, Resources
    <3> QED BY <3>2, <3>3 DEF CPU
  <2>3. {cpu_usage, memory_usage, disk_usage, network_rx, network_tx} \subseteq MetricNames
    BY DEF MetricNames
  <2> HIDE DEF rx, tx
  <2>4. TableApart(cpu.table, cpu.last)
    BY <1>4, <2>2, <2>3, RecordedApart
  <2> HIDE DEF cpu
  <2>5. TableApart(memory.table, memory.last)
    BY <2>2, <2>3, <2>4, RecordedApart
  <2> HIDE DEF memory
  <2>6. TableApart(disk.table, disk.last)
    BY <2>2, <2>3, <2>5, RecordedApart
  <2> HIDE DEF disk
  <2>7. TableApart(received.table, received.last)
    BY <2>2, <2>3, <2>6, RecordedApart
  <2> HIDE DEF received
  <2>8. TableApart(sent.table, sent.last)
    BY <2>2, <2>3, <2>7, RecordedApart
  <2> HIDE DEF sent
  <2> QED BY <1>3, <2>1, <2>8
<1>7. ASSUME monitoring_init PROVE MonitorInv'
  <2>1. /\ log' = EmptyLog /\ logged' = << >>
        /\ metrics' = << >> /\ recorded' = NothingRecorded
    BY <1>7 DEF monitoring_init
  <2>2. /\ RingLatest(log', logged') /\ TableApart(metrics', recorded')
        /\ log' \in [buffer : [Places -> LogEntry \cup {Empty}],
                     head : Places, count : 0 .. MAX_LOG_ENTRIES]
        /\ Len(logged') <= MaxLogged
    BY <2>1, EmptyMonitor
  <2> QED BY <2>2 DEF MonitorInv, RingLatest, TableApart, Apart, Found
<1>8. ASSUME Services PROVE MonitorInv'
  BY <1>1, <1>8 DEF Services, init_system, enable_service, disable_service, Network, Use,
                    monitor_vars
<1>9. ASSUME UNCHANGED system_vars PROVE MonitorInv'
  BY <1>1, <1>9 DEF system_vars, monitor_vars
<1> QED BY <1>2, <1>5, <1>6, <1>7, <1>8, <1>9 DEF Next, System, Refreshing, vars

LEMMA SpecMonitorInv == Spec => []MonitorInv
<1>1. Init => MonitorInv
  BY EmptyMonitor DEF Init, MonitorInit, MonitorInv
<1> QED BY <1>1, InitServicesInv, NextServicesInv, NextMonitorInv, PTL DEF Spec

\* For every length of the ring, before it is full and however often it has gone
\* around: get_logs reads the latest messages, in the order in which they were logged.
THEOREM LatestReadBack == Spec => []LogKeepsLatest
<1>1. MonitorInv => LogKeepsLatest
  <2> SUFFICES ASSUME MonitorInv PROVE LogKeepsLatest
    OBVIOUS
  <2> DEFINE n == Len(logged)
             kept == IF n <= MAX_LOG_ENTRIES THEN logged
                     ELSE SubSeq(logged, n - MAX_LOG_ENTRIES + 1, n)
             read == [i \in 1 .. log.count |->
                        log.buffer[(Start + i - 1) % MAX_LOG_ENTRIES]]
  <2>1. /\ logged \in Seq(LogEntry) /\ n \in Nat
        /\ log.head \in Places
        /\ log.count = IF n < MAX_LOG_ENTRIES THEN n ELSE MAX_LOG_ENTRIES
        /\ \A d \in 1 .. log.count : log.buffer[Before(log.head, d)] = logged[n + 1 - d]
    <3>1. RingLatest(log, logged) /\ Len(logged) <= MaxLogged
      BY DEF MonitorInv
    <3>2. logged \in Seq(LogEntry) /\ log.head \in Places
      BY <3>1, RingType
    <3>3. /\ log.count = IF n < MAX_LOG_ENTRIES THEN n ELSE MAX_LOG_ENTRIES
          /\ \A d \in 1 .. log.count :
                log.buffer[Before(log.head, d)] = logged[n + 1 - d]
      BY <3>1 DEF RingLatest
    <3> QED BY <3>2, <3>3
  <2>2. MAX_LOG_ENTRIES \in Nat \ {0} /\ log.head \in 0 .. MAX_LOG_ENTRIES - 1
    BY <2>1, MonitorAssumption DEF Places
  <2>3. /\ kept \in Seq(LogEntry) /\ Len(kept) = log.count
        /\ \A i \in 1 .. log.count : kept[i] = logged[n - log.count + i]
    <3>1. CASE n <= MAX_LOG_ENTRIES
      <4>1. kept = logged /\ log.count = n
        BY <2>1, <2>2, <3>1
      <4> HIDE DEF kept
      <4> QED BY <2>1, <4>1
    <3>2. CASE ~(n <= MAX_LOG_ENTRIES)
      <4>1. kept = SubSeq(logged, n - MAX_LOG_ENTRIES + 1, n) /\ log.count = MAX_LOG_ENTRIES
        BY <2>1, <2>2, <3>2
      <4> HIDE DEF kept
      <4> DEFINE a == n - MAX_LOG_ENTRIES + 1
      <4> HIDE DEF n
      <4>2. n \in Nat /\ MAX_LOG_ENTRIES \in Nat \ {0} /\ n > MAX_LOG_ENTRIES
        BY <2>1, <2>2, <3>2
      <4>3. a \in Nat /\ 1 <= a /\ a <= n /\ n - a + 1 = MAX_LOG_ENTRIES
        BY <4>2
      <4>4. \A i \in 1 .. MAX_LOG_ENTRIES : a + i - 1 = n - log.count + i
        BY <4>1, <4>2
      <4> HIDE DEF a
      <4>5. n \in Nat /\ \A i \in a .. n : logged[i] \in LogEntry
        BY <2>1, <4>3, ElementOfSeq DEF n
      <4>6. /\ SubSeq(logged, a, n) \in Seq(LogEntry)
            /\ Len(SubSeq(logged, a, n)) = n - a + 1
            /\ \A i \in 1 .. n - a + 1 : SubSeq(logged, a, n)[i] = logged[a + i - 1]
        BY <4>3, <4>5, SubSeqProperties
      <4>7. kept = SubSeq(logged, a, n)
        BY <4>1 DEF a
      <4> QED BY <4>1, <4>3, <4>4, <4>6, <4>7
    <3> QED BY <3>1, <3>2
  <2>4. ASSUME NEW i \in 1 .. log.count
        PROVE  (Start + i - 1) % MAX_LOG_ENTRIES = Before(log.head, log.count + 1 - i)
    <3> DEFINE M == MAX_LOG_ENTRIES
    <3>1. \A x \in 0 .. 2 * M - 1 : x % M = IF x < M THEN x ELSE x - M
      BY <2>2
    <3>2. /\ log.count \in 0 .. M /\ log.head - log.count + M \in 0 .. 2 * M - 1
      BY <2>1, <2>2
    <3>3. Start = IF log.head - log.count + M < M THEN log.head - log.count + M
                  ELSE log.head - log.count
      BY <2>2, <3>1, <3>2 DEF Start
    <3>4. Start \in 0 .. M - 1 /\ Start + i - 1 \in 0 .. 2 * M - 1
      BY <2>2, <3>2, <3>3
    <3>5. PICK x \in 0 .. 2 * M - 1 : x = Start + i - 1
      BY <3>4
    <3>6. x % M = IF x < M THEN x ELSE x - M
      BY <3>1
    <3>7. (IF x < M THEN x ELSE x - M) = Before(log.head, log.count + 1 - i)
      <4> DEFINE d == log.count + 1 - i
      <4>1. /\ log.count \in Nat /\ log.head \in Nat /\ log.head < M /\ M \in Nat
            /\ i \in Nat /\ i <= log.count /\ log.count <= M
        BY <2>2, <3>2
      <4>2. CASE log.head < log.count
        <5>1. x = log.head - d + M
          BY <3>3, <3>5, <4>1, <4>2
        <5> HIDE DEF M
        <5> QED BY <4>1, <5>1 DEF Before, M
      <4>3. CASE ~(log.head < log.count)
        <5>1. x = log.head - d
          BY <3>3, <3>5, <4>1, <4>3
        <5>2. d <= log.head /\ x < M
          BY <4>1, <4>3, <5>1
        <5> QED BY <5>1, <5>2 DEF Before
      <4> QED BY <4>2, <4>3
    <3> QED BY <3>5, <3>6, <3>7
  <2>5. read = kept
    <3>1. ASSUME NEW i \in 1 .. log.count
          PROVE  log.buffer[(Start + i - 1) % MAX_LOG_ENTRIES] = kept[i]
      <4>1. log.count + 1 - i \in 1 .. log.count /\ n + 1 - (log.count + 1 - i) = n - log.count + i
        BY <2>1, <2>2
      <4> QED BY <2>1, <2>3, <2>4, <4>1
    <3> HIDE DEF kept
    <3>2. kept = [i \in 1 .. log.count |-> kept[i]]
      BY <2>3
    <3> QED BY <3>1, <3>2
  <2> HIDE DEF read
  <2>6. \A max, min : get_logs(max, min) = FirstOf(AtLeast(read, min), max)
    BY DEF get_logs, read
  <2> QED BY <2>5, <2>6 DEF LogKeepsLatest
<1> QED BY <1>1, SpecMonitorInv, PTL

\* For every table and all names: a metric that no other name is a beginning of or
\* begins with keeps its value, however many others are recorded and dropped.
THEOREM OwnMetricRead == Spec => []MetricsKeepApart
<1>1. MonitorInv => MetricsKeepApart
  <2> SUFFICES ASSUME MonitorInv, NEW name \in MetricNames, Apart(recorded, name)
               PROVE  \/ get_metric(name) = recorded[name]
                      \/ get_metric(name) = 0 /\ Len(metrics) = MAX_METRICS
    BY DEF MetricsKeepApart, Apart
  <2>1. IF Found(metrics, name) = {} THEN Len(metrics) = MAX_METRICS
        ELSE metrics[First(Found(metrics, name))].value = recorded[name]
    BY DEF MonitorInv, TableApart
  <2> QED BY <2>1 DEF get_metric
<1> QED BY <1>1, SpecMonitorInv, PTL

\* The types of all that the services, the monitor, the API server and the terminal
\* keep: no ring, table or screen is ever left.
THEOREM ServicesTypes == Spec => []TypeOK
<1>1. ServicesInv /\ MonitorInv => MonitorTypeOK
  <2> SUFFICES ASSUME ServicesInv, MonitorInv PROVE MonitorTypeOK
    OBVIOUS
  <2>1. logged \in Seq(LogEntry) /\ Len(logged) <= MaxLogged
    BY RingType DEF MonitorInv
  <2>2. /\ metrics \in Seq([name : Seq(Letters), value : Nat])
        /\ Len(metrics) <= MAX_METRICS
        /\ recorded \in [MetricNames -> Nat \cup {Never}]
        /\ \A i \in 1 .. Len(metrics) :
              \E name \in MetricNames : metrics[i].name = Kept(name)
    BY DEF MonitorInv, TableApart
  <2>3. ASSUME NEW i \in DOMAIN metrics
        PROVE  Len(metrics[i].name) < NAME_LENGTH /\ metrics[i].value \in Nat
    <3>1. i \in 1 .. Len(metrics)
      BY <2>2
    <3>2. metrics[i] \in [name : Seq(Letters), value : Nat]
      BY <2>2, <3>1, ElementOfSeq
    <3> QED BY <2>2, <3>1, <3>2, NamesKept
  <2> QED BY <2>1, <2>2, <2>3 DEF MonitorTypeOK, MonitorInv, ServicesInv, StatsType
<1>2. ApiInv => ApiTypeOK
  <2> SUFFICES ASSUME ApiInv PROVE ApiTypeOK
    OBVIOUS
  <2>1. ASSUME NEW i \in 1 .. MAX_ROUTES, i <= route_count
        PROVE  routes[i].method \in AllMethods /\ routes[i].handler \in AllHandlers
    <3>1. i \in 1 .. Len(registered) /\ Answers(routes[i], registered[i])
      BY <2>1, ApiAssumption DEF ApiInv, SlotsAnswer
    <3>2. registered[i] \in RegisteredRoute
      BY <3>1, ElementOfSeq DEF ApiInv, SlotsAnswer
    <3> QED BY <3>1, <3>2 DEF Answers, RegisteredRoute
  <2> QED BY <2>1 DEF ApiTypeOK, ApiInv, SlotsAnswer
<1>3. ConsoleInv => ConsoleTypeOK
  <2>1. ConsoleInv => Terminal \in Screen /\ Len(line) = terminal_column
                      /\ Len(lines) < VGA_HEIGHT
    BY DEF ConsoleInv, AtEndOfLine, Legible, Terminal
  <2> QED BY <2>1 DEF Screen, Terminal, ConsoleTypeOK
<1>4. ServicesInv /\ MonitorInv /\ ApiInv /\ ConsoleInv => TypeOK
  BY <1>1, <1>2, <1>3 DEF TypeOK, ServicesInv
<1> QED BY <1>4, SpecServicesInv, SpecMonitorInv, SpecApiInv, SpecConsoleInv, PTL
=============================================================================
