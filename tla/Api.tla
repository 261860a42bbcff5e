--------------------------------- MODULE Api ---------------------------------
(***************************************************************************)
(* The routes of web/api/api.c: which handler answers a request.           *)
(*                                                                         *)
(* A path is a sequence of its parts.  api_register_route copies a path    *)
(* without its final 0: where the slot held a longer path before, the end  *)
(* of that one remains.  Nothing writes a 0 into a slot, so that what a    *)
(* slot holds up to its first 0 is one path laid over the other.  Handlers *)
(* return texts of their own and touch nothing.                            *)
(***************************************************************************)
EXTENDS Integers, Sequences, SequencesExt

CONSTANTS
    MAX_ROUTES,         \* slots for routes (64)
    MAX_PATH_LENGTH,    \* places for the parts of a path (256)
    Methods, Paths,     \* what others register and request
    Handlers,           \* the handlers of others
    BuiltinRoutes,      \* the routes of api_init, in order
    NotFound            \* api_not_found

\* A route is registered for a method and a path.
Route(method, path, handler) == [method |-> method, path |-> path, handler |-> handler]

AllMethods == Methods \cup {BuiltinRoutes[i].method : i \in DOMAIN BuiltinRoutes}
AllHandlers == Handlers \cup {BuiltinRoutes[i].handler : i \in DOMAIN BuiltinRoutes}

ASSUME ApiAssumption ==
    /\ MAX_ROUTES \in Nat /\ Len(BuiltinRoutes) <= MAX_ROUTES
    /\ MAX_PATH_LENGTH \in Nat \ {0}
    /\ Paths \subseteq Seq(STRING)
    /\ BuiltinRoutes \in
          Seq([method : AllMethods, path : Seq(STRING), handler : AllHandlers])
    /\ \A i, j \in DOMAIN BuiltinRoutes :
          /\ Len(BuiltinRoutes[i].path) < MAX_PATH_LENGTH
          /\ i # j => \/ BuiltinRoutes[i].method # BuiltinRoutes[j].method
                      \/ BuiltinRoutes[i].path # BuiltinRoutes[j].path
    /\ NotFound \notin AllHandlers

VARIABLES
    routes,             \* the slots, used ones and others
    route_count,
    registered,         \* observer: what the used slots were registered for
    initialized_first   \* observer: api_init was the first call

api_vars == <<routes, route_count, registered, initialized_first>>

ApiTypeOK ==
    /\ DOMAIN routes = 1 .. MAX_ROUTES
    /\ route_count \in 0 .. MAX_ROUTES
    /\ \A i \in 1 .. MAX_ROUTES :
          /\ Len(routes[i].path) <= MAX_PATH_LENGTH
          /\ i <= route_count =>
                routes[i].method \in AllMethods /\ routes[i].handler \in AllHandlers
    /\ Len(registered) = route_count
    /\ initialized_first \in BOOLEAN

\* Static storage is zero.
ApiInit ==
    /\ routes = [i \in 1 .. MAX_ROUTES |-> Route("GET", << >>, NotFound)]
    /\ route_count = 0
    /\ registered = << >>
    /\ initialized_first = FALSE

-----------------------------------------------------------------------------
\* What a slot that held the path old holds when path has been copied into it.
Copied(old, path) ==
    LET new == SubSeq(path, 1, IF Len(path) < MAX_PATH_LENGTH THEN Len(path)
                               ELSE MAX_PATH_LENGTH)
    IN  IF Len(new) >= Len(old) THEN new
        ELSE new \o SubSeq(old, Len(new) + 1, Len(old))

\* What a slot holds once a route is registered in it.
Registered(slot, route) == [route EXCEPT !.path = Copied(slot.path, @)]

\* Slots that are full when the routes added follow count others.
Filled(count, added) ==
    IF count + Len(added) < MAX_ROUTES THEN count + Len(added) ELSE MAX_ROUTES

\* The routes added are registered one after the other behind count others, which
\* ought to be the known ones: each goes to a slot of its own, the rest is dropped.
RegisterAll(count, known, added) ==
    LET filled == Filled(count, added) IN
    /\ routes' = [i \in 1 .. MAX_ROUTES |->
                     IF i \in count + 1 .. filled
                     THEN Registered(routes[i], added[i - count])
                     ELSE routes[i]]
    /\ route_count' = filled
    /\ registered' = SubSeq(known \o added, 1, Filled(0, known \o added))

api_register_route(method, path, handler) ==
    /\ RegisterAll(route_count, registered, <<Route(method, path, handler)>>)
    /\ UNCHANGED initialized_first

\* Mutant: api_init adds its routes to those that are there.
AllKept == route_count

\* With how many routes api_init starts.
NoneKept == 0

api_init ==
    /\ RegisterAll(NoneKept, << >>, BuiltinRoutes)
    /\ initialized_first' = (initialized_first \/ \A i \in 1 .. MAX_ROUTES : routes[i].path = << >>)

ApiNext ==
    \/ api_init
    \/ \E method \in Methods, path \in Paths, handler \in Handlers :
          api_register_route(method, path, handler)

\* Mutant: a path need not end where the slot's does.
MatchingBegun(method, path) ==
    {i \in 1 .. route_count : routes[i].method = method /\ IsPrefix(path, routes[i].path)}

\* The slots that answer a request.
Matching(method, path) ==
    {i \in 1 .. route_count : routes[i].method = method /\ routes[i].path = path}

\* Mutant: the route registered last answers.
LastOfSlots(slots) == CHOOSE i \in slots : \A j \in slots : j <= i

FirstOfSlots(slots) == CHOOSE i \in slots : \A j \in slots : i <= j

api_handle_request(method, path) ==
    LET slots == Matching(method, path)
    IN  IF slots = {} THEN NotFound ELSE routes[FirstOfSlots(slots)].handler

-----------------------------------------------------------------------------
\* If api_init is called before anything is registered, each of its routes is
\* answered by its own handler from then on: routes registered later for the same
\* path, a full table, what is left of longer paths and a second api_init change
\* nothing about it.  (api.c:180-203: the copies without a final 0.)
BuiltinsAnswer ==
    initialized_first =>
        \A i \in DOMAIN BuiltinRoutes :
            LET route == BuiltinRoutes[i]
            IN  api_handle_request(route.method, route.path) = route.handler

\* Requests a route registered for own may get: those below its path, and, if it was
\* cut off, those that are as long as a slot and begin with no more of it.
Below(path, own) ==
    \/ IsPrefix(own, path)
    \/ IsPrefix(path, own) /\ Len(path) = MAX_PATH_LENGTH

\* A handler answers for the method it was registered for since the last api_init,
\* and for paths that begin with its own: an end left over from another route makes
\* it miss requests, and never get one that is not below its path.
AnswersBelowItsPath ==
    \A method \in AllMethods, i \in 1 .. MAX_ROUTES :
        LET path == routes[i].path
            handler == api_handle_request(method, path)
        IN  handler # NotFound =>
                \E k \in DOMAIN registered :
                    /\ registered[k].method = method /\ registered[k].handler = handler
                    /\ Below(path, registered[k].path)

\* A route whose slot holds no more than its own path is answered: by its handler or
\* that of an earlier route with the same method, whose path is the same or was put
\* over a longer one that ended alike.  Only an end left over from a longer path
\* makes a route miss its requests.
RoutesAnswer ==
    \A k \in DOMAIN registered :
        LET route == registered[k] IN
        Len(routes[k].path) = Len(route.path) =>
            \E j \in 1 .. k :
                /\ registered[j].method = route.method
                /\ Below(route.path, registered[j].path)
                /\ api_handle_request(route.method, route.path) = registered[j].handler
=============================================================================
