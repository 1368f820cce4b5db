----------------------------- MODULE HttpRouter -----------------------------
(***************************************************************************)
(* uWS::HttpRouter of one method: patterns are added to a tree, and a URL  *)
(* runs the handlers on its way through it until one accepts.  A pattern   *)
(* and a URL are their segments, the URL's up to the first empty one after *)
(* its first; Wild stands for "*" and names that begin with a colon are    *)
(* parameters.  MAX_URL_SEGMENTS is not reached.                           *)
(***************************************************************************)
EXTENDS Naturals, Sequences, FiniteSets, SequencesExt

CONSTANTS
    Patterns,   \* that applications add: "*" is the last segment of one
    Urls,       \* that clients ask for
    Parameters, \* the segments that are parameters
    MaxRoutes   \* patterns added (bound)

Wild == "*"
ASSUME HttpRouterAssumption ==
    /\ MaxRoutes \in Nat
    /\ Patterns \subseteq Seq(STRING) /\ Urls \subseteq Seq(STRING)
    /\ \A p \in Patterns : Len(p) > 0 /\ \A n \in 1..Len(p) - 1 : p[n] # Wild
    /\ \A url \in Urls : Len(url) > 0 /\ \A n \in 2..Len(url) : url[n] # ""
    /\ Wild \notin Parameters /\ "" \notin Parameters

VARIABLE routes   \* the patterns in the order they were added: handler n is that of routes[n]

\* A node is its path.  Its handler is the last added, and its children are in the order they
\* were made: by the first of the routes through them.
HandlerOf(path) == Max({n \in DOMAIN routes : routes[n] = path} \cup {0})
MakesChild(path, n) ==
    /\ IsStrictPrefix(path, routes[n])
    /\ \A m \in 1..n - 1 : ~IsPrefix(Append(path, routes[n][Len(path) + 1]), routes[m])

\* getUrlSegment: nothing beyond the end.
getUrlSegment(url, n) == IF n < Len(url) THEN url[n + 1] ELSE ""

(* executeHandlers, with the handlers that accept; the result says which ran, with what      *)
(* parameters, whether one accepted, and gives the parameter stack back.                     *)
Runs == [ran : Seq(Nat \X Seq(STRING)), params : Seq(STRING),
         handled : BOOLEAN, over : BOOLEAN]
Ran(f, h, accepts) ==
    [f EXCEPT !.ran = Append(@, <<h, f.params>>), !.handled = h \in accepts]
Pushed(f, segment) == [f EXCEPT !.params = Append(@, segment)]
StackKept(f) == f
Popped(f) == [f EXCEPT !.params = Front(@)]

\* Where nothing is left of the URL.
Stands(f, path, accepts) == IF HandlerOf(path) = 0 THEN f ELSE Ran(f, HandlerOf(path), accepts)

\* One child of the loop; below is executeHandlers for the segments that are left.
Child(f, p, segment, accepts, below) ==
    IF f.handled \/ f.over THEN f
    ELSE IF Last(p) = Wild
    THEN IF HandlerOf(p) = 0 THEN [f EXCEPT !.over = TRUE] ELSE Ran(f, HandlerOf(p), accepts)
    ELSE IF Last(p) \in Parameters /\ segment # ""
    THEN LET g == below[p][Pushed(f, segment)] IN IF g.handled THEN g ELSE Popped(g)
    ELSE IF Last(p) = segment THEN below[p][f] ELSE f

Children(f, path, segment, accepts, below) ==
    LET g[n \in 0..Len(routes)] ==
          IF n = 0 THEN f
          ELSE IF MakesChild(path, n)
          THEN Child(g[n - 1], Append(path, routes[n][Len(path) + 1]), segment, accepts, below)
          ELSE g[n - 1]
    IN g
Descends(f, path, segment, accepts, below) ==
    [Children(f, path, segment, accepts, below)[Len(routes)] EXCEPT !.over = f.over]

\* By how many segments of the URL are left.
executeHandlers(url, accepts) ==
    LET e[left \in 0..Len(url)] ==
          IF left = 0 THEN [path \in Seq(STRING) |-> [f \in Runs |-> Stands(f, path, accepts)]]
          ELSE LET segment == getUrlSegment(url, Len(url) - left)
               IN [path \in Seq(STRING) |-> [f \in Runs |->
                     Descends(f, path, segment, accepts, e[left - 1])]]
    IN e

route(url, accepts) ==
    executeHandlers(url, accepts)[Len(url)][<<>>]
        [[ran |-> <<>>, params |-> <<>>, handled |-> FALSE, over |-> FALSE]]

HttpRouterInit == routes = <<>>
add(p) == Len(routes) < MaxRoutes /\ routes' = Append(routes, p)
HttpRouterNext == \E p \in Patterns : add(p)
HttpRouterSpec == HttpRouterInit /\ [][HttpRouterNext]_routes
-----------------------------------------------------------------------------
\* What a pattern says: "*" stands for one segment or more.
PatternMatches(p, url) ==
    /\ IF Last(p) = Wild THEN Len(url) >= Len(p) ELSE Len(url) = Len(p)
    /\ \A j \in DOMAIN p : p[j] \in {Wild, url[j]} \/ (p[j] \in Parameters /\ url[j] # "")
Arguments(p, url) ==
    LET a[j \in 0..Len(p)] ==
          IF j = 0 THEN <<>>
          ELSE IF p[j] \in Parameters THEN Append(a[j - 1], url[j]) ELSE a[j - 1]
    IN a
Added == {n \in DOMAIN routes : HandlerOf(routes[n]) = n}

\* A handler runs for a URL if and only if its pattern matches, once, with the segments its
\* parameters stand for, whichever handlers before it have declined and however far into the
\* tree they were (HttpRouter.h:118-163); none runs after the one that accepts, and one accepts
\* if any that matches would (App.h's yield, HttpContext.h:143-152).
RoutesAsMatched ==
    \A url \in Urls, accepts \in SUBSET Added :
        LET r == route(url, accepts)
            matching == {n \in Added : PatternMatches(routes[n], url)}
        IN /\ \A k \in DOMAIN r.ran :
                 /\ r.ran[k][1] \in matching
                 /\ r.ran[k][2] = Arguments(routes[r.ran[k][1]], url)[Len(routes[r.ran[k][1]])]
                 /\ r.ran[k][1] \in accepts <=> r.handled /\ k = Len(r.ran)
           /\ Cardinality({r.ran[k][1] : k \in DOMAIN r.ran}) = Len(r.ran)
           /\ r.handled <=> matching \cap accepts # {}
           /\ ~r.handled => Len(r.ran) = Cardinality(matching)
=============================================================================
