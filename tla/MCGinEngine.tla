---------------------------- MODULE MCGinEngine ----------------------------
\* Paths with a common prefix, with two different wildcards at one place and
\* with a wildcard that goes on; two requests, of which one has no route.
EXTENDS GinRoutes, TLC

CONSTANTS h, r1, r2

MCPaths == {<<"/">>, <<"/", "a">>, <<"/", "a", "b">>, <<"/", "b">>,
            <<"/", ":p">>, <<"/", ":p", "/", "b">>, <<"/", ":q">>}
MCHandlerLists == {<<h>>}
MCMethodLists == {<<"GET">>, <<"GET", "POST">>}
\* Middleware, a handler for requests without a route, and a route.
MCDeployed ==
  {[groups |-> [engine |-> <<h>>, sub |-> None], noRoute |-> <<h>>, noMethod |-> <<>>,
    registered |-> <<[methods |-> <<"GET">>, path |-> <<"/">>, chain |-> <<h, h>>]>>]}
MCMethod == [r \in Requests |-> IF r = r1 THEN "GET" ELSE "POST"]
MCAsked == [r \in Requests |-> IF r = r1 THEN {<<"/">>, <<"/", "a">>} ELSE {<<"/">>}]
MCMaxCalls == [r \in Requests |-> IF r = r1 THEN 1 ELSE 0]
MCSymmetry == Permutations(Contexts)
=============================================================================
