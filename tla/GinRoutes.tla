----------------------------- MODULE GinRoutes -----------------------------
(***************************************************************************)
(* The engine of GinEngine with the route trees of RouteTree: one for each *)
(* method that has a route (gin/gin.go, methodTrees).                      *)
(***************************************************************************)
EXTENDS GinEngine

CONSTANT Wild

T == INSTANCE RouteTree

\* The tree of a method after addRoute, which makes it when there is none.
TreeAddRoute(tree, path, chain) ==
  T!addRoute(IF tree = None THEN T!NewNode(<<"/">>) ELSE tree, path, chain)

TreeRoutes(tree) == IF tree = None THEN <<>> ELSE T!iterate(<<>>, tree)

\* The walk of getValue can follow the indices of every node but those of which
\* a child was moved.
IndicesKept ==
  \A m \in Methods : trees[m] # None =>
    \A n \in T!AllNodes(trees[m]) :
      /\ IsInjective(n.indices)
      /\ n.nType # "param" =>
           Len(n.children) = Len(n.indices) + (IF n.wildChild THEN 1 ELSE 0)
      /\ ~ n.moved => \A i \in DOMAIN n.indices : n.indices[i] = Head(n.children[i].path)

\* No set-up call, in whatever order they come, loses or changes what an earlier
\* one has set up.
SetUpKept == RoutesKept /\ ErrorChainsKept /\ IndicesKept
=============================================================================
