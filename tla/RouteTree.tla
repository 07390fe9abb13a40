----------------------------- MODULE RouteTree -----------------------------
(***************************************************************************)
(* gin/tree.go: the radix tree of the routes of one method.  A path is a   *)
(* sequence of tokens, a character or a whole wildcard such as ":name".    *)
(* A tree is a nested record; to walk down is to build the new tree on the *)
(* way back.  insertChild is not in the repository: InsertChild does what  *)
(* the callers rely on for paths without catch-all.                        *)
(***************************************************************************)
EXTENDS Naturals, Sequences, SequencesExt

CONSTANTS
  Wild,       \* the tokens that are wildcards, ":name"
  NoHandlers, \* nil handlers of an inner node
  Conflict    \* addRoute panics

Drop(s, n) == SubSeq(s, n + 1, Len(s))

NewNode(full) ==
  [path |-> <<>>, indices |-> <<>>, wildChild |-> FALSE, nType |-> "static",
   priority |-> 0, children |-> <<>>, handlers |-> NoHandlers, fullPath |-> full,
   moved |-> FALSE]  \* history: two children have changed places

longestCommonPrefix(a, b) == Len(LongestCommonPrefix({a, b}))

\* A wildcard stays the last child.
addChild(n, child) ==
  [n EXCEPT !.children = IF n.wildChild /\ @ # <<>>
                         THEN Front(@) \o <<child, Last(@)>> ELSE Append(@, child)]

\* The child at pos gains priority.  The loop that moves it in front of neighbours
\* with less leaves newPos as it is, so that it ends after one exchange, the
\* indices stay, and pos is the answer.
incrementChildPrio(n, pos) ==
  LET raised == [n EXCEPT !.children[pos].priority = @ + 1]
      cs == raised.children
  IN IF pos > 1 /\ cs[pos - 1].priority < cs[pos].priority
     THEN [raised EXCEPT !.children[pos - 1] = cs[pos], !.children[pos] = cs[pos - 1],
                         !.moved = TRUE]
     ELSE raised

RECURSIVE InsertChild(_, _, _, _)
InsertChild(n, path, full, handlers) ==
  LET w == SelectInSeq(path, LAMBDA c : c \in Wild)
      param == [NewNode(full) EXCEPT !.path = <<path[w]>>, !.nType = "param", !.priority = 1]
      below == InsertChild([NewNode(full) EXCEPT !.priority = 1], Drop(path, w), full, handlers)
      child == IF w = Len(path) THEN [param EXCEPT !.handlers = handlers]
               ELSE addChild(param, below)
      parent == IF w > 1 THEN [n EXCEPT !.path = SubSeq(path, 1, w - 1)] ELSE n
  IN IF w = 0
     THEN [n EXCEPT !.path = path, !.handlers = handlers, !.fullPath = full]
     ELSE [addChild(parent, child) EXCEPT !.wildChild = TRUE]

\* Mutant: the parent keeps the handlers that have moved to the child.
SplitNodeTwice(n, i, full) ==
  LET child == [n EXCEPT !.path = Drop(@, i), !.nType = "static"]
  IN [n EXCEPT !.children = <<child>>, !.indices = <<n.path[i + 1]>>,
               !.path = SubSeq(@, 1, i), !.wildChild = FALSE, !.fullPath = full,
               !.moved = FALSE]

\* A node whose path goes another way after i tokens gets a parent of its own.
SplitNode(n, i, full) ==
  LET child == [n EXCEPT !.path = Drop(@, i), !.nType = "static"]
  IN [n EXCEPT !.children = <<child>>, !.indices = <<n.path[i + 1]>>,
               !.path = SubSeq(@, 1, i), !.handlers = NoHandlers,
               !.wildChild = FALSE, !.fullPath = full, !.moved = FALSE]

Failed(n) == n = Conflict

\* The walk from n, whose parents stand for the first at tokens of full.
RECURSIVE Walk(_, _, _, _, _)
Walk(node, path, full, handlers, at) ==
  LET i == longestCommonPrefix(path, node.path)
      n == IF i < Len(node.path) THEN SplitNode(node, i, SubSeq(full, 1, at + i)) ELSE node
      rest == Drop(path, i)
      c == Head(rest)
      \* into the child at j of m
      Into(m, j) ==
        LET sub == Walk(m.children[j], rest, full, handlers, at + Len(m.path))
        IN IF Failed(sub) THEN sub ELSE [m EXCEPT !.children[j] = sub]
      Raised(j) == [n EXCEPT !.children[j].priority = @ + 1]
      j == SelectInSeq(n.indices, LAMBDA x : x = c)
      new == Len(n.indices) + 1
      grown == incrementChildPrio(
                 addChild([n EXCEPT !.indices = Append(@, c)], NewNode(full)), new)
      wild == Last(n.children)
  IN IF rest = <<>>
     THEN IF n.handlers # NoHandlers THEN Conflict
          ELSE [n EXCEPT !.handlers = handlers, !.fullPath = full]
     ELSE IF n.nType = "param" /\ c = "/" /\ Len(n.children) = 1 THEN Into(Raised(1), 1)
     ELSE IF j # 0 THEN Into(incrementChildPrio(n, j), j)
     ELSE IF c \notin Wild
     THEN [grown EXCEPT !.children[new] = InsertChild(@, rest, full, handlers)]
     ELSE IF ~ n.wildChild THEN InsertChild(n, rest, full, handlers)
     ELSE IF IsPrefix(wild.path, rest) /\ (Len(wild.path) >= Len(rest) \/ rest[Len(wild.path) + 1] = "/")
     THEN Into(Raised(Len(n.children)), Len(n.children))
     ELSE Conflict

addRoute(root, path, handlers) ==
  LET n == [root EXCEPT !.priority = @ + 1]
  IN IF n.path = <<>> /\ n.children = <<>>
     THEN [InsertChild(n, path, path, handlers) EXCEPT !.nType = "root"]
     ELSE Walk(n, path, path, handlers, 0)

\* iterate of gin.go: what Routes lists, in the order of the children.
RECURSIVE iterate(_, _)
iterate(path, n) ==
  LET here == path \o n.path
      own == IF n.handlers = NoHandlers THEN <<>>
             ELSE <<[path |-> here, fullPath |-> n.fullPath, handlers |-> n.handlers]>>
  IN FoldLeft(LAMBDA s, child : s \o iterate(here, child), own, n.children)

RECURSIVE AllNodes(_)
AllNodes(n) == {n} \cup UNION {AllNodes(c) : c \in ToSet(n.children)}
=============================================================================
