-------------------------------- MODULE BTree --------------------------------
(***************************************************************************)
(* B-Tree/btree.go: B-trees whose nodes belong to a copy-on-write context  *)
(* and come from a free list that all clones share.                        *)
(*                                                                         *)
(* A heap h is [node, free]: node gives every address its record, free is  *)
(* the stack FreeList.freeList.  Operations that change it take a heap and *)
(* return a record with the heap as .h; positions count from one.  A       *)
(* context is named by the tree that has it: Clone gives both trees new    *)
(* ones, so that the nodes they share are Nobody's, as are freed nodes.    *)
(* Each step ends with the live nodes numbered in the order in which they  *)
(* are reached: an address means nothing but identity.                     *)
(***************************************************************************)
EXTENDS Naturals, Sequences, SequencesExt, FiniteSetsExt

CONSTANTS
  Trees, First, Items, None, Nobody,
  Nil,        \* the nil address
  Panicked,   \* the answer of a call that dereferences nil or indexes nothing
  degree,
  FreeSize,   \* cap(FreeList.freeList)
  MaxAlone,   \* a bound on the items of the only tree,
  MaxShared,  \*   on those of all trees once there are two,
  Common,     \*   which are from this set
  Pivots      \* items at which a walk starts or stops, None for no bound

ASSUME BTreeAssumption ==
  /\ First \in Trees
  /\ degree \in Nat /\ degree > 1
  /\ FreeSize \in Nat

VARIABLES
  mem,        \* the heap
  tree,       \* [Trees -> [root, length]]: BTree.root, BTree.length
  made, answer, cloned, ended,  \* as in OrderedSet
  dict        \* what the heap and the roots say a tree holds, at each step

vars == <<mem, tree, made, answer, cloned, ended, dict>>

maxItems == degree * 2 - 1
minItems == degree - 1

Less(x, y) == x[1] < y[1]
Blank(c) == [items |-> <<>>, children |-> <<>>, cow |-> c]

\* ------------------------------------------------------ the free list
NewNode(h, c) ==
  IF h.free = <<>>
  THEN LET a == Cardinality(DOMAIN h.node) + 1
       IN [h |-> [h EXCEPT !.node = [b \in 1..a |-> IF b = a THEN Blank(c) ELSE h.node[b]]],
           at |-> a]
  ELSE LET a == Last(h.free)
       IN [h |-> [node |-> [h.node EXCEPT ![a].cow = c], free |-> Front(h.free)],
           at |-> a]

\* Mutants, here and below: one node more than the list has room for.
FreeNodeOver(h, c, a) ==
  IF h.node[a].cow # c
  THEN [h |-> h, type |-> "ftNodeOwned"]
  ELSE [h |-> [h EXCEPT !.node[a] = Blank(Nobody), !.free = Append(@, a)], type |-> "ftStored"]

\* A node of another tree goes to the free list as well.
FreeNodeAny(h, c, a) ==
  IF Len(h.free) >= FreeSize THEN [h |-> h, type |-> "ftFreelistFull"]
  ELSE [h |-> [h EXCEPT !.node[a] = Blank(Nobody), !.free = Append(@, a)], type |-> "ftStored"]

FreeNode(h, c, a) ==
  IF h.node[a].cow # c
  THEN [h |-> h, type |-> "ftNodeOwned"]
  ELSE LET wiped == [h EXCEPT !.node[a] = Blank(Nobody)]
       IN IF Len(h.free) < FreeSize
          THEN [h |-> [wiped EXCEPT !.free = Append(@, a)], type |-> "ftStored"]
          ELSE [h |-> wiped, type |-> "ftFreelistFull"]

\* ------------------------------------------------------ one node
Find(s, key) ==
  LET i == Min({j \in 1..Len(s) : Less(key, s[j])} \cup {Len(s) + 1})
  IN IF i > 1 /\ ~ Less(s[i - 1], key)
     THEN [i |-> i - 1, found |-> TRUE]
     ELSE [i |-> i, found |-> FALSE]

\* A shared node is written in place.
MutableForShared(h, a, c) == [h |-> h, at |-> a]

\* The copy has room for as many children, but not the children.
MutableFor(h, a, c) ==
  IF a = Nil \/ h.node[a].cow = c
  THEN [h |-> h, at |-> a]
  ELSE LET out == NewNode(h, c)
           nils == [i \in DOMAIN h.node[a].children |-> Nil]
       IN [out EXCEPT !.h.node[out.at].items = h.node[a].items,
                      !.h.node[out.at].children = nils]

MutableChild(h, a, i) ==
  LET c == MutableFor(h, h.node[a].children[i], h.node[a].cow)
  IN [c EXCEPT !.h.node[a].children[i] = c.at]

\* The item at i moves up, what is behind it moves to a new node.
Split(h, a, i) ==
  LET n == h.node[a]
      next == NewNode(h, n.cow)
  IN [h |-> [next.h EXCEPT
        !.node[next.at].items = SubSeq(n.items, i + 1, Len(n.items)),
        !.node[next.at].children = SubSeq(n.children, i + 1, Len(n.children)),
        !.node[a].items = SubSeq(n.items, 1, i - 1),
        !.node[a].children = SubSeq(n.children, 1, IF n.children = <<>> THEN 0 ELSE i)],
      item |-> n.items[i], second |-> next.at]

MaybeSplitChild(h, a, i) ==
  IF Len(h.node[h.node[a].children[i]].items) < maxItems
  THEN [h |-> h, split |-> FALSE]
  ELSE LET first == MutableChild(h, a, i)
           s == Split(first.h, first.at, maxItems \div 2 + 1)
       IN [h |-> [s.h EXCEPT
             !.node[a].items = InsertAt(@, i, s.item),
             !.node[a].children = InsertAt(@, i + 1, s.second)],
           split |-> TRUE]

Result(h, out) == [h |-> h, out |-> out]

RECURSIVE InsertIn(_, _, _)
InsertIn(h, a, x) ==
  LET n == h.node[a]
      f == Find(n.items, x)
      Replace(g, i) == Result([g EXCEPT !.node[a].items[i] = x], g.node[a].items[i])
  IN IF f.found THEN Replace(h, f.i)
     ELSE IF n.children = <<>>
     THEN Result([h EXCEPT !.node[a].items = InsertAt(@, f.i, x)], None)
     ELSE IF n.children[f.i] = Nil THEN Result(h, Panicked)
     ELSE LET s == MaybeSplitChild(h, a, f.i)
              up == s.h.node[a].items[f.i]
              i == IF s.split /\ Less(up, x) THEN f.i + 1 ELSE f.i
              child == MutableChild(s.h, a, i)
          IN IF s.split /\ ~ Less(x, up) /\ ~ Less(up, x)
             THEN Replace(s.h, f.i)
             ELSE InsertIn(child.h, child.at, x)

\* ------------------------------------------------------ removal
\* The merge of the children at i and i + 1 and of the item between them.
Merge(h, a, i) ==
  LET child == MutableChild(h, a, i)
      n == child.h.node[a]
      gone == n.children[i + 1]
      g == [child.h EXCEPT
              !.node[a].items = RemoveAt(@, i),
              !.node[a].children = RemoveAt(@, i + 1),
              !.node[child.at].items = @ \o <<n.items[i]>> \o child.h.node[gone].items,
              !.node[child.at].children = @ \o child.h.node[gone].children]
  IN FreeNode(g, n.cow, gone).h

\* The item before the child at i moves into it, the last of the left sibling
\* takes its place and the last child of the sibling comes along.
FromLeft(child, from, a, i) ==
  LET s == from.h.node[from.at]
      inner == s.children # <<>>
  IN [from.h EXCEPT
        !.node[from.at].items = Front(@),
        !.node[from.at].children = IF inner THEN Front(@) ELSE @,
        !.node[a].items[i - 1] = Last(s.items),
        !.node[child.at].items = <<from.h.node[a].items[i - 1]>> \o @,
        !.node[child.at].children = IF inner THEN <<Last(s.children)>> \o @ ELSE @]

StealLeft(h, a, i) ==
  LET child == MutableChild(h, a, i)
  IN FromLeft(child, MutableChild(child.h, a, i - 1), a, i)

FromRight(child, from, a, i) ==
  LET s == from.h.node[from.at]
      inner == s.children # <<>>
  IN [from.h EXCEPT
        !.node[from.at].items = Tail(@),
        !.node[from.at].children = IF inner THEN Tail(@) ELSE @,
        !.node[a].items[i] = Head(s.items),
        !.node[child.at].items = Append(@, from.h.node[a].items[i]),
        !.node[child.at].children = IF inner THEN Append(@, Head(s.children)) ELSE @]

StealRight(h, a, i) ==
  LET child == MutableChild(h, a, i)
  IN FromRight(child, MutableChild(child.h, a, i + 1), a, i)

\* A sibling that is half full counts as rich.
GrowChildPoor(h, a, i) ==
  LET Rich(j) == Len(h.node[h.node[a].children[j]].items) >= minItems
  IN IF i > 1 /\ Rich(i - 1) THEN StealLeft(h, a, i)
     ELSE IF i <= Len(h.node[a].items) /\ Rich(i + 1) THEN StealRight(h, a, i)
     ELSE Merge(h, a, IF i > Len(h.node[a].items) THEN i - 1 ELSE i)

\* growChildAndRemove, up to its call of remove.
GrowChild(h, a, i) ==
  LET n == h.node[a]
      Rich(j) == Len(h.node[n.children[j]].items) > minItems
  IN IF i > 1 /\ Rich(i - 1) THEN StealLeft(h, a, i)
     ELSE IF i <= Len(n.items) /\ Rich(i + 1) THEN StealRight(h, a, i)
     ELSE Merge(h, a, IF i > Len(n.items) THEN i - 1 ELSE i)

RECURSIVE RemoveFrom(_, _, _, _)
RemoveFrom(h, a, x, typ) ==
  LET n == h.node[a]
      f == CASE typ = "removeMax" -> [i |-> Len(n.items) + 1, found |-> FALSE]
             [] typ = "removeMin" -> [i |-> 1, found |-> FALSE]
             [] typ = "removeItem" -> Find(n.items, x)
      hit == IF typ = "removeMax" THEN f.i - 1 ELSE f.i
      child == MutableChild(h, a, f.i)
      r == RemoveFrom(child.h, child.at, None, "removeMax")
  IN IF n.children = <<>>
     THEN IF typ = "removeItem" /\ ~ f.found
          THEN Result(h, None)
          ELSE Result([h EXCEPT !.node[a].items = RemoveAt(@, hit)], n.items[hit])
     ELSE IF n.children[f.i] = Nil THEN Result(h, Panicked)
     ELSE IF Len(h.node[n.children[f.i]].items) <= minItems
     THEN RemoveFrom(GrowChild(h, a, f.i), a, x, typ)
     ELSE IF ~ f.found THEN RemoveFrom(child.h, child.at, x, typ)
     ELSE IF r.out = Panicked THEN r
     ELSE Result([r.h EXCEPT !.node[a].items[f.i] = r.out], n.items[f.i])

\* ------------------------------------------------------ queries
RECURSIVE GetFrom(_, _, _)
GetFrom(h, a, key) ==
  LET n == h.node[a]
      f == Find(n.items, key)
  IN IF f.found THEN n.items[f.i]
     ELSE IF n.children # <<>> THEN GetFrom(h, n.children[f.i], key)
     ELSE None

RECURSIVE MinFrom(_, _)
MinFrom(h, a) ==
  IF a = Nil THEN None
  ELSE IF h.node[a].children # <<>> THEN MinFrom(h, Head(h.node[a].children))
  ELSE IF h.node[a].items = <<>> THEN None ELSE Head(h.node[a].items)

RECURSIVE MaxFrom(_, _)
MaxFrom(h, a) ==
  IF a = Nil THEN None
  ELSE IF h.node[a].children # <<>> THEN MaxFrom(h, Last(h.node[a].children))
  ELSE IF h.node[a].items = <<>> THEN None ELSE Last(h.node[a].items)

\* iterate with a callback that collects the items in .seen.  .ok says whether
\* the caller goes on: a node that has been walked to its end answers no.
RECURSIVE AscendFrom(_, _, _, _, _, _)
RECURSIVE AscendLoop(_, _, _, _, _, _, _)
AscendLoop(h, a, i, start, stop, incl, st) ==
  LET n == h.node[a]
      sub == IF n.children = <<>> THEN [st EXCEPT !.ok = TRUE]
             ELSE AscendFrom(h, n.children[i], start, stop, incl, st)
      skip == ~ incl /\ ~ sub.hit /\ start # None /\ ~ Less(start, n.items[i])
      hit == [sub EXCEPT !.hit = TRUE]
  IN IF ~ sub.ok THEN sub
     ELSE IF i > Len(n.items) THEN [sub EXCEPT !.ok = FALSE]
     ELSE IF skip THEN AscendLoop(h, a, i + 1, start, stop, incl, hit)
     ELSE IF stop # None /\ ~ Less(n.items[i], stop) THEN [hit EXCEPT !.ok = FALSE]
     ELSE AscendLoop(h, a, i + 1, start, stop, incl,
                     [hit EXCEPT !.seen = Append(@, n.items[i])])
\* A start that is found is skipped.
AscendFromPast(h, a, start, stop, incl, st) ==
  LET f == Find(h.node[a].items, start)
  IN AscendLoop(h, a, IF start = None THEN 1 ELSE IF f.found THEN f.i + 1 ELSE f.i,
                start, stop, incl, st)
AscendFrom(h, a, start, stop, incl, st) ==
  AscendLoop(h, a, IF start = None THEN 1 ELSE Find(h.node[a].items, start).i,
             start, stop, incl, st)

RECURSIVE DescendFrom(_, _, _, _, _, _)
RECURSIVE DescendLoop(_, _, _, _, _, _, _)
DescendLoop(h, a, i, start, stop, incl, st) ==
  LET n == h.node[a]
      sub == IF n.children = <<>> THEN [st EXCEPT !.ok = TRUE]
             ELSE DescendFrom(h, n.children[i + 1], start, stop, incl, st)
      skip == /\ start # None /\ ~ Less(n.items[i], start)
              /\ ~ incl \/ st.hit \/ Less(start, n.items[i])
  IN IF i > 0 /\ skip THEN DescendLoop(h, a, i - 1, start, stop, incl, st)
     ELSE IF ~ sub.ok THEN sub
     ELSE IF i = 0 \/ (stop # None /\ ~ Less(stop, n.items[i])) THEN [sub EXCEPT !.ok = FALSE]
     ELSE DescendLoop(h, a, i - 1, start, stop, incl,
                      [sub EXCEPT !.hit = TRUE, !.seen = Append(@, n.items[i])])
DescendFrom(h, a, start, stop, incl, st) ==
  LET f == Find(h.node[a].items, start)
      last == IF start = None THEN Len(h.node[a].items)
              ELSE IF f.found THEN f.i ELSE f.i - 1
  IN DescendLoop(h, a, last, start, stop, incl, st)

Start == [hit |-> FALSE, ok |-> TRUE, seen |-> <<>>]

\* The exported walks: start or stop is None where a walk has no such bound.
Ascend(t, start, stop, incl) ==
  IF tree[t].root = Nil THEN <<>>
  ELSE AscendFrom(mem, tree[t].root, start, stop, incl, Start).seen

Descend(t, start, stop, incl) ==
  IF tree[t].root = Nil THEN <<>>
  ELSE DescendFrom(mem, tree[t].root, start, stop, incl, Start).seen

Get(t, key) == IF tree[t].root = Nil THEN None ELSE GetFrom(mem, tree[t].root, key)

\* ------------------------------------------------------ numbering
\* The nodes under a, each once, before their children; seen are already listed.
RECURSIVE Reach(_, _, _)
Reach(h, a, seen) ==
  IF a = Nil \/ Contains(seen, a) THEN seen
  ELSE FoldLeft(LAMBDA s, c : Reach(h, c, s), Append(seen, a), h.node[a].children)

Under(h, a) == ToSet(Reach(h, a, <<>>))
TreeOrder == SetToSeq(Trees)

\* What the program can still reach, with the addresses 1, 2, ...
Renumber(h, tr) ==
  LET live == FoldLeft(LAMBDA s, t : Reach(h, tr[t].root, s), <<>>, TreeOrder) \o h.free
      New(a) == IF a = Nil THEN Nil ELSE SelectInSeq(live, LAMBDA b : b = a)
  IN [mem |-> [node |-> [i \in DOMAIN live |->
                 [h.node[live[i]] EXCEPT !.children = [j \in DOMAIN @ |-> New(@[j])]]],
               free |-> [i \in DOMAIN h.free |-> New(h.free[i])]],
      tree |-> [t \in Trees |-> [tr[t] EXCEPT !.root = New(@)]]]

RECURSIVE InOrder(_, _)
InOrder(h, a) ==
  IF a = Nil THEN <<>>
  ELSE LET n == h.node[a]
           After(i) == IF n.children = <<>> THEN <<>> ELSE InOrder(h, n.children[i + 1])
       IN FoldLeft(LAMBDA s, i : s \o <<n.items[i]>> \o After(i), After(0),
                   [i \in DOMAIN n.items |-> i])

Content(t) == InOrder(mem, tree[t].root)
Holds(h, tr) == [t \in Trees |-> ToSet(InOrder(h, tr[t].root))]

\* The end of a call on t: the new heap, root and length, and what it returned.
Return(t, h, root, length, out) ==
  LET r == Renumber(h, [tree EXCEPT ![t] = [root |-> root, length |-> length]])
  IN IF out = Panicked
     THEN ended' = TRUE /\ UNCHANGED <<mem, tree, made, answer, cloned, dict>>
     ELSE /\ mem' = r.mem /\ tree' = r.tree
          /\ dict' = Holds(r.mem, r.tree)
          /\ answer' = out
          /\ UNCHANGED <<made, cloned, ended>>

\* ------------------------------------------------------ the calls
Init ==
  /\ mem = [node |-> <<>>, free |-> <<>>]
  /\ tree = [t \in Trees |-> [root |-> Nil, length |-> 0]]
  /\ made = {First}
  /\ answer = None
  /\ cloned = {}
  /\ ended = FALSE
  /\ dict = Holds(mem, tree)

\* The room the bounds leave for another item.
Room(x) ==
  IF made = {First} THEN tree[First].length < MaxAlone
  ELSE x \in Common /\ MapThenSumSet(LAMBDA t : tree[t].length, made) < MaxShared

\* A full root splits before the item goes in.
GrowRoot(h, t, root) ==
  LET s == Split(h, root, maxItems \div 2 + 1)
      new == NewNode(s.h, t)
  IN IF Len(h.node[root].items) < maxItems THEN [h |-> h, at |-> root]
     ELSE [new EXCEPT !.h.node[new.at].items = <<s.item>>,
                      !.h.node[new.at].children = <<root, s.second>>]

ReplaceOrInsert(t, x) ==
  /\ t \in made /\ Room(x)
  /\ LET root == MutableFor(mem, tree[t].root, t)
         top == GrowRoot(root.h, t, root.at)
         r == InsertIn(top.h, top.at, x)
         new == NewNode(mem, t)
     IN IF tree[t].root = Nil
        THEN Return(t, [new.h EXCEPT !.node[new.at].items = <<x>>], new.at,
                    tree[t].length + 1, None)
        ELSE Return(t, r.h, top.at,
                    tree[t].length + (IF r.out = None THEN 1 ELSE 0), r.out)

\* An empty root gives way to its first child, which a leaf does not have.
Removed(t, root, r) ==
  LET n == r.h.node[root]
      length == tree[t].length - (IF r.out = None THEN 0 ELSE 1)
  IN IF r.out = Panicked \/ n.items # <<>> THEN Return(t, r.h, root, length, r.out)
     ELSE IF n.children = <<>> THEN Return(t, r.h, root, length, Panicked)
     ELSE Return(t, FreeNode(r.h, t, root).h, Head(n.children), length, r.out)

DeleteItem(t, x, typ) ==
  LET root == MutableFor(mem, tree[t].root, t)
  IN IF tree[t].root = Nil \/ mem.node[tree[t].root].items = <<>>
     THEN Return(t, mem, tree[t].root, tree[t].length, None)
     ELSE Removed(t, root.at, RemoveFrom(root.h, root.at, x, typ))

Delete(t, x) == t \in made /\ DeleteItem(t, x, "removeItem")
DeleteMin(t) == t \in made /\ DeleteItem(t, None, "removeMin")
DeleteMax(t) == t \in made /\ DeleteItem(t, None, "removeMax")

\* u becomes a copy of t: the nodes stay, their context is no tree's any more.
Clone(t, u) ==
  /\ t \in made /\ u \notin made
  /\ 2 * tree[t].length <= MaxShared /\ ToSet(Content(t)) \subseteq Common
  /\ mem' = [mem EXCEPT !.node = [a \in DOMAIN @ |->
               [@[a] EXCEPT !.cow = IF @ = t THEN Nobody ELSE @]]]
  /\ tree' = [tree EXCEPT ![u] = tree[t]]
  /\ dict' = Holds(mem', tree')
  /\ made' = made \cup {u}
  /\ cloned' = IF t \in cloned \/ (tree[t].root # Nil /\ mem.node[tree[t].root].children # <<>>)
               THEN cloned \cup {t, u} ELSE cloned
  /\ UNCHANGED <<answer, ended>>

\* The nodes of c under a go to the free list until it is full.
RECURSIVE Reset(_, _, _)
Reset(h, a, c) ==
  LET Step(st, child) ==
        IF st.go # TRUE THEN st
        ELSE IF child = Nil THEN [st EXCEPT !.go = Panicked]
        ELSE Reset(st.h, child, c)
      kids == FoldLeft(Step, [h |-> h, go |-> TRUE], h.node[a].children)
      self == FreeNode(kids.h, c, a)
  IN IF kids.go # TRUE THEN kids
     ELSE [h |-> self.h, go |-> self.type # "ftFreelistFull"]

Clear(t, addNodesToFreelist) ==
  /\ t \in made
  /\ LET r == IF tree[t].root # Nil /\ addNodesToFreelist
              THEN Reset(mem, tree[t].root, t) ELSE [h |-> mem, go |-> TRUE]
         new == Renumber(r.h, [tree EXCEPT ![t] = [root |-> Nil, length |-> 0]])
     IN IF r.go = Panicked
        THEN ended' = TRUE /\ UNCHANGED <<mem, tree, made, answer, cloned, dict>>
        ELSE /\ mem' = new.mem /\ tree' = new.tree
             /\ dict' = Holds(new.mem, new.tree)
             /\ cloned' = cloned \ {t}
             /\ UNCHANGED <<made, answer, ended>>

Next ==
  /\ ~ ended
  /\ \E t \in Trees :
       \/ \E x \in Items : ReplaceOrInsert(t, x) \/ Delete(t, x)
       \/ DeleteMin(t)
       \/ DeleteMax(t)
       \/ \E u \in Trees : Clone(t, u)
       \/ \E add \in BOOLEAN : Clear(t, add)

Spec == Init /\ [][Next]_vars

\* ------------------------------------------------------ what must hold
RECURSIVE Depths(_, _)
Depths(h, a) ==
  IF h.node[a].children = <<>> THEN {0}
  ELSE {d + 1 : d \in UNION {Depths(h, c) : c \in ToSet(h.node[a].children)}}

Nodes(t) == Under(mem, tree[t].root)

\* t was written through a shared root and has lost the nodes below it.
Torn(t) == \E a \in Nodes(t) : Nil \in ToSet(mem.node[a].children)
Whole == {t \in made : ~ Torn(t)}

TypeOK ==
  /\ DOMAIN mem.node = 1..Cardinality(DOMAIN mem.node)
  /\ \A a \in DOMAIN mem.node :
       /\ mem.node[a].items \in Seq(Items)
       /\ mem.node[a].children \in Seq(DOMAIN mem.node \cup {Nil})
       /\ mem.node[a].cow \in Trees \cup {Nobody}
  /\ mem.free \in Seq(DOMAIN mem.node) /\ Len(mem.free) <= FreeSize
  /\ tree \in [Trees -> [root : DOMAIN mem.node \cup {Nil}, length : Nat]]
  /\ made \subseteq Trees /\ cloned \subseteq made
  /\ answer \in Items \cup {None} /\ ended \in BOOLEAN

\* Splits, steals and merges keep every tree that has its nodes a B-tree: all
\* leaves at one depth, every node but the root at least half full, none over
\* full, the keys ascending, and Len the number of the items.
Shape ==
  \A t \in Whole :
    LET root == tree[t].root
        keys == Content(t)
        Full(a) == LET n == mem.node[a]
                   IN /\ Len(n.items) \in (IF a = root THEN 1 ELSE minItems)..maxItems
                      /\ Len(n.children) \in {0, Len(n.items) + 1}
    IN /\ tree[t].length = Len(keys)
       /\ \A i \in 1..(Len(keys) - 1) : Less(keys[i], keys[i + 1])
       /\ root # Nil => Cardinality(Depths(mem, root)) = 1
       /\ \A a \in Nodes(t) : Full(a)

\* A node that one tree may write is in no other tree, and a node of the free
\* list is in none and is there once, so that newNode hands it out once.
Owned ==
  /\ \A t \in made : \A a \in Nodes(t) :
       /\ mem.node[a].cow \in {t, Nobody}
       /\ a \notin ToSet(mem.free)
  /\ IsInjective(mem.free)
  /\ \A a \in ToSet(mem.free) : mem.node[a] = Blank(Nobody)

\* Get, Has, Min and Max answer from the items the tree holds.
Queries ==
  \A t \in Whole :
    LET all == Content(t)
    IN /\ MinFrom(mem, tree[t].root) = (IF all = <<>> THEN None ELSE Head(all))
       /\ MaxFrom(mem, tree[t].root) = (IF all = <<>> THEN None ELSE Last(all))
       /\ \A x \in Items :
            LET equal == {y \in ToSet(all) : y[1] = x[1]}
            IN IF equal = {} THEN Get(t, x) = None ELSE Get(t, x) \in equal

\* A walk stops at the end of the first leaf it comes to: it shows the beginning
\* of its range, in order, and all of the range when the root is a leaf.
Walks ==
  \A t \in Whole : \A start, stop \in Pivots : \A incl \in {TRUE, start # None} :
    LET up == Ascend(t, start, stop, incl)
        down == Descend(t, start, stop, incl)
        UpTest(y) == /\ start = None \/ Less(start, y) \/ (incl /\ ~ Less(y, start))
                     /\ stop = None \/ Less(y, stop)
        DownTest(y) == /\ start = None \/ Less(y, start) \/ (incl /\ ~ Less(start, y))
                       /\ stop = None \/ Less(stop, y)
        ups == SelectSeq(Content(t), UpTest)
        downs == Reverse(SelectSeq(Content(t), DownTest))
    IN /\ IsPrefix(up, ups) /\ IsPrefix(down, downs)
       /\ Cardinality(Nodes(t)) <= 1 => up = ups /\ down = downs

\* What a program reads from a tree.
Reads == Queries /\ Walks

\* Every call does what it does to a set of items, as far as OrderedSet says.
Set == INSTANCE OrderedSet WITH Tall <- 2 * degree - 1
Implements == Set!Spec
=============================================================================
