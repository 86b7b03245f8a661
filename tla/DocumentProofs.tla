--------------------------- MODULE DocumentProofs ---------------------------
(***************************************************************************)
(* What holds of the tree of a document and of the styles of its nodes,    *)
(* for documents, selectors and style sheets of any size.                  *)
(*                                                                         *)
(* DomTree: parents and children always mirror each other, and no new node *)
(* inherits listeners.  TreeIsMirrored is inductive beside the types:      *)
(* every operation reads the lists it changes through the parent of the    *)
(* one node it moves, so both must be right before.                        *)
(*                                                                         *)
(* A search takes its stack for what it is: the nodes that still wait, in  *)
(* the order of the document.                                              *)
(*                                                                         *)
(* StyleCascade: the walk over the ancestors finds whatever a selector     *)
(* describes, and the slots filled rule by rule end with the declaration   *)
(* of the highest priority.  The summary sheet of a page and its revisions *)
(* go together: a mutation that asks for no layout leaves every fold that  *)
(* makes the summary the same where the layout looks.                      *)
(*                                                                         *)
(* ScriptCssom: no style a script can ask for changes without a record     *)
(* that says of which node, and rules keep their ids to themselves.        *)
(***************************************************************************)
EXTENDS DomTree, StyleCascade, ScriptCssom, CollectionsProofs

-----------------------------------------------------------------------------
(* The tree                                                                *)

DomInv == DomTypeOK /\ TreeIsMirrored

\* Closing the place of a child in a list without repeats (retain).
LEMMA WithoutFacts ==
  ASSUME NEW S, NEW s \in Seq(S), IsOnceEach(s), NEW c
  PROVE  /\ Without(s, c) \in Seq(S)
         /\ IsOnceEach(Without(s, c))
         /\ Listed(Without(s, c)) = Listed(s) \ {c}
<1>1. CASE c \notin Listed(s)
  BY <1>1 DEF Without, Listed
<1>2. CASE c \in Listed(s)
  <2> DEFINE k == CHOOSE i \in DOMAIN s : s[i] = c
             w == [i \in 1 .. Len(s) - 1 |-> IF i < k THEN s[i] ELSE s[i + 1]]
  <2>1. k \in 1 .. Len(s) /\ s[k] = c
    BY <1>2 DEF Listed
  <2>2. Without(s, c) = w
    BY <1>2 DEF Without
  <2> HIDE DEF k
  <2>3. Len(s) \in Nat /\ Len(s) - 1 \in Nat
    BY <2>1
  <2>4. w \in Seq(S) /\ DOMAIN w = 1 .. Len(s) - 1
    BY <2>1, <2>3
  <2>5. IsOnceEach(w)
    BY <2>1, <2>3, <2>4 DEF IsOnceEach
  <2>6. \A i \in DOMAIN w : w[i] \in Listed(s) \ {c}
    BY <2>1, <2>3, <2>4 DEF Listed, IsOnceEach
  <2>7. \A i \in DOMAIN s : s[i] # c => s[i] \in Listed(w)
    <3> SUFFICES ASSUME NEW i \in DOMAIN s, s[i] # c PROVE s[i] \in Listed(w)
      OBVIOUS
    <3>1. CASE i < k
      BY <2>1, <2>3, <2>4, <3>1 DEF Listed
    <3>2. CASE i > k
      <4>1. i - 1 \in DOMAIN w /\ w[i - 1] = s[i]
        BY <3>2, <2>1, <2>3, <2>4
      <4> QED
        BY <4>1 DEF Listed
    <3>3. i # k
      BY <2>1
    <3> QED
      BY <3>1, <3>2, <3>3, <2>1
  <2>8. Listed(w) = Listed(s) \ {c}
    BY <2>6, <2>7 DEF Listed
  <2> QED
    BY <2>2, <2>4, <2>5, <2>8
<1> QED
  BY <1>1, <1>2

\* Adding a child to a list that may hold it (contains, push).
LEMMA WithFacts ==
  ASSUME NEW S, NEW s \in Seq(S), IsOnceEach(s), NEW c \in S
  PROVE  /\ With(s, c) \in Seq(S)
         /\ IsOnceEach(With(s, c))
         /\ Listed(With(s, c)) = Listed(s) \cup {c}
<1>1. CASE c \in Listed(s)
  BY <1>1 DEF With, Listed
<1>2. CASE c \notin Listed(s)
  <2> DEFINE a == Append(s, c)
  <2>1. /\ With(s, c) = a
        /\ a \in Seq(S)
        /\ DOMAIN a = 1 .. Len(s) + 1
        /\ DOMAIN s = 1 .. Len(s)
        /\ Len(s) \in Nat
        /\ a[Len(s) + 1] = c
        /\ \A i \in 1 .. Len(s) : a[i] = s[i]
    BY <1>2 DEF With
  <2> HIDE DEF a
  <2>2. IsOnceEach(a)
    BY <1>2, <2>1 DEF IsOnceEach, Listed
  <2>3. Listed(a) = Listed(s) \cup {c}
    BY <2>1 DEF Listed
  <2> QED
    BY <2>1, <2>2, <2>3
<1> QED
  BY <1>1, <1>2

-----------------------------------------------------------------------------
\* A new document has one node and no listeners.
LEMMA DomInitInv == DomInit => DomInv
BY DomAssumption
   DEF DomInit, DomInv, DomTypeOK, TreeIsMirrored, NewNode, Node, NodeId, NoNode,
       Body, Handles, IsOnceEach, Listed

\* The ids a script holds are ids of nodes.
LEMMA HandlesAreIds == ASSUME DomInv PROVE Handles \subseteq NodeId /\ MaxNodes \in Nat
BY DomAssumption DEF DomInv, DomTypeOK, Handles, NodeId

\* A new node is in no list and nobody's parent: its id was never given.
LEMMA AllocNodeInv ==
  ASSUME DomInv, NEW matches \in BOOLEAN, AllocNode(matches)
  PROVE  DomInv'
<1> USE DEF NodeId, NoNode, Body, Handles
<1>1. /\ nextNode \notin DOMAIN nodes
      /\ DOMAIN nodes' = DOMAIN nodes \cup {nextNode}
      /\ nodes'[nextNode] = NewNode(matches)
      /\ \A n \in DOMAIN nodes : nodes'[n] = nodes[n]
  BY DEF AllocNode, DomInv, DomTypeOK
<1>2. NewNode(matches) \in Node
  BY DEF NewNode, Node
<1>3. DomTypeOK'
  BY <1>1, <1>2, HandlesAreIds DEF AllocNode, DomInv, DomTypeOK
<1>4. \A n \in DOMAIN nodes : nodes[n].parent # nextNode
  BY <1>1 DEF DomInv, DomTypeOK, TreeIsMirrored
<1>5. TreeIsMirrored'
  BY <1>1, <1>4 DEF DomInv, DomTypeOK, TreeIsMirrored, NewNode, IsOnceEach, Listed
<1> QED
  BY <1>3, <1>5 DEF DomInv

\* The lists of children after appendChild.
LEMMA ChildrenAfterAppendFacts ==
  ASSUME DomInv, NEW p \in DOMAIN nodes, NEW parent \in DOMAIN nodes,
         NEW child \in DOMAIN nodes
  PROVE  /\ ChildrenAfterAppend(p, parent, child) \in Seq(NodeId)
         /\ IsOnceEach(ChildrenAfterAppend(p, parent, child))
         /\ Listed(ChildrenAfterAppend(p, parent, child))
              = {n \in DOMAIN nodes :
                   (IF n = child THEN parent ELSE nodes[n].parent) = p}
<1> DEFINE kept == IF p = nodes[child].parent THEN Without(nodes[p].children, child)
                   ELSE nodes[p].children
<1>1. /\ nodes[p].children \in Seq(NodeId)
      /\ IsOnceEach(nodes[p].children)
      /\ Listed(nodes[p].children) = {n \in DOMAIN nodes : nodes[n].parent = p}
  BY DEF DomInv, DomTypeOK, TreeIsMirrored, Node
<1>2. child \in NodeId
  BY HandlesAreIds DEF DomInv, DomTypeOK
<1>3. /\ kept \in Seq(NodeId)
      /\ IsOnceEach(kept)
      /\ Listed(kept) = {n \in DOMAIN nodes : nodes[n].parent = p} \ {child}
  BY <1>1, WithoutFacts
<1>4. /\ With(kept, child) \in Seq(NodeId)
      /\ IsOnceEach(With(kept, child))
      /\ Listed(With(kept, child)) = Listed(kept) \cup {child}
  BY <1>2, <1>3, WithFacts
<1>5. ChildrenAfterAppend(p, parent, child) = IF p = parent THEN With(kept, child) ELSE kept
  BY DEF ChildrenAfterAppend
<1> HIDE DEF kept
<1> QED
  BY <1>3, <1>4, <1>5

\* appendChild, below whatever node it is, keeps the mirror.
LEMMA AppendChildInv ==
  ASSUME DomInv, NEW parent \in Handles, NEW child \in Handles, AppendChild(parent, child)
  PROVE  DomInv'
<1>1. parent \in DOMAIN nodes /\ child \in DOMAIN nodes
  BY DEF AppendChild
<1>2. /\ DOMAIN nodes' = DOMAIN nodes
      /\ \A n \in DOMAIN nodes :
           /\ nodes'[n].children = ChildrenAfterAppend(n, parent, child)
           /\ nodes'[n].parent = IF n = child THEN parent ELSE nodes[n].parent
           /\ nodes'[n].matches = nodes[n].matches
           /\ nodes'[n] = [parent |-> nodes'[n].parent, children |-> nodes'[n].children,
                           matches |-> nodes'[n].matches]
  BY DEF AppendChild, DomInv, DomTypeOK, Node
<1>3. DomTypeOK'
  <2>1. \A n \in DOMAIN nodes : nodes'[n] \in Node
    <3> SUFFICES ASSUME NEW n \in DOMAIN nodes PROVE nodes'[n] \in Node
      OBVIOUS
    <3>1. nodes'[n].children \in Seq(NodeId)
      BY <1>1, <1>2, ChildrenAfterAppendFacts
    <3>2. nodes'[n].parent \in NodeId \cup {NoNode} /\ nodes'[n].matches \in BOOLEAN
      BY <1>1, <1>2, HandlesAreIds DEF DomInv, DomTypeOK, Node
    <3> QED
      BY <1>2, <3>1, <3>2 DEF Node
  <2> QED
    BY <1>2, <2>1 DEF AppendChild, DomInv, DomTypeOK, Handles
<1>4. TreeIsMirrored'
  <2> SUFFICES ASSUME NEW p \in DOMAIN nodes
               PROVE  /\ IsOnceEach(nodes'[p].children)
                      /\ Listed(nodes'[p].children) = {n \in DOMAIN nodes : nodes'[n].parent = p}
                      /\ nodes'[p].parent \in DOMAIN nodes \cup {NoNode}
    BY <1>2 DEF TreeIsMirrored
  <2>1. {n \in DOMAIN nodes : nodes'[n].parent = p}
          = {n \in DOMAIN nodes : (IF n = child THEN parent ELSE nodes[n].parent) = p}
    BY <1>2
  <2>2. /\ IsOnceEach(nodes'[p].children)
        /\ Listed(nodes'[p].children)
             = {n \in DOMAIN nodes : (IF n = child THEN parent ELSE nodes[n].parent) = p}
    <3>1. nodes'[p].children = ChildrenAfterAppend(p, parent, child)
      BY <1>2
    <3> QED
      BY <1>1, <3>1, ChildrenAfterAppendFacts
  <2>3. nodes'[p].parent \in DOMAIN nodes \cup {NoNode}
    BY <1>1, <1>2 DEF DomInv, TreeIsMirrored
  <2> QED
    BY <2>1, <2>2, <2>3
<1> QED
  BY <1>3, <1>4 DEF DomInv

\* remove keeps the mirror: the parent forgets the node, the children forget
\* their parent.
LEMMA RemoveNodeInv ==
  ASSUME DomInv, NEW node \in Handles, RemoveNode(node)
  PROVE  DomInv'
<1> DEFINE left == DOMAIN nodes \ {node}
<1>1. node \in DOMAIN nodes /\ node # Body
  BY DEF RemoveNode
<1>2. \A p \in DOMAIN nodes :
        /\ nodes[p].children \in Seq(NodeId)
        /\ IsOnceEach(nodes[p].children)
        /\ Listed(nodes[p].children) = {n \in DOMAIN nodes : nodes[n].parent = p}
  BY DEF DomInv, DomTypeOK, TreeIsMirrored, Node
<1>3. /\ DOMAIN nodes' = left
      /\ \A n \in left :
           /\ nodes'[n].parent = IF nodes[n].parent = node THEN NoNode ELSE nodes[n].parent
           /\ nodes'[n].children = IF n = nodes[node].parent
                                   THEN Without(nodes[n].children, node) ELSE nodes[n].children
           /\ nodes'[n] = [parent |-> nodes'[n].parent, children |-> nodes'[n].children,
                           matches |-> nodes[n].matches]
  BY <1>1, <1>2 DEF RemoveNode, DomInv, DomTypeOK, Node
<1>4. \A p \in left :
        /\ nodes'[p].children \in Seq(NodeId)
        /\ IsOnceEach(nodes'[p].children)
        /\ Listed(nodes'[p].children) = {n \in DOMAIN nodes : nodes[n].parent = p} \ {node}
  BY <1>2, <1>3, WithoutFacts
<1>5. DomTypeOK'
  <2>1. \A n \in left : nodes'[n] \in Node
    BY <1>3, <1>4 DEF DomInv, DomTypeOK, Node
  <2> QED
    BY <1>1, <1>3, <2>1 DEF RemoveNode, DomInv, DomTypeOK, Handles
<1>6. TreeIsMirrored'
  <2> SUFFICES ASSUME NEW p \in left
               PROVE  /\ IsOnceEach(nodes'[p].children)
                      /\ Listed(nodes'[p].children) = {n \in left : nodes'[n].parent = p}
                      /\ nodes'[p].parent \in left \cup {NoNode}
    BY <1>3 DEF TreeIsMirrored
  <2>1. p # NoNode
    BY DEF DomInv, DomTypeOK, Handles, NoNode
  <2>2. {n \in left : nodes'[n].parent = p}
          = {n \in DOMAIN nodes : nodes[n].parent = p} \ {node}
    BY <1>3, <2>1
  <2>3. nodes'[p].parent \in left \cup {NoNode}
    BY <1>3 DEF DomInv, TreeIsMirrored
  <2> QED
    BY <1>4, <2>2, <2>3
<1> QED
  BY <1>5, <1>6 DEF DomInv

\* Attributes are beside the tree.
LEMMA SetAttributeInv ==
  ASSUME DomInv, NEW node \in Handles, NEW matches \in BOOLEAN, SetAttribute(node, matches)
  PROVE  DomInv'
<1>1. /\ DOMAIN nodes' = DOMAIN nodes
      /\ \A n \in DOMAIN nodes :
           /\ nodes'[n].parent = nodes[n].parent
           /\ nodes'[n].children = nodes[n].children
           /\ nodes'[n] \in Node
  BY DEF SetAttribute, DomInv, DomTypeOK, Node
<1>2. DomTypeOK'
  BY <1>1 DEF SetAttribute, DomInv, DomTypeOK, Handles
<1>3. TreeIsMirrored'
  BY <1>1 DEF DomInv, TreeIsMirrored
<1> QED
  BY <1>2, <1>3 DEF DomInv

\* Every step of a document keeps the invariant.
LEMMA DomStepInv == DomInv /\ [DomNext]_domVars => DomInv'
<1> SUFFICES ASSUME DomInv, [DomNext]_domVars PROVE DomInv'
  OBVIOUS
<1>1. CASE UNCHANGED domVars
  BY <1>1 DEF domVars, DomInv, DomTypeOK, TreeIsMirrored, Handles
<1>2. ASSUME NEW matches \in BOOLEAN, AllocNode(matches) PROVE DomInv'
  BY <1>2, AllocNodeInv
<1>3. ASSUME NEW node \in Handles, NEW child \in Handles, AppendChild(node, child) PROVE DomInv'
  BY <1>3, AppendChildInv
<1>4. ASSUME NEW node \in Handles, RemoveNode(node) PROVE DomInv'
  BY <1>4, RemoveNodeInv
<1>5. ASSUME NEW node \in Handles, NEW matches \in BOOLEAN, SetAttribute(node, matches)
      PROVE  DomInv'
  BY <1>5, SetAttributeInv
<1>6. ASSUME NEW node \in Handles, AddEventListener(node) PROVE DomInv'
  BY <1>6 DEF AddEventListener, DomInv, DomTypeOK, TreeIsMirrored, Handles
<1> QED
  BY <1>1, <1>2, <1>3, <1>4, <1>5, <1>6 DEF DomNext

\* The types and the mirror hold in every reachable state of a document.
THEOREM DomInvariance == DomSpec => []DomInv
BY DomInitInv, DomStepInv, PTL DEF DomSpec

\* Parents and children tell one story, whatever a script appends where.
THEOREM MirrorIsKept == DomSpec => []TreeIsMirrored
<1>1. DomInv => TreeIsMirrored
  BY DEF DomInv
<1> QED
  BY <1>1, DomInvariance, PTL

\* A listener of a removed node is never heard for a new one: the ids of
\* listeners were all given before, and an id is given once.
THEOREM ListenersAreNotInherited == DomSpec => NewNodesHaveNoListeners
<1>1. DomInv /\ [DomNext]_domVars
        => [(DOMAIN nodes' \ DOMAIN nodes) \cap targets = {}]_domVars
  <2> SUFFICES ASSUME DomInv, DomNext
               PROVE  (DOMAIN nodes' \ DOMAIN nodes) \cap targets = {}
    OBVIOUS
  <2>1. ASSUME NEW matches \in BOOLEAN, AllocNode(matches)
        PROVE  (DOMAIN nodes' \ DOMAIN nodes) \cap targets = {}
    BY <2>1 DEF AllocNode, DomInv, DomTypeOK, Handles
  <2>2. (\A matches \in BOOLEAN : ~AllocNode(matches)) => DOMAIN nodes' \subseteq DOMAIN nodes
    BY DEF DomNext, AppendChild, RemoveNode, SetAttribute, AddEventListener
  <2> QED
    BY <2>1, <2>2
<1> QED
  BY <1>1, DomInvariance, PTL DEF DomSpec, NewNodesHaveNoListeners

-----------------------------------------------------------------------------
(* What is under a node                                                    *)

\* The children of a node are nodes, and name it as their parent.
LEMMA ChildrenAreNodes ==
  ASSUME DomInv, NEW p \in DOMAIN nodes
  PROVE  /\ DOMAIN nodes \subseteq NodeId
         /\ nodes[p].children \in Seq(NodeId) /\ nodes[p].matches \in BOOLEAN
         /\ Listed(nodes[p].children) \subseteq DOMAIN nodes
         /\ \A c \in DOMAIN nodes : c \in Listed(nodes[p].children) <=> nodes[c].parent = p
<1>1. /\ nextNode \in 2 .. MaxNodes + 1 /\ DOMAIN nodes \subseteq 1 .. nextNode - 1
      /\ nodes[p] \in Node
  BY DEF DomInv, DomTypeOK, Handles
<1>2. DOMAIN nodes \subseteq NodeId
  BY <1>1, DomAssumption DEF NodeId
<1>3. nodes[p].children \in Seq(NodeId) /\ nodes[p].matches \in BOOLEAN
  BY <1>1 DEF Node
<1>4. Listed(nodes[p].children) = {c \in DOMAIN nodes : nodes[c].parent = p}
  BY DEF DomInv, TreeIsMirrored
<1> QED
  BY <1>2, <1>3, <1>4

\* A subtree is the least set with its root and the children of its nodes.
LEMMA SubtreeIsLeast ==
  ASSUME DomInv, NEW n \in DOMAIN nodes
  PROVE  /\ n \in Subtree(n) /\ Subtree(n) \subseteq DOMAIN nodes
         /\ HasItsChildren(Subtree(n))
         /\ \A S \in SUBSET NodeId : n \in S /\ HasItsChildren(S) => Subtree(n) \subseteq S
<1>1. DOMAIN nodes \subseteq NodeId /\ n \in NodeId
  BY ChildrenAreNodes
<1>2. HasItsChildren(DOMAIN nodes) /\ DOMAIN nodes \in SUBSET NodeId
  BY <1>1, ChildrenAreNodes DEF HasItsChildren
<1>3. \A S \in SUBSET NodeId : n \in S /\ HasItsChildren(S) => Subtree(n) \subseteq S
  BY DEF Subtree
<1>4. n \in Subtree(n)
  BY <1>1 DEF Subtree
<1>5. HasItsChildren(Subtree(n))
  <2> SUFFICES ASSUME NEW m \in Subtree(n), m \in DOMAIN nodes, NEW c \in Listed(nodes[m].children)
               PROVE  c \in Subtree(n)
    BY DEF HasItsChildren
  <2>1. c \in NodeId
    BY <1>1, ChildrenAreNodes
  <2>2. ASSUME NEW S \in SUBSET NodeId, n \in S, HasItsChildren(S)
        PROVE  c \in S
    BY <1>3, <2>2 DEF HasItsChildren
  <2> QED
    BY <2>1, <2>2 DEF Subtree
<1> QED
  BY <1>2, <1>3, <1>4, <1>5

\* What is under a node of a subtree is in it.
LEMMA SubtreesNest ==
  ASSUME DomInv, NEW n \in DOMAIN nodes, NEW m \in Subtree(n)
  PROVE  m \in DOMAIN nodes /\ Subtree(m) \subseteq Subtree(n)
<1>1. /\ Subtree(n) \subseteq DOMAIN nodes /\ HasItsChildren(Subtree(n))
  BY SubtreeIsLeast
<1>2. m \in DOMAIN nodes /\ Subtree(n) \in SUBSET NodeId
  BY <1>1, ChildrenAreNodes
<1> QED
  BY <1>1, <1>2, SubtreeIsLeast

\* A subtree is its root and the subtrees of the root's children.
LEMMA SubtreeUnfolds ==
  ASSUME DomInv, NEW n \in DOMAIN nodes, NEW x
  PROVE  x \in Subtree(n) <=> x = n \/ \E c \in Listed(nodes[n].children) : x \in Subtree(c)
<1> DEFINE children == Listed(nodes[n].children)
           S == {n} \cup UNION {Subtree(c) : c \in children}
<1>1. children \subseteq DOMAIN nodes /\ DOMAIN nodes \subseteq NodeId
  BY ChildrenAreNodes
<1>2. \A c \in children : /\ c \in Subtree(c) /\ Subtree(c) \subseteq DOMAIN nodes
                          /\ HasItsChildren(Subtree(c))
  BY <1>1, SubtreeIsLeast
<1>3. children \subseteq Subtree(n) /\ n \in Subtree(n)
  BY SubtreeIsLeast DEF HasItsChildren
<1>4. \A c \in children : Subtree(c) \subseteq Subtree(n)
  BY <1>3, SubtreesNest
<1>5. S \in SUBSET NodeId /\ n \in S
  BY <1>1, <1>2
<1>6. HasItsChildren(S)
  <2> SUFFICES ASSUME NEW m \in S, m \in DOMAIN nodes, NEW c \in Listed(nodes[m].children)
               PROVE  c \in S
    BY DEF HasItsChildren
  <2>1. CASE m = n
    BY <2>1, <1>2
  <2>2. CASE m # n
    <3>1. PICK d \in children : m \in Subtree(d)
      BY <2>2
    <3>2. c \in Subtree(d)
      BY <1>2, <3>1 DEF HasItsChildren
    <3> QED
      BY <3>2
  <2> QED
    BY <2>1, <2>2
<1>7. Subtree(n) \subseteq S
  BY <1>5, <1>6, SubtreeIsLeast
<1> QED
  BY <1>3, <1>4, <1>7

\* In a subtree, the parent of every node but the root is in it too.
LEMMA ParentsInside ==
  ASSUME DomInv, NEW n \in DOMAIN nodes, NEW x \in Subtree(n), x # n
  PROVE  nodes[x].parent \in Subtree(n)
<1> DEFINE S == {y \in Subtree(n) : y = n \/ nodes[y].parent \in Subtree(n)}
<1>1. /\ n \in Subtree(n) /\ Subtree(n) \subseteq DOMAIN nodes
      /\ HasItsChildren(Subtree(n))
  BY SubtreeIsLeast
<1>2. S \in SUBSET NodeId /\ n \in S
  BY <1>1, ChildrenAreNodes
<1>3. HasItsChildren(S)
  BY <1>1, ChildrenAreNodes DEF HasItsChildren
<1> QED
  BY <1>2, <1>3, SubtreeIsLeast

\* Where no node is under itself, the subtrees of two children are apart: a
\* node in both would have a parent in both, up to the children themselves.
LEMMA ChildrenAreApart ==
  ASSUME DomInv, NEW n \in DOMAIN nodes, ~InLoop(n),
         NEW c \in Listed(nodes[n].children), NEW d \in Listed(nodes[n].children), c # d
  PROVE  \A x \in Subtree(c) : x \notin Subtree(d)
<1> DEFINE S == {x \in Subtree(c) : x \notin Subtree(d)}
<1>1. c \in DOMAIN nodes /\ d \in DOMAIN nodes /\ nodes[c].parent = n /\ nodes[d].parent = n
  BY ChildrenAreNodes
<1>2. n \notin Subtree(c) /\ n \notin Subtree(d)
  BY DEF InLoop
<1>3. /\ c \in Subtree(c) /\ Subtree(c) \subseteq DOMAIN nodes
      /\ HasItsChildren(Subtree(c))
  BY <1>1, SubtreeIsLeast
<1>4. c \in S
  BY <1>1, <1>2, <1>3, ParentsInside
<1>5. S \in SUBSET NodeId
  BY <1>3, ChildrenAreNodes
<1>6. HasItsChildren(S)
  BY <1>1, <1>2, <1>3, ChildrenAreNodes, ParentsInside DEF HasItsChildren
<1>7. Subtree(c) \subseteq S
  BY <1>1, <1>4, <1>5, <1>6, SubtreeIsLeast
<1> QED
  BY <1>7

-----------------------------------------------------------------------------
(* The search                                                              *)

\* The stack after children were pushed: what was below stays, the children
\* lie on it, the first one last.
LiesOn(pushed, stack, children) ==
  /\ Len(stack) \in Nat /\ Len(children) \in Nat
  /\ DOMAIN pushed = 1 .. Len(stack) + Len(children)
  /\ \A i \in 1 .. Len(stack) : pushed[i] = stack[i]
  /\ \A i \in Len(stack) + 1 .. Len(stack) + Len(children) :
       LET k == Len(stack) + Len(children) + 1 - i
       IN  k \in 1 .. Len(children) /\ pushed[i] = children[k]

LEMMA PushedChildren ==
  ASSUME NEW S, NEW stack \in Seq(S), NEW n \in DOMAIN nodes, nodes[n].children \in Seq(S)
  PROVE  PushChildren(stack, n) \in Seq(S) /\ LiesOn(PushChildren(stack, n), stack, nodes[n].children)
<1> DEFINE children == nodes[n].children
           turned == Reverse(children)
           l == Len(stack)
           m == Len(children)
<1>1. l \in Nat /\ m \in Nat /\ DOMAIN children = 1 .. m /\ DOMAIN stack = 1 .. l
  OBVIOUS
<1>2. \A i \in 1 .. m : m - i + 1 \in 1 .. m /\ children[m - i + 1] \in S
  BY <1>1
<1>3. turned = [i \in 1 .. m |-> children[m - i + 1]]
  BY DEF Reverse
<1>4. turned \in Seq(S) /\ Len(turned) = m /\ \A i \in 1 .. m : turned[i] = children[m - i + 1]
  BY <1>1, <1>2, <1>3
<1> HIDE DEF turned
<1>5. /\ stack \o turned \in Seq(S) /\ Len(stack \o turned) = l + m
      /\ \A i \in 1 .. l : (stack \o turned)[i] = stack[i]
      /\ \A i \in l + 1 .. l + m : (stack \o turned)[i] = turned[i - l]
  <2>1. /\ stack \o turned \in Seq(S) /\ Len(stack \o turned) = l + m
        /\ \A i \in 1 .. l + m : (stack \o turned)[i] = IF i <= l THEN stack[i] ELSE turned[i - l]
    <3>1. Len(stack) = l /\ Len(turned) = m
      BY <1>4
    <3> HIDE DEF l, m
    <3>2. turned \in Seq(S)
      BY <1>4
    <3>3. /\ stack \o turned \in Seq(S) /\ Len(stack \o turned) = Len(stack) + Len(turned)
          /\ \A i \in 1 .. Len(stack) + Len(turned) :
               (stack \o turned)[i] = IF i <= Len(stack) THEN stack[i] ELSE turned[i - Len(stack)]
      BY <3>2, ConcatProperties
    <3> QED
      BY <3>1, <3>3
  <2> QED
    BY <1>1, <2>1
<1>6. \A i \in l + 1 .. l + m : i - l \in 1 .. m /\ m - (i - l) + 1 = l + m + 1 - i
  BY <1>1
<1>7. PushChildren(stack, n) = stack \o turned
  BY DEF PushChildren, turned
<1> DEFINE pushed == PushChildren(stack, n)
<1>8. /\ pushed \in Seq(S) /\ Len(pushed) = l + m
      /\ \A i \in 1 .. l : pushed[i] = stack[i]
      /\ \A i \in l + 1 .. l + m : pushed[i] = turned[i - l]
  BY <1>5, <1>7
<1> HIDE DEF pushed
<1>9. DOMAIN pushed = 1 .. l + m
  BY <1>8
<1>10. \A i \in l + 1 .. l + m : l + m + 1 - i \in 1 .. m /\ pushed[i] = children[l + m + 1 - i]
  BY <1>2, <1>4, <1>6, <1>8
<1> QED
  BY <1>1, <1>8, <1>9, <1>10 DEF pushed, LiesOn

\* What is on the stack, or under it; what the search is for; and the order:
\* what lies higher on the stack comes first in the document.
Waiting(stack) == UNION {Subtree(stack[i]) : i \in DOMAIN stack}
Hits(root) == {n \in Subtree(root) \ {root} : nodes[n].matches}
AllBefore(a, b) == \A x \in Subtree(a), y \in Subtree(b) : ComesBefore(x, y)
IsOrdered(stack) == \A i, j \in DOMAIN stack : i < j => AllBefore(stack[j], stack[i])
IsFirstHit(root, n) == n \in Hits(root) /\ \A other \in Hits(root) \ {n} : ComesBefore(n, other)

SearchState(root) == [stack: Seq(Subtree(root)), found: NodeId \cup {NoNode}]

SearchInv(root, search, left) ==
  /\ search \in SearchState(root)
  /\ search.found = NoNode =>
       /\ IsOrdered(search.stack)
       /\ Hits(root) \subseteq Waiting(search.stack)
       /\ Cardinality(Waiting(search.stack)) <= left
  /\ search.found # NoNode => IsFirstHit(root, search.found)

NoLoops(root) == \A n \in Subtree(root) : ~InLoop(n)

LEMMA FrontAndLast ==
  ASSUME NEW S, NEW stack \in Seq(S), stack # <<>>
  PROVE  /\ Front(stack) \in Seq(S) /\ Last(stack) \in S
         /\ Len(stack) \in Nat \ {0} /\ DOMAIN stack = 1 .. Len(stack)
         /\ Len(Front(stack)) = Len(stack) - 1 /\ DOMAIN Front(stack) = 1 .. Len(stack) - 1
         /\ \A i \in 1 .. Len(stack) - 1 : Front(stack)[i] = stack[i]
         /\ Last(stack) = stack[Len(stack)]
<1>1. Len(stack) \in Nat \ {0} /\ DOMAIN stack = 1 .. Len(stack)
  OBVIOUS
<1>2. Last(stack) = stack[Len(stack)] /\ Last(stack) \in S
  BY <1>1 DEF Last
<1>3. /\ SubSeq(stack, 1, Len(stack) - 1) \in Seq(S)
      /\ Len(SubSeq(stack, 1, Len(stack) - 1)) = Len(stack) - 1
      /\ \A i \in 1 .. Len(stack) - 1 : SubSeq(stack, 1, Len(stack) - 1)[i] = stack[i]
  BY <1>1
<1> DEFINE front == SubSeq(stack, 1, Len(stack) - 1)
<1>4. DOMAIN front = 1 .. Len(stack) - 1
  BY <1>3
<1> QED
  BY <1>1, <1>2, <1>3, <1>4 DEF Front

\* What lies on the top of the stack is apart from what waits below it.
LEMMA TopIsApart ==
  ASSUME NEW S, NEW stack \in Seq(S), stack # <<>>, IsOrdered(stack)
  PROVE  /\ \A y \in Waiting(Front(stack)) : y \notin Subtree(Last(stack))
         /\ \A y : y \in Waiting(stack) <=> y \in Subtree(Last(stack)) \/ y \in Waiting(Front(stack))
         /\ \A x \in Subtree(Last(stack)), y \in Waiting(Front(stack)) : ComesBefore(x, y)
         /\ IsOrdered(Front(stack))
<1> DEFINE l == Len(stack)
           front == Front(stack)
           last == Last(stack)
<1>1. /\ l \in Nat \ {0} /\ DOMAIN stack = 1 .. l
      /\ DOMAIN front = 1 .. l - 1
      /\ \A i \in 1 .. l - 1 : front[i] = stack[i]
      /\ last = stack[l]
  BY FrontAndLast
<1> HIDE DEF l, front, last
<1>2. \A i \in 1 .. l - 1 : AllBefore(last, front[i])
  BY <1>1 DEF IsOrdered
<1>3. \A x \in Subtree(last), y \in Waiting(front) : ComesBefore(x, y)
  BY <1>1, <1>2 DEF AllBefore, Waiting
<1>4. \A y \in Waiting(front) : y \notin Subtree(last)
  BY <1>3 DEF ComesBefore
<1>5. \A y : y \in Waiting(stack) <=> y \in Subtree(last) \/ y \in Waiting(front)
  BY <1>1 DEF Waiting
<1>6. IsOrdered(front)
  BY <1>1 DEF IsOrdered
<1> QED
  BY <1>3, <1>4, <1>5, <1>6 DEF front, last

LEMMA HitsAreUnder ==
  ASSUME DomInv, NEW root \in DOMAIN nodes
  PROVE  /\ Subtree(root) \subseteq DOMAIN nodes /\ Subtree(root) \in SUBSET NodeId
         /\ IsFiniteSet(Subtree(root)) /\ Cardinality(Subtree(root)) <= MaxNodes
         /\ NoNode \notin Subtree(root)
<1>1. Subtree(root) \subseteq DOMAIN nodes /\ Subtree(root) \in SUBSET NodeId
  BY SubtreeIsLeast, ChildrenAreNodes
<1>2. IsFiniteSet(NodeId) /\ Cardinality(NodeId) = MaxNodes
  BY DomAssumption, FS_Interval DEF NodeId
<1>3. IsFiniteSet(Subtree(root)) /\ Cardinality(Subtree(root)) <= MaxNodes
  BY <1>1, <1>2, FS_Subset
<1> QED
  BY <1>1, <1>3 DEF NodeId, NoNode

\* A node that matches on the top of the stack is the first: the others are
\* under it, or wait lower on the stack.
LEMMA TopHitIsFirst ==
  ASSUME DomInv, NEW root \in DOMAIN nodes, NEW stack \in Seq(Subtree(root)), stack # <<>>,
         IsOrdered(stack), Hits(root) \subseteq Waiting(stack),
         Last(stack) # root, nodes[Last(stack)].matches
  PROVE  IsFirstHit(root, Last(stack))
<1> DEFINE n == Last(stack)
<1>1. n \in Subtree(root)
  BY FrontAndLast
<1>2. n \in Subtree(n)
  BY <1>1, SubtreesNest, SubtreeIsLeast
<1>3. n \in Hits(root)
  BY <1>1 DEF Hits
<1>4. ASSUME NEW other \in Hits(root), other # n
      PROVE  ComesBefore(n, other)
  BY <1>2, <1>4, TopIsApart DEF ComesBefore
<1> QED
  BY <1>3, <1>4 DEF IsFirstHit

LEMMA ChildrenInside ==
  ASSUME DomInv, NEW root \in DOMAIN nodes, NEW n \in Subtree(root)
  PROVE  nodes[n].children \in Seq(Subtree(root))
<1> DEFINE children == nodes[n].children
<1>1. n \in DOMAIN nodes
  BY SubtreesNest
<1>2. children \in Seq(NodeId)
  BY <1>1, ChildrenAreNodes
<1>3. Listed(children) \subseteq Subtree(root)
  BY <1>1, SubtreeIsLeast DEF HasItsChildren
<1>4. Len(children) \in Nat /\ DOMAIN children = 1 .. Len(children)
      /\ children = [i \in 1 .. Len(children) |-> children[i]]
  BY <1>2
<1>5. \A i \in 1 .. Len(children) : children[i] \in Subtree(root)
  BY <1>3, <1>4 DEF Listed
<1> QED
  BY <1>4, <1>5

\* Pushing the children of the node on the top keeps the order of the stack,
\* and the node alone no longer waits.
LEMMA PushKeepsOrder ==
  ASSUME DomInv, NEW root \in DOMAIN nodes, NoLoops(root), NEW stack \in Seq(Subtree(root)), stack # <<>>,
         IsOrdered(stack)
  PROVE  LET pushed == PushChildren(Front(stack), Last(stack))
         IN  /\ pushed \in Seq(Subtree(root)) /\ IsOrdered(pushed)
             /\ Waiting(pushed) = Waiting(stack) \ {Last(stack)}
             /\ Last(stack) \in Waiting(stack)
<1> DEFINE n == Last(stack)
           rest == Front(stack)
           l == Len(rest)
           children == nodes[n].children
           m == Len(children)
           pushed == PushChildren(rest, n)
<1>1. rest \in Seq(Subtree(root)) /\ n \in Subtree(root)
  BY FrontAndLast
<1>2. n \in DOMAIN nodes /\ n \in Subtree(n) /\ ~InLoop(n)
  BY <1>1, SubtreesNest, SubtreeIsLeast DEF NoLoops
<1>5. children \in Seq(Subtree(root))
  BY <1>1, ChildrenInside
<1>6. /\ pushed \in Seq(Subtree(root)) /\ l \in Nat /\ m \in Nat
      /\ DOMAIN pushed = 1 .. l + m /\ DOMAIN children = 1 .. m
      /\ \A i \in 1 .. l : pushed[i] = rest[i]
      /\ \A i \in l + 1 .. l + m : l + m + 1 - i \in 1 .. m /\ pushed[i] = children[l + m + 1 - i]
  <2>1. rest \in Seq(Subtree(root)) /\ n \in DOMAIN nodes /\ nodes[n].children \in Seq(Subtree(root))
    BY <1>1, <1>2, <1>5
  <2>2. DOMAIN children = 1 .. m
    BY <1>5
  <2> HIDE DEF n, rest
  <2>3. PushChildren(rest, n) \in Seq(Subtree(root)) /\ LiesOn(PushChildren(rest, n), rest, nodes[n].children)
    BY <2>1, PushedChildren
  <2> QED
    BY <2>2, <2>3 DEF LiesOn
<1>7. \A x : x \in Subtree(n) <=> x = n \/ \E c \in Listed(children) : x \in Subtree(c)
  BY <1>2, SubtreeUnfolds
<1>8. \A c \in Listed(children) : n \notin Subtree(c)
  BY <1>2 DEF InLoop
<1>9. \A c, d \in Listed(children) : c # d => \A x \in Subtree(c) : x \notin Subtree(d)
  BY <1>2, ChildrenAreApart
<1>10. \A i, j \in 1 .. m : children[i] = children[j] => i = j
  BY <1>2, <1>6 DEF DomInv, TreeIsMirrored, IsOnceEach
<1>11. /\ \A y \in Waiting(rest) : y \notin Subtree(n)
       /\ \A y : y \in Waiting(stack) <=> y \in Subtree(n) \/ y \in Waiting(rest)
       /\ \A x \in Subtree(n), y \in Waiting(rest) : ComesBefore(x, y)
       /\ IsOrdered(rest) /\ DOMAIN rest = 1 .. l
  BY <1>1, TopIsApart
<1> HIDE DEF n, rest, l, children, m, pushed
<1>12. \A x : (\E c \in Listed(children) : x \in Subtree(c)) <=> \E i \in l + 1 .. l + m : x \in Subtree(pushed[i])
  <2>1. ASSUME NEW x, NEW c \in Listed(children), x \in Subtree(c)
        PROVE  \E i \in l + 1 .. l + m : x \in Subtree(pushed[i])
    <3>1. PICK k \in 1 .. m : children[k] = c
      BY <1>6, <2>1 DEF Listed
    <3> DEFINE i == l + m + 1 - k
    <3>2. i \in l + 1 .. l + m /\ l + m + 1 - i = k
      BY <1>6
    <3>3. pushed[i] = c
      BY <1>6, <3>1, <3>2
    <3> QED
      BY <2>1, <3>2, <3>3
  <2>2. ASSUME NEW x, NEW i \in l + 1 .. l + m, x \in Subtree(pushed[i])
        PROVE  \E c \in Listed(children) : x \in Subtree(c)
    BY <1>6, <2>2 DEF Listed
  <2> QED
    BY <2>1, <2>2
<1>13. \A x : x \in Waiting(pushed) <=> x \in Waiting(rest) \/ \E c \in Listed(children) : x \in Subtree(c)
  BY <1>6, <1>11, <1>12 DEF Waiting
<1>14. Waiting(pushed) = Waiting(stack) \ {n} /\ n \in Waiting(stack)
  BY <1>2, <1>7, <1>8, <1>11, <1>13
<1>15. ASSUME NEW i \in 1 .. l + m, NEW j \in 1 .. l + m, i < j
       PROVE  AllBefore(pushed[j], pushed[i])
  <2>1. CASE j <= l
    BY <1>6, <1>11, <1>15, <2>1 DEF IsOrdered
  <2>2. CASE i <= l /\ j > l
    <3>1. pushed[i] = rest[i] /\ i \in DOMAIN rest
      BY <1>6, <1>11, <2>2
    <3>2. pushed[j] \in Listed(children)
      BY <1>6, <2>2 DEF Listed
    <3>3. \A x \in Subtree(pushed[j]) : x \in Subtree(n)
      BY <1>7, <3>2
    <3>4. \A y \in Subtree(pushed[i]) : y \in Waiting(rest)
      BY <3>1 DEF Waiting
    <3> QED
      BY <1>11, <3>3, <3>4 DEF AllBefore
  <2>3. CASE i > l
    <3> DEFINE p == l + m + 1 - j
               q == l + m + 1 - i
    <3>1. i \in l + 1 .. l + m /\ j \in l + 1 .. l + m
      BY <1>6, <1>15, <2>3
    <3>2. p < q
      BY <1>6, <1>15
    <3>3. p \in 1 .. m /\ q \in 1 .. m /\ pushed[j] = children[p] /\ pushed[i] = children[q]
      BY <1>6, <3>1
    <3> HIDE DEF p, q
    <3>4. children[p] \in Listed(children) /\ children[q] \in Listed(children) /\ children[p] # children[q]
      <4>1. children[p] \in Listed(children) /\ children[q] \in Listed(children)
        BY <1>6, <3>3 DEF Listed
      <4>2. p # q
        BY <1>6, <3>2, <3>3
      <4> QED
        BY <1>10, <3>3, <4>1, <4>2
    <3>5. \A x \in Subtree(children[p]) : x \notin Subtree(children[q])
      BY <1>9, <3>4
    <3>6. \A x \in Subtree(children[p]), y \in Subtree(children[q]) : ComesBefore(x, y)
      BY <1>2, <1>6, <3>2, <3>3, <3>5 DEF children, ComesBefore
    <3> QED
      BY <3>3, <3>6 DEF AllBefore
  <2> QED
    BY <1>6, <2>1, <2>2, <2>3
<1>16. IsOrdered(pushed)
  BY <1>6, <1>15 DEF IsOrdered
<1> QED
  BY <1>6, <1>14, <1>16 DEF n, rest, pushed

\* One turn takes one node off what waits, or ends the search with the first
\* node that matches.
LEMMA TurnKeepsSearch ==
  ASSUME DomInv, NEW root \in DOMAIN nodes, NoLoops(root), NEW left \in Nat,
         NEW search, SearchInv(root, search, left + 1)
  PROVE  SearchInv(root, SearchTurn(root, search), left)
<1> DEFINE stack == search.stack
           n == Last(stack)
           rest == Front(stack)
           after == SearchTurn(root, search)
<1>1. /\ Subtree(root) \subseteq DOMAIN nodes /\ Subtree(root) \in SUBSET NodeId
      /\ IsFiniteSet(Subtree(root)) /\ NoNode \notin Subtree(root) /\ NoNode \notin NodeId
  BY HitsAreUnder DEF NodeId, NoNode
<1>2. search \in SearchState(root) /\ stack \in Seq(Subtree(root))
  BY DEF SearchInv, SearchState
<1>3. CASE search.found # NoNode
  BY <1>3 DEF SearchTurn, SearchInv
<1>4. CASE search.found = NoNode /\ stack = <<>>
  <2>1. after = search
    BY <1>4 DEF SearchTurn
  <2>2. Waiting(stack) = {}
    BY <1>4 DEF Waiting
  <2>3. Cardinality(Waiting(stack)) <= left
    BY <2>2, FS_EmptySet
  <2> QED
    BY <1>4, <2>1, <2>3 DEF SearchInv
<1>5. CASE search.found = NoNode /\ stack # <<>>
  <2>1. /\ IsOrdered(stack) /\ Hits(root) \subseteq Waiting(stack)
        /\ Cardinality(Waiting(stack)) <= left + 1
    BY <1>5 DEF SearchInv
  <2>2. n \in Subtree(root) /\ n \in DOMAIN nodes /\ rest \in Seq(Subtree(root))
    BY <1>1, <1>2, <1>5, FrontAndLast
  <2>3. CASE n # root /\ nodes[n].matches
    <3>1. after = [stack |-> rest, found |-> n]
      BY <1>5, <2>2, <2>3 DEF SearchTurn
    <3>2. IsFirstHit(root, n)
      BY <1>2, <1>5, <2>1, <2>3, TopHitIsFirst
    <3>3. n # NoNode /\ n \in NodeId
      BY <1>1, <2>2
    <3> HIDE DEF n, rest
    <3>4. after \in SearchState(root) /\ after.found = n
      BY <2>2, <3>1, <3>3 DEF SearchState
    <3> QED
      BY <3>2, <3>3, <3>4 DEF SearchInv
  <2>4. CASE ~(n # root /\ nodes[n].matches)
    <3> DEFINE pushed == PushChildren(rest, n)
    <3>1. after = [stack |-> pushed, found |-> NoNode]
      BY <1>5, <2>2, <2>4 DEF SearchTurn
    <3>2. /\ pushed \in Seq(Subtree(root)) /\ IsOrdered(pushed)
          /\ Waiting(pushed) = Waiting(stack) \ {n} /\ n \in Waiting(stack)
      BY <1>2, <1>5, <2>1, PushKeepsOrder
    <3> HIDE DEF pushed, n, stack, rest, after
    <3>3. after \in SearchState(root) /\ after.stack = pushed /\ after.found = NoNode
      BY <3>1, <3>2 DEF SearchState
    <3>4. n \notin Hits(root)
      BY <2>4 DEF Hits
    <3>5. Hits(root) \subseteq Waiting(pushed)
      BY <2>1, <3>2, <3>4
    <3>6. IsFiniteSet(Waiting(stack))
      BY <1>1, <1>2, SubtreesNest, FS_Subset DEF Waiting
    <3>7. Cardinality(Waiting(pushed)) = Cardinality(Waiting(stack)) - 1
      BY <3>2, <3>6, FS_RemoveElement
    <3>8. Cardinality(Waiting(stack)) \in Nat
      BY <3>6, FS_CardinalityType
    <3>9. Cardinality(Waiting(pushed)) <= left
      BY <2>1, <3>7, <3>8
    <3> QED
      BY <3>2, <3>3, <3>5, <3>9 DEF SearchInv, after
  <2> QED
    BY <2>3, <2>4
<1> QED
  BY <1>3, <1>4, <1>5

Searches(root, after) ==
  after = [k \in 0 .. MaxNodes |->
             IF k = 0 THEN [stack |-> <<root>>, found |-> NoNode] ELSE SearchTurn(root, after[k - 1])]

LEMMA SearchStarts ==
  ASSUME DomInv, NEW root \in DOMAIN nodes
  PROVE  SearchInv(root, [stack |-> <<root>>, found |-> NoNode], MaxNodes)
<1> DEFINE stack == <<root>>
<1>1. /\ root \in Subtree(root) /\ Cardinality(Subtree(root)) <= MaxNodes
  BY SubtreeIsLeast, HitsAreUnder
<1>2. stack \in Seq(Subtree(root)) /\ DOMAIN stack = {1} /\ stack[1] = root
  BY <1>1
<1> HIDE DEF stack
<1>3. Waiting(stack) = Subtree(root)
  BY <1>2 DEF Waiting
<1>4. IsOrdered(stack)
  BY <1>2 DEF IsOrdered
<1>5. Hits(root) \subseteq Waiting(stack)
  BY <1>3 DEF Hits
<1>6. [stack |-> stack, found |-> NoNode] \in SearchState(root)
  BY <1>2 DEF SearchState
<1>7. SearchInv(root, [stack |-> stack, found |-> NoNode], MaxNodes)
  BY <1>1, <1>3, <1>4, <1>5, <1>6 DEF SearchInv
<1> QED
  BY <1>7 DEF stack

LEMMA TurnsMakeStates ==
  ASSUME DomInv, NEW root \in DOMAIN nodes, NEW search \in SearchState(root)
  PROVE  SearchTurn(root, search) \in SearchState(root)
<1> DEFINE stack == search.stack
           n == Last(stack)
           rest == Front(stack)
           pushed == PushChildren(rest, n)
<1>1. stack \in Seq(Subtree(root)) /\ Subtree(root) \in SUBSET NodeId
  BY HitsAreUnder DEF SearchState
<1>2. CASE stack = <<>> \/ search.found # NoNode
  BY <1>2 DEF SearchTurn
<1>3. CASE ~(stack = <<>> \/ search.found # NoNode)
  <2>1. rest \in Seq(Subtree(root)) /\ n \in Subtree(root)
    BY <1>1, <1>3, FrontAndLast
  <2>2. n \in DOMAIN nodes /\ n \in NodeId
    BY <1>1, <2>1, SubtreesNest
  <2>3. nodes[n].children \in Seq(Subtree(root))
    BY <2>1, ChildrenInside
  <2>4. pushed \in Seq(Subtree(root))
    BY <2>1, <2>2, <2>3, PushedChildren
  <2>5. SearchTurn(root, search) \in {[stack |-> rest, found |-> n], [stack |-> pushed, found |-> NoNode]}
    BY <1>3, <2>2 DEF SearchTurn
  <2> HIDE DEF stack, n, rest, pushed
  <2> QED
    BY <2>1, <2>2, <2>4, <2>5 DEF SearchState
<1> QED
  BY <1>2, <1>3

LEMMA SearchExists ==
  ASSUME DomInv, NEW root \in DOMAIN nodes
  PROVE  \E after : Searches(root, after)
<1> DEFINE T == SearchState(root)
           first == [stack |-> <<root>>, found |-> NoNode]
           step == [k \in 1 .. MaxNodes |-> [search \in T |-> SearchTurn(root, search)]]
<1>1. first \in T
  BY SearchStarts DEF SearchInv
<1>2. \A search \in T : SearchTurn(root, search) \in T
  BY TurnsMakeStates
<1>3. MaxNodes \in Nat /\ MaxNodes > 0
  BY DomAssumption
<1> HIDE DEF T, first
<1>4. Loop(T, 0, MaxNodes, first, step)
  <2>1. step \in [1 .. MaxNodes -> [T -> T]]
    BY <1>2
  <2>2. 0 \in Nat /\ 0 <= MaxNodes /\ 0 + 1 = 1
    BY <1>3
  <2> HIDE DEF step
  <2> QED
    BY <1>1, <1>3, <2>1, <2>2 DEF Loop
<1>5. PICK f \in Turns(T, 0, MaxNodes, first, step) : TRUE
  BY <1>4, Iterates
<1>6. f \in [0 .. MaxNodes -> T] /\ f[0] = first /\ \A k \in 0 + 1 .. MaxNodes : f[k] = step[k][f[k - 1]]
  BY <1>5 DEF Turns
<1>7. ASSUME NEW k \in 0 .. MaxNodes
      PROVE  f[k] = IF k = 0 THEN first ELSE SearchTurn(root, f[k - 1])
  <2>1. CASE k # 0
    BY <1>3, <1>6, <2>1
  <2> QED
    BY <1>6, <2>1
<1>8. f = [k \in 0 .. MaxNodes |-> f[k]]
  BY <1>6
<1>9. [k \in 0 .. MaxNodes |-> f[k]] = [k \in 0 .. MaxNodes |-> IF k = 0 THEN first ELSE SearchTurn(root, f[k - 1])]
  BY <1>7
<1>10. f = [k \in 0 .. MaxNodes |-> IF k = 0 THEN first ELSE SearchTurn(root, f[k - 1])]
  BY <1>8, <1>9
<1>11. Searches(root, f)
  BY <1>10 DEF Searches, first
<1> QED
  BY <1>11

\* After MaxNodes turns a search that ends has ended.
LEMMA SearchEnds ==
  ASSUME DomInv, NEW root \in DOMAIN nodes, NoLoops(root), NEW after, Searches(root, after)
  PROVE  SearchInv(root, after[MaxNodes], 0)
<1> DEFINE S == {k \in 0 .. MaxNodes : SearchInv(root, after[k], MaxNodes - k)}
           start == 0
<1>1. MaxNodes \in Nat
  BY DomAssumption
<1>2. \A k \in 0 .. MaxNodes :
        after[k] = IF k = 0 THEN [stack |-> <<root>>, found |-> NoNode] ELSE SearchTurn(root, after[k - 1])
  BY DEF Searches
<1>3. after[0] = [stack |-> <<root>>, found |-> NoNode] /\ \A k \in 1 .. MaxNodes : after[k] = SearchTurn(root, after[k - 1])
  BY <1>1, <1>2
<1>4. start \in S /\ start \in Nat
  BY <1>1, <1>3, SearchStarts
<1>5. ASSUME NEW k \in start .. MaxNodes - 1, k \in S
      PROVE  k + 1 \in S
  <2> DEFINE left == MaxNodes - (k + 1)
  <2>1. k + 1 \in 1 .. MaxNodes /\ (k + 1) - 1 = k /\ left \in Nat /\ left + 1 = MaxNodes - k /\ k + 1 \in 0 .. MaxNodes
    BY <1>1
  <2> HIDE DEF left
  <2>2. SearchInv(root, after[k], left + 1)
    BY <1>5, <2>1
  <2>3. SearchInv(root, SearchTurn(root, after[k]), left)
    BY <2>1, <2>2, TurnKeepsSearch
  <2>4. after[k + 1] = SearchTurn(root, after[k])
    BY <1>3, <2>1
  <2> QED
    BY <2>1, <2>3, <2>4 DEF left
<1> HIDE DEF S, start
<1>6. start .. MaxNodes \subseteq S
  BY <1>1, <1>4, <1>5, CountingUp
<1>7. MaxNodes \in S /\ MaxNodes - MaxNodes = 0
  BY <1>1, <1>6 DEF start
<1> QED
  BY <1>7 DEF S

\* What query_selector_within returns of a tree without loops.
LEMMA SearchIsRight ==
  ASSUME DomInv, NEW root \in DOMAIN nodes, NoLoops(root)
  PROVE  LET found == QuerySelectorWithin(root)
         IN  IF Hits(root) = {} THEN found = NoNode ELSE IsFirstHit(root, found)
<1> DEFINE after == CHOOSE f : Searches(root, f)
           found == QuerySelectorWithin(root)
<1>1. Searches(root, after)
  BY SearchExists
<1>2. found = after[MaxNodes].found
  BY DEF QuerySelectorWithin, Searches
<1> HIDE DEF after, found
<1>3. SearchInv(root, after[MaxNodes], 0)
  BY <1>1, SearchEnds
<1>4. CASE found = NoNode
  <2> DEFINE stack == after[MaxNodes].stack
             waiting == Waiting(stack)
  <2>1. /\ stack \in Seq(Subtree(root)) /\ Hits(root) \subseteq waiting /\ Cardinality(waiting) <= 0
    BY <1>2, <1>3, <1>4 DEF SearchInv, SearchState
  <2>2. waiting \subseteq Subtree(root)
    BY <2>1, SubtreesNest DEF Waiting
  <2> HIDE DEF waiting
  <2>3. IsFiniteSet(waiting)
    BY <2>2, HitsAreUnder, FS_Subset
  <2>4. Cardinality(waiting) = 0
    BY <2>1, <2>3, FS_CardinalityType
  <2>5. waiting = {}
    BY <2>3, <2>4, FS_EmptySet
  <2> QED
    BY <1>4, <2>1, <2>5 DEF found
<1>5. CASE found # NoNode
  BY <1>2, <1>3, <1>5 DEF SearchInv, IsFirstHit, found
<1> QED
  BY <1>4, <1>5

\* A search from an element finds the matching node under it that comes first
\* in the document, for documents of any size and shape without a loop under
\* that element (query_selector_within).
THEOREM SearchIsFirst == DomSpec => []SearchFindsFirst
<1>1. DomInv => SearchFindsFirst
  BY SearchIsRight DEF SearchFindsFirst, NoLoops, IsFirstHit, Hits
<1> QED
  BY <1>1, DomInvariance, PTL

-----------------------------------------------------------------------------
(* Priorities                                                              *)

Priorities(n) == [1 .. n -> Int]

Exceeds(p, q, k) == p[k] > q[k] /\ \A j \in 1 .. k - 1 : p[j] = q[j]

LEMMA AtLeastMeans ==
  ASSUME NEW n \in Nat, NEW p \in Priorities(n), NEW q
  PROVE  AtLeast(p, q) <=> p = q \/ \E k \in 1 .. n : Exceeds(p, q, k)
<1>1. Len(p) = n
  BY DEF Priorities
<1> QED
  BY <1>1 DEF AtLeast, Exceeds

\* Of two priorities of the same length one is at least the other, both only
\* when they are the same, and what is at least one that is at least a third
\* is at least the third.
LEMMA PrioritiesAreOrdered ==
  ASSUME NEW n \in Nat, NEW p \in Priorities(n), NEW q \in Priorities(n), NEW r \in Priorities(n)
  PROVE  /\ AtLeast(p, q) \/ AtLeast(q, p)
         /\ AtLeast(p, q) /\ AtLeast(q, p) => p = q
         /\ AtLeast(p, q) /\ AtLeast(q, r) => AtLeast(p, r)
<1>1. \A k \in 1 .. n : p[k] \in Int /\ q[k] \in Int /\ r[k] \in Int
  BY DEF Priorities
<1>2. p # q => \E k \in 1 .. n : Exceeds(p, q, k) \/ Exceeds(q, p, k)
  <2> SUFFICES ASSUME p # q
               PROVE  \E k \in 1 .. n : Exceeds(p, q, k) \/ Exceeds(q, p, k)
    OBVIOUS
  <2> DEFINE differ == {k \in 1 .. n : p[k] # q[k]}
  <2>1. differ # {}
    <3> SUFFICES ASSUME \A k \in 1 .. n : p[k] = q[k]
                 PROVE  FALSE
      OBVIOUS
    <3>1. p = [k \in 1 .. n |-> p[k]] /\ q = [k \in 1 .. n |-> q[k]]
      BY DEF Priorities
    <3>2. [k \in 1 .. n |-> p[k]] = [k \in 1 .. n |-> q[k]]
      OBVIOUS
    <3> QED
      BY <3>1, <3>2
  <2>2. differ \in SUBSET Nat
    OBVIOUS
  <2>3. PICK k \in differ : \A j \in differ : k <= j
    <3> HIDE DEF differ
    <3> QED
      BY <2>1, <2>2, LeastNatural
  <2>4. \A j \in 1 .. k - 1 : p[j] = q[j]
    BY <2>3
  <2>5. p[k] > q[k] \/ q[k] > p[k]
    BY <1>1, <2>3
  <2> QED
    BY <2>3, <2>4, <2>5 DEF Exceeds
<1>3. \A k, m \in 1 .. n : ~(Exceeds(p, q, k) /\ Exceeds(q, p, m))
  <2> SUFFICES ASSUME NEW k \in 1 .. n, NEW m \in 1 .. n, Exceeds(p, q, k), Exceeds(q, p, m)
               PROVE  FALSE
    OBVIOUS
  <2>1. k < m => p[k] = q[k]
    BY DEF Exceeds
  <2>2. m < k => p[m] = q[m]
    BY DEF Exceeds
  <2>3. p[k] > q[k] /\ q[m] > p[m]
    BY DEF Exceeds
  <2>4. k < m \/ m < k \/ k = m
    OBVIOUS
  <2> QED
    BY <1>1, <2>1, <2>2, <2>3, <2>4
<1>4. ASSUME NEW k \in 1 .. n, NEW m \in 1 .. n, Exceeds(p, q, k), Exceeds(q, r, m)
      PROVE  \E i \in 1 .. n : Exceeds(p, r, i)
  <2>1. CASE k <= m
    BY <1>1, <1>4, <2>1 DEF Exceeds
  <2>2. CASE m < k
    BY <1>4, <2>2 DEF Exceeds
  <2> QED
    BY <2>1, <2>2
<1> QED
  BY <1>2, <1>3, <1>4, AtLeastMeans

\* Finitely many priorities have one that is at least all of them.
LEMMA HighestExists ==
  ASSUME NEW n \in Nat, NEW S \in SUBSET Priorities(n), IsFiniteSet(S), S # {}
  PROVE  \E s \in S : \A t \in S : AtLeast(s, t)
<1> DEFINE order == {pair \in S \X S : AtLeast(pair[2], pair[1])}
           list == InOrderBy(S, order)
           count == Cardinality(S)
<1>1. \A a, b \in S : <<a, b>> \in order <=> AtLeast(b, a)
  OBVIOUS
<1> HIDE DEF order
<1>2. IsTotalOrder(S, order)
  BY <1>1, PrioritiesAreOrdered DEF IsTotalOrder
<1>3. EnumeratesBy(list, S, order)
  BY <1>2, InOrderByEnumerates
<1>4. count \in Nat /\ count # 0
  BY FS_CardinalityType, FS_EmptySet
<1> HIDE DEF list
<1>5. list[count] \in S
  BY <1>3, <1>4 DEF EnumeratesBy
<1>6. ASSUME NEW t \in S
      PROVE  AtLeast(list[count], t)
  <2>1. PICK i \in 1 .. count : list[i] = t
    BY <1>3 DEF EnumeratesBy
  <2>2. CASE i = count
    BY <2>1, <2>2 DEF AtLeast
  <2>3. CASE i # count
    <3>1. i < count /\ count \in 1 .. count
      BY <1>4, <2>3
    <3>2. <<list[i], list[count]>> \in order
      BY <1>3, <2>1, <3>1 DEF EnumeratesBy
    <3> QED
      BY <1>1, <1>5, <2>1, <3>2
  <2> QED
    BY <2>2, <2>3
<1> QED
  BY <1>5, <1>6

-----------------------------------------------------------------------------
(* Selectors                                                               *)

IsSelector(selector) == IsList(selector) /\ \A k \in DOMAIN selector : IsFiniteSet(selector[k].classes)

\* What a selector is parsed to is one, with the parts it names.
LEMMA ParseSelectorFacts ==
  ASSUME NEW selector, IsSelector(selector)
  PROVE  IsSelector(ParseSelector(selector))
<1> DEFINE named == [i \in 1 .. Len(selector) |-> ParsePart(selector[i])]
           kept == {i \in DOMAIN selector : LET p == selector[i] IN p.tag # "" \/ p.id # "" \/ p.classes # {} \/ p.cut = ""}
           parts == ParseSelector(selector)
<1>1. parts = Picked(named, kept)
  BY DEF ParseSelector
<1>2. Len(selector) \in Nat /\ DOMAIN selector = 1 .. Len(selector)
  BY ListFacts DEF IsSelector
<1>3. named \in Seq({ParsePart(selector[i]) : i \in 1 .. Len(selector)}) /\ DOMAIN named = 1 .. Len(selector)
  BY <1>2
<1>4. \A i \in 1 .. Len(selector) : named[i].classes = selector[i].classes
  BY DEF ParsePart
<1>5. kept \in SUBSET DOMAIN named
  BY <1>2
<1> HIDE DEF named, kept
<1>6. IsList(parts) /\ \E places : PicksFrom(named, kept, parts, places)
  BY <1>1, <1>3, <1>5, PickedList DEF IsList
<1>7. DOMAIN parts = 1 .. Len(parts)
  BY <1>6, ListFacts
<1> HIDE DEF parts
<1>8. ASSUME NEW k \in DOMAIN parts
      PROVE  IsFiniteSet(parts[k].classes)
  <2>1. PICK places : PicksFrom(named, kept, parts, places)
    BY <1>6
  <2>2. places[k] \in 1 .. Len(selector) /\ parts[k] = named[places[k]]
    BY <1>2, <1>3, <1>5, <1>7, <2>1 DEF PicksFrom
  <2> QED
    BY <1>2, <1>4, <2>2 DEF IsSelector
<1> QED
  BY <1>6, <1>8 DEF IsSelector, parts

\* The specificity of a selector is three numbers.
LEMMA SpecificityFacts ==
  ASSUME NEW parts, IsSelector(parts)
  PROVE  Specificity(parts) \in Priorities(3)
<1> DEFINE T == Priorities(3)
           n == Len(parts)
           zero == [k \in 1 .. 3 |-> 0]
           Next(t, i) == [k \in 1 .. 3 |-> t[k] + PartSpecificity(parts[i])[k]]
           step == [i \in 1 .. n |-> [t \in T |-> Next(t, i)]]
           Sum(f) == f = [i \in 0 .. n |-> [k \in 1 .. 3 |-> IF i = 0 THEN 0 ELSE f[i - 1][k] + PartSpecificity(parts[i])[k]]]
<1>1. n \in Nat /\ DOMAIN parts = 1 .. n
  BY ListFacts DEF IsSelector
<1>2. zero \in T
  BY DEF Priorities
<1>3. ASSUME NEW i \in 1 .. n, NEW k \in 1 .. 3
      PROVE  PartSpecificity(parts[i])[k] \in Int
  <2>1. Cardinality(parts[i].classes) \in Nat
    BY <1>1, FS_CardinalityType DEF IsSelector
  <2> DEFINE ids == IF parts[i].id # "" THEN 1 ELSE 0
             classes == Cardinality(parts[i].classes)
             tags == IF parts[i].tag # "" THEN 1 ELSE 0
  <2>2. PartSpecificity(parts[i]) = <<ids, classes, tags>>
    BY DEF PartSpecificity
  <2>3. ids \in Int /\ classes \in Int /\ tags \in Int
    BY <2>1
  <2>4. k = 1 \/ k = 2 \/ k = 3
    OBVIOUS
  <2> HIDE DEF ids, classes, tags
  <2> QED
    BY <2>2, <2>3, <2>4
<1>4. \A i \in 1 .. n, t \in T : Next(t, i) \in T
  BY <1>3 DEF Priorities
<1> HIDE DEF zero, Next, n
<1>5. Loop(T, 0, n, zero, step)
  <2>1. step \in [1 .. n -> [T -> T]]
    BY <1>4
  <2>2. 0 \in Nat /\ 0 <= n /\ 0 + 1 = 1
    BY <1>1
  <2> HIDE DEF step, T
  <2> QED
    BY <1>1, <1>2, <2>1, <2>2 DEF Loop
<1>6. PICK f \in Turns(T, 0, n, zero, step) : TRUE
  BY <1>5, Iterates
<1>7. f \in [0 .. n -> T] /\ f[0] = zero /\ \A i \in 1 .. n : f[i] = Next(f[i - 1], i)
  <2>1. f \in [0 .. n -> T] /\ f[0] = zero /\ \A i \in 0 + 1 .. n : f[i] = step[i][f[i - 1]]
    BY <1>6 DEF Turns
  <2>2. ASSUME NEW i \in 1 .. n
        PROVE  f[i] = Next(f[i - 1], i)
    BY <1>1, <2>1
  <2> QED
    BY <2>1, <2>2
<1>8. Sum(f)
  <2>1. ASSUME NEW i \in 0 .. n
        PROVE  f[i] = [k \in 1 .. 3 |-> IF i = 0 THEN 0 ELSE f[i - 1][k] + PartSpecificity(parts[i])[k]]
    <3>1. CASE i = 0
      BY <1>7, <3>1 DEF zero
    <3>2. CASE i # 0
      <4>1. i \in 1 .. n
        BY <1>1, <3>2
      <4> QED
        BY <1>7, <3>2, <4>1 DEF Next
    <3> QED
      BY <3>1, <3>2
  <2>2. f = [i \in 0 .. n |-> f[i]]
    BY <1>7
  <2>3. [i \in 0 .. n |-> f[i]] = [i \in 0 .. n |-> [k \in 1 .. 3 |-> IF i = 0 THEN 0 ELSE f[i - 1][k] + PartSpecificity(parts[i])[k]]]
    BY <2>1
  <2> QED
    BY <2>2, <2>3
<1> DEFINE sum == CHOOSE g : Sum(g)
<1>9. Sum(sum)
  <2> HIDE DEF Sum
  <2> QED
    BY <1>8
<1>10. Specificity(parts) = sum[n]
  BY DEF Specificity, n
<1> HIDE DEF sum
<1>11. \A i \in 0 .. n : sum[i] = f[i]
  <2> DEFINE S == {i \in 0 .. n : sum[i] = f[i]}
             start == 0
  <2>1. \A i \in 0 .. n : /\ sum[i] = [k \in 1 .. 3 |-> IF i = 0 THEN 0 ELSE sum[i - 1][k] + PartSpecificity(parts[i])[k]]
                          /\ f[i] = [k \in 1 .. 3 |-> IF i = 0 THEN 0 ELSE f[i - 1][k] + PartSpecificity(parts[i])[k]]
    BY <1>8, <1>9
  <2>2. start \in S
    <3>1. start \in 0 .. n
      BY <1>1
    <3>2. sum[start] = [k \in 1 .. 3 |-> 0] /\ f[start] = [k \in 1 .. 3 |-> 0]
      BY <2>1, <3>1
    <3> QED
      BY <3>1, <3>2
  <2>3. ASSUME NEW i \in start .. n - 1, i \in S
        PROVE  i + 1 \in S
    <3> DEFINE m == i + 1
    <3>1. m \in 0 .. n /\ m # 0 /\ m - 1 = i /\ sum[i] = f[i]
      BY <1>1, <2>3
    <3> HIDE DEF m
    <3>2. sum[m] = f[m]
      BY <2>1, <3>1
    <3> QED
      BY <3>1, <3>2 DEF m
  <2>4. start \in Nat
    OBVIOUS
  <2> HIDE DEF S, start
  <2>5. start .. n \subseteq S
    BY <1>1, <2>2, <2>3, <2>4, CountingUp
  <2> QED
    BY <2>5 DEF S, start
<1> QED
  BY <1>1, <1>7, <1>10, <1>11

-----------------------------------------------------------------------------
(* The walk over the ancestors                                             *)

LEMMA GreatestNatural ==
  ASSUME NEW m \in Nat, NEW S \in SUBSET (0 .. m), S # {}
  PROVE  Max(S) \in S /\ \A y \in S : y <= Max(S)
<1> DEFINE gaps == {m - x : x \in S}
<1>1. gaps \in SUBSET Nat /\ gaps # {}
  <2>1. \A x \in S : m - x \in Nat
    OBVIOUS
  <2>2. PICK x \in S : TRUE
    OBVIOUS
  <2> QED
    BY <2>1, <2>2
<1>2. PICK gap \in gaps : \A other \in gaps : gap <= other
  <2> HIDE DEF gaps
  <2> QED
    BY <1>1, LeastNatural
<1>3. PICK x \in S : gap = m - x
  BY <1>2
<1>4. \A y \in S : x >= y
  BY <1>2, <1>3
<1>5. Max(S) \in S /\ \A y \in S : Max(S) >= y
  BY <1>4 DEF Max
<1> QED
  BY <1>5

\* The nearest of the ancestors before a place that a part matches, or 0.
LEMMA NearestFacts ==
  ASSUME NEW part, NEW ancestors, NEW below \in Nat
  PROVE  LET at == Nearest(part, ancestors, below) IN
         /\ at \in Nat
         /\ at # 0 => at < below /\ MatchesCore(part, ancestors[at])
         /\ \A i \in 1 .. below - 1 : MatchesCore(part, ancestors[i]) => i <= at
<1> DEFINE S == {0} \cup {i \in 1 .. (below - 1) : MatchesCore(part, ancestors[i])}
<1>1. S \in SUBSET (0 .. below) /\ S # {}
  OBVIOUS
<1>2. Nearest(part, ancestors, below) = Max(S)
  BY DEF Nearest
<1>3. Max(S) \in S /\ \A y \in S : y <= Max(S)
  <2> HIDE DEF S
  <2> QED
    BY <1>1, GreatestNatural
<1> QED
  BY <1>2, <1>3

WalksUp(parts, ancestors, f) ==
  f = [n \in 0 .. Len(parts) |->
         IF n = 0 THEN Len(ancestors) + 1 ELSE Nearest(parts[Len(parts) + 1 - n], ancestors, f[n - 1])]

LEMMA WalkExists ==
  ASSUME NEW parts, NEW ancestors, Len(parts) \in Nat, Len(ancestors) \in Nat
  PROVE  \E f : WalksUp(parts, ancestors, f)
<1> DEFINE n == Len(parts)
           first == Len(ancestors) + 1
           Next(t, i) == Nearest(parts[n + 1 - i], ancestors, t)
           step == [i \in 1 .. n |-> [t \in Nat |-> Next(t, i)]]
<1>1. \A i \in 1 .. n, t \in Nat : Next(t, i) \in Nat
  BY NearestFacts
<1>2. first \in Nat
  OBVIOUS
<1> HIDE DEF Next, n, first
<1>3. n \in Nat
  BY DEF n
<1>4. Loop(Nat, 0, n, first, step)
  <2>1. step \in [1 .. n -> [Nat -> Nat]]
    BY <1>1
  <2>2. 0 \in Nat /\ 0 <= n /\ 0 + 1 = 1
    BY <1>3
  <2> HIDE DEF step
  <2> QED
    BY <1>2, <1>3, <2>1, <2>2 DEF Loop
<1>5. PICK f \in Turns(Nat, 0, n, first, step) : TRUE
  BY <1>4, Iterates
<1>6. f \in [0 .. n -> Nat] /\ f[0] = first /\ \A i \in 0 + 1 .. n : f[i] = step[i][f[i - 1]]
  BY <1>5 DEF Turns
<1>7. ASSUME NEW i \in 0 .. n
      PROVE  f[i] = IF i = 0 THEN first ELSE Next(f[i - 1], i)
  <2>1. CASE i # 0
    <3>1. i \in 0 + 1 .. n /\ i \in 1 .. n /\ i - 1 \in 0 .. n
      BY <1>3, <2>1
    <3>2. f[i - 1] \in Nat
      BY <1>6, <3>1
    <3> QED
      BY <1>6, <2>1, <3>1, <3>2
  <2> QED
    BY <1>6, <2>1
<1>8. f = [i \in 0 .. n |-> f[i]]
  BY <1>6
<1>9. [i \in 0 .. n |-> f[i]] = [i \in 0 .. n |-> IF i = 0 THEN first ELSE Next(f[i - 1], i)]
  BY <1>7
<1>10. f = [i \in 0 .. n |-> IF i = 0 THEN first ELSE Next(f[i - 1], i)]
  BY <1>8, <1>9
<1>11. WalksUp(parts, ancestors, f)
  BY <1>10 DEF WalksUp, n, first, Next
<1> QED
  BY <1>11

\* A walk reaches smaller places, and matches at each until it fails.
LEMMA WalkFacts ==
  ASSUME NEW parts, NEW ancestors, Len(parts) \in Nat, Len(ancestors) \in Nat,
         NEW f, WalksUp(parts, ancestors, f)
  PROVE  /\ \A n \in 0 .. Len(parts) : f[n] \in Nat
         /\ f[0] = Len(ancestors) + 1
         /\ \A n \in 1 .. Len(parts) : LET part == parts[Len(parts) + 1 - n] IN
              /\ f[n] # 0 => f[n] < f[n - 1] /\ MatchesCore(part, ancestors[f[n]])
              /\ \A i \in 1 .. f[n - 1] - 1 : MatchesCore(part, ancestors[i]) => i <= f[n]
<1> DEFINE last == Len(parts)
           S == {n \in 0 .. last : f[n] \in Nat}
           start == 0
<1>1. \A n \in 0 .. last : f[n] = IF n = 0 THEN Len(ancestors) + 1 ELSE Nearest(parts[last + 1 - n], ancestors, f[n - 1])
  BY DEF WalksUp
<1>2. f[0] = Len(ancestors) + 1
  BY <1>1
<1>3. \A n \in 1 .. last : f[n] = Nearest(parts[last + 1 - n], ancestors, f[n - 1])
  BY <1>1
<1>4. start .. last \subseteq S
  <2>1. start \in S /\ start \in Nat /\ last \in Nat
    BY <1>2
  <2>2. ASSUME NEW n \in start .. last - 1, n \in S
        PROVE  n + 1 \in S
    <3> DEFINE m == n + 1
    <3>1. m \in 1 .. last /\ m - 1 = n /\ f[n] \in Nat
      BY <2>2
    <3> HIDE DEF m
    <3>2. f[m] \in Nat
      BY <1>3, <3>1, NearestFacts
    <3> QED
      BY <3>1, <3>2 DEF m
  <2> HIDE DEF S, start
  <2> QED
    BY <2>1, <2>2, CountingUp
<1>5. \A n \in 0 .. last : f[n] \in Nat
  BY <1>4
<1>6. ASSUME NEW n \in 1 .. last
      PROVE  LET part == parts[last + 1 - n] IN
             /\ f[n] # 0 => f[n] < f[n - 1] /\ MatchesCore(part, ancestors[f[n]])
             /\ \A i \in 1 .. f[n - 1] - 1 : MatchesCore(part, ancestors[i]) => i <= f[n]
  BY <1>3, <1>5, NearestFacts
<1> QED
  BY <1>2, <1>5, <1>6

\* Once the walk has failed it goes nowhere, and it never leaves the list.
LEMMA WalkBounds ==
  ASSUME NEW parts, NEW ancestors, Len(parts) \in Nat, Len(ancestors) \in Nat,
         NEW f, WalksUp(parts, ancestors, f)
  PROVE  \A n \in 0 .. Len(parts) : f[n] <= Len(ancestors) + 1 /\ (f[Len(parts)] # 0 => f[n] # 0)
<1> DEFINE last == Len(parts)
           S == {n \in 0 .. last : f[n] <= Len(ancestors) + 1}
           T == {n \in 0 .. last : f[last - n] # 0}
           start == 0
<1>1. /\ \A n \in 0 .. last : f[n] \in Nat
      /\ f[0] = Len(ancestors) + 1
      /\ \A n \in 1 .. last : f[n] # 0 => f[n] < f[n - 1]
  BY WalkFacts
<1>2. start \in Nat /\ last \in Nat
  OBVIOUS
<1>3. start .. last \subseteq S
  <2>1. start \in S
    BY <1>1
  <2>2. ASSUME NEW n \in start .. last - 1, n \in S
        PROVE  n + 1 \in S
    <3> DEFINE m == n + 1
    <3>1. m \in 1 .. last /\ m - 1 = n /\ f[n] \in Nat /\ f[n] <= Len(ancestors) + 1
      BY <1>1, <2>2
    <3> HIDE DEF m
    <3>2. f[m] \in Nat /\ (f[m] # 0 => f[m] < f[n])
      BY <1>1, <3>1
    <3>3. f[m] <= Len(ancestors) + 1
      BY <3>1, <3>2
    <3> QED
      BY <3>1, <3>3 DEF m
  <2> HIDE DEF S, start, last
  <2> QED
    BY <1>2, <2>1, <2>2, CountingUp
<1>4. ASSUME f[last] # 0
      PROVE  start .. last \subseteq T
  <2>1. start \in T
    BY <1>4
  <2>2. ASSUME NEW n \in start .. last - 1, n \in T
        PROVE  n + 1 \in T
    <3> DEFINE m == last - n
    <3>1. m \in 1 .. last /\ m - 1 = last - (n + 1) /\ m - 1 \in 0 .. last /\ f[m] # 0
      BY <2>2
    <3> HIDE DEF m
    <3>2. f[m] \in Nat /\ f[m - 1] \in Nat /\ f[m] < f[m - 1]
      BY <1>1, <3>1
    <3>3. f[m - 1] # 0
      BY <3>2
    <3> QED
      BY <2>2, <3>1, <3>3
  <2> HIDE DEF T, start, last
  <2> QED
    BY <1>2, <2>1, <2>2, CountingUp
<1>5. ASSUME NEW n \in 0 .. last, f[last] # 0
      PROVE  f[n] # 0
  <2> DEFINE back == last - n
  <2>1. back \in start .. last /\ last - back = n
    OBVIOUS
  <2> HIDE DEF back
  <2>2. back \in T
    <3> HIDE DEF T
    <3> QED
      BY <1>4, <1>5, <2>1
  <2> QED
    BY <2>1, <2>2
<1> QED
  BY <1>3, <1>5

\* The walk over the ancestors finds what a selector describes, and nothing
\* else.
LEMMA MatchesMeans ==
  ASSUME NEW parts, IsList(parts), parts # <<>>, NEW e, IsList(e.ancestors)
  PROVE  Matches(parts, e) <=> Describes(parts, e)
<1> DEFINE n == Len(parts)
           ancestors == e.ancestors
           length == Len(ancestors)
           front == Front(parts)
           f == CHOOSE g : WalksUp(front, ancestors, g)
<1>1. n \in Nat /\ n > 0 /\ length \in Nat
  BY ListFacts
<1>2. IsList(front) /\ Len(front) = n - 1 /\ \A i \in 1 .. n - 1 : front[i] = parts[i]
  <2>1. 1 \in 1 .. n + 1 /\ n - 1 \in 1 - 1 .. n
    BY <1>1
  <2>2. /\ IsList(SubSeq(parts, 1, n - 1)) /\ Len(SubSeq(parts, 1, n - 1)) = (n - 1) - 1 + 1
        /\ \A i \in 1 .. (n - 1) - 1 + 1 : SubSeq(parts, 1, n - 1)[i] = parts[1 + i - 1]
    BY <2>1, SubList
  <2>3. (n - 1) - 1 + 1 = n - 1 /\ \A i \in 1 .. n - 1 : 1 + i - 1 = i
    BY <1>1
  <2> QED
    BY <2>2, <2>3 DEF Front
<1> HIDE DEF front, n, length
<1>3. Len(front) \in Nat /\ Len(ancestors) \in Nat
  BY <1>1, <1>2 DEF length
<1>4. WalksUp(front, ancestors, f)
  BY <1>3, WalkExists
<1> HIDE DEF f
<1>5. Matches(parts, e) <=> MatchesCore(parts[n], e) /\ f[n - 1] # 0
  BY <1>2 DEF MatchesAncestors, f, WalksUp, Matches, Last, front, n
<1>6. /\ \A k \in 0 .. n - 1 : f[k] \in Nat /\ f[k] <= length + 1 /\ (f[n - 1] # 0 => f[k] # 0)
      /\ f[0] = length + 1
  BY <1>2, <1>3, <1>4, WalkFacts, WalkBounds DEF length
<1>7. \A k \in 1 .. n - 1 :
        /\ f[k] # 0 => f[k] < f[k - 1] /\ MatchesCore(parts[n - k], ancestors[f[k]])
        /\ \A i \in 1 .. f[k - 1] - 1 : MatchesCore(parts[n - k], ancestors[i]) => i <= f[k]
  <2> SUFFICES ASSUME NEW k \in 1 .. n - 1
               PROVE  /\ f[k] # 0 => f[k] < f[k - 1] /\ MatchesCore(parts[n - k], ancestors[f[k]])
                      /\ \A i \in 1 .. f[k - 1] - 1 : MatchesCore(parts[n - k], ancestors[i]) => i <= f[k]
    OBVIOUS
  <2>1. Len(front) + 1 - k = n - k /\ n - k \in 1 .. n - 1
    BY <1>1, <1>2
  <2>2. front[Len(front) + 1 - k] = parts[n - k]
    BY <1>2, <2>1
  <2>3. k \in 1 .. Len(front)
    BY <1>2
  <2> QED
    BY <1>3, <1>4, <2>2, <2>3, WalkFacts
<1> DEFINE Core(k, place) == MatchesCore(parts[k], IF place > length THEN e ELSE ancestors[place])
           Fits(at) == /\ at[n] = length + 1
                       /\ \A k \in 1 .. (n - 1) : at[k] < at[k + 1]
                       /\ \A k \in 1 .. n : Core(k, at[k])
<1>8. Describes(parts, e) <=> \E at \in [1 .. n -> 1 .. (length + 1)] : Fits(at)
  BY DEF Describes, n, length
<1>9. ASSUME MatchesCore(parts[n], e), f[n - 1] # 0
      PROVE  \E at \in [1 .. n -> 1 .. (length + 1)] : Fits(at)
  <2> DEFINE at == [k \in 1 .. n |-> f[n - k]]
  <2>1. \A k \in 1 .. n : at[k] = f[n - k] /\ n - k \in 0 .. n - 1
    BY <1>1
  <2>2. at \in [1 .. n -> 1 .. (length + 1)]
    BY <1>1, <1>6, <1>9, <2>1
  <2> HIDE DEF at
  <2>3. at[n] = length + 1
    BY <1>1, <1>6, <2>1
  <2>4. ASSUME NEW k \in 1 .. (n - 1)
        PROVE  at[k] < at[k + 1] /\ Core(k, at[k])
    <3> DEFINE m == n - k
    <3>1. m \in 1 .. n - 1 /\ m - 1 = n - (k + 1) /\ n - m = k /\ m \in 0 .. n - 1 /\ m - 1 \in 0 .. n - 1
      BY <1>1
    <3>2. at[k] = f[m] /\ at[k + 1] = f[m - 1]
      BY <1>1, <2>1, <3>1
    <3> HIDE DEF m
    <3>3. f[m] < f[m - 1] /\ MatchesCore(parts[k], ancestors[f[m]])
      BY <1>6, <1>7, <1>9, <3>1
    <3>4. f[m] \in Nat /\ f[m - 1] \in Nat /\ f[m - 1] <= length + 1
      BY <1>6, <3>1
    <3>5. ~(f[m] > length)
      BY <1>1, <3>3, <3>4
    <3> QED
      BY <3>2, <3>3, <3>5
  <2>5. Core(n, at[n])
    BY <1>1, <1>9, <2>3
  <2>6. \A k \in 1 .. n : k = n \/ k \in 1 .. (n - 1)
    BY <1>1
  <2>7. Fits(at)
    <3> HIDE DEF Core
    <3> QED
      BY <2>3, <2>4, <2>5, <2>6
  <2> QED
    BY <2>2, <2>7
<1>10. ASSUME NEW at \in [1 .. n -> 1 .. (length + 1)], Fits(at)
       PROVE  MatchesCore(parts[n], e) /\ f[n - 1] # 0
  <2> DEFINE S == {j \in 0 .. n - 1 : at[n - j] <= f[j]}
             start == 0
             last == n - 1
  <2>1. MatchesCore(parts[n], e)
    BY <1>1, <1>10
  <2>2. start \in S
    BY <1>1, <1>6, <1>10
  <2>3. ASSUME NEW j \in start .. last - 1, j \in S
        PROVE  j + 1 \in S
    <3> DEFINE m == j + 1
               k == n - m
    <3>1. /\ m \in 1 .. n - 1 /\ m - 1 = j /\ j \in 0 .. n - 1 /\ m \in 0 .. n - 1
          /\ k \in 1 .. (n - 1) /\ k + 1 = n - j /\ k \in 1 .. n /\ k + 1 \in 1 .. n
      BY <1>1, <2>3
    <3> HIDE DEF m, k
    <3>2. at[k + 1] <= f[j]
      BY <2>3, <3>1
    <3>3. at[k] < at[k + 1] /\ Core(k, at[k])
      BY <1>10, <3>1
    <3>4. at[k] \in 1 .. (length + 1) /\ at[k + 1] \in 1 .. (length + 1) /\ f[j] \in Nat
      BY <1>6, <1>10, <3>1
    <3> DEFINE place == at[k]
               next == at[k + 1]
    <3>5. place \in Int /\ next \in Int /\ place < next /\ next <= length + 1 /\ next <= f[j] /\ 1 <= place
      BY <3>2, <3>3, <3>4
    <3> HIDE DEF place, next
    <3>6. place \in 1 .. f[j] - 1 /\ ~(place > length)
      BY <1>1, <3>4, <3>5
    <3>7. MatchesCore(parts[k], ancestors[place])
      BY <3>3, <3>6 DEF place
    <3>8. place <= f[m]
      BY <1>7, <3>1, <3>6, <3>7 DEF k
    <3> QED
      BY <3>1, <3>8 DEF place, k, m
  <2>4. start \in Nat /\ last \in Nat
    BY <1>1
  <2>5. start .. last \subseteq S
    <3> HIDE DEF S, start, last
    <3> QED
      BY <2>2, <2>3, <2>4, CountingUp
  <2>6. n - 1 \in S /\ n - (n - 1) = 1 /\ n - 1 \in 0 .. n - 1 /\ 1 \in 1 .. n
    BY <1>1, <2>5
  <2>7. at[1] <= f[n - 1] /\ f[n - 1] \in Nat /\ at[1] \in 1 .. (length + 1)
    BY <1>6, <1>10, <2>6
  <2> QED
    BY <2>1, <2>7
<1> QED
  BY <1>5, <1>8, <1>9, <1>10

-----------------------------------------------------------------------------
(* What a declaration sets                                                 *)

\* Only slots of four sides are set by what they hold.
SetAlike(one, other) ==
  \/ one = other
  \/ \E slot \in EdgeSlots : \E v, w : one = << <<slot, v>> >> /\ other = << <<slot, w>> >>

LEMMA BoxSetsAlike ==
  ASSUME NEW d, NEW held, NEW others
  PROVE  SetAlike(BoxSets(d, held), BoxSets(d, others))
<1> DEFINE OfSide == \E s \in EdgeSlots : IsSideOf(d.property, s)
           slot == CHOOSE x \in EdgeSlots : IsSideOf(d.property, x)
           px == ParsePx(d.value)
           Side(h) == IF px = <<>> THEN <<>> ELSE << <<slot, SetSide(h[slot], d.property, slot, px[1])>> >>
<1>1. ASSUME OfSide
      PROVE  SetAlike(Side(held), Side(others))
  <2>1. slot \in EdgeSlots
    BY <1>1
  <2> HIDE DEF slot, px
  <2> QED
    BY <2>1 DEF SetAlike
<1>2. \/ BoxSets(d, held) = BoxSets(d, others)
      \/ OfSide /\ BoxSets(d, held) = Side(held) /\ BoxSets(d, others) = Side(others)
  <2> HIDE DEF OfSide, Side
  <2> QED
    BY DEF BoxSets, OfSide, Side
<1> QED
  BY <1>1, <1>2 DEF SetAlike

LEMMA SetsAlike ==
  ASSUME NEW d, NEW style, NEW other
  PROVE  SetAlike(DeclarationSets(style, d), DeclarationSets(other, d))
<1> DEFINE held == [s \in EdgeSlots |-> style[s].value]
           others == [s \in EdgeSlots |-> other[s].value]
<1>1. \/ DeclarationSets(style, d) = DeclarationSets(other, d)
      \/ DeclarationSets(style, d) = BoxSets(d, held) /\ DeclarationSets(other, d) = BoxSets(d, others)
  BY DEF DeclarationSets
<1> HIDE DEF held, others
<1> QED
  BY <1>1, BoxSetsAlike DEF SetAlike

Entry(value, priority) == [value |-> value, priority |-> priority]

\* What a slot holds after a declaration that sets value, if any.
SlotAfter(held, value, priority) ==
  IF value = <<>> THEN held
  ELSE IF held.priority = <<>> \/ AtLeast(priority, held.priority) THEN Entry(value, priority) ELSE held

\* A slot not of four sides is set to the same whatever the slots hold.
LEMMA DeclarationFacts ==
  ASSUME NEW d, NEW style, NEW slot \in Slots \ EdgeSlots, NEW priority
  PROVE  ApplyDeclaration(style, d, priority)[slot] = SlotAfter(style[slot], SetsAlone(d, slot), priority)
<1> DEFINE sets == DeclarationSets(style, d)
           alone == DeclarationSets(NoStyle, d)
           given == Given(sets, slot)
           set == sets[CHOOSE i \in Given(sets, slot) : TRUE][2]
           setAlone == alone[CHOOSE i \in Given(alone, slot) : TRUE][2]
<1>1. ApplyDeclaration(style, d, priority)[slot] = IF given = {} THEN style[slot] ELSE SetIfWins(style[slot], set, priority)
  BY DEF ApplyDeclaration
<1>2. SetsAlone(d, slot) = (IF Given(alone, slot) = {} THEN NoStyle[slot] ELSE SetIfWins(NoStyle[slot], setAlone, <<0>>)).value
  BY DEF SetsAlone, ApplyDeclaration
<1>3. NoStyle[slot] = EmptySlot
  BY DEF NoStyle
<1>4. SetAlike(sets, alone)
  BY SetsAlike
<1>5. Given(sets, slot) = Given(alone, slot) /\ (given # {} => set = setAlone)
  <2>1. CASE sets = alone
    BY <2>1
  <2>2. ASSUME NEW edge \in EdgeSlots, NEW v, NEW w, sets = << <<edge, v>> >>, alone = << <<edge, w>> >>
        PROVE  Given(sets, slot) = {} /\ Given(alone, slot) = {}
    BY <2>2 DEF Given
  <2> HIDE DEF sets, alone, set, setAlone
  <2> QED
    BY <1>4, <2>1, <2>2 DEF SetAlike, sets, alone, set, setAlone
<1> HIDE DEF sets, alone, set, setAlone
<1>6. EmptySlot.value = <<>> /\ EmptySlot.priority = <<>>
  BY DEF EmptySlot
<1>7. SetsAlone(d, slot) = IF given = {} THEN <<>> ELSE <<setAlone>>
  BY <1>2, <1>3, <1>5, <1>6 DEF SetIfWins
<1>8. <<setAlone>> # <<>>
  OBVIOUS
<1> HIDE DEF given
<1> QED
  BY <1>1, <1>5, <1>7, <1>8 DEF SetIfWins, SlotAfter, Entry, given

-----------------------------------------------------------------------------
(* The declaration with the last word                                      *)

\* Of entries [priority, value] a slot holds one that is at least the others.
Leads(held, entries) ==
  IF entries = {} THEN held = EmptySlot
  ELSE held \in entries /\ \A other \in entries : AtLeast(held.priority, other.priority)

ArePrioritised(entries) == \A c \in entries : c.priority \in Priorities(5)

LEMMA OneMoreEntry ==
  ASSUME NEW held, NEW entries, ArePrioritised(entries), Leads(held, entries),
         NEW value, NEW priority \in Priorities(5)
  PROVE  /\ Leads(IF held.priority = <<>> \/ AtLeast(priority, held.priority) THEN Entry(value, priority) ELSE held,
                  entries \cup {Entry(value, priority)})
         /\ ArePrioritised(entries \cup {Entry(value, priority)})
<1> DEFINE more == Entry(value, priority)
           all == entries \cup {more}
<1>1. more.priority = priority /\ more.value = value
  BY DEF Entry
<1> HIDE DEF more
<1>2. ArePrioritised(all)
  BY <1>1 DEF ArePrioritised
<1>3. <<>> \notin Priorities(5)
  BY DEF Priorities
<1>4. AtLeast(priority, priority)
  BY DEF AtLeast
<1>5. CASE entries = {}
  BY <1>1, <1>2, <1>4, <1>5 DEF Leads, EmptySlot, more
<1>6. CASE entries # {}
  <2>1. /\ held \in entries /\ held.priority \in Priorities(5)
        /\ \A other \in entries : other.priority \in Priorities(5) /\ AtLeast(held.priority, other.priority)
    BY <1>6 DEF Leads, ArePrioritised
  <2>2. held.priority # <<>>
    BY <1>3, <2>1
  <2> DEFINE n == 5
  <2>3. n \in Nat
    OBVIOUS
  <2> HIDE DEF n
  <2>4. \A p, q, r \in Priorities(n) :
          /\ AtLeast(p, q) \/ AtLeast(q, p)
          /\ AtLeast(p, q) /\ AtLeast(q, r) => AtLeast(p, r)
    BY <2>3, PrioritiesAreOrdered
  <2>5. CASE AtLeast(priority, held.priority)
    BY <1>1, <1>2, <1>4, <2>1, <2>4, <2>5 DEF n, Leads, more
  <2>6. CASE ~AtLeast(priority, held.priority)
    BY <1>1, <1>2, <2>1, <2>2, <2>4, <2>6 DEF n, Leads, more
  <2> QED
    BY <2>5, <2>6
<1> QED
  BY <1>5, <1>6

\* A specificity, the order of the rule and that of the declaration.
LEMMA PriorityParts ==
  ASSUME NEW s \in Priorities(3), NEW i \in Int, NEW k \in Int
  PROVE  LET p == DeclarationPriority(s, i, k) IN
         /\ p \in Priorities(5)
         /\ \A m \in 1 .. 3 : p[m] = s[m]
         /\ p[4] = i /\ p[5] = k
<1> DEFINE n == 3
           t == <<i, k>>
           p == s \o t
<1>1. n \in Nat /\ n = 3 /\ s \in [1 .. n -> Int]
  BY DEF Priorities
<1> HIDE DEF n
<1>2. s \in Seq(Int) /\ Len(s) = n
  BY <1>1
<1>3. t \in Seq(Int) /\ Len(t) = 2 /\ t[1] = i /\ t[2] = k
  OBVIOUS
<1> HIDE DEF t
<1>4. /\ p \in Seq(Int) /\ Len(p) = n + 2
      /\ \A m \in 1 .. n + 2 : p[m] = IF m <= n THEN s[m] ELSE t[m - n]
  <2>1. /\ p \in Seq(Int) /\ Len(p) = Len(s) + Len(t)
        /\ \A m \in 1 .. Len(s) + Len(t) : p[m] = IF m <= Len(s) THEN s[m] ELSE t[m - Len(s)]
    BY <1>2, <1>3, ConcatProperties
  <2> HIDE DEF p
  <2> QED
    BY <1>2, <1>3, <2>1
<1> HIDE DEF p
<1>5. p \in Priorities(n + 2)
  BY <1>4, LenProperties DEF Priorities
<1>6. p[n + 1] = t[1] /\ p[n + 2] = t[2] /\ \A m \in 1 .. n : p[m] = s[m]
  BY <1>1, <1>4
<1>7. n + 1 = 4 /\ n + 2 = 5
  BY <1>1
<1> QED
  BY <1>1, <1>3, <1>5, <1>6, <1>7 DEF t, p, DeclarationPriority

LEMMA PrioritiesFollow ==
  ASSUME NEW s \in Priorities(3), NEW t \in Priorities(3), NEW i \in Int, NEW k \in Int, AtLeast(s, t)
  PROVE  AtLeast(DeclarationPriority(s, i, k), DeclarationPriority(t, i, k))
<1> DEFINE p == DeclarationPriority(s, i, k)
           q == DeclarationPriority(t, i, k)
<1>1. p \in Priorities(5) /\ \A m \in 1 .. 3 : p[m] = s[m] /\ q[m] = t[m]
  BY PriorityParts
<1>2. CASE s = t
  BY <1>2 DEF AtLeast
<1>3. CASE s # t
  <2>1. PICK m \in 1 .. 3 : Exceeds(s, t, m)
    <3> DEFINE n == 3
    <3>1. n \in Nat
      OBVIOUS
    <3> HIDE DEF n
    <3>2. s \in Priorities(n) => \E m \in 1 .. n : Exceeds(s, t, m)
      BY <1>3, <3>1, AtLeastMeans
    <3> QED
      BY <3>2 DEF n
  <2>2. m \in 1 .. 5 /\ \A j \in 1 .. m - 1 : j \in 1 .. 3
    OBVIOUS
  <2> HIDE DEF p, q
  <2>3. Exceeds(p, q, m)
    BY <1>1, <2>1, <2>2 DEF Exceeds
  <2> DEFINE n == 5
  <2>4. n \in Nat
    OBVIOUS
  <2> HIDE DEF n
  <2>5. p \in Priorities(n) /\ m \in 1 .. n => AtLeast(p, q)
    BY <2>3, <2>4, AtLeastMeans
  <2> QED
    BY <1>1, <2>2, <2>5 DEF n, p, q
<1> QED
  BY <1>2, <1>3

-----------------------------------------------------------------------------
(* Rule after rule, declaration after declaration                          *)

DeclarationsRun(style, declarations, specificity, order, n, f) ==
  f = [i \in 0 .. n |-> IF i = 0 THEN style ELSE ApplyDeclaration(f[i - 1], declarations[i], DeclarationPriority(specificity, order, i))]

LEMMA DeclarationsRunExists ==
  ASSUME NEW style, NEW declarations, NEW specificity, NEW order, NEW n \in Nat
  PROVE  \E f : DeclarationsRun(style, declarations, specificity, order, n, f)
<1> DEFINE S == {k \in 0 .. n : \E f : DeclarationsRun(style, declarations, specificity, order, k, f)}
           start == 0
<1>1. start \in S
  <2> DEFINE none == [i \in 0 .. start |-> style]
  <2>1. DeclarationsRun(style, declarations, specificity, order, start, none)
    BY DEF DeclarationsRun
  <2> QED
    BY <2>1
<1>2. ASSUME NEW k \in start .. n - 1, k \in S
      PROVE  k + 1 \in S
  <2>1. PICK f : DeclarationsRun(style, declarations, specificity, order, k, f)
    BY <1>2
  <2> DEFINE last == ApplyDeclaration(f[k], declarations[k + 1], DeclarationPriority(specificity, order, k + 1))
             more == [i \in 0 .. k + 1 |-> IF i = k + 1 THEN last ELSE f[i]]
  <2>2. \A i \in 0 .. k : f[i] = IF i = 0 THEN style ELSE ApplyDeclaration(f[i - 1], declarations[i], DeclarationPriority(specificity, order, i))
    BY <2>1 DEF DeclarationsRun
  <2>3. ASSUME NEW i \in 0 .. k + 1
        PROVE  more[i] = IF i = 0 THEN style ELSE ApplyDeclaration(more[i - 1], declarations[i], DeclarationPriority(specificity, order, i))
    <3>1. CASE i = k + 1
      <4>1. more[i - 1] = f[k] /\ more[i] = last /\ i # 0
        BY <1>2, <3>1
      <4> HIDE DEF more
      <4> QED
        BY <3>1, <4>1
    <3>2. CASE i # k + 1
      <4>1. i \in 0 .. k /\ more[i] = f[i]
        BY <1>2, <3>2
      <4>2. i # 0 => more[i - 1] = f[i - 1]
        BY <1>2, <3>2
      <4> HIDE DEF more
      <4> QED
        BY <2>2, <4>1, <4>2
    <3> QED
      BY <3>1, <3>2
  <2>4. more = [i \in 0 .. k + 1 |-> more[i]]
    BY <1>2
  <2> HIDE DEF more
  <2>5. DeclarationsRun(style, declarations, specificity, order, k + 1, more)
    BY <2>3, <2>4 DEF DeclarationsRun
  <2> QED
    BY <1>2, <2>5
<1>3. start \in Nat /\ n \in start .. n
  OBVIOUS
<1> HIDE DEF S, start
<1>4. start .. n \subseteq S
  BY <1>1, <1>2, <1>3, CountingUp
<1> HIDE DEF S
<1>5. n \in S
  BY <1>3, <1>4
<1> QED
  BY <1>5 DEF S

RulesRun(e, rules, n, f) ==
  f = [i \in 0 .. n |-> IF i = 0 THEN NoStyle ELSE ApplyRule(f[i - 1], e, rules[i], i)]

LEMMA RulesRunExists ==
  ASSUME NEW e, NEW rules, NEW n \in Nat
  PROVE  \E f : RulesRun(e, rules, n, f)
<1> DEFINE S == {k \in 0 .. n : \E f : RulesRun(e, rules, k, f)}
           start == 0
<1>1. start \in S
  <2> DEFINE none == [i \in 0 .. start |-> NoStyle]
  <2>1. RulesRun(e, rules, start, none)
    BY DEF RulesRun
  <2> QED
    BY <2>1
<1>2. ASSUME NEW k \in start .. n - 1, k \in S
      PROVE  k + 1 \in S
  <2>1. PICK f : RulesRun(e, rules, k, f)
    BY <1>2
  <2> DEFINE last == ApplyRule(f[k], e, rules[k + 1], k + 1)
             more == [i \in 0 .. k + 1 |-> IF i = k + 1 THEN last ELSE f[i]]
  <2>2. \A i \in 0 .. k : f[i] = IF i = 0 THEN NoStyle ELSE ApplyRule(f[i - 1], e, rules[i], i)
    BY <2>1 DEF RulesRun
  <2>3. ASSUME NEW i \in 0 .. k + 1
        PROVE  more[i] = IF i = 0 THEN NoStyle ELSE ApplyRule(more[i - 1], e, rules[i], i)
    <3>1. CASE i = k + 1
      <4>1. more[i - 1] = f[k] /\ more[i] = last /\ i # 0
        BY <1>2, <3>1
      <4> HIDE DEF more
      <4> QED
        BY <3>1, <4>1
    <3>2. CASE i # k + 1
      <4>1. i \in 0 .. k /\ more[i] = f[i]
        BY <1>2, <3>2
      <4>2. i # 0 => more[i - 1] = f[i - 1]
        BY <1>2, <3>2
      <4> HIDE DEF more
      <4> QED
        BY <2>2, <4>1, <4>2
    <3> QED
      BY <3>1, <3>2
  <2>4. more = [i \in 0 .. k + 1 |-> more[i]]
    BY <1>2
  <2> HIDE DEF more
  <2>5. RulesRun(e, rules, k + 1, more)
    BY <2>3, <2>4 DEF RulesRun
  <2> QED
    BY <1>2, <2>5
<1>3. start \in Nat /\ n \in start .. n
  OBVIOUS
<1> HIDE DEF S, start
<1>4. start .. n \subseteq S
  BY <1>1, <1>2, <1>3, CountingUp
<1> HIDE DEF S
<1>5. n \in S
  BY <1>3, <1>4
<1> QED
  BY <1>5 DEF S

\* The entries the first n declarations of a rule make for a slot.
EntryOf(declarations, specificity, order, slot, k) ==
  Entry(SetsAlone(declarations[k], slot), DeclarationPriority(specificity, order, k))
EntriesIn(declarations, specificity, order, slot, n) ==
  {EntryOf(declarations, specificity, order, slot, k) : k \in {m \in 1 .. n : SetsAlone(declarations[m], slot) # <<>>}}

\* A rule leaves in a slot what has the last word of what was there and of its
\* own declarations.
LEMMA DeclarationsLead ==
  ASSUME NEW style, NEW declarations, Len(declarations) \in Nat, NEW specificity \in Priorities(3),
         NEW order \in Int, NEW slot \in Slots \ EdgeSlots,
         NEW entries, ArePrioritised(entries), Leads(style[slot], entries)
  PROVE  LET all == entries \cup EntriesIn(declarations, specificity, order, slot, Len(declarations)) IN
         /\ Leads(ApplyDeclarations(style, declarations, specificity, order)[slot], all)
         /\ ArePrioritised(all)
<1> DEFINE n == Len(declarations)
           f == CHOOSE g : DeclarationsRun(style, declarations, specificity, order, n, g)
           Upto(k) == entries \cup EntriesIn(declarations, specificity, order, slot, k)
           Good(k) == Leads(f[k][slot], Upto(k)) /\ ArePrioritised(Upto(k))
           S == {k \in 0 .. n : Good(k)}
           start == 0
<1>1. ApplyDeclarations(style, declarations, specificity, order) = f[n]
  BY DEF ApplyDeclarations, DeclarationsRun
<1>2. DeclarationsRun(style, declarations, specificity, order, n, f)
  BY DeclarationsRunExists
<1> HIDE DEF f
<1>3. \A k \in 0 .. n : f[k] = IF k = 0 THEN style ELSE ApplyDeclaration(f[k - 1], declarations[k], DeclarationPriority(specificity, order, k))
  BY <1>2 DEF DeclarationsRun
<1>4. start \in S
  <2>1. EntriesIn(declarations, specificity, order, slot, start) = {}
    BY DEF EntriesIn
  <2>2. f[start] = style
    BY <1>3
  <2>3. Upto(start) = entries
    BY <2>1
  <2> HIDE DEF Upto
  <2> QED
    BY <2>2, <2>3
<1>5. ASSUME NEW k \in start .. n - 1, k \in S
      PROVE  k + 1 \in S
  <2> DEFINE m == k + 1
             priority == DeclarationPriority(specificity, order, m)
             value == SetsAlone(declarations[m], slot)
             held == f[k][slot]
             sofar == Upto(k)
  <2>1. m \in 1 .. n /\ m \in 0 .. n /\ m - 1 = k /\ m # 0 /\ m \in Int
    OBVIOUS
  <2>2. 1 .. m = (1 .. k) \cup {m}
    OBVIOUS
  <2>3. Leads(held, sofar) /\ ArePrioritised(sofar)
    <3> HIDE DEF Upto
    <3> QED
      BY <1>5
  <2> HIDE DEF m
  <2>4. priority \in Priorities(5)
    BY <2>1, PriorityParts
  <2>5. f[m] = ApplyDeclaration(f[k], declarations[m], priority)
    BY <1>3, <2>1
  <2>6. f[m][slot] = SlotAfter(held, value, priority)
    <3> HIDE DEF priority
    <3>1. \A before, d, p : \A s \in Slots \ EdgeSlots :
            ApplyDeclaration(before, d, p)[s] = SlotAfter(before[s], SetsAlone(d, s), p)
      BY DeclarationFacts
    <3> QED
      BY <2>5, <3>1
  <2>7. Upto(m) = IF value = <<>> THEN sofar ELSE sofar \cup {Entry(value, priority)}
    BY <2>2 DEF EntriesIn, EntryOf
  <2> HIDE DEF Upto, priority, value, held, sofar
  <2>8. CASE value = <<>>
    BY <2>1, <2>3, <2>6, <2>7, <2>8 DEF m, SlotAfter
  <2>9. CASE value # <<>>
    BY <2>1, <2>3, <2>4, <2>6, <2>7, <2>9, OneMoreEntry DEF SlotAfter, m
  <2> QED
    BY <2>8, <2>9
<1>6. start \in Nat
  OBVIOUS
<1> HIDE DEF S, start, n, Upto
<1>7. n \in Nat
  BY DEF n
<1>8. start .. n \subseteq S
  BY <1>4, <1>5, <1>6, <1>7, CountingUp
<1>9. Good(n)
  <2>1. n \in start .. n
    BY <1>7 DEF start
  <2>2. n \in S
    BY <1>8, <2>1
  <2> HIDE DEF Good
  <2> QED
    BY <2>2 DEF S
<1> QED
  BY <1>1, <1>9 DEF n, Upto

-----------------------------------------------------------------------------
(* A style sheet and an element                                            *)

IsRule(rule) ==
  /\ IsList(rule.declarations) /\ IsList(rule.selectors)
  /\ \A j \in DOMAIN rule.selectors : IsSelector(rule.selectors[j])

\* A rule that matches has a selector of the highest specificity.
LEMMA MatchingFacts ==
  ASSUME NEW rule, IsRule(rule), NEW e
  PROVE  LET matching == MatchingSpecificities(rule, e) IN
         /\ matching \in SUBSET Priorities(3)
         /\ matching # {} => /\ MostSpecific(matching) \in matching
                             /\ \A t \in matching : AtLeast(MostSpecific(matching), t)
<1> DEFINE n == Len(rule.selectors)
           start == 1
           places == {j \in start .. n : Matches(ParseSelector(rule.selectors[j]), e)}
           f == [j \in places |-> Specificity(ParseSelector(rule.selectors[j]))]
           matching == MatchingSpecificities(rule, e)
<1>1. n \in Nat /\ DOMAIN rule.selectors = 1 .. n
  BY ListFacts DEF IsRule
<1>2. matching = {f[j] : j \in places}
  BY DEF MatchingSpecificities
<1>3. \A j \in places : f[j] \in Priorities(3)
  BY <1>1, ParseSelectorFacts, SpecificityFacts DEF IsRule
<1>4. places \in SUBSET (start .. n) /\ start \in Int /\ n \in Int
  BY <1>1
<1> HIDE DEF n, start, places
<1>5. IsFiniteSet(places)
  BY <1>4, FS_Interval, FS_Subset
<1>6. matching \in SUBSET Priorities(3) /\ f = [j \in places |-> f[j]]
  BY <1>2, <1>3
<1> HIDE DEF f
<1>7. IsFiniteSet(matching)
  <2> DEFINE image == {f[j] : j \in places}
  <2>1. f \in Surjection(places, image)
    BY <1>6 DEF Surjection
  <2> HIDE DEF image
  <2>2. IsFiniteSet(image)
    BY <1>5, <2>1, FS_Surjection
  <2> QED
    BY <1>2, <2>2 DEF image
<1> HIDE DEF matching
<1>8. matching # {} => \E s \in matching : \A t \in matching : AtLeast(s, t)
  <2> DEFINE m == 3
  <2>1. m \in Nat
    OBVIOUS
  <2> HIDE DEF m
  <2>2. matching \in SUBSET Priorities(m) /\ matching # {} => \E s \in matching : \A t \in matching : AtLeast(s, t)
    BY <1>7, <2>1, HighestExists
  <2> QED
    BY <1>6, <2>2 DEF m
<1>9. matching # {} => /\ MostSpecific(matching) \in matching
                       /\ \A t \in matching : AtLeast(MostSpecific(matching), t)
  BY <1>8 DEF MostSpecific
<1> QED
  BY <1>6, <1>9 DEF matching

AreRules(rules) == IsList(rules) /\ \A i \in DOMAIN rules : IsRule(rules[i])

\* The entries of one rule, and of the first n rules.
RuleEntries(e, rules, slot, i) ==
  IF MatchingSpecificities(rules[i], e) = {} THEN {}
  ELSE EntriesIn(rules[i].declarations, MostSpecific(MatchingSpecificities(rules[i], e)), i, slot, Len(rules[i].declarations))
EntriesUpTo(e, rules, slot, n) == UNION {RuleEntries(e, rules, slot, i) : i \in 1 .. n}

LEMMA RulesLead ==
  ASSUME NEW e, NEW rules, AreRules(rules), NEW slot \in Slots \ EdgeSlots
  PROVE  LET all == EntriesUpTo(e, rules, slot, Len(rules)) IN
         /\ Leads(ComputeNodeStyle(e, rules)[slot], all)
         /\ ArePrioritised(all)
<1> DEFINE n == Len(rules)
           f == CHOOSE g : RulesRun(e, rules, n, g)
           Upto(k) == EntriesUpTo(e, rules, slot, k)
           Good(k) == Leads(f[k][slot], Upto(k)) /\ ArePrioritised(Upto(k))
           S == {k \in 0 .. n : Good(k)}
           start == 0
<1>1. ComputeNodeStyle(e, rules) = f[n]
  BY DEF ComputeNodeStyle, RulesRun
<1>2. n \in Nat /\ DOMAIN rules = 1 .. n
  BY ListFacts DEF AreRules
<1>3. RulesRun(e, rules, n, f)
  BY <1>2, RulesRunExists
<1> HIDE DEF f
<1>4. \A k \in 0 .. n : f[k] = IF k = 0 THEN NoStyle ELSE ApplyRule(f[k - 1], e, rules[k], k)
  BY <1>3 DEF RulesRun
<1>5. start \in S
  <2>1. Upto(start) = {}
    BY DEF EntriesUpTo
  <2>2. start \in 0 .. n
    BY <1>2
  <2>3. f[start][slot] = EmptySlot
    BY <1>4, <2>2 DEF NoStyle
  <2> HIDE DEF Upto
  <2> QED
    BY <2>1, <2>2, <2>3 DEF Leads, ArePrioritised
<1>6. ASSUME NEW k \in start .. n - 1, k \in S
      PROVE  k + 1 \in S
  <2> DEFINE m == k + 1
             rule == rules[m]
             matching == MatchingSpecificities(rule, e)
             best == MostSpecific(matching)
             sofar == Upto(k)
             own == EntriesIn(rule.declarations, best, m, slot, Len(rule.declarations))
  <2>1. m \in 1 .. n /\ m \in 0 .. n /\ m - 1 = k /\ m # 0 /\ m \in Int /\ 1 .. m = (1 .. k) \cup {m}
    BY <1>2
  <2>2. Leads(f[k][slot], sofar) /\ ArePrioritised(sofar)
    <3> HIDE DEF Upto
    <3> QED
      BY <1>6
  <2>3. IsRule(rule)
    BY <1>2, <2>1 DEF AreRules
  <2>4. f[m] = ApplyRule(f[k], e, rule, m)
    BY <1>4, <2>1
  <2>5. Upto(m) = sofar \cup RuleEntries(e, rules, slot, m)
    BY <2>1 DEF EntriesUpTo
  <2>6. RuleEntries(e, rules, slot, m) = IF matching = {} THEN {} ELSE own
    BY DEF RuleEntries
  <2>7. f[m] = IF matching = {} THEN f[k] ELSE ApplyDeclarations(f[k], rule.declarations, best, m)
    BY <2>4 DEF ApplyRule
  <2>8. Len(rule.declarations) \in Nat /\ (matching # {} => best \in Priorities(3))
    BY <2>3, ListFacts, MatchingFacts DEF IsRule
  <2> HIDE DEF Upto, own, best, matching, rule, sofar
  <2>9. CASE matching = {}
    <3>1. Good(m)
      BY <2>2, <2>5, <2>6, <2>7, <2>9
    <3> HIDE DEF Good
    <3> QED
      BY <2>1, <3>1
  <2>10. CASE matching # {}
    <3>1. /\ Leads(ApplyDeclarations(f[k], rule.declarations, best, m)[slot], sofar \cup own)
          /\ ArePrioritised(sofar \cup own)
      <4> HIDE DEF m
      <4> QED
        BY <2>1, <2>2, <2>8, <2>10, DeclarationsLead DEF own
    <3>2. Good(m)
      BY <2>5, <2>6, <2>7, <2>10, <3>1
    <3> HIDE DEF Good
    <3> QED
      BY <2>1, <3>2
  <2> QED
    BY <2>9, <2>10
<1>7. start \in Nat
  OBVIOUS
<1> HIDE DEF S, start, n, Upto
<1>8. start .. n \subseteq S
  BY <1>2, <1>5, <1>6, <1>7, CountingUp
<1>9. Good(n)
  <2>1. n \in S
    BY <1>2, <1>8 DEF start
  <2> HIDE DEF Good
  <2> QED
    BY <2>1 DEF S
<1> QED
  BY <1>1, <1>9 DEF n, Upto

\* A selector's match and the description it is of are the same.
LEMMA MatchingIsDescribing ==
  ASSUME NEW rule, IsRule(rule), NEW j \in DOMAIN rule.selectors, NEW e, IsList(e.ancestors)
  PROVE  LET parts == ParseSelector(rule.selectors[j]) IN
         /\ Matches(parts, e) <=> parts # <<>> /\ Describes(parts, e)
         /\ Specificity(parts) \in Priorities(3)
<1> DEFINE parts == ParseSelector(rule.selectors[j])
<1>1. IsSelector(parts)
  BY ParseSelectorFacts DEF IsRule
<1> HIDE DEF parts
<1>2. Specificity(parts) \in Priorities(3)
  BY <1>1, SpecificityFacts
<1>3. parts # <<>> => (Matches(parts, e) <=> Describes(parts, e))
  BY <1>1, MatchesMeans DEF IsSelector
<1>4. Matches(parts, e) => parts # <<>>
  BY DEF Matches
<1> QED
  BY <1>2, <1>3, <1>4 DEF parts

DeclaredEntry(rules, slot, i, j, k) ==
  Entry(SetsAlone(rules[i].declarations[k], slot),
        DeclarationPriority(Specificity(ParseSelector(rules[i].selectors[j])), i, k))

\* What is declared, one declaration at a time.
LEMMA DeclaredMeans ==
  ASSUME NEW e, NEW rules, AreRules(rules), NEW slot, NEW c
  PROVE  c \in Declared(e, rules, slot) <=>
           \E i \in 1 .. Len(rules) : \E j \in 1 .. Len(rules[i].selectors), k \in 1 .. Len(rules[i].declarations) :
             AppliesAt(e, rules, slot, i, j, k) /\ c = DeclaredEntry(rules, slot, i, j, k)
<1> DEFINE At(p) == AppliesAt(e, rules, slot, p[1], p[2], p[3])
           The(p) == DeclaredEntry(rules, slot, p[1], p[2], p[3])
<1>1. Declared(e, rules, slot) = {The(at) : at \in {p \in Places(rules) : At(p)}}
  BY DEF Declared, DeclaredEntry, Entry
<1>2. /\ DOMAIN rules = 1 .. Len(rules)
      /\ \A i \in 1 .. Len(rules) : /\ DOMAIN rules[i].selectors = 1 .. Len(rules[i].selectors)
                                    /\ DOMAIN rules[i].declarations = 1 .. Len(rules[i].declarations)
  BY ListFacts DEF AreRules, IsRule
<1>3. \A i, j, k : <<i, j, k>> \in Places(rules) <=>
        i \in 1 .. Len(rules) /\ j \in 1 .. Len(rules[i].selectors) /\ k \in 1 .. Len(rules[i].declarations)
  BY <1>2 DEF Places
<1>4. \A p \in Places(rules) : p = <<p[1], p[2], p[3]>>
  BY DEF Places
<1>5. ASSUME NEW p \in Places(rules), At(p), c = The(p)
      PROVE  \E i \in 1 .. Len(rules) : \E j \in 1 .. Len(rules[i].selectors), k \in 1 .. Len(rules[i].declarations) :
               AppliesAt(e, rules, slot, i, j, k) /\ c = DeclaredEntry(rules, slot, i, j, k)
  BY <1>3, <1>4, <1>5
<1>6. ASSUME NEW i \in 1 .. Len(rules), NEW j \in 1 .. Len(rules[i].selectors), NEW k \in 1 .. Len(rules[i].declarations),
             AppliesAt(e, rules, slot, i, j, k), c = DeclaredEntry(rules, slot, i, j, k)
      PROVE  \E p \in Places(rules) : At(p) /\ c = The(p)
  <2> DEFINE p == <<i, j, k>>
  <2>1. p \in Places(rules)
    BY <1>3
  <2>2. At(p) /\ The(p) = DeclaredEntry(rules, slot, i, j, k)
    BY <1>6
  <2> QED
    BY <1>6, <2>1, <2>2
<1> HIDE DEF At, The
<1> QED
  BY <1>1, <1>5, <1>6

\* The entries are declared, and every declaration has an entry at least it.
LEMMA EntriesAreDeclared ==
  ASSUME NEW e, IsList(e.ancestors), NEW rules, AreRules(rules), NEW slot
  PROVE  LET entries == EntriesUpTo(e, rules, slot, Len(rules))
             declared == Declared(e, rules, slot)
         IN /\ entries \in SUBSET declared
            /\ \A c \in declared : /\ c.priority \in Priorities(5)
                                   /\ \E best \in entries : AtLeast(best.priority, c.priority)
            /\ \A c, o \in declared : c.priority = o.priority => c.value = o.value
<1> DEFINE entries == EntriesUpTo(e, rules, slot, Len(rules))
           declared == Declared(e, rules, slot)
           Matching(i) == MatchingSpecificities(rules[i], e)
           Best(i) == MostSpecific(Matching(i))
           Spec(i, j) == Specificity(ParseSelector(rules[i].selectors[j]))
           Alone(i, k) == SetsAlone(rules[i].declarations[k], slot)
           Applies(i, j, k) == AppliesAt(e, rules, slot, i, j, k)
           Here(i, k) == Entry(Alone(i, k), DeclarationPriority(Best(i), i, k))
<1>1. \A i \in 1 .. Len(rules) :
        /\ IsRule(rules[i]) /\ DOMAIN rules[i].selectors = 1 .. Len(rules[i].selectors)
        /\ DOMAIN rules[i].declarations = 1 .. Len(rules[i].declarations)
        /\ Len(rules[i].declarations) \in Nat
  BY ListFacts DEF AreRules, IsRule
<1>2. ASSUME NEW i \in 1 .. Len(rules)
      PROVE  /\ \A s : s \in Matching(i) <=> \E j \in 1 .. Len(rules[i].selectors) :
                                               s = Spec(i, j) /\ Matches(ParseSelector(rules[i].selectors[j]), e)
             /\ Matching(i) # {} => Best(i) \in Matching(i) /\ \A t \in Matching(i) : AtLeast(Best(i), t)
             /\ Matching(i) \in SUBSET Priorities(3)
  BY <1>1, MatchingFacts DEF MatchingSpecificities
<1>3. ASSUME NEW i \in 1 .. Len(rules), NEW j \in 1 .. Len(rules[i].selectors), NEW k
      PROVE  /\ Applies(i, j, k) <=> Matches(ParseSelector(rules[i].selectors[j]), e) /\ Alone(i, k) # <<>>
             /\ Spec(i, j) \in Priorities(3)
  BY <1>1, MatchingIsDescribing DEF AppliesAt
<1>4. \A c : c \in entries <=> \E i \in 1 .. Len(rules), k \in Nat :
                k \in 1 .. Len(rules[i].declarations) /\ Matching(i) # {} /\ Alone(i, k) # <<>> /\ c = Here(i, k)
  <2>1. \A i \in 1 .. Len(rules) : RuleEntries(e, rules, slot, i) =
          IF Matching(i) = {} THEN {}
          ELSE {Here(i, k) : k \in {m \in 1 .. Len(rules[i].declarations) : Alone(i, m) # <<>>}}
    BY DEF RuleEntries, EntriesIn, EntryOf
  <2>2. \A c : c \in entries <=> \E i \in 1 .. Len(rules) : c \in RuleEntries(e, rules, slot, i)
    BY DEF EntriesUpTo
  <2> HIDE DEF Here, Alone, Matching, entries
  <2>3. ASSUME NEW i \in 1 .. Len(rules), NEW c
        PROVE  c \in RuleEntries(e, rules, slot, i) <=> \E k \in Nat :
                 k \in 1 .. Len(rules[i].declarations) /\ Matching(i) # {} /\ Alone(i, k) # <<>> /\ c = Here(i, k)
    BY <1>1, <2>1
  <2> QED
    BY <2>2, <2>3
<1>5. ASSUME NEW c
      PROVE  c \in declared <=> \E i \in 1 .. Len(rules), j \in Nat, k \in Nat :
               /\ j \in 1 .. Len(rules[i].selectors) /\ k \in 1 .. Len(rules[i].declarations)
               /\ Applies(i, j, k) /\ c = Entry(Alone(i, k), DeclarationPriority(Spec(i, j), i, k))
  <2>1. c \in declared <=>
           \E i \in 1 .. Len(rules) : \E j \in 1 .. Len(rules[i].selectors), k \in 1 .. Len(rules[i].declarations) :
             AppliesAt(e, rules, slot, i, j, k) /\ c = DeclaredEntry(rules, slot, i, j, k)
    BY DeclaredMeans
  <2> HIDE DEF declared
  <2>2. \A i, j, k : DeclaredEntry(rules, slot, i, j, k) = Entry(Alone(i, k), DeclarationPriority(Spec(i, j), i, k))
    BY DEF DeclaredEntry
  <2> HIDE DEF Spec, Alone
  <2> QED
    BY <2>1, <2>2
<1>6. \A v, p : Entry(v, p).value = v /\ Entry(v, p).priority = p
  BY DEF Entry
<1> HIDE DEF entries, declared, Matching, Best, Spec, Alone, Applies
<1>7. ASSUME NEW c \in entries
      PROVE  c \in declared
  <2>1. PICK i \in 1 .. Len(rules), k \in Nat :
          k \in 1 .. Len(rules[i].declarations) /\ Matching(i) # {} /\ Alone(i, k) # <<>> /\ c = Here(i, k)
    BY <1>4
  <2>2. PICK j \in 1 .. Len(rules[i].selectors) : Best(i) = Spec(i, j) /\ Matches(ParseSelector(rules[i].selectors[j]), e)
    BY <1>2, <2>1
  <2>3. Applies(i, j, k) /\ j \in Nat
    BY <1>3, <2>1, <2>2
  <2> QED
    BY <1>5, <2>1, <2>2, <2>3
<1>8. ASSUME NEW c \in declared
      PROVE  /\ c.priority \in Priorities(5)
             /\ \E best \in entries : AtLeast(best.priority, c.priority)
  <2>1. PICK i \in 1 .. Len(rules), j \in Nat, k \in Nat :
               /\ j \in 1 .. Len(rules[i].selectors) /\ k \in 1 .. Len(rules[i].declarations)
               /\ Applies(i, j, k) /\ c = Entry(Alone(i, k), DeclarationPriority(Spec(i, j), i, k))
    BY <1>5
  <2>2. Matches(ParseSelector(rules[i].selectors[j]), e) /\ Alone(i, k) # <<>> /\ Spec(i, j) \in Priorities(3)
    BY <1>3, <2>1
  <2>3. Spec(i, j) \in Matching(i)
    BY <1>2, <2>1, <2>2
  <2>4. AtLeast(Best(i), Spec(i, j)) /\ Best(i) \in Priorities(3) /\ Matching(i) # {}
    BY <1>2, <2>3
  <2>5. Here(i, k) \in entries
    BY <1>4, <2>1, <2>2, <2>4
  <2> DEFINE best == Best(i)
             spec == Spec(i, j)
  <2> HIDE DEF best, spec
  <2>6. best \in Priorities(3) /\ spec \in Priorities(3) /\ AtLeast(best, spec) /\ i \in Int /\ k \in Int
    BY <2>1, <2>2, <2>4 DEF best, spec
  <2>7. AtLeast(DeclarationPriority(best, i, k), DeclarationPriority(spec, i, k)) /\ DeclarationPriority(spec, i, k) \in Priorities(5)
    BY <2>6, PrioritiesFollow, PriorityParts
  <2>8. c.priority = DeclarationPriority(spec, i, k) /\ Here(i, k).priority = DeclarationPriority(best, i, k)
    BY <1>6, <2>1 DEF best, spec
  <2> QED
    BY <2>5, <2>7, <2>8
<1>9. ASSUME NEW c \in declared, NEW o \in declared, c.priority = o.priority
      PROVE  c.value = o.value
  <2>1. PICK i \in 1 .. Len(rules), j \in Nat, k \in Nat :
               /\ j \in 1 .. Len(rules[i].selectors) /\ k \in 1 .. Len(rules[i].declarations)
               /\ Applies(i, j, k) /\ c = Entry(Alone(i, k), DeclarationPriority(Spec(i, j), i, k))
    BY <1>5
  <2>2. PICK x \in 1 .. Len(rules), y \in Nat, z \in Nat :
               /\ y \in 1 .. Len(rules[x].selectors) /\ z \in 1 .. Len(rules[x].declarations)
               /\ Applies(x, y, z) /\ o = Entry(Alone(x, z), DeclarationPriority(Spec(x, y), x, z))
    BY <1>5
  <2>3. Spec(i, j) \in Priorities(3) /\ Spec(x, y) \in Priorities(3)
    BY <1>3, <2>1, <2>2
  <2>4. /\ c.priority[4] = i /\ c.priority[5] = k
        /\ o.priority[4] = x /\ o.priority[5] = z
    BY <1>6, <2>1, <2>2, <2>3, PriorityParts
  <2>5. i = x /\ k = z
    BY <1>9, <2>4
  <2> QED
    BY <1>6, <2>1, <2>2, <2>5
<1> QED
  BY <1>7, <1>8, <1>9 DEF entries, declared

\* The slots of a computed style hold what CSS gives the last word.
LEMMA CascadeIsFollowed ==
  ASSUME NEW e, IsList(e.ancestors), NEW rules, AreRules(rules), NEW slot \in Slots \ EdgeSlots
  PROVE  LET declared == Declared(e, rules, slot)
         IN ComputeNodeStyle(e, rules)[slot].value =
              IF declared = {} THEN <<>>
              ELSE (CHOOSE d \in declared : \A o \in declared : AtLeast(d.priority, o.priority)).value
<1> DEFINE declared == Declared(e, rules, slot)
           entries == EntriesUpTo(e, rules, slot, Len(rules))
           held == ComputeNodeStyle(e, rules)[slot]
           last == CHOOSE d \in declared : \A o \in declared : AtLeast(d.priority, o.priority)
<1>1. Leads(held, entries) /\ ArePrioritised(entries)
  BY RulesLead
<1>2. /\ entries \in SUBSET declared
      /\ \A c \in declared : c.priority \in Priorities(5) /\ \E best \in entries : AtLeast(best.priority, c.priority)
      /\ \A c, o \in declared : c.priority = o.priority => c.value = o.value
  BY EntriesAreDeclared
<1> HIDE DEF declared, entries, held
<1>3. CASE declared = {}
  BY <1>1, <1>2, <1>3 DEF Leads, EmptySlot, declared, held
<1>4. CASE declared # {}
  <2> DEFINE n == 5
  <2>1. n \in Nat
    OBVIOUS
  <2> HIDE DEF n
  <2>2. \A p, q, r \in Priorities(n) : /\ AtLeast(p, q) /\ AtLeast(q, p) => p = q
                                       /\ AtLeast(p, q) /\ AtLeast(q, r) => AtLeast(p, r)
    BY <2>1, PrioritiesAreOrdered
  <2>3. held \in entries /\ \A o \in entries : AtLeast(held.priority, o.priority)
    BY <1>1, <1>2, <1>4 DEF Leads
  <2>4. held \in declared
    BY <1>2, <2>3
  <2>5. \A o \in declared : AtLeast(held.priority, o.priority)
    <3> SUFFICES ASSUME NEW o \in declared
                 PROVE  AtLeast(held.priority, o.priority)
      OBVIOUS
    <3>1. PICK best \in entries : AtLeast(best.priority, o.priority)
      BY <1>2
    <3>2. AtLeast(held.priority, best.priority) /\ best \in declared
      BY <1>2, <2>3, <3>1
    <3>3. held.priority \in Priorities(n) /\ best.priority \in Priorities(n) /\ o.priority \in Priorities(n)
      BY <1>2, <2>4, <3>2 DEF n
    <3> QED
      BY <2>2, <3>1, <3>2, <3>3
  <2>6. last \in declared /\ \A o \in declared : AtLeast(last.priority, o.priority)
    BY <2>4, <2>5
  <2> HIDE DEF last
  <2>7. last.priority = held.priority
    BY <1>2, <2>2, <2>4, <2>5, <2>6 DEF n
  <2>8. last.value = held.value
    BY <1>2, <2>4, <2>6, <2>7
  <2> QED
    BY <1>4, <2>8 DEF declared, held, last
<1> QED
  BY <1>3, <1>4

-----------------------------------------------------------------------------
(* What was styled was styled from the rules of the page                   *)

StyledBy(e, rules) == [element |-> <<e>>, rules |-> rules, style |-> ComputeNodeStyle(e, rules)]

StyledInv ==
  \/ styled.element = <<>>
  \/ \E e \in StyledElements, rules \in RuleLists : styled = StyledBy(e, rules)

\* What compute_styled_document leaves is the style of one of the elements by
\* one of the rule lists; scripts that restyle the page do not touch it.
THEOREM StyledInvariance == StyleSpec => []StyledInv
<1>1. StyleInit => StyledInv
  BY DEF StyleInit, StyledInv
<1>2. StyledInv /\ [DocumentStyled \/ PageRestyled]_styleVars => StyledInv'
  <2> SUFFICES ASSUME StyledInv, [DocumentStyled \/ PageRestyled]_styleVars
               PROVE  StyledInv'
    OBVIOUS
  <2>1. CASE DocumentStyled
    BY <2>1 DEF DocumentStyled, StyledInv, StyledBy
  <2>2. CASE PageRestyled
    BY <2>2 DEF PageRestyled, ScriptStyled, HostStyled, StyledInv
  <2>3. CASE UNCHANGED styleVars
    BY <2>3 DEF StyledInv, styleVars
  <2> QED
    BY <2>1, <2>2, <2>3
<1> QED
  BY <1>1, <1>2, PTL DEF StyleSpec

\* The page's lists are lists, and the selectors of its rules selectors.
LEMMA PagesAreListed ==
  /\ \A rules \in RuleLists : AreRules(rules)
  /\ \A e \in StyledElements : IsList(e.ancestors)
<1>1. \A list : IsVec(list) => IsList(list)
  BY DEF IsVec, IsList
<1> HIDE DEF IsVec
<1>2. \A e \in StyledElements : IsList(e.ancestors)
  BY <1>1, StyleAssumption DEF StyleAssumption
<1>3. ASSUME NEW rules \in RuleLists
      PROVE  AreRules(rules)
  <2>1. IsList(rules)
    BY <1>1, StyleAssumption DEF StyleAssumption
  <2>2. ASSUME NEW i \in DOMAIN rules
        PROVE  IsRule(rules[i])
    BY <1>1, StyleAssumption DEF StyleAssumption, IsSelector, IsRule
  <2> QED
    BY <2>1, <2>2 DEF AreRules
<1> QED
  BY <1>2, <1>3

\* A node's colour, size, background, border and display are those of the
\* declaration of the most specific, then latest, of the rules one of whose
\* selectors describes it (compute_node_style).
THEOREM StylesFollow == StyleSpec => []StylesFollowTheCascade
<1>1. StyledInv => StylesFollowTheCascade
  <2> SUFFICES ASSUME StyledInv, styled.element # <<>>
               PROVE  StylesFollowTheCascade
    BY DEF StylesFollowTheCascade
  <2>1. PICK e \in StyledElements, rules \in RuleLists : styled = StyledBy(e, rules)
    BY DEF StyledInv
  <2>2. styled.element[1] = e /\ styled.rules = rules /\ styled.style = ComputeNodeStyle(e, rules)
    BY <2>1 DEF StyledBy
  <2>3. AreRules(rules) /\ IsList(e.ancestors)
    BY PagesAreListed
  <2> QED
    BY <2>2, <2>3, CascadeIsFollowed DEF StylesFollowTheCascade
<1> QED
  BY <1>1, StyledInvariance, PTL

-----------------------------------------------------------------------------
(* The style objects of scripts                                            *)

\* Sheets are lists of lists of rules, whose ids were given and are of one
\* rule each; a rule that is in two states of the sheets is the same rule.
UniqueIds(sheets) ==
  \A s, t \in DOMAIN sheets : \A i \in DOMAIN sheets[s], j \in DOMAIN sheets[t] :
    sheets[s][i].id = sheets[t][j].id => s = t /\ i = j
SheetsOK(sheets, next) ==
  /\ IsList(sheets) /\ next \in Nat
  /\ \A s \in DOMAIN sheets : IsList(sheets[s]) /\ \A i \in DOMAIN sheets[s] : sheets[s][i].id \in 0 .. next - 1
  /\ UniqueIds(sheets)
RulesStay(after, before) ==
  \A s \in DOMAIN after, t \in DOMAIN before : \A i \in DOMAIN after[s], j \in DOMAIN before[t] :
    after[s][i].id = before[t][j].id => after[s][i] = before[t][j]

LEMMA RulesStayThemselves == \A sheets : UniqueIds(sheets) => RulesStay(sheets, sheets)
BY DEF UniqueIds, RulesStay

\* A list made of the rules of a sheet, and of rules with new ids.
MadeFrom(list, sheet, next) ==
  /\ \A i \in DOMAIN list : list[i].id >= next \/ \E j \in DOMAIN sheet : list[i] = sheet[j]
  /\ \A i, j \in DOMAIN list : list[i].id = list[j].id => i = j

LEMMA SheetReplaced ==
  ASSUME NEW sheets, NEW next, SheetsOK(sheets, next), NEW k \in DOMAIN sheets,
         NEW list, IsList(list), MadeFrom(list, sheets[k], next),
         NEW last \in Nat, next <= last, \A i \in DOMAIN list : list[i].id \in 0 .. last - 1
  PROVE  LET replaced == [sheets EXCEPT ![k] = list]
         IN  SheetsOK(replaced, last) /\ RulesStay(replaced, sheets)
<1> DEFINE replaced == [sheets EXCEPT ![k] = list]
<1>1. IsList(sheets) /\ DOMAIN sheets = 1 .. Len(sheets) /\ Len(sheets) \in Nat /\ next \in Nat
  BY ListFacts DEF SheetsOK
<1>2. /\ IsList(replaced) /\ DOMAIN replaced = DOMAIN sheets /\ replaced[k] = list
      /\ \A s \in DOMAIN sheets : s # k => replaced[s] = sheets[s]
  <2>1. PICK T : sheets \in Seq(T)
    BY <1>1 DEF IsList
  <2>2. sheets \in Seq(T \cup {list})
    BY <2>1, SeqMonotonic
  <2>3. replaced \in Seq(T \cup {list})
    BY <2>2
  <2>4. DOMAIN replaced = DOMAIN sheets
    BY <1>1
  <2> QED
    BY <2>3, <2>4 DEF IsList
<1> HIDE DEF replaced
<1>3. \A s \in DOMAIN sheets : \A i \in DOMAIN sheets[s] : sheets[s][i].id \in 0 .. next - 1
  BY DEF SheetsOK
<1>4. \A s \in DOMAIN replaced : IsList(replaced[s]) /\ \A i \in DOMAIN replaced[s] : replaced[s][i].id \in 0 .. last - 1
  BY <1>1, <1>2, <1>3 DEF SheetsOK
<1>5. ASSUME NEW i \in DOMAIN list, NEW t \in DOMAIN sheets, NEW j \in DOMAIN sheets[t],
             list[i].id = sheets[t][j].id
      PROVE  t = k /\ list[i] = sheets[t][j]
  <2>1. ~(list[i].id >= next)
    BY <1>1, <1>3, <1>5
  <2>2. PICK h \in DOMAIN sheets[k] : list[i] = sheets[k][h]
    BY <2>1 DEF MadeFrom
  <2>3. sheets[k][h].id = sheets[t][j].id
    BY <1>5, <2>2
  <2>4. t = k /\ j = h
    BY <2>3 DEF SheetsOK, UniqueIds
  <2> QED
    BY <2>2, <2>4
<1>6. UniqueIds(replaced)
  <2> SUFFICES ASSUME NEW s \in DOMAIN replaced, NEW t \in DOMAIN replaced,
                      NEW i \in DOMAIN replaced[s], NEW j \in DOMAIN replaced[t],
                      replaced[s][i].id = replaced[t][j].id
               PROVE  s = t /\ i = j
    BY DEF UniqueIds
  <2>1. CASE s = k /\ t = k
    BY <1>2, <2>1 DEF MadeFrom
  <2>2. CASE s = k /\ t # k
    BY <1>2, <1>5, <2>2
  <2>3. CASE s # k /\ t = k
    BY <1>2, <1>5, <2>3
  <2>4. CASE s # k /\ t # k
    BY <1>2, <2>4 DEF SheetsOK, UniqueIds
  <2> QED
    BY <2>1, <2>2, <2>3, <2>4
<1>7. RulesStay(replaced, sheets)
  <2> SUFFICES ASSUME NEW s \in DOMAIN replaced, NEW t \in DOMAIN sheets,
                      NEW i \in DOMAIN replaced[s], NEW j \in DOMAIN sheets[t],
                      replaced[s][i].id = sheets[t][j].id
               PROVE  replaced[s][i] = sheets[t][j]
    BY DEF RulesStay
  <2>1. CASE s = k
    BY <1>2, <1>5, <2>1
  <2>2. CASE s # k
    BY <1>2, <2>2 DEF SheetsOK, UniqueIds
  <2> QED
    BY <2>1, <2>2
<1> QED
  BY <1>2, <1>4, <1>6, <1>7 DEF SheetsOK, replaced

\* The sheets with a rule of a new id inserted into one of them.
LEMMA RuleGoesIn ==
  ASSUME NEW sheets, NEW next, SheetsOK(sheets, next), NEW k \in DOMAIN sheets,
         NEW at \in 1 .. Len(sheets[k]) + 1, NEW rule, rule.id = next
  PROVE  LET replaced == [sheets EXCEPT ![k] = InsertAt(@, at, rule)]
         IN  SheetsOK(replaced, next + 1) /\ RulesStay(replaced, sheets)
<1> DEFINE sheet == sheets[k]
           list == InsertAt(sheet, at, rule)
           n == Len(sheet)
<1>1. /\ IsList(sheet) /\ n \in Nat /\ DOMAIN sheet = 1 .. n /\ next \in Nat
      /\ \A i \in 1 .. n : sheet[i].id \in 0 .. next - 1
      /\ \A i, j \in 1 .. n : sheet[i].id = sheet[j].id => i = j
  BY ListFacts DEF SheetsOK, UniqueIds
<1>2. /\ IsList(list) /\ Len(list) = n + 1
      /\ \A i \in 1 .. n + 1 : list[i] = IF i < at THEN sheet[i] ELSE IF i = at THEN rule ELSE sheet[i - 1]
  BY <1>1, InsertedList
<1>3. DOMAIN list = 1 .. n + 1
  BY <1>2, ListFacts
<1> HIDE DEF sheet, list, n
<1>4. \A i \in 1 .. n + 1 : /\ i < at => i \in 1 .. n /\ list[i] = sheet[i]
                            /\ i = at => list[i] = rule
                            /\ i > at => i - 1 \in 1 .. n /\ list[i] = sheet[i - 1]
  BY <1>1, <1>2 DEF n, sheet
<1>5. \A i \in DOMAIN list : \/ list[i].id = next
                             \/ \E j \in 1 .. n : list[i] = sheet[j]
  BY <1>1, <1>3, <1>4
<1>6. \A i \in DOMAIN list : list[i].id \in 0 .. (next + 1) - 1
  BY <1>1, <1>5
<1>7. \A i, j \in DOMAIN list : list[i].id = list[j].id => i = j
  <2> SUFFICES ASSUME NEW i \in 1 .. n + 1, NEW j \in 1 .. n + 1, i < j, list[i].id = list[j].id
               PROVE  FALSE
    BY <1>1, <1>3
  <2>1. CASE j < at
    BY <1>1, <1>4, <2>1
  <2>2. CASE j = at
    BY <1>1, <1>4, <2>2
  <2>3. CASE j > at /\ i < at
    BY <1>1, <1>4, <2>3 DEF n, sheet
  <2>4. CASE j > at /\ i = at
    BY <1>1, <1>4, <2>4
  <2>5. CASE j > at /\ i > at
    BY <1>1, <1>4, <2>5
  <2> QED
    BY <1>1, <2>1, <2>2, <2>3, <2>4, <2>5 DEF n, sheet
<1>8. MadeFrom(list, sheet, next)
  BY <1>1, <1>5, <1>7 DEF MadeFrom
<1>9. next + 1 \in Nat /\ next <= next + 1
  BY <1>1
<1> QED
  BY <1>2, <1>6, <1>8, <1>9, SheetReplaced DEF sheet, list

\* The sheets with a rule of one of them taken away.
LEMMA RuleGoesOut ==
  ASSUME NEW sheets, NEW next, SheetsOK(sheets, next), NEW k \in DOMAIN sheets,
         NEW at \in 1 .. Len(sheets[k])
  PROVE  LET replaced == [sheets EXCEPT ![k] = RemoveAt(@, at)]
         IN  SheetsOK(replaced, next) /\ RulesStay(replaced, sheets)
<1> DEFINE sheet == sheets[k]
           list == RemoveAt(sheet, at)
           n == Len(sheet)
<1>1. /\ IsList(sheet) /\ n \in Nat /\ DOMAIN sheet = 1 .. n /\ next \in Nat
      /\ \A i \in 1 .. n : sheet[i].id \in 0 .. next - 1
      /\ \A i, j \in 1 .. n : sheet[i].id = sheet[j].id => i = j
  BY ListFacts DEF SheetsOK, UniqueIds
<1>2. /\ IsList(list) /\ Len(list) = n - 1
      /\ \A i \in 1 .. n - 1 : list[i] = IF i < at THEN sheet[i] ELSE sheet[i + 1]
  BY <1>1, RemovedList
<1>3. DOMAIN list = 1 .. n - 1
  BY <1>2, ListFacts
<1> HIDE DEF sheet, list, n
<1>4. \A i \in 1 .. n - 1 : i \in 1 .. n /\ i + 1 \in 1 .. n
  BY <1>1
<1>5. \A i \in DOMAIN list : \E j \in 1 .. n : list[i] = sheet[j]
  BY <1>2, <1>3, <1>4
<1>6. \A i \in DOMAIN list : list[i].id \in 0 .. next - 1
  BY <1>1, <1>5
<1>7. \A i, j \in DOMAIN list : list[i].id = list[j].id => i = j
  <2> SUFFICES ASSUME NEW i \in 1 .. n - 1, NEW j \in 1 .. n - 1, list[i].id = list[j].id
               PROVE  i = j
    BY <1>3
  <2>1. at \in Nat /\ i \in Nat /\ j \in Nat
    BY <1>1
  <2>2. PICK h \in 1 .. n : h = (IF i < at THEN i ELSE i + 1) /\ list[i] = sheet[h]
    BY <1>2, <1>4
  <2>3. PICK g \in 1 .. n : g = (IF j < at THEN j ELSE j + 1) /\ list[j] = sheet[g]
    BY <1>2, <1>4
  <2>4. h = g
    BY <1>1, <2>2, <2>3
  <2> QED
    BY <2>1, <2>2, <2>3, <2>4
<1>8. MadeFrom(list, sheet, next)
  BY <1>1, <1>5, <1>7 DEF MadeFrom
<1>9. next \in Nat /\ next <= next
  BY <1>1
<1> QED
  BY <1>2, <1>6, <1>8, <1>9, SheetReplaced DEF sheet, list

CssomInv ==
  /\ cssom = [inline |-> cssom.inline, sheets |-> cssom.sheets, nextRule |-> cssom.nextRule, mutations |-> cssom.mutations]
  /\ cssom.inline = [n \in StyledNodes |-> cssom.inline[n]]
  /\ IsList(cssom.mutations)
  /\ SheetsOK(cssom.sheets, cssom.nextRule)

StartsWith(after, before) == \A t \in DOMAIN before : t \in DOMAIN after /\ after[t] = before[t]

\* A sheet that is asked for is there afterwards, empty if it was not.
LEMMA SheetIsThere ==
  ASSUME CssomInv, NEW sheet \in 1 .. Len(cssom.sheets) + 1
  PROVE  LET ready == EnsureSheet(cssom, sheet)
         IN  /\ ready = [cssom EXCEPT !.sheets = ready.sheets]
             /\ SheetsOK(ready.sheets, cssom.nextRule) /\ sheet \in DOMAIN ready.sheets
             /\ StartsWith(ready.sheets, cssom.sheets)
<1> DEFINE sheets == cssom.sheets
           n == Len(sheets)
           next == cssom.nextRule
           more == [i \in 1 .. (sheet - n) |-> <<>>]
           all == sheets \o more
           ready == EnsureSheet(cssom, sheet)
<1>1. IsList(sheets) /\ n \in Nat /\ DOMAIN sheets = 1 .. n /\ next \in Nat
  BY ListFacts DEF CssomInv, SheetsOK
<1>2. ready = [cssom EXCEPT !.sheets = all] /\ ready.sheets = all
  BY DEF EnsureSheet, CssomInv
<1>4. CASE sheet <= n
  <2>1. 1 .. (sheet - n) = {}
    BY <1>1, <1>4
  <2>2. more = <<>>
    <3> DEFINE none == [i \in {} |-> <<>>]
    <3>1. more = none
      BY <2>1
    <3> QED
      BY <3>1
  <2>3. all = sheets
    <3>1. PICK T : sheets \in Seq(T)
      BY <1>1 DEF IsList
    <3> QED
      BY <2>2, <3>1, ConcatEmptySeq
  <2>4. sheet \in DOMAIN sheets
    BY <1>1, <1>4
  <2> QED
    BY <1>2, <2>3, <2>4 DEF CssomInv, StartsWith
<1>5. CASE sheet = n + 1
  <2>1. sheet - n = 1
    BY <1>1, <1>5
  <2>2. more \in Seq({<<>>}) /\ Len(more) = 1 /\ more[1] = <<>>
    BY <2>1
  <2>3. IsList(more)
    BY <2>2 DEF IsList
  <2> HIDE DEF more
  <2>4. IsList(all) /\ Len(all) = n + 1
        /\ \A i \in 1 .. n + 1 : all[i] = IF i <= n THEN sheets[i] ELSE more[i - n]
    <3>1. /\ IsList(all) /\ Len(all) = Len(sheets) + Len(more)
          /\ \A i \in 1 .. Len(sheets) + Len(more) : all[i] = IF i <= Len(sheets) THEN sheets[i] ELSE more[i - Len(sheets)]
      BY <1>1, <2>3, ConcatList
    <3> HIDE DEF all
    <3> QED
      BY <2>2, <3>1
  <2>5. DOMAIN all = 1 .. n + 1
    BY <2>4, ListFacts
  <2> HIDE DEF all
  <2>6. all[n + 1] = <<>> /\ \A i \in 1 .. n : all[i] = sheets[i]
    BY <1>1, <2>2, <2>4
  <2>7. IsList(<<>>) /\ DOMAIN <<>> = {}
    BY EmptyList
  <2>8. \A s \in DOMAIN all : (s = n + 1 /\ all[s] = <<>>) \/ (s \in DOMAIN sheets /\ all[s] = sheets[s])
    BY <1>1, <2>5, <2>6
  <2>9. \A s \in DOMAIN all : \A i \in DOMAIN all[s] : s \in DOMAIN sheets /\ all[s] = sheets[s] /\ i \in DOMAIN sheets[s]
    BY <2>7, <2>8
  <2> HIDE DEF sheets, next
  <2>10. SheetsOK(sheets, next)
    BY DEF CssomInv, sheets, next
  <2>11. \A s \in DOMAIN all : IsList(all[s]) /\ \A i \in DOMAIN all[s] : all[s][i].id \in 0 .. next - 1
    BY <2>7, <2>8, <2>9, <2>10 DEF SheetsOK
  <2>12. UniqueIds(all)
    BY <2>9, <2>10 DEF UniqueIds, SheetsOK
  <2>13. StartsWith(all, sheets)
    BY <1>1, <2>5, <2>6 DEF StartsWith
  <2>14. SheetsOK(all, next)
    BY <1>1, <2>4, <2>11, <2>12 DEF SheetsOK
  <2>15. sheet \in DOMAIN all
    BY <1>1, <1>5, <2>5
  <2> QED
    BY <1>2, <2>13, <2>14, <2>15 DEF sheets, next
<1> QED
  BY <1>1, <1>4, <1>5

-----------------------------------------------------------------------------
(* What a style mutation may do                                            *)

\* The parts of StyleChangesAreReported.
ChangesReported ==
  \A name \in StyleNames : Changed(name) # {} =>
    LET m == Last(cssom'.mutations)
    IN /\ cssom'.mutations = Append(cssom.mutations, m)
       /\ m.node = Page \/ Changed(name) = {m.node}
RulesKept ==
  /\ \A r \in RulesOf(cssom'), q \in RulesOf(cssom) : r.id = q.id => r = q
  /\ IdsAreUnique(cssom')

LEMMA StayingRulesAreKept ==
  ASSUME RulesStay(cssom'.sheets, cssom.sheets), UniqueIds(cssom'.sheets)
  PROVE  RulesKept
<1>1. ASSUME NEW r \in RulesOf(cssom'), NEW q \in RulesOf(cssom), r.id = q.id
      PROVE  r = q
  <2>1. PICK s \in DOMAIN cssom'.sheets : r \in ToSet(cssom'.sheets[s])
    BY <1>1 DEF RulesOf
  <2>2. PICK i \in DOMAIN cssom'.sheets[s] : r = cssom'.sheets[s][i]
    BY <2>1 DEF ToSet
  <2>3. PICK t \in DOMAIN cssom.sheets : q \in ToSet(cssom.sheets[t])
    BY <1>1 DEF RulesOf
  <2>4. PICK j \in DOMAIN cssom.sheets[t] : q = cssom.sheets[t][j]
    BY <2>3 DEF ToSet
  <2> QED
    BY <1>1, <2>2, <2>4 DEF RulesStay
<1> QED
  BY <1>1 DEF RulesKept, IdsAreUnique, UniqueIds

\* What getComputedStyle answers of a node depends on its own declarations
\* and the sheets alone.
LEMMA AnswersDependOn ==
  ASSUME NEW c, NEW d, NEW n, NEW name, c.inline[n] = d.inline[n], c.sheets = d.sheets
  PROVE  ComputedStyle(c, n, name) = ComputedStyle(d, n, name)
BY DEF ComputedStyle

\* A mutation of the inline declarations of one node.
LEMMA InlineStep ==
  ASSUME CssomInv, NEW node \in StyledNodes, NEW declarations, NEW p,
         cssom' = Record([cssom EXCEPT !.inline[node] = declarations], node, p)
  PROVE  CssomInv' /\ ChangesReported /\ RulesKept
<1> DEFINE m == [node |-> node, property |-> p, invalidation |-> InvalidationForProperty(p)]
<1>1. /\ cssom' = [inline |-> [cssom.inline EXCEPT ![node] = declarations], sheets |-> cssom.sheets,
                   nextRule |-> cssom.nextRule, mutations |-> Append(cssom.mutations, m)]
  BY DEF CssomInv, Record
<1> HIDE DEF m
<1>2. /\ cssom'.inline = [cssom.inline EXCEPT ![node] = declarations] /\ cssom'.sheets = cssom.sheets
      /\ cssom'.nextRule = cssom.nextRule /\ cssom'.mutations = Append(cssom.mutations, m)
  BY <1>1
<1>3. /\ IsList(Append(cssom.mutations, m)) /\ Len(Append(cssom.mutations, m)) = Len(cssom.mutations) + 1
      /\ Append(cssom.mutations, m)[Len(cssom.mutations) + 1] = m
  BY AppendList DEF CssomInv
<1>4. Last(cssom'.mutations) = m
  BY <1>2, <1>3 DEF Last
<1>5. \A n \in StyledNodes : n # node => cssom'.inline[n] = cssom.inline[n]
  BY <1>2 DEF CssomInv
<1>6. CssomInv'
  BY <1>1, <1>2, <1>3 DEF CssomInv
<1>7. \A name : Changed(name) \subseteq {node}
  BY <1>2, <1>5, AnswersDependOn DEF Changed
<1>8. ChangesReported
  <2> SUFFICES ASSUME NEW name \in StyleNames, Changed(name) # {}
               PROVE  Changed(name) = {m.node}
    BY <1>2, <1>4 DEF ChangesReported
  <2>1. m.node = node
    BY DEF m
  <2> QED
    BY <1>7, <2>1
<1>9. RulesKept
  BY <1>2, RulesStayThemselves, StayingRulesAreKept DEF CssomInv, SheetsOK
<1> QED
  BY <1>6, <1>8, <1>9

\* A mutation of the sheets, which is of the page.
LEMMA SheetsStep ==
  ASSUME CssomInv, NEW sheets, NEW next, NEW p \in {"insertRule", "deleteRule"},
         SheetsOK(sheets, next), RulesStay(sheets, cssom.sheets),
         cssom' = Record([cssom EXCEPT !.sheets = sheets, !.nextRule = next], Page, p)
  PROVE  CssomInv' /\ ChangesReported /\ RulesKept
<1> DEFINE m == [node |-> Page, property |-> p, invalidation |-> InvalidationForProperty(p)]
<1>1. /\ cssom' = [inline |-> cssom.inline, sheets |-> sheets, nextRule |-> next, mutations |-> Append(cssom.mutations, m)]
  BY DEF CssomInv, Record
<1> HIDE DEF m
<1>2. /\ cssom'.inline = cssom.inline /\ cssom'.sheets = sheets
      /\ cssom'.nextRule = next /\ cssom'.mutations = Append(cssom.mutations, m)
  BY <1>1
<1>3. /\ IsList(Append(cssom.mutations, m)) /\ Len(Append(cssom.mutations, m)) = Len(cssom.mutations) + 1
      /\ Append(cssom.mutations, m)[Len(cssom.mutations) + 1] = m
  BY AppendList DEF CssomInv
<1>4. Last(cssom'.mutations) = m
  BY <1>2, <1>3 DEF Last
<1>5. CssomInv'
  BY <1>1, <1>2, <1>3 DEF CssomInv
<1>6. ChangesReported
  BY <1>2, <1>4 DEF m, ChangesReported
<1>7. RulesKept
  BY <1>2, StayingRulesAreKept DEF SheetsOK
<1> QED
  BY <1>5, <1>6, <1>7

LEMMA InsertedStep ==
  ASSUME CssomInv, NEW sheet \in 1 .. Len(cssom.sheets) + 1, NEW rule, NEW at \in Nat \ {0},
         cssom' = Inserted(cssom, sheet, rule, at)
  PROVE  CssomInv' /\ ChangesReported /\ RulesKept
<1> DEFINE ready == EnsureSheet(cssom, sheet)
           list == ready.sheets[sheet]
           end == Len(list) + 1
           position == Min({at, end})
           next == cssom.nextRule
           named == [id |-> next, selector |-> rule.selector, declarations |-> rule.declarations]
           sheets == [ready.sheets EXCEPT ![sheet] = InsertAt(@, position, named)]
<1>1. /\ ready = [cssom EXCEPT !.sheets = ready.sheets]
      /\ SheetsOK(ready.sheets, next) /\ sheet \in DOMAIN ready.sheets
      /\ StartsWith(ready.sheets, cssom.sheets)
  BY SheetIsThere
<1>2. Len(list) \in Nat
  BY <1>1, ListFacts DEF SheetsOK
<1>3. position \in 1 .. Len(list) + 1
  <2>1. end \in Nat /\ end >= 1 /\ at >= 1 /\ at \in Nat
    BY <1>2
  <2> HIDE DEF end
  <2>2. \E x \in {at, end} : \A y \in {at, end} : x <= y
    BY <2>1
  <2>3. position \in {at, end} /\ \A y \in {at, end} : position <= y
    BY <2>2 DEF Min
  <2> HIDE DEF position
  <2>4. position >= 1 /\ position <= end /\ position \in Nat
    BY <2>1, <2>3
  <2> QED
    BY <2>4 DEF end
<1>4. named.id = next
  OBVIOUS
<1> HIDE DEF position, end, named
<1>5. SheetsOK(sheets, next + 1) /\ RulesStay(sheets, ready.sheets)
  BY <1>1, <1>3, <1>4, RuleGoesIn
<1>6. cssom' = Record([cssom EXCEPT !.sheets = sheets, !.nextRule = next + 1], Page, "insertRule")
  <2>1. cssom' = Record([ready EXCEPT !.sheets[sheet] = InsertAt(@, position, named), !.nextRule = @ + 1], Page, "insertRule")
    BY DEF Inserted, position, end, named
  <2>2. /\ ready = [inline |-> cssom.inline, sheets |-> ready.sheets, nextRule |-> next, mutations |-> cssom.mutations]
    BY <1>1 DEF CssomInv
  <2> DEFINE held == ready.sheets
             list2 == InsertAt(held[sheet], position, named)
             put == [held EXCEPT ![sheet] = list2]
  <2>3. ready = [inline |-> cssom.inline, sheets |-> held, nextRule |-> next, mutations |-> cssom.mutations]
    BY <2>2
  <2>4. sheets = put
    OBVIOUS
  <2>5. [ready EXCEPT !.sheets[sheet] = InsertAt(@, position, named), !.nextRule = @ + 1]
          = [ready EXCEPT !.sheets = put, !.nextRule = next + 1]
    <3> HIDE DEF ready, next
    <3>1. ready.nextRule = next
      BY <2>3
    <3> QED
      BY <2>3, <3>1
  <2> HIDE DEF put, sheets, held, ready, next
  <2>6. [ready EXCEPT !.sheets = put, !.nextRule = next + 1]
          = [inline |-> cssom.inline, sheets |-> put, nextRule |-> next + 1, mutations |-> cssom.mutations]
    <3> DEFINE q == [ready EXCEPT !.sheets = put]
               last == next + 1
    <3> HIDE DEF last
    <3>1. q = [inline |-> cssom.inline, sheets |-> put, nextRule |-> next, mutations |-> cssom.mutations]
      BY <2>3
    <3>2. [ready EXCEPT !.sheets = put, !.nextRule = last] = [q EXCEPT !.nextRule = last]
      BY <2>3
    <3> HIDE DEF q
    <3>3. [q EXCEPT !.nextRule = last]
            = [inline |-> cssom.inline, sheets |-> put, nextRule |-> last, mutations |-> cssom.mutations]
      BY <3>1
    <3> QED
      BY <3>2, <3>3 DEF last
  <2>7. cssom = [inline |-> cssom.inline, sheets |-> cssom.sheets, nextRule |-> cssom.nextRule, mutations |-> cssom.mutations]
    BY DEF CssomInv
  <2>8. [cssom EXCEPT !.sheets = sheets, !.nextRule = next + 1]
          = [inline |-> cssom.inline, sheets |-> sheets, nextRule |-> next + 1, mutations |-> cssom.mutations]
    <3> DEFINE q == [cssom EXCEPT !.sheets = sheets]
               last == next + 1
    <3> HIDE DEF last
    <3>1. q = [inline |-> cssom.inline, sheets |-> sheets, nextRule |-> cssom.nextRule, mutations |-> cssom.mutations]
      BY <2>7
    <3>2. [cssom EXCEPT !.sheets = sheets, !.nextRule = last] = [q EXCEPT !.nextRule = last]
      BY <2>7
    <3> HIDE DEF q
    <3>3. [q EXCEPT !.nextRule = last]
            = [inline |-> cssom.inline, sheets |-> sheets, nextRule |-> last, mutations |-> cssom.mutations]
      BY <3>1
    <3> QED
      BY <3>2, <3>3 DEF last
  <2> QED
    BY <2>1, <2>4, <2>5, <2>6, <2>8
<1> HIDE DEF sheets, ready, next
<1>7. RulesStay(sheets, cssom.sheets)
  BY <1>1, <1>5 DEF RulesStay, StartsWith
<1> QED
  BY <1>5, <1>6, <1>7, SheetsStep

LEMMA UnchangedReports ==
  ASSUME CssomInv, cssom' = cssom
  PROVE  CssomInv' /\ ChangesReported /\ RulesKept
<1>1. CssomInv'
  BY DEF CssomInv
<1>2. \A name : Changed(name) = {}
  BY AnswersDependOn DEF Changed
<1>3. UniqueIds(cssom'.sheets) /\ RulesStay(cssom'.sheets, cssom.sheets)
  BY RulesStayThemselves DEF CssomInv, SheetsOK
<1> QED
  BY <1>1, <1>2, <1>3, StayingRulesAreKept DEF ChangesReported

LEMMA CssomInitInv == CssomInit => CssomInv
<1> SUFFICES ASSUME CssomInit PROVE CssomInv
  OBVIOUS
<1>1. /\ cssom.inline = [n \in StyledNodes |-> NoDeclarations] /\ cssom.sheets = << <<>> >>
      /\ cssom.nextRule = 0 /\ cssom.mutations = <<>>
      /\ cssom = [inline |-> cssom.inline, sheets |-> cssom.sheets, nextRule |-> cssom.nextRule, mutations |-> cssom.mutations]
  BY DEF CssomInit
<1>2. IsList(<<>>) /\ DOMAIN <<>> = {}
  BY EmptyList
<1>3. IsList(<< <<>> >>) /\ DOMAIN << <<>> >> = {1} /\ << <<>> >>[1] = <<>>
  <2> DEFINE nothing == <<>>
  <2> HIDE DEF nothing
  <2>1. <<nothing>> \in Seq({nothing}) /\ Len(<<nothing>>) = 1 /\ <<nothing>>[1] = nothing
    OBVIOUS
  <2>2. IsList(<<nothing>>)
    BY <2>1 DEF IsList
  <2>3. DOMAIN <<nothing>> = {1}
    BY <2>1
  <2> QED
    BY <2>1, <2>2, <2>3 DEF nothing
<1> DEFINE sheets == << <<>> >>
<1> HIDE DEF sheets
<1>4. SheetsOK(sheets, 0)
  BY <1>2, <1>3 DEF sheets, SheetsOK, UniqueIds
<1> QED
  BY <1>1, <1>2, <1>4 DEF CssomInv, sheets

LEMMA CssomStepReports ==
  ASSUME CssomInv, CssomNext
  PROVE  CssomInv' /\ ChangesReported /\ RulesKept
<1>1. ASSUME NEW node \in StyledNodes, NEW name \in StyleNames, NEW value \in StyleValues,
             InlineStyleSet(node, name, value)
      PROVE  CssomInv' /\ ChangesReported /\ RulesKept
  <2> DEFINE p == NormalizeCssProperty(name)
             declarations == (p :> value) @@ cssom.inline[node]
  <2>1. cssom' = Record([cssom EXCEPT !.inline[node] = (p :> value) @@ @], node, p)
    BY <1>1 DEF InlineStyleSet
  <2>2. [cssom EXCEPT !.inline[node] = (p :> value) @@ @] = [cssom EXCEPT !.inline[node] = declarations]
    BY DEF CssomInv
  <2> HIDE DEF p, declarations
  <2> QED
    BY <2>1, <2>2, InlineStep
<1>2. ASSUME NEW node \in StyledNodes, NEW name \in StyleNames, InlineStyleRemoved(node, name)
      PROVE  CssomInv' /\ ChangesReported /\ RulesKept
  <2> DEFINE p == NormalizeCssProperty(name)
             held == cssom.inline[node]
             declarations == [q \in DOMAIN held \ {p} |-> held[q]]
  <2>1. cssom' = Record([cssom EXCEPT !.inline[node] = declarations], node, p)
    BY <1>2 DEF InlineStyleRemoved, CssomInv
  <2> HIDE DEF p, declarations
  <2> QED
    BY <2>1, InlineStep
<1>3. ASSUME NEW node \in StyledNodes, NEW declarations, CssTextSet(node, declarations)
      PROVE  CssomInv' /\ ChangesReported /\ RulesKept
  BY <1>3, InlineStep DEF CssTextSet
<1>4. ASSUME NEW sheet \in 1 .. MaxSheets, NEW rule \in SheetRules, NEW at \in 1 .. 3, RuleInserted(sheet, rule, at)
      PROVE  CssomInv' /\ ChangesReported /\ RulesKept
  BY <1>4, ListFacts, CssomAssumption, InsertedStep DEF CssomInv, SheetsOK, RuleInserted
<1>5. ASSUME SheetCreated
      PROVE  CssomInv' /\ ChangesReported /\ RulesKept
  <2> DEFINE rule == [selector |-> NoSelector, declarations |-> NoDeclarations]
             sheet == Len(cssom.sheets) + 1
  <2>1. Len(cssom.sheets) \in Nat
    BY ListFacts DEF CssomInv, SheetsOK
  <2>2. sheet \in 1 .. Len(cssom.sheets) + 1 /\ 1 \in Nat \ {0} /\ cssom' = Inserted(cssom, sheet, rule, 1)
    BY <1>5, <2>1 DEF SheetCreated
  <2> HIDE DEF rule, sheet
  <2> QED
    BY <2>2, InsertedStep
<1>6. ASSUME NEW sheet \in 1 .. MaxSheets, NEW at \in 1 .. 3, RuleDeleted(sheet, at)
      PROVE  CssomInv' /\ ChangesReported /\ RulesKept
  <2> DEFINE sheets == [cssom.sheets EXCEPT ![sheet] = RemoveAt(@, at)]
  <2>1. IsList(cssom.sheets) /\ Len(cssom.sheets) \in Nat /\ DOMAIN cssom.sheets = 1 .. Len(cssom.sheets) /\ MaxSheets \in Nat
    BY ListFacts, CssomAssumption DEF CssomInv, SheetsOK
  <2>2. sheet \in DOMAIN cssom.sheets
    BY <1>6, <2>1 DEF RuleDeleted
  <2>3. Len(cssom.sheets[sheet]) \in Nat
    BY <2>2, ListFacts DEF CssomInv, SheetsOK
  <2>4. at \in 1 .. Len(cssom.sheets[sheet])
    BY <1>6, <2>3 DEF RuleDeleted
  <2>5. SheetsOK(sheets, cssom.nextRule) /\ RulesStay(sheets, cssom.sheets)
    BY <2>2, <2>4, RuleGoesOut DEF CssomInv
  <2>6. cssom' = Record([cssom EXCEPT !.sheets = sheets, !.nextRule = cssom.nextRule], Page, "deleteRule")
    BY <1>6 DEF RuleDeleted, CssomInv
  <2> HIDE DEF sheets
  <2> QED
    BY <2>5, <2>6, SheetsStep
<1>7. ASSUME NothingStyled
      PROVE  CssomInv' /\ ChangesReported /\ RulesKept
  BY <1>7, UnchangedReports DEF NothingStyled
<1> QED
  BY <1>1, <1>2, <1>3, <1>4, <1>5, <1>6, <1>7 DEF CssomNext

\* Whatever a script sets, inserts or deletes, what getComputedStyle answers
\* changes only by the mutation recorded last, of the node whose answer changed
\* or of the page; and a rule has its id to itself, for good (set_inline_style,
\* insert_rule, delete_rule).  That the record asks for enough is not claimed: of
\* a rule, the code asks for a repaint only (invalidation_for_property).
THEOREM ChangesAreReported == CssomSpec => StyleChangesAreReported
<1> DEFINE Reports == ChangesReported /\ RulesKept
<1>1. CssomInv /\ [CssomNext]_cssom => CssomInv' /\ [Reports]_cssom
  BY CssomStepReports, UnchangedReports
<1>2. [Reports]_cssom =>
        [ /\ \A name \in StyleNames : Changed(name) # {} =>
               LET m == Last(cssom'.mutations)
               IN /\ cssom'.mutations = Append(cssom.mutations, m)
                  /\ m.node = Page \/ Changed(name) = {m.node}
          /\ \A r \in RulesOf(cssom'), q \in RulesOf(cssom) : r.id = q.id => r = q
          /\ IdsAreUnique(cssom') ]_cssom
  BY DEF ChangesReported, RulesKept
<1> HIDE DEF Reports
<1> QED
  BY <1>1, <1>2, CssomInitInv, PTL DEF CssomSpec, StyleChangesAreReported

-----------------------------------------------------------------------------
(* The layout of a summary                                                 *)

\* The loops that make a summary, each by what it does with one item.
TakeItem(state, item) ==
  CASE item.what = "declaration" -> DeclarationSummed(state, item.tag, item.of)
    [] item.what = "selector" -> ApplyToTag(state, BoxTag(SimpleTag(ParseSelector(item.of))), item.declarations)
    [] item.what = "rule" -> RuleSummed(state, item.of)
    [] item.what = "mutation" -> ApplyMutation(state, item.of)

ItemsRun(first, items, n, f) ==
  f = [i \in 0 .. n |-> IF i = 0 THEN first ELSE TakeItem(f[i - 1], items[i])]

LEMMA ItemsRunExists ==
  ASSUME NEW first, NEW items, NEW n \in Nat
  PROVE  \E f : ItemsRun(first, items, n, f)
<1> DEFINE S == {k \in 0 .. n : \E f : ItemsRun(first, items, k, f)}
           start == 0
<1>1. start \in S
  <2> DEFINE none == [i \in 0 .. start |-> first]
  <2>1. ItemsRun(first, items, start, none)
    BY DEF ItemsRun
  <2> QED
    BY <2>1
<1>2. ASSUME NEW k \in start .. n - 1, k \in S
      PROVE  k + 1 \in S
  <2>1. PICK f : ItemsRun(first, items, k, f)
    BY <1>2
  <2> DEFINE last == TakeItem(f[k], items[k + 1])
             more == [i \in 0 .. k + 1 |-> IF i = k + 1 THEN last ELSE f[i]]
  <2>2. \A i \in 0 .. k : f[i] = IF i = 0 THEN first ELSE TakeItem(f[i - 1], items[i])
    BY <2>1 DEF ItemsRun
  <2>3. ASSUME NEW i \in 0 .. k + 1
        PROVE  more[i] = IF i = 0 THEN first ELSE TakeItem(more[i - 1], items[i])
    <3>1. CASE i = k + 1
      <4>1. more[i - 1] = f[k] /\ more[i] = last /\ i # 0
        BY <1>2, <3>1
      <4> HIDE DEF more
      <4> QED
        BY <3>1, <4>1
    <3>2. CASE i # k + 1
      <4>1. i \in 0 .. k /\ more[i] = f[i]
        BY <1>2, <3>2
      <4>2. i # 0 => more[i - 1] = f[i - 1]
        BY <1>2, <3>2
      <4> HIDE DEF more
      <4> QED
        BY <2>2, <4>1, <4>2
    <3> QED
      BY <3>1, <3>2
  <2>4. more = [i \in 0 .. k + 1 |-> more[i]]
    BY <1>2
  <2> HIDE DEF more
  <2>5. ItemsRun(first, items, k + 1, more)
    BY <2>3, <2>4 DEF ItemsRun
  <2> QED
    BY <1>2, <2>5
<1>3. start \in Nat /\ n \in start .. n
  OBVIOUS
<1> HIDE DEF S, start
<1>4. start .. n \subseteq S
  BY <1>1, <1>2, <1>3, CountingUp
<1> HIDE DEF S
<1>5. n \in S
  BY <1>3, <1>4
<1> QED
  BY <1>5 DEF S

\* How each loop goes from turn to turn.
DeclarationsSummedBy(sheet, tag, declarations, f) ==
  f = [k \in 0..Len(declarations) |-> IF k = 0 THEN sheet ELSE DeclarationSummed(f[k - 1], tag, declarations[k])]
SelectorsSummedBy(sheet, rule, f) ==
  f = [j \in 0..Len(rule.selectors) |->
         IF j = 0 THEN sheet
         ELSE ApplyToTag(f[j - 1], BoxTag(SimpleTag(ParseSelector(rule.selectors[j]))), rule.declarations)]
RulesSummedBy(rules, f) ==
  f = [i \in 0..Len(rules) |-> IF i = 0 THEN EmptySheet ELSE RuleSummed(f[i - 1], rules[i])]
MutationsAppliedBy(engine, mutations, f) ==
  f = [i \in 0..Len(mutations) |-> IF i = 0 THEN engine ELSE ApplyMutation(f[i - 1], mutations[i])]

LEMMA DeclarationsAreSummed ==
  ASSUME NEW sheet, NEW tag \in SummaryTags, NEW declarations, Len(declarations) \in Nat
  PROVE  \E f : DeclarationsSummedBy(sheet, tag, declarations, f) /\ ApplyToTag(sheet, tag, declarations) = f[Len(declarations)]
<1> DEFINE n == Len(declarations)
           items == [k \in 1 .. n |-> [what |-> "declaration", tag |-> tag, of |-> declarations[k]]]
           f == CHOOSE g : DeclarationsSummedBy(sheet, tag, declarations, g)
<1>1. ApplyToTag(sheet, tag, declarations) = f[n]
  BY DEF ApplyToTag, DeclarationsSummedBy
<1> HIDE DEF f
<1>2. PICK g : ItemsRun(sheet, items, n, g)
  BY ItemsRunExists
<1>3. \A k \in 1 .. n : \A s : TakeItem(s, items[k]) = DeclarationSummed(s, tag, declarations[k])
  BY DEF TakeItem
<1>4. \A k \in 0 .. n : k # 0 => k \in 1 .. n
  OBVIOUS
<1> HIDE DEF items
<1>5. [k \in 0 .. n |-> IF k = 0 THEN sheet ELSE TakeItem(g[k - 1], items[k])]
        = [k \in 0 .. n |-> IF k = 0 THEN sheet ELSE DeclarationSummed(g[k - 1], tag, declarations[k])]
  BY <1>3, <1>4
<1>6. DeclarationsSummedBy(sheet, tag, declarations, g)
  BY <1>2, <1>5 DEF ItemsRun, DeclarationsSummedBy
<1>7. DeclarationsSummedBy(sheet, tag, declarations, f)
  BY <1>6 DEF f
<1> QED
  BY <1>1, <1>7

LEMMA SelectorsAreSummed ==
  ASSUME NEW sheet, NEW rule, Len(rule.selectors) \in Nat
  PROVE  \E f : SelectorsSummedBy(sheet, rule, f) /\ RuleSummed(sheet, rule) = f[Len(rule.selectors)]
<1> DEFINE n == Len(rule.selectors)
           items == [k \in 1 .. n |-> [what |-> "selector", of |-> rule.selectors[k], declarations |-> rule.declarations]]
           f == CHOOSE g : SelectorsSummedBy(sheet, rule, g)
           Turn(s, k) == ApplyToTag(s, BoxTag(SimpleTag(ParseSelector(rule.selectors[k]))), rule.declarations)
<1>1. RuleSummed(sheet, rule) = f[n]
  BY DEF RuleSummed, SelectorsSummedBy
<1> HIDE DEF f
<1>2. PICK g : ItemsRun(sheet, items, n, g)
  BY ItemsRunExists
<1>3. \A k \in 1 .. n : \A s : TakeItem(s, items[k]) = Turn(s, k)
  BY DEF TakeItem
<1>4. \A k \in 0 .. n : k # 0 => k \in 1 .. n
  OBVIOUS
<1> HIDE DEF items
<1>5. [k \in 0 .. n |-> IF k = 0 THEN sheet ELSE TakeItem(g[k - 1], items[k])]
        = [k \in 0 .. n |-> IF k = 0 THEN sheet ELSE Turn(g[k - 1], k)]
  <2> HIDE DEF Turn
  <2> QED
    BY <1>3, <1>4
<1>6. SelectorsSummedBy(sheet, rule, g)
  BY <1>2, <1>5 DEF ItemsRun, SelectorsSummedBy
<1>7. SelectorsSummedBy(sheet, rule, f)
  BY <1>6 DEF f
<1> QED
  BY <1>1, <1>7

LEMMA RulesAreSummed ==
  ASSUME NEW rules, Len(rules) \in Nat
  PROVE  \E f : RulesSummedBy(rules, f) /\ ParseCssLite(rules) = f[Len(rules)]
<1> DEFINE n == Len(rules)
           items == [k \in 1 .. n |-> [what |-> "rule", of |-> rules[k]]]
           f == CHOOSE g : RulesSummedBy(rules, g)
<1>1. ParseCssLite(rules) = f[n]
  BY DEF ParseCssLite, RulesSummedBy
<1> HIDE DEF f
<1>2. PICK g : ItemsRun(EmptySheet, items, n, g)
  BY ItemsRunExists
<1>3. \A k \in 1 .. n : \A s : TakeItem(s, items[k]) = RuleSummed(s, rules[k])
  BY DEF TakeItem
<1>4. \A k \in 0 .. n : k # 0 => k \in 1 .. n
  OBVIOUS
<1> HIDE DEF items
<1>5. [k \in 0 .. n |-> IF k = 0 THEN EmptySheet ELSE TakeItem(g[k - 1], items[k])]
        = [k \in 0 .. n |-> IF k = 0 THEN EmptySheet ELSE RuleSummed(g[k - 1], rules[k])]
  BY <1>3, <1>4
<1>6. RulesSummedBy(rules, g)
  BY <1>2, <1>5 DEF ItemsRun, RulesSummedBy
<1>7. RulesSummedBy(rules, f)
  BY <1>6 DEF f
<1> QED
  BY <1>1, <1>7

LEMMA MutationsAreApplied ==
  ASSUME NEW engine, NEW mutations, Len(mutations) \in Nat
  PROVE  \E f : MutationsAppliedBy(engine, mutations, f) /\ ApplyMutations(engine, mutations) = f[Len(mutations)]
<1> DEFINE n == Len(mutations)
           items == [k \in 1 .. n |-> [what |-> "mutation", of |-> mutations[k]]]
           f == CHOOSE g : MutationsAppliedBy(engine, mutations, g)
<1>1. ApplyMutations(engine, mutations) = f[n]
  BY DEF ApplyMutations, MutationsAppliedBy
<1> HIDE DEF f
<1>2. PICK g : ItemsRun(engine, items, n, g)
  BY ItemsRunExists
<1>3. \A k \in 1 .. n : \A s : TakeItem(s, items[k]) = ApplyMutation(s, mutations[k])
  BY DEF TakeItem
<1>4. \A k \in 0 .. n : k # 0 => k \in 1 .. n
  OBVIOUS
<1> HIDE DEF items
<1>5. [k \in 0 .. n |-> IF k = 0 THEN engine ELSE TakeItem(g[k - 1], items[k])]
        = [k \in 0 .. n |-> IF k = 0 THEN engine ELSE ApplyMutation(g[k - 1], mutations[k])]
  BY <1>3, <1>4
<1>6. MutationsAppliedBy(engine, mutations, g)
  BY <1>2, <1>5 DEF ItemsRun, MutationsAppliedBy
<1>7. MutationsAppliedBy(engine, mutations, f)
  BY <1>6 DEF f
<1> QED
  BY <1>1, <1>7

\* Sheets of one layout.
IsSheet(sheet) == sheet = [k \in DOMAIN sheet |-> sheet[k]]
Alike(one, other) ==
  /\ IsSheet(one) /\ IsSheet(other)
  /\ LayoutKeys(one) = LayoutKeys(other)
  /\ \A k \in LayoutKeys(one) : one[k] = other[k]

\* F goes through a list, G through the items of it at the places: where F does
\* not change the layout at the others, both end alike.
Aligned(F, G, n, m, places) ==
  /\ n \in Nat /\ m \in Nat /\ places \in [1 .. m -> 1 .. n]
  /\ \A a, b \in 1 .. m : a < b => places[a] < places[b]
  /\ Alike(F[0], G[0])
  /\ \A i \in 1 .. n : (\A a \in 1 .. m : places[a] # i) => \A t : Alike(F[i - 1], t) => Alike(F[i], t)
  /\ \A a \in 1 .. m : Alike(F[places[a] - 1], G[a - 1]) => Alike(F[places[a]], G[a])

LEMMA RunsEndAlike ==
  ASSUME NEW F, NEW G, NEW n, NEW m, NEW places, Aligned(F, G, n, m, places)
  PROVE  Alike(F[n], G[m])
<1> DEFINE Cut(i, j) == (\A a \in 1 .. j : places[a] <= i) /\ (\A a \in j + 1 .. m : places[a] > i)
           Good(i) == \A j \in 0 .. m : Cut(i, j) => Alike(F[i], G[j])
           S == {i \in 0 .. n : Good(i)}
           start == 0
<1>1. n \in Nat /\ m \in Nat /\ \A a \in 1 .. m : places[a] \in 1 .. n
  BY DEF Aligned
<1>2. start \in S
  <2>1. ASSUME NEW j \in 0 .. m, Cut(start, j)
        PROVE  Alike(F[start], G[j])
    <3>1. j = 0
      <4>1. ASSUME j # 0 PROVE FALSE
        BY <1>1, <2>1, <4>1
      <4> QED
        BY <4>1
    <3> QED
      BY <3>1 DEF Aligned
  <2> QED
    BY <1>1, <2>1
<1>3. ASSUME NEW k \in start .. n - 1, k \in S
      PROVE  k + 1 \in S
  <2> DEFINE i == k + 1
  <2>1. i \in 1 .. n /\ i \in 0 .. n /\ i - 1 = k /\ k \in Int /\ k < i
    BY <1>1
  <2>2. \A x \in 1 .. n : x # i => (x <= k <=> x <= i)
    BY <1>1
  <2> HIDE DEF i
  <2>3. ASSUME NEW j \in 0 .. m, Cut(i, j)
        PROVE  Alike(F[i], G[j])
    <3>1. CASE \A a \in 1 .. m : places[a] # i
      <4>1. (\A a \in 1 .. j : a \in 1 .. m) /\ (\A a \in j + 1 .. m : a \in 1 .. m)
        BY <1>1
      <4>2. Cut(k, j)
        BY <1>1, <2>1, <2>2, <2>3, <3>1, <4>1
      <4>3. Alike(F[k], G[j])
        BY <1>3, <4>2
      <4> QED
        BY <2>1, <3>1, <4>3 DEF Aligned
    <3>2. ASSUME NEW a \in 1 .. m, places[a] = i
          PROVE  Alike(F[i], G[j])
      <4>1. \A b, c \in 1 .. m : b < c => places[b] < places[c]
        BY DEF Aligned
      <4>2. a <= j
        BY <1>1, <2>1, <2>3, <3>2
      <4>3. j \in 1 .. m
        BY <1>1, <4>2
      <4>4. a = j
        <5>1. ASSUME a < j PROVE FALSE
          BY <1>1, <2>1, <2>3, <3>2, <4>1, <4>3, <5>1
        <5> QED
          BY <1>1, <4>2, <5>1
      <4>5. Cut(k, j - 1)
        <5>1. \A b \in 1 .. j - 1 : places[b] <= k
          <6>1. ASSUME NEW b \in 1 .. j - 1 PROVE places[b] <= k
            BY <1>1, <2>1, <3>2, <4>1, <4>3, <4>4
          <6> QED
            BY <6>1
        <5>2. \A b \in (j - 1) + 1 .. m : places[b] > k
          <6>1. ASSUME NEW b \in (j - 1) + 1 .. m PROVE places[b] > k
            BY <1>1, <2>1, <2>3, <3>2, <4>3, <4>4
          <6> QED
            BY <6>1
        <5> QED
          BY <5>1, <5>2
      <4>6. j - 1 \in 0 .. m
        BY <1>1, <4>3
      <4>7. Alike(F[k], G[j - 1])
        BY <1>3, <4>5, <4>6
      <4> QED
        BY <2>1, <3>2, <4>3, <4>4, <4>7 DEF Aligned
    <3> QED
      BY <3>1, <3>2
  <2> QED
    BY <2>1, <2>3 DEF i
<1>4. start \in Nat /\ n \in start .. n
  BY <1>1
<1> HIDE DEF S, start
<1>5. start .. n \subseteq S
  BY <1>1, <1>2, <1>3, <1>4, CountingUp
<1>6. Good(n)
  BY <1>4, <1>5 DEF S
<1>7. Cut(n, m)
  BY <1>1
<1>8. m \in 0 .. m
  BY <1>1
<1> HIDE DEF Cut
<1> QED
  BY <1>6, <1>7, <1>8

LayoutSlots == {"margin", "padding", "border-width", "display", "font-size"}

LEMMA AlikeItself ==
  ASSUME NEW one, NEW other, Alike(one, other)
  PROVE  Alike(one, one) /\ Alike(other, other) /\ Alike(other, one)
BY DEF Alike

LEMMA AlikeChains ==
  ASSUME NEW one, NEW other, NEW third, Alike(one, other), Alike(other, third)
  PROVE  Alike(one, third)
BY DEF Alike

LEMMA HeldAlike ==
  ASSUME NEW one, NEW other, Alike(one, other), NEW key, key[2] \in LayoutSlots
  PROVE  Held(one, key) = Held(other, key)
<1>1. key \in DOMAIN one <=> key \in LayoutKeys(one)
  BY DEF LayoutKeys, LayoutSlots
<1>2. key \in DOMAIN other <=> key \in LayoutKeys(other)
  BY DEF LayoutKeys, LayoutSlots
<1>3. LayoutKeys(one) = LayoutKeys(other) /\ (key \in LayoutKeys(one) => one[key] = other[key])
  BY DEF Alike
<1> QED
  BY <1>1, <1>2, <1>3 DEF Held

LEMMA SetsKeepAlike ==
  ASSUME NEW one, NEW other, Alike(one, other), NEW sets
  PROVE  Alike(SheetAfter(one, sets), SheetAfter(other, sets))
<1> DEFINE more == {sets[i][1] : i \in DOMAIN sets}
           Set(k) == sets[CHOOSE i \in Given(sets, k) : TRUE][2]
           a == SheetAfter(one, sets)
           b == SheetAfter(other, sets)
<1>1. /\ a = [k \in DOMAIN one \cup more |-> IF Given(sets, k) = {} THEN one[k] ELSE Set(k)]
      /\ b = [k \in DOMAIN other \cup more |-> IF Given(sets, k) = {} THEN other[k] ELSE Set(k)]
  BY DEF SheetAfter
<1> HIDE DEF a, b, Set
<1>2. \A k : k \in more <=> Given(sets, k) # {}
  BY DEF Given
<1> HIDE DEF more
<1>3. /\ DOMAIN a = DOMAIN one \cup more /\ DOMAIN b = DOMAIN other \cup more
      /\ \A k \in DOMAIN a : a[k] = IF Given(sets, k) = {} THEN one[k] ELSE Set(k)
      /\ \A k \in DOMAIN b : b[k] = IF Given(sets, k) = {} THEN other[k] ELSE Set(k)
  BY <1>1
<1>4. IsSheet(a) /\ IsSheet(b)
  BY <1>1 DEF IsSheet
<1>5. \A k : k[2] \in LayoutSlots =>
        /\ k \in DOMAIN one <=> k \in DOMAIN other
        /\ k \in DOMAIN one => one[k] = other[k]
  BY DEF Alike, LayoutKeys, LayoutSlots
<1>6. \A k : k[2] \in LayoutSlots =>
        /\ k \in DOMAIN a <=> k \in DOMAIN b
        /\ k \in DOMAIN a => a[k] = b[k]
  BY <1>2, <1>3, <1>5
<1>7. LayoutKeys(a) = LayoutKeys(b) /\ \A k \in LayoutKeys(a) : a[k] = b[k]
  BY <1>6 DEF LayoutKeys, LayoutSlots
<1> QED
  BY <1>4, <1>7 DEF Alike, a, b

LEMMA SetsAside ==
  ASSUME NEW sheet, IsSheet(sheet), NEW sets, \A i \in DOMAIN sets : sets[i][1][2] \notin LayoutSlots
  PROVE  Alike(SheetAfter(sheet, sets), sheet)
<1> DEFINE more == {sets[i][1] : i \in DOMAIN sets}
           Set(k) == sets[CHOOSE i \in Given(sets, k) : TRUE][2]
           a == SheetAfter(sheet, sets)
<1>1. a = [k \in DOMAIN sheet \cup more |-> IF Given(sets, k) = {} THEN sheet[k] ELSE Set(k)]
  BY DEF SheetAfter
<1> HIDE DEF a, Set
<1>2. \A k : k[2] \in LayoutSlots => k \notin more /\ Given(sets, k) = {}
  BY DEF Given
<1> HIDE DEF more
<1>3. DOMAIN a = DOMAIN sheet \cup more /\ \A k \in DOMAIN a : a[k] = IF Given(sets, k) = {} THEN sheet[k] ELSE Set(k)
  BY <1>1
<1>4. IsSheet(a)
  BY <1>1 DEF IsSheet
<1>5. \A k : k[2] \in LayoutSlots =>
        /\ k \in DOMAIN a <=> k \in DOMAIN sheet
        /\ k \in DOMAIN a => a[k] = sheet[k]
  BY <1>2, <1>3
<1>6. LayoutKeys(a) = LayoutKeys(sheet) /\ \A k \in LayoutKeys(a) : a[k] = sheet[k]
  BY <1>5 DEF LayoutKeys, LayoutSlots
<1> QED
  BY <1>4, <1>6 DEF Alike, a

\* What a declaration leaves alone of what the layout is made of.
LEMMA DeclarationKeepsAlike ==
  ASSUME NEW one, NEW other, Alike(one, other), NEW tag, NEW d
  PROVE  Alike(DeclarationSummed(one, tag, d), DeclarationSummed(other, tag, d))
<1> DEFINE Box(sheet) == BoxSets(d, [slot \in EdgeSlots |-> Held(sheet, <<tag, slot>>)])
           Keyed(box) == [i \in DOMAIN box |-> << <<tag, box[i][1]>>, box[i][2]>>]
           text == TextSets(tag, d)
<1>1. EdgeSlots = {"margin", "padding"}
  BY DEF EdgeSlots, Longhands
<1>2. \A slot \in EdgeSlots : Held(one, <<tag, slot>>) = Held(other, <<tag, slot>>)
  <2>1. ASSUME NEW slot \in EdgeSlots PROVE Held(one, <<tag, slot>>) = Held(other, <<tag, slot>>)
    <3> DEFINE key == <<tag, slot>>
    <3>1. key[2] \in LayoutSlots
      BY <1>1 DEF LayoutSlots
    <3> HIDE DEF key
    <3>2. Held(one, key) = Held(other, key)
      BY <3>1, HeldAlike
    <3> QED
      BY <3>2 DEF key
  <2> QED
    BY <2>1
<1>3. Box(one) = Box(other)
  BY <1>2
<1>4. /\ DeclarationSummed(one, tag, d) = SheetAfter(SheetAfter(one, text), Keyed(Box(one)))
      /\ DeclarationSummed(other, tag, d) = SheetAfter(SheetAfter(other, text), Keyed(Box(other)))
  BY DEF DeclarationSummed
<1> HIDE DEF Box, Keyed, text
<1>5. Alike(SheetAfter(one, text), SheetAfter(other, text))
  BY SetsKeepAlike
<1>6. Alike(SheetAfter(SheetAfter(one, text), Keyed(Box(one))), SheetAfter(SheetAfter(other, text), Keyed(Box(one))))
  BY <1>5, SetsKeepAlike
<1> QED
  BY <1>3, <1>4, <1>6

LEMMA PairFacts ==
  ASSUME NEW slot, NEW parsed, NEW i \in DOMAIN Pair(slot, parsed)
  PROVE  Pair(slot, parsed)[i][1] = slot
<1>1. CASE parsed = <<>>
  BY <1>1 DEF Pair
<1>2. CASE parsed # <<>>
  BY <1>2 DEF Pair
<1> QED
  BY <1>1, <1>2

LEMMA DeclarationAside ==
  ASSUME NEW sheet, IsSheet(sheet), NEW tag, NEW d, ~LayoutAffecting(d.property)
  PROVE  Alike(DeclarationSummed(sheet, tag, d), sheet)
<1> DEFINE held == [slot \in EdgeSlots |-> Held(sheet, <<tag, slot>>)]
           box == BoxSets(d, held)
           keyed == [i \in DOMAIN box |-> << <<tag, box[i][1]>>, box[i][2]>>]
           text == TextSets(tag, d)
<1>1. DeclarationSummed(sheet, tag, d) = SheetAfter(SheetAfter(sheet, text), keyed)
  BY DEF DeclarationSummed
<1>2. d.property \notin LayoutProperties
  BY DEF LayoutAffecting
<1>3. \A i \in DOMAIN text : text[i][1][2] \notin LayoutSlots
  <2>1. text = <<>> \/ text = Pair(<<tag, "color">>, ParseColor(d.value))
    BY <1>2 DEF TextSets, LayoutProperties
  <2>2. CASE text = <<>>
    BY <2>2
  <2>3. CASE text = Pair(<<tag, "color">>, ParseColor(d.value))
    <3>1. ASSUME NEW i \in DOMAIN text PROVE text[i][1] = <<tag, "color">>
      <4> HIDE DEF text
      <4> QED
        BY <2>3, <3>1, PairFacts
    <3> HIDE DEF text
    <3> QED
      BY <3>1 DEF LayoutSlots
  <2> QED
    BY <2>1, <2>2, <2>3
<1>4. \A i \in DOMAIN box : box[i][1] \in {"background", "border-color"}
  <2>1. \/ box = <<>>
        \/ \E slot \in {"background", "border-color"} : box = Pair(slot, ParseColor(d.value))
    <3>1. ~\E s \in EdgeSlots : IsSideOf(d.property, s)
      BY <1>2 DEF IsSideOf, EdgeSlots, Longhands, Sides, LayoutProperties
    <3>2. d.property \notin EdgeSlots /\ d.property \notin {"display", "border", "border-width"}
      BY <1>2 DEF LayoutProperties, EdgeSlots, Longhands
    <3> HIDE DEF held
    <3> QED
      BY <3>1, <3>2 DEF BoxSets
  <2>2. CASE box = <<>>
    <3> HIDE DEF box
    <3> QED
      BY <2>2
  <2>3. ASSUME NEW slot \in {"background", "border-color"}, box = Pair(slot, ParseColor(d.value)), NEW i \in DOMAIN box
        PROVE  box[i][1] = slot
    <3> HIDE DEF box
    <3> QED
      BY <2>3, PairFacts
  <2> HIDE DEF box
  <2> QED
    BY <2>1, <2>2, <2>3
<1> HIDE DEF box, text
<1>5. \A i \in DOMAIN keyed : keyed[i][1][2] \notin LayoutSlots
  <2>1. DOMAIN keyed = DOMAIN box /\ \A i \in DOMAIN box : keyed[i] = << <<tag, box[i][1]>>, box[i][2]>>
    OBVIOUS
  <2>2. \A i \in DOMAIN box : keyed[i][1][2] = box[i][1]
    BY <2>1
  <2> HIDE DEF keyed
  <2> QED
    BY <1>4, <2>1, <2>2 DEF LayoutSlots
<1> HIDE DEF keyed
<1>6. Alike(SheetAfter(sheet, text), sheet)
  BY <1>3, SetsAside
<1>7. Alike(SheetAfter(SheetAfter(sheet, text), keyed), SheetAfter(sheet, text))
  BY <1>5, <1>6, SetsAside DEF Alike
<1> QED
  BY <1>1, <1>6, <1>7, AlikeChains

\* The second list has the items of the first at the places; the others do not
\* affect the layout.
Thinned(all, left, places) ==
  /\ Rise(places, Len(all), Len(left))
  /\ \A a \in 1 .. Len(left) : left[a] = all[places[a]]
  /\ \A i \in 1 .. Len(all) : (\A a \in 1 .. Len(left) : places[a] # i) => ~LayoutAffecting(all[i].property)

LEMMA TagKeepsAlike ==
  ASSUME NEW one, NEW other, Alike(one, other), NEW tag, NEW all, NEW left, NEW places, Thinned(all, left, places)
  PROVE  Alike(ApplyToTag(one, tag, all), ApplyToTag(other, tag, left))
<1>1. CASE tag \notin SummaryTags
  BY <1>1 DEF ApplyToTag
<1>2. CASE tag \in SummaryTags
  <2> DEFINE n == Len(all)
             m == Len(left)
  <2>1. n \in Nat /\ m \in Nat /\ Rise(places, n, m)
    BY DEF Thinned, Rise
  <2>2. PICK F : DeclarationsSummedBy(one, tag, all, F) /\ ApplyToTag(one, tag, all) = F[n]
    BY <1>2, <2>1, DeclarationsAreSummed
  <2>3. PICK G : DeclarationsSummedBy(other, tag, left, G) /\ ApplyToTag(other, tag, left) = G[m]
    BY <1>2, <2>1, DeclarationsAreSummed
  <2>4. F[0] = one /\ \A i \in 1 .. n : F[i] = DeclarationSummed(F[i - 1], tag, all[i])
    BY <2>1, <2>2 DEF DeclarationsSummedBy
  <2>5. G[0] = other /\ \A i \in 1 .. m : G[i] = DeclarationSummed(G[i - 1], tag, left[i])
    BY <2>1, <2>3 DEF DeclarationsSummedBy
  <2>6. ASSUME NEW i \in 1 .. n, \A a \in 1 .. m : places[a] # i, NEW t, Alike(F[i - 1], t)
        PROVE  Alike(F[i], t)
    <3>1. ~LayoutAffecting(all[i].property)
      BY <2>6 DEF Thinned
    <3>2. Alike(F[i], F[i - 1])
      BY <2>4, <2>6, <3>1, DeclarationAside DEF Alike
    <3> QED
      BY <2>6, <3>2, AlikeChains
  <2>7. ASSUME NEW a \in 1 .. m, Alike(F[places[a] - 1], G[a - 1])
        PROVE  Alike(F[places[a]], G[a])
    <3>1. places[a] \in 1 .. n
      BY <2>1 DEF Rise
    <3>2. left[a] = all[places[a]]
      BY DEF Thinned
    <3> QED
      BY <2>4, <2>5, <2>7, <3>1, <3>2, DeclarationKeepsAlike
  <2> HIDE DEF n, m
  <2>8. Aligned(F, G, n, m, places)
    BY <2>1, <2>4, <2>5, <2>6, <2>7 DEF Aligned, Rise
  <2> QED
    BY <2>2, <2>3, <2>8, RunsEndAlike
<1> QED
  BY <1>1, <1>2

LEMMA NothingSummed ==
  ASSUME NEW sheet, NEW tag, NEW declarations, Len(declarations) = 0
  PROVE  ApplyToTag(sheet, tag, declarations) = sheet
<1>1. CASE tag \notin SummaryTags
  BY <1>1 DEF ApplyToTag
<1>2. CASE tag \in SummaryTags
  <2>1. PICK F : DeclarationsSummedBy(sheet, tag, declarations, F) /\ ApplyToTag(sheet, tag, declarations) = F[Len(declarations)]
    BY <1>2, DeclarationsAreSummed
  <2>2. F[0] = sheet
    BY <2>1 DEF DeclarationsSummedBy
  <2> QED
    BY <2>1, <2>2
<1> QED
  BY <1>1, <1>2

Aside(declarations) == Len(declarations) \in Nat /\ \A i \in 1 .. Len(declarations) : ~LayoutAffecting(declarations[i].property)

LEMMA NothingRises ==
  ASSUME NEW n \in Nat
  PROVE  \E places : Rise(places, n, 0)
<1> DEFINE none == [a \in 1 .. 0 |-> 0]
<1>1. Rise(none, n, 0)
  BY DEF Rise
<1> QED
  BY <1>1

LEMMA TagAside ==
  ASSUME NEW one, NEW other, Alike(one, other), NEW tag, NEW declarations, Aside(declarations)
  PROVE  Alike(ApplyToTag(one, tag, declarations), other)
<1>1. PICK places : Rise(places, Len(declarations), 0)
  BY NothingRises DEF Aside
<1>2. Len(<<>>) = 0
  BY EmptyList
<1>3. Thinned(declarations, <<>>, places)
  BY <1>1, <1>2 DEF Thinned, Aside
<1>4. Alike(ApplyToTag(one, tag, declarations), ApplyToTag(other, tag, <<>>))
  BY <1>3, TagKeepsAlike
<1> QED
  BY <1>2, <1>4, NothingSummed

\* The same rule but for declarations that do not affect the layout.
ThinnedRule(rule, left) ==
  /\ Len(rule.selectors) \in Nat /\ left.selectors = rule.selectors
  /\ \E places : Thinned(rule.declarations, left.declarations, places)

LEMMA RuleKeepsAlike ==
  ASSUME NEW one, NEW other, Alike(one, other), NEW rule, NEW left, ThinnedRule(rule, left)
  PROVE  Alike(RuleSummed(one, rule), RuleSummed(other, left))
<1> DEFINE n == Len(rule.selectors)
           TagAt(k) == BoxTag(SimpleTag(ParseSelector(rule.selectors[k])))
           places == [k \in 1 .. n |-> k]
<1>1. n \in Nat /\ Len(left.selectors) = n /\ left.selectors = rule.selectors
  BY DEF ThinnedRule
<1>2. PICK thin : Thinned(rule.declarations, left.declarations, thin)
  BY DEF ThinnedRule
<1>3. PICK F : SelectorsSummedBy(one, rule, F) /\ RuleSummed(one, rule) = F[n]
  BY <1>1, SelectorsAreSummed
<1>4. PICK G : SelectorsSummedBy(other, left, G) /\ RuleSummed(other, left) = G[n]
  BY <1>1, SelectorsAreSummed
<1>5. 0 \in 0 .. n /\ \A i \in 1 .. n : i \in 0 .. n /\ i # 0
  BY <1>1
<1>6. F[0] = one /\ \A i \in 1 .. n : F[i] = ApplyToTag(F[i - 1], TagAt(i), rule.declarations)
  BY <1>3, <1>5 DEF SelectorsSummedBy
<1>7. G[0] = other /\ \A i \in 1 .. n : G[i] = ApplyToTag(G[i - 1], TagAt(i), left.declarations)
  BY <1>1, <1>4, <1>5 DEF SelectorsSummedBy
<1> HIDE DEF TagAt, n
<1>8. ASSUME NEW i \in 1 .. n, Alike(F[i - 1], G[i - 1])
      PROVE  Alike(F[i], G[i])
  BY <1>2, <1>6, <1>7, <1>8, TagKeepsAlike
<1>9. Aligned(F, G, n, n, places)
  <2>1. places \in [1 .. n -> 1 .. n] /\ \A i \in 1 .. n : places[i] = i
    OBVIOUS
  <2> HIDE DEF places
  <2>2. \A i \in 1 .. n : ~(\A a \in 1 .. n : places[a] # i)
    BY <2>1
  <2>3. \A a, b \in 1 .. n : a < b => places[a] < places[b]
    BY <2>1
  <2> QED
    BY <1>1, <1>6, <1>7, <1>8, <2>1, <2>2, <2>3 DEF Aligned
<1> QED
  BY <1>3, <1>4, <1>9, RunsEndAlike

LEMMA RuleAside ==
  ASSUME NEW one, NEW other, Alike(one, other), NEW rule, Len(rule.selectors) \in Nat, Aside(rule.declarations)
  PROVE  Alike(RuleSummed(one, rule), other)
<1> DEFINE n == Len(rule.selectors)
           TagAt(k) == BoxTag(SimpleTag(ParseSelector(rule.selectors[k])))
           G == [k \in 0 .. 0 |-> other]
<1>1. PICK places : Rise(places, n, 0)
  BY NothingRises
<1>2. PICK F : SelectorsSummedBy(one, rule, F) /\ RuleSummed(one, rule) = F[n]
  BY SelectorsAreSummed
<1>3. n \in Nat /\ 0 \in 0 .. n /\ \A i \in 1 .. n : i \in 0 .. n /\ i # 0
  OBVIOUS
<1>4. F[0] = one /\ \A i \in 1 .. n : F[i] = ApplyToTag(F[i - 1], TagAt(i), rule.declarations)
  BY <1>2, <1>3 DEF SelectorsSummedBy
<1>5. G[0] = other
  OBVIOUS
<1> HIDE DEF TagAt, n, G
<1>6. ASSUME NEW i \in 1 .. n, NEW t, Alike(F[i - 1], t)
      PROVE  Alike(F[i], t)
  BY <1>4, <1>6, TagAside
<1>7. Aligned(F, G, n, 0, places)
  BY <1>1, <1>3, <1>4, <1>5, <1>6 DEF Aligned, Rise
<1> QED
  BY <1>2, <1>5, <1>7, RunsEndAlike

\* The same rules but for declarations that do not affect the layout.
ThinnedRules(rules, left, places) ==
  /\ Rise(places, Len(rules), Len(left))
  /\ \A a \in 1 .. Len(left) : ThinnedRule(rules[places[a]], left[a])
  /\ \A i \in 1 .. Len(rules) : (\A a \in 1 .. Len(left) : places[a] # i) =>
       Len(rules[i].selectors) \in Nat /\ Aside(rules[i].declarations)

LEMMA RulesKeepAlike ==
  ASSUME NEW rules, NEW left, NEW places, ThinnedRules(rules, left, places)
  PROVE  Alike(ParseCssLite(rules), ParseCssLite(left))
<1> DEFINE n == Len(rules)
           m == Len(left)
<1>1. n \in Nat /\ m \in Nat /\ Rise(places, n, m)
  BY DEF ThinnedRules, Rise
<1>2. PICK F : RulesSummedBy(rules, F) /\ ParseCssLite(rules) = F[n]
  BY <1>1, RulesAreSummed
<1>3. PICK G : RulesSummedBy(left, G) /\ ParseCssLite(left) = G[m]
  BY <1>1, RulesAreSummed
<1>4. F[0] = EmptySheet /\ \A i \in 1 .. n : F[i] = RuleSummed(F[i - 1], rules[i])
  BY <1>1, <1>2 DEF RulesSummedBy
<1>5. G[0] = EmptySheet /\ \A i \in 1 .. m : G[i] = RuleSummed(G[i - 1], left[i])
  BY <1>1, <1>3 DEF RulesSummedBy
<1>6. Alike(EmptySheet, EmptySheet)
  BY DEF Alike, IsSheet, EmptySheet
<1>7. ASSUME NEW i \in 1 .. n, \A a \in 1 .. m : places[a] # i, NEW t, Alike(F[i - 1], t)
      PROVE  Alike(F[i], t)
  BY <1>4, <1>7, RuleAside DEF ThinnedRules
<1>8. ASSUME NEW a \in 1 .. m, Alike(F[places[a] - 1], G[a - 1])
      PROVE  Alike(F[places[a]], G[a])
  <2>1. places[a] \in 1 .. n
    BY <1>1 DEF Rise
  <2> QED
    BY <1>4, <1>5, <1>8, <2>1, RuleKeepsAlike DEF ThinnedRules
<1> HIDE DEF n, m
<1>9. Aligned(F, G, n, m, places)
  BY <1>1, <1>4, <1>5, <1>6, <1>7, <1>8 DEF Aligned, Rise
<1> QED
  BY <1>2, <1>3, <1>9, RunsEndAlike

\* The rules the engine keeps for inline styles.
IsWritable(d) == d = [property |-> d.property, value |-> d.value, important |-> d.important]
InlineRule(rule) ==
  /\ rule = [selectors |-> rule.selectors, declarations |-> rule.declarations]
  /\ IsList(rule.selectors) /\ IsList(rule.declarations)
  /\ \A i \in 1 .. Len(rule.declarations) : IsWritable(rule.declarations[i])
InlineRules(rules) == IsList(rules) /\ \A i \in 1 .. Len(rules) : InlineRule(rules[i])

LEMMA WrittenFacts ==
  ASSUME NEW rule, InlineRule(rule)
  PROVE  LET written == WrittenRule(rule) IN
         /\ written.selectors = rule.selectors
         /\ Len(written.declarations) = Len(rule.declarations)
         /\ \A i \in 1 .. Len(rule.declarations) : written.declarations[i] = WrittenDeclaration(rule.declarations[i])
         /\ \A i \in 1 .. Len(rule.declarations) : written.declarations[i].property = rule.declarations[i].property
<1> DEFINE s == rule.selectors
           ds == rule.declarations
           list == [i \in 1..Len(ds) |-> WrittenDeclaration(ds[i])]
<1>1. rule = [selectors |-> s, declarations |-> ds]
  BY DEF InlineRule
<1>2. WrittenRule(rule) = [rule EXCEPT !.declarations = list]
  BY DEF WrittenRule
<1>3. Len(ds) \in Nat /\ \A i \in 1 .. Len(ds) : IsWritable(ds[i])
  BY ListFacts DEF InlineRule
<1> HIDE DEF s, ds
<1>4. Len(list) = Len(ds) /\ \A i \in 1 .. Len(ds) : list[i] = WrittenDeclaration(ds[i])
  BY <1>3
<1>5. \A i \in 1 .. Len(ds) : WrittenDeclaration(ds[i]).property = ds[i].property
  BY <1>3 DEF IsWritable, WrittenDeclaration
<1> HIDE DEF list
<1>6. WrittenRule(rule).selectors = s /\ WrittenRule(rule).declarations = list
  BY <1>1, <1>2
<1> QED
  BY <1>4, <1>5, <1>6 DEF s, ds

LEMMA WrittenThin ==
  ASSUME NEW rule, InlineRule(rule), NEW left, InlineRule(left), ThinnedRule(rule, left)
  PROVE  ThinnedRule(WrittenRule(rule), WrittenRule(left))
<1>1. PICK places : Thinned(rule.declarations, left.declarations, places)
  BY DEF ThinnedRule
<1> DEFINE n == Len(rule.declarations)
           m == Len(left.declarations)
           all == WrittenRule(rule).declarations
           some == WrittenRule(left).declarations
<1>2. /\ Len(all) = n /\ Len(some) = m
      /\ \A i \in 1 .. n : all[i] = WrittenDeclaration(rule.declarations[i]) /\ all[i].property = rule.declarations[i].property
      /\ \A i \in 1 .. m : some[i] = WrittenDeclaration(left.declarations[i])
      /\ WrittenRule(rule).selectors = rule.selectors /\ WrittenRule(left).selectors = left.selectors
  BY WrittenFacts
<1>3. Rise(places, n, m)
  BY <1>1 DEF Thinned
<1>4. \A a \in 1 .. m : some[a] = all[places[a]]
  BY <1>1, <1>2, <1>3 DEF Thinned, Rise
<1>5. \A i \in 1 .. n : (\A a \in 1 .. m : places[a] # i) => ~LayoutAffecting(all[i].property)
  BY <1>1, <1>2 DEF Thinned
<1> HIDE DEF n, m, all, some
<1>6. Thinned(all, some, places)
  BY <1>2, <1>3, <1>4, <1>5 DEF Thinned
<1> QED
  BY <1>2, <1>6 DEF ThinnedRule, all, some

LEMMA InlineKeepsAlike ==
  ASSUME NEW rules, InlineRules(rules), NEW left, InlineRules(left), NEW places, ThinnedRules(rules, left, places)
  PROVE  Alike(ToStyleSheetLite(rules), ToStyleSheetLite(left))
<1> DEFINE n == Len(rules)
           m == Len(left)
           all == [i \in 1 .. n |-> WrittenRule(rules[i])]
           some == [i \in 1 .. m |-> WrittenRule(left[i])]
<1>1. n \in Nat /\ m \in Nat
  BY ListFacts DEF InlineRules
<1>2. ToStyleSheetLite(rules) = ParseCssLite(all) /\ ToStyleSheetLite(left) = ParseCssLite(some)
  BY DEF ToStyleSheetLite
<1>3. (\A i \in 1 .. n : InlineRule(rules[i])) /\ (\A i \in 1 .. m : InlineRule(left[i]))
  BY DEF InlineRules
<1>4. /\ Rise(places, n, m)
      /\ \A a \in 1 .. m : places[a] \in 1 .. n /\ ThinnedRule(rules[places[a]], left[a])
      /\ \A i \in 1 .. n : (\A a \in 1 .. m : places[a] # i) => Len(rules[i].selectors) \in Nat /\ Aside(rules[i].declarations)
  BY DEF ThinnedRules, Rise
<1> HIDE DEF n, m
<1>5. Len(all) = n /\ \A i \in 1 .. n : all[i] = WrittenRule(rules[i])
  BY <1>1
<1>6. Len(some) = m /\ \A i \in 1 .. m : some[i] = WrittenRule(left[i])
  BY <1>1
<1> HIDE DEF all, some
<1>7. \A a \in 1 .. m : ThinnedRule(all[places[a]], some[a])
  BY <1>3, <1>4, <1>5, <1>6, WrittenThin
<1>8. ASSUME NEW i \in 1 .. n, \A a \in 1 .. m : places[a] # i
      PROVE  Len(all[i].selectors) \in Nat /\ Aside(all[i].declarations)
  <2>1. Len(rules[i].selectors) \in Nat /\ Aside(rules[i].declarations)
    BY <1>4, <1>8
  <2> DEFINE w == WrittenRule(rules[i])
  <2>2. /\ w.selectors = rules[i].selectors /\ Len(w.declarations) = Len(rules[i].declarations)
        /\ \A j \in 1 .. Len(rules[i].declarations) : w.declarations[j].property = rules[i].declarations[j].property
    BY <1>3, WrittenFacts
  <2> HIDE DEF w
  <2>3. Aside(w.declarations)
    BY <2>1, <2>2 DEF Aside
  <2>4. all[i] = w
    BY <1>5 DEF w
  <2> QED
    BY <2>1, <2>2, <2>3, <2>4
<1>9. ThinnedRules(all, some, places)
  BY <1>4, <1>5, <1>6, <1>7, <1>8 DEF ThinnedRules
<1> QED
  BY <1>2, <1>9, RulesKeepAlike

LEMMA RiseByOne ==
  ASSUME NEW n \in Nat, NEW m \in 0 .. n
  PROVE  Rise([a \in 1 .. m |-> a], n, m)
BY DEF Rise

LEMMA ThinnedToItself ==
  ASSUME NEW rule, Len(rule.selectors) \in Nat, Len(rule.declarations) \in Nat
  PROVE  ThinnedRule(rule, rule)
<1> DEFINE n == Len(rule.declarations)
           places == [a \in 1 .. n |-> a]
<1>1. n \in Nat /\ n \in 0 .. n
  OBVIOUS
<1> HIDE DEF n
<1>2. Rise(places, n, n)
  BY <1>1, RiseByOne
<1>3. \A a \in 1 .. n : places[a] = a
  OBVIOUS
<1> HIDE DEF places
<1>4. Thinned(rule.declarations, rule.declarations, places)
  BY <1>2, <1>3 DEF Thinned, n
<1> QED
  BY <1>4 DEF ThinnedRule

\* The engine's rules for inline styles are lists.
EngineOK(engine) ==
  /\ engine = [sheets |-> engine.sheets, dynamic |-> engine.dynamic, inline |-> engine.inline, classes |-> engine.classes]
  /\ InlineRules(engine.inline)

\* What a mutation of a property that does not affect the layout leaves alone.
LaidOutAs(engine, before) ==
  /\ engine.sheets = before.sheets /\ engine.dynamic = before.dynamic
  /\ Alike(ToStyleSheetLite(engine.inline), ToStyleSheetLite(before.inline))

LEMMA RulesAreLikeThemselves ==
  ASSUME NEW rules, InlineRules(rules)
  PROVE  Alike(ToStyleSheetLite(rules), ToStyleSheetLite(rules))
<1> DEFINE n == Len(rules)
           places == [a \in 1 .. n |-> a]
<1>1. n \in Nat /\ n \in 0 .. n
  BY ListFacts DEF InlineRules
<1>2. \A i \in 1 .. n : ThinnedRule(rules[i], rules[i])
  BY ThinnedToItself, ListFacts DEF InlineRules, InlineRule
<1> HIDE DEF n
<1>3. Rise(places, n, n)
  BY <1>1, RiseByOne
<1>4. \A a \in 1 .. n : places[a] = a
  OBVIOUS
<1> HIDE DEF places
<1>5. ThinnedRules(rules, rules, places)
  BY <1>2, <1>3, <1>4 DEF ThinnedRules, n
<1> QED
  BY <1>5, InlineKeepsAlike

LEMMA InlineSet ==
  ASSUME NEW rules, InlineRules(rules), NEW selector, NEW d, IsWritable(d)
  PROVE  LET more == Append(rules, Rule(selector, <<d>>)) IN
         /\ InlineRules(more)
         /\ ~LayoutAffecting(d.property) => Alike(ToStyleSheetLite(more), ToStyleSheetLite(rules))
<1> DEFINE rule == Rule(selector, <<d>>)
           more == Append(rules, rule)
           n == Len(rules)
           places == [a \in 1 .. n |-> a]
<1>1. n \in Nat /\ IsList(more) /\ Len(more) = n + 1 /\ more[n + 1] = rule /\ \A i \in 1 .. n : more[i] = rules[i]
  BY ListFacts, AppendList DEF InlineRules
<1>2. IsList(<<selector>>) /\ IsList(<<d>>) /\ Len(<<selector>>) = 1 /\ Len(<<d>>) = 1 /\ <<d>>[1] = d
  <2>1. IsList(Append(<<>>, selector)) /\ IsList(Append(<<>>, d))
    BY EmptyList, AppendList
  <2>2. Append(<<>>, selector) = <<selector>> /\ Append(<<>>, d) = <<d>>
    OBVIOUS
  <2> QED
    BY <2>1, <2>2
<1>3. rule.selectors = <<selector>> /\ rule.declarations = <<d>> /\ rule = [selectors |-> rule.selectors, declarations |-> rule.declarations]
  BY DEF Rule
<1> HIDE DEF rule, more
<1>4. InlineRule(rule)
  BY <1>2, <1>3 DEF InlineRule
<1>5. InlineRules(more)
  BY <1>1, <1>4 DEF InlineRules
<1>6. ASSUME ~LayoutAffecting(d.property)
      PROVE  Alike(ToStyleSheetLite(more), ToStyleSheetLite(rules))
  <2>1. \A i \in 1 .. n : ThinnedRule(rules[i], rules[i])
    BY ThinnedToItself, ListFacts DEF InlineRules, InlineRule
  <2>2. Len(rule.selectors) \in Nat /\ Aside(rule.declarations)
    BY <1>2, <1>3, <1>6 DEF Aside
  <2>3. n + 1 \in Nat /\ n \in 0 .. n + 1
    BY <1>1
  <2>4. \A i \in 1 .. n + 1 : i \notin 1 .. n => i = n + 1
    BY <1>1
  <2> HIDE DEF n
  <2>5. Rise(places, n + 1, n)
    BY <2>3, RiseByOne
  <2>6. \A a \in 1 .. n : places[a] = a
    OBVIOUS
  <2> HIDE DEF places
  <2>7. \A i \in 1 .. n + 1 : (\A a \in 1 .. n : places[a] # i) => i = n + 1
    BY <2>4, <2>6
  <2>8. ThinnedRules(more, rules, places)
    BY <1>1, <2>1, <2>2, <2>5, <2>6, <2>7 DEF ThinnedRules, n
  <2> QED
    BY <1>5, <2>8, InlineKeepsAlike
<1> QED
  BY <1>5, <1>6 DEF more, rule

\* A rule without the declarations of a property.
LEMMA RuleWithout ==
  ASSUME NEW rule, InlineRule(rule), NEW property
  PROVE  LET ds == rule.declarations
             left == [rule EXCEPT !.declarations = Picked(ds, {i \in DOMAIN ds : ds[i].property # property})]
         IN  /\ InlineRule(left)
             /\ ~LayoutAffecting(property) => ThinnedRule(rule, left)
<1> DEFINE ds == rule.declarations
           kept == {i \in DOMAIN ds : ds[i].property # property}
           some == Picked(ds, kept)
           left == [rule EXCEPT !.declarations = some]
           n == Len(ds)
           m == Len(some)
<1>1. /\ rule = [selectors |-> rule.selectors, declarations |-> ds] /\ IsList(rule.selectors) /\ IsList(ds)
      /\ \A i \in 1 .. n : IsWritable(ds[i])
  BY DEF InlineRule
<1>2. DOMAIN ds = 1 .. n /\ Len(rule.selectors) \in Nat
  BY <1>1, ListFacts
<1> HIDE DEF ds
<1>3. left.selectors = rule.selectors /\ left.declarations = some /\ left = [selectors |-> left.selectors, declarations |-> left.declarations]
  BY <1>1
<1> HIDE DEF left
<1>4. IsList(some)
  BY <1>1, PickedRise
<1>5. PICK places : /\ Rise(places, n, m) /\ \A a \in 1 .. m : some[a] = ds[places[a]] /\ places[a] \in kept
                    /\ \A i \in kept : \E a \in 1 .. m : places[a] = i
  <2>1. kept \in SUBSET DOMAIN ds
    OBVIOUS
  <2> HIDE DEF kept
  <2>2. \E places : PicksAll(ds, kept, Picked(ds, kept), places)
    BY <1>1, <2>1, PickedRise
  <2> QED
    BY <2>2 DEF PicksAll
<1> HIDE DEF some
<1>6. InlineRule(left)
  <2>1. \A a \in 1 .. m : IsWritable(some[a])
    BY <1>1, <1>5 DEF Rise
  <2> HIDE DEF m
  <2> QED
    BY <1>1, <1>3, <1>4, <2>1 DEF InlineRule, m
<1>7. ASSUME ~LayoutAffecting(property)
      PROVE  ThinnedRule(rule, left)
  BY <1>2, <1>3, <1>5, <1>7 DEF Thinned, ThinnedRule, ds
<1> QED
  BY <1>6, <1>7 DEF left, some, ds

LEMMA InlineRemoved ==
  ASSUME NEW engine, EngineOK(engine), NEW m
  PROVE  /\ EngineOK(RemoveInline(engine, m))
         /\ ~LayoutAffecting(m.property) => LaidOutAs(RemoveInline(engine, m), engine)
<1> DEFINE rules == engine.inline
           Thin(rule) == [rule EXCEPT !.declarations = Picked(@, {i \in DOMAIN @ : @[i].property # m.property})]
           Stripped(rule) == IF m.selector \notin ToSet(rule.selectors) THEN rule ELSE Thin(rule)
           n == Len(rules)
           mapped == [i \in 1 .. n |-> Stripped(rules[i])]
           kept == {i \in DOMAIN mapped : mapped[i].declarations # <<>>}
           left == Picked(mapped, kept)
           k == Len(left)
<1>1. RemoveInline(engine, m) = [engine EXCEPT !.inline = left]
  BY DEF RemoveInline
<1>2. n \in Nat /\ \A i \in 1 .. n : InlineRule(rules[i])
  BY ListFacts DEF EngineOK, InlineRules
<1>3. ASSUME NEW i \in 1 .. n
      PROVE  InlineRule(Stripped(rules[i])) /\ (~LayoutAffecting(m.property) => ThinnedRule(rules[i], Stripped(rules[i])))
  <2> DEFINE rule == rules[i]
  <2>1. InlineRule(rule)
    BY <1>2
  <2> HIDE DEF rule
  <2>2. InlineRule(Thin(rule)) /\ (~LayoutAffecting(m.property) => ThinnedRule(rule, Thin(rule)))
    BY <2>1, RuleWithout
  <2>3. ThinnedRule(rule, rule)
    BY <2>1, ThinnedToItself, ListFacts DEF InlineRule
  <2> HIDE DEF Thin
  <2>4. Stripped(rule) = rule \/ Stripped(rule) = Thin(rule)
    OBVIOUS
  <2> HIDE DEF Stripped
  <2>5. InlineRule(Stripped(rule)) /\ (~LayoutAffecting(m.property) => ThinnedRule(rule, Stripped(rule)))
    BY <2>1, <2>2, <2>3, <2>4
  <2> QED
    BY <2>5 DEF rule
<1> HIDE DEF Stripped, n
<1>4. IsList(mapped) /\ Len(mapped) = n /\ DOMAIN mapped = 1 .. n /\ \A i \in 1 .. n : mapped[i] = Stripped(rules[i])
  <2>1. mapped \in Seq({Stripped(rules[i]) : i \in 1 .. n})
    BY <1>2
  <2>2. Len(mapped) = n
    BY <1>2
  <2> QED
    BY <2>1, <2>2 DEF IsList
<1> HIDE DEF mapped
<1>5. IsList(left)
  BY <1>4, PickedRise
<1>6. PICK places : /\ Rise(places, n, k) /\ \A a \in 1 .. k : left[a] = mapped[places[a]] /\ places[a] \in kept
                    /\ \A i \in kept : \E a \in 1 .. k : places[a] = i
  <2>1. kept \in SUBSET DOMAIN mapped
    OBVIOUS
  <2> HIDE DEF kept
  <2>2. \E places : PicksAll(mapped, kept, Picked(mapped, kept), places)
    BY <1>4, <2>1, PickedRise
  <2> QED
    BY <1>4, <2>2 DEF PicksAll
<1> HIDE DEF left
<1>7. InlineRules(left)
  BY <1>3, <1>4, <1>5, <1>6 DEF Rise, InlineRules
<1>8. ASSUME ~LayoutAffecting(m.property)
      PROVE  Alike(ToStyleSheetLite(left), ToStyleSheetLite(rules))
  <2>1. \A a \in 1 .. k : ThinnedRule(rules[places[a]], left[a])
    BY <1>3, <1>4, <1>6, <1>8 DEF Rise
  <2>2. ASSUME NEW i \in 1 .. n, \A a \in 1 .. k : places[a] # i
        PROVE  Len(rules[i].selectors) \in Nat /\ Aside(rules[i].declarations)
    <3>1. Stripped(rules[i]).declarations = <<>>
      BY <1>4, <1>6, <2>2
    <3>2. ThinnedRule(rules[i], Stripped(rules[i]))
      BY <1>3, <1>8
    <3>3. PICK thin : Thinned(rules[i].declarations, <<>>, thin)
      BY <3>1, <3>2 DEF ThinnedRule
    <3>4. Len(<<>>) = 0
      BY EmptyList
    <3>5. \A a : ~(a \in 1 .. 0)
      OBVIOUS
    <3>6. Aside(rules[i].declarations)
      BY <3>3, <3>4, <3>5 DEF Thinned, Rise, Aside
    <3> QED
      BY <3>2, <3>6 DEF ThinnedRule
  <2>3. ThinnedRules(rules, left, places)
    BY <1>6, <2>1, <2>2 DEF ThinnedRules, n
  <2>4. InlineRules(rules)
    BY DEF EngineOK
  <2> HIDE DEF rules
  <2> QED
    BY <1>7, <2>3, <2>4, InlineKeepsAlike, AlikeItself
<1>9. engine = [sheets |-> engine.sheets, dynamic |-> engine.dynamic, inline |-> engine.inline, classes |-> engine.classes]
  BY DEF EngineOK
<1> DEFINE after == [engine EXCEPT !.inline = left]
<1>10. /\ after = [sheets |-> after.sheets, dynamic |-> after.dynamic, inline |-> after.inline, classes |-> after.classes]
       /\ after.sheets = engine.sheets /\ after.dynamic = engine.dynamic /\ after.inline = left
  BY <1>9
<1> HIDE DEF after
<1>11. EngineOK(after) /\ (~LayoutAffecting(m.property) => LaidOutAs(after, engine))
  BY <1>7, <1>8, <1>10 DEF EngineOK, LaidOutAs
<1> QED
  BY <1>1, <1>11 DEF after

IsAside(m) == m.kind \in {"SetInlineStyle", "RemoveInlineStyle"} /\ ~LayoutAffecting(m.property)

LEMMA LaidOutAsItself ==
  ASSUME NEW engine, EngineOK(engine)
  PROVE  LaidOutAs(engine, engine)
BY RulesAreLikeThemselves DEF EngineOK, LaidOutAs

LEMMA MutationFacts ==
  ASSUME NEW engine, EngineOK(engine), NEW m, m.kind \in MutationKinds
  PROVE  /\ EngineOK(ApplyMutation(engine, m))
         /\ IsAside(m) => LaidOutAs(ApplyMutation(engine, m), engine)
<1> DEFINE after == ApplyMutation(engine, m)
<1>1. engine = [sheets |-> engine.sheets, dynamic |-> engine.dynamic, inline |-> engine.inline, classes |-> engine.classes]
      /\ InlineRules(engine.inline)
  BY DEF EngineOK
<1>2. CASE m.kind = "InsertStyleSheet"
  BY <1>1, <1>2 DEF ApplyMutation, EngineOK, IsAside
<1>3. CASE m.kind = "SetStyleSheetDisabled"
  <2>1. after = SetDisabled(engine, m)
    BY <1>3 DEF ApplyMutation
  <2> DEFINE sheets == SetDisabled(engine, m).sheets
  <2>2. SetDisabled(engine, m) = [engine EXCEPT !.sheets = sheets]
    BY <1>1 DEF SetDisabled
  <2> HIDE DEF sheets
  <2>3. EngineOK(after)
    BY <1>1, <2>1, <2>2 DEF EngineOK
  <2> QED
    BY <1>3, <2>3 DEF IsAside
<1>4. CASE m.kind = "InsertRule"
  BY <1>1, <1>4 DEF ApplyMutation, EngineOK, IsAside
<1>5. CASE m.kind = "SetInlineStyle"
  <2> DEFINE d == [property |-> m.property, value |-> m.value, important |-> m.important]
             more == Append(engine.inline, Rule(m.selector, <<d>>))
  <2>1. after = [engine EXCEPT !.inline = more]
    BY <1>5 DEF ApplyMutation
  <2>2. IsWritable(d) /\ d.property = m.property
    BY DEF IsWritable
  <2> HIDE DEF d
  <2>3. InlineRules(more) /\ (~LayoutAffecting(d.property) => Alike(ToStyleSheetLite(more), ToStyleSheetLite(engine.inline)))
    BY <1>1, <2>2, InlineSet
  <2> HIDE DEF more, after
  <2>4. /\ after = [sheets |-> after.sheets, dynamic |-> after.dynamic, inline |-> after.inline, classes |-> after.classes]
        /\ after.sheets = engine.sheets /\ after.dynamic = engine.dynamic /\ after.inline = more
    BY <1>1, <2>1
  <2>5. EngineOK(after) /\ (IsAside(m) => LaidOutAs(after, engine))
    BY <2>2, <2>3, <2>4 DEF EngineOK, LaidOutAs, IsAside
  <2> QED
    BY <2>5 DEF after
<1>6. CASE m.kind = "RemoveInlineStyle"
  BY <1>6, InlineRemoved DEF ApplyMutation, IsAside
<1>7. CASE m.kind = "ClassMutation"
  BY <1>1, <1>7 DEF ApplyMutation, EngineOK, IsAside
<1> QED
  BY <1>2, <1>3, <1>4, <1>5, <1>6, <1>7 DEF MutationKinds

AreMutations(list) == IsList(list) /\ \A i \in 1 .. Len(list) : list[i].kind \in MutationKinds

LEMMA MutationsFacts ==
  ASSUME NEW engine, EngineOK(engine), NEW list, AreMutations(list)
  PROVE  /\ EngineOK(ApplyMutations(engine, list))
         /\ (\A i \in 1 .. Len(list) : IsAside(list[i])) => LaidOutAs(ApplyMutations(engine, list), engine)
         /\ Len(list) = 0 => ApplyMutations(engine, list) = engine
<1> DEFINE n == Len(list)
           AllAside == \A i \in 1 .. n : IsAside(list[i])
<1>1. n \in Nat /\ \A i \in 1 .. n : list[i].kind \in MutationKinds
  BY ListFacts DEF AreMutations
<1>2. PICK f : MutationsAppliedBy(engine, list, f) /\ ApplyMutations(engine, list) = f[n]
  BY <1>1, MutationsAreApplied
<1>3. f[0] = engine /\ \A i \in 1 .. n : f[i] = ApplyMutation(f[i - 1], list[i])
  BY <1>1, <1>2 DEF MutationsAppliedBy
<1> DEFINE Good(k) == EngineOK(f[k]) /\ (AllAside => LaidOutAs(f[k], engine))
           S == {k \in 0 .. n : Good(k)}
           start == 0
<1>4. start \in S
  BY <1>1, <1>3, LaidOutAsItself
<1>5. ASSUME NEW k \in start .. n - 1, k \in S
      PROVE  k + 1 \in S
  <2> DEFINE i == k + 1
             m == list[i]
             one == f[k]
             two == f[i]
  <2>1. i \in 1 .. n /\ i \in 0 .. n /\ i - 1 = k
    BY <1>1
  <2>2. m.kind \in MutationKinds /\ (AllAside => IsAside(m)) /\ Good(k)
    BY <1>1, <1>5, <2>1
  <2>3. two = ApplyMutation(one, m)
    BY <1>3, <2>1
  <2> HIDE DEF AllAside, m, one, two
  <2>4. EngineOK(two) /\ (AllAside => LaidOutAs(two, one))
    BY <2>2, <2>3, MutationFacts DEF one
  <2>5. AllAside => LaidOutAs(two, engine)
    BY <2>2, <2>4, AlikeChains DEF LaidOutAs, one
  <2>6. Good(i)
    BY <2>4, <2>5 DEF two
  <2> QED
    BY <2>1, <2>6
<1>6. start \in Nat /\ n \in start .. n
  BY <1>1
<1> HIDE DEF S, start, AllAside
<1>7. start .. n \subseteq S
  BY <1>1, <1>4, <1>5, <1>6, CountingUp
<1>8. Good(n)
  BY <1>6, <1>7 DEF S
<1> QED
  BY <1>2, <1>3, <1>8 DEF AllAside

\* The summary is the page's own sheet under the engine's.
SetIn(sheets) == UNION {DOMAIN sheets[i] : i \in DOMAIN sheets}
ValueIn(sheets, k) == sheets[Max({i \in DOMAIN sheets : k \in DOMAIN sheets[i]})][k]

LEMMA MergedFacts ==
  ASSUME NEW base, NEW sheets
  PROVE  Merged(base, sheets) = [k \in DOMAIN base \cup SetIn(sheets) |-> IF k \in SetIn(sheets) THEN ValueIn(sheets, k) ELSE base[k]]
<1>1. \A k : {i \in DOMAIN sheets : k \in DOMAIN sheets[i]} = {} <=> k \notin SetIn(sheets)
  BY DEF SetIn
<1>2. Merged(base, sheets) = [k \in DOMAIN base \cup SetIn(sheets) |->
        IF {i \in DOMAIN sheets : k \in DOMAIN sheets[i]} = {} THEN base[k] ELSE ValueIn(sheets, k)]
  BY DEF Merged, SetIn, ValueIn
<1> QED
  BY <1>1, <1>2

ActiveSummaries(engine) == LET active == ActiveSheets(engine) IN [i \in 1..Len(active) |-> ToStyleSheetLite(active[i])]
InlineSummary(engine) == <<ToStyleSheetLite(engine.inline)>>

LEMMA SummaryMeans ==
  ASSUME NEW engine, NEW base
  PROVE  ComputeSummarySheet(engine, base) = Merged(Merged(base, ActiveSummaries(engine)), InlineSummary(engine))
BY DEF ComputeSummarySheet, ActiveSummaries, InlineSummary

LEMMA SummaryIsStable ==
  ASSUME NEW engine, NEW base
  PROVE  LET summary == ComputeSummarySheet(engine, base) IN ComputeSummarySheet(engine, summary) = summary
<1> DEFINE A == ActiveSummaries(engine)
           L == InlineSummary(engine)
           S == ComputeSummarySheet(engine, base)
           T == ComputeSummarySheet(engine, S)
           X == Merged(base, A)
           Y == Merged(S, A)
<1>1. S = Merged(X, L) /\ T = Merged(Y, L)
  BY SummaryMeans
<1>2. X = [k \in DOMAIN base \cup SetIn(A) |-> IF k \in SetIn(A) THEN ValueIn(A, k) ELSE base[k]]
  BY MergedFacts
<1>3. Y = [k \in DOMAIN S \cup SetIn(A) |-> IF k \in SetIn(A) THEN ValueIn(A, k) ELSE S[k]]
  BY MergedFacts
<1>4. Merged(X, L) = [k \in DOMAIN X \cup SetIn(L) |-> IF k \in SetIn(L) THEN ValueIn(L, k) ELSE X[k]]
  BY MergedFacts
<1>5. Merged(Y, L) = [k \in DOMAIN Y \cup SetIn(L) |-> IF k \in SetIn(L) THEN ValueIn(L, k) ELSE Y[k]]
  BY MergedFacts
<1> HIDE DEF A, L, S, T, X, Y
<1>6. DOMAIN X = DOMAIN base \cup SetIn(A) /\ DOMAIN S = DOMAIN X \cup SetIn(L)
  BY <1>1, <1>2, <1>4
<1>7. DOMAIN Y = DOMAIN S /\ DOMAIN T = DOMAIN S
  BY <1>1, <1>3, <1>5, <1>6
<1>8. ASSUME NEW k \in DOMAIN S
      PROVE  T[k] = S[k]
  BY <1>1, <1>2, <1>3, <1>4, <1>5, <1>6, <1>7
<1>9. S = [k \in DOMAIN S |-> S[k]] /\ T = [k \in DOMAIN T |-> T[k]]
  BY <1>1, <1>4, <1>5, <1>6, <1>7
<1>10. T = S
  BY <1>7, <1>8, <1>9
<1> QED
  BY <1>10 DEF T, S

LEMMA OneSheet ==
  ASSUME NEW sheet
  PROVE  SetIn(<<sheet>>) = DOMAIN sheet /\ \A k \in DOMAIN sheet : ValueIn(<<sheet>>, k) = sheet[k]
<1>1. DOMAIN <<sheet>> = {1} /\ <<sheet>>[1] = sheet
  OBVIOUS
<1>2. SetIn(<<sheet>>) = DOMAIN sheet
  BY <1>1 DEF SetIn
<1>3. ASSUME NEW k \in DOMAIN sheet
      PROVE  ValueIn(<<sheet>>, k) = sheet[k]
  <2> DEFINE has == {i \in DOMAIN <<sheet>> : k \in DOMAIN <<sheet>>[i]}
  <2>1. has = {1}
    BY <1>1
  <2>2. Max({1}) = 1
    BY DEF Max
  <2>3. ValueIn(<<sheet>>, k) = <<sheet>>[Max(has)][k]
    BY DEF ValueIn
  <2> HIDE DEF has
  <2> QED
    BY <1>1, <2>1, <2>2, <2>3
<1> QED
  BY <1>2, <1>3

SameLayout(one, other) == LayoutKeys(one) = LayoutKeys(other) /\ \A k \in LayoutKeys(one) : one[k] = other[k]

LEMMA SummaryKeepsLayout ==
  ASSUME NEW engine, NEW before, LaidOutAs(engine, before), NEW base
  PROVE  SameLayout(ComputeSummarySheet(engine, base), ComputeSummarySheet(before, base))
<1> DEFINE X == Merged(base, ActiveSummaries(before))
           I == ToStyleSheetLite(engine.inline)
           J == ToStyleSheetLite(before.inline)
           S == ComputeSummarySheet(engine, base)
           T == ComputeSummarySheet(before, base)
<1>1. Alike(I, J) /\ ActiveSummaries(engine) = ActiveSummaries(before)
  BY DEF LaidOutAs, ActiveSummaries, ActiveSheets
<1>2. S = Merged(X, <<I>>) /\ T = Merged(X, <<J>>)
  BY <1>1, SummaryMeans DEF InlineSummary
<1> HIDE DEF X, I, J, S, T
<1>3. /\ S = [k \in DOMAIN X \cup DOMAIN I |-> IF k \in DOMAIN I THEN I[k] ELSE X[k]]
      /\ T = [k \in DOMAIN X \cup DOMAIN J |-> IF k \in DOMAIN J THEN J[k] ELSE X[k]]
  <2>1. ASSUME NEW sheet
        PROVE  Merged(X, <<sheet>>) = [k \in DOMAIN X \cup DOMAIN sheet |-> IF k \in DOMAIN sheet THEN sheet[k] ELSE X[k]]
    <3> DEFINE sheets == <<sheet>>
    <3>1. SetIn(sheets) = DOMAIN sheet /\ \A k \in DOMAIN sheet : ValueIn(sheets, k) = sheet[k]
      BY OneSheet
    <3> HIDE DEF sheets
    <3>2. Merged(X, sheets) = [k \in DOMAIN X \cup SetIn(sheets) |-> IF k \in SetIn(sheets) THEN ValueIn(sheets, k) ELSE X[k]]
      BY MergedFacts
    <3>3. Merged(X, sheets) = [k \in DOMAIN X \cup DOMAIN sheet |-> IF k \in DOMAIN sheet THEN sheet[k] ELSE X[k]]
      BY <3>1, <3>2
    <3> QED
      BY <3>3 DEF sheets
  <2> QED
    BY <1>2, <2>1
<1>4. \A k : k[2] \in LayoutSlots =>
        /\ k \in DOMAIN I <=> k \in DOMAIN J
        /\ k \in DOMAIN I => I[k] = J[k]
  BY <1>1 DEF Alike, LayoutKeys, LayoutSlots
<1>5. \A k : k[2] \in LayoutSlots =>
        /\ k \in DOMAIN S <=> k \in DOMAIN T
        /\ k \in DOMAIN S => S[k] = T[k]
  BY <1>3, <1>4
<1>6. SameLayout(S, T)
  BY <1>5 DEF SameLayout, LayoutKeys, LayoutSlots
<1> QED
  BY <1>6 DEF S, T

LEMMA PickedMutations ==
  ASSUME NEW list, AreMutations(list), NEW S \in SUBSET DOMAIN list
  PROVE  AreMutations(Picked(list, S))
<1>1. IsList(list) /\ \A i \in 1 .. Len(list) : list[i].kind \in MutationKinds
  BY DEF AreMutations
<1>2. IsList(Picked(list, S))
  BY <1>1, PickedRise
<1>3. PICK places : PicksAll(list, S, Picked(list, S), places)
  BY <1>1, PickedRise
<1> QED
  BY <1>1, <1>2, <1>3 DEF PicksAll, Rise, AreMutations

LEMMA JoinedMutations ==
  ASSUME NEW one, AreMutations(one), NEW other, AreMutations(other)
  PROVE  AreMutations(one \o other)
<1> DEFINE all == one \o other
           n == Len(one)
           m == Len(other)
<1>1. /\ IsList(one) /\ IsList(other) /\ n \in Nat /\ m \in Nat
      /\ \A i \in 1 .. n : one[i].kind \in MutationKinds
      /\ \A i \in 1 .. m : other[i].kind \in MutationKinds
  BY ListFacts DEF AreMutations
<1>2. /\ IsList(all) /\ Len(all) = n + m
      /\ \A i \in 1 .. n + m : all[i] = IF i <= n THEN one[i] ELSE other[i - n]
  BY <1>1, ConcatList
<1> HIDE DEF all, n, m
<1>3. \A i \in 1 .. n + m : IF i <= n THEN i \in 1 .. n ELSE i - n \in 1 .. m
  BY <1>1
<1>4. \A i \in 1 .. n + m : all[i].kind \in MutationKinds
  BY <1>1, <1>2, <1>3
<1>5. AreMutations(all)
  BY <1>2, <1>4 DEF AreMutations
<1> QED
  BY <1>5 DEF all

LEMMA EffectsAreMutations ==
  ASSUME NEW statements \in CssomScripts
  PROVE  AreMutations(ExtractEffects(statements))
<1> DEFINE Written(how) == Picked(statements, {i \in DOMAIN statements : statements[i].how = how})
<1>1. AreMutations(statements)
  BY StyleAssumption, ListFacts DEF StyleAssumption, IsVec, IsList, AreMutations
<1>2. ASSUME NEW how PROVE AreMutations(Written(how))
  BY <1>1, PickedMutations
<1>3. ExtractEffects(statements) = Written("assignment") \o Written("setProperty") \o Written("insertRule") \o Written("classList")
  BY DEF ExtractEffects
<1> HIDE DEF Written
<1>4. AreMutations(Written("assignment") \o Written("setProperty"))
  BY <1>2, JoinedMutations
<1>5. AreMutations(Written("assignment") \o Written("setProperty") \o Written("insertRule"))
  BY <1>2, <1>4, JoinedMutations
<1> QED
  BY <1>2, <1>3, <1>5, JoinedMutations

RestyleInv ==
  /\ EngineOK(pageStyle.engine)
  /\ pageStyle.layout \in Nat /\ pageStyle.paint \in Nat
  /\ ComputeSummarySheet(pageStyle.engine, pageStyle.summary) = pageStyle.summary

\* What RestyledPagesAreLaidOut says of a step.
LaidOutWhenRestyled ==
  /\ ~SameLayout(pageStyle.summary, pageStyle'.summary) => pageStyle'.layout > pageStyle.layout
  /\ pageStyle.summary # pageStyle'.summary => pageStyle'.paint > pageStyle.paint

LEMMA RestyledStep ==
  ASSUME RestyleInv, NEW list, AreMutations(list), pageStyle' = Restyled(list)
  PROVE  RestyleInv' /\ LaidOutWhenRestyled
<1> DEFINE engine == pageStyle.engine
           after == ApplyMutations(engine, list)
           base == pageStyle.summary
           summary == ComputeSummarySheet(after, base)
           dirty == UNION {InvalidationOf(list[i]) : i \in 1..Len(list)}
           Bumped(revision, part) == revision + (IF part \in dirty THEN 1 ELSE 0)
<1>1. pageStyle' = [engine |-> after, summary |-> summary,
        work |-> pageStyle.work + 1, revision |-> Bumped(pageStyle.revision, "style"),
        layout |-> Bumped(pageStyle.layout, "layout"), paint |-> Bumped(pageStyle.paint, "paint")]
  BY DEF Restyled
<1>2. /\ EngineOK(engine) /\ pageStyle.layout \in Nat /\ pageStyle.paint \in Nat
      /\ ComputeSummarySheet(engine, base) = base
  BY DEF RestyleInv
<1> HIDE DEF dirty
<1>3. /\ pageStyle'.engine = after /\ pageStyle'.summary = summary
      /\ pageStyle'.layout = Bumped(pageStyle.layout, "layout") /\ pageStyle'.paint = Bumped(pageStyle.paint, "paint")
  BY <1>1
<1>4. /\ EngineOK(after)
      /\ (\A i \in 1 .. Len(list) : IsAside(list[i])) => LaidOutAs(after, engine)
      /\ Len(list) = 0 => after = engine
  BY <1>2, MutationsFacts
<1>5. ComputeSummarySheet(after, summary) = summary
  BY SummaryIsStable
<1> HIDE DEF after, summary, engine, base
<1>6. RestyleInv'
  BY <1>2, <1>3, <1>4, <1>5 DEF RestyleInv
<1>7. ASSUME ~SameLayout(base, summary)
      PROVE  "layout" \in dirty
  <2>1. PICK i \in 1 .. Len(list) : ~IsAside(list[i])
    <3>1. ASSUME \A i \in 1 .. Len(list) : IsAside(list[i])
          PROVE  FALSE
      BY <1>2, <1>4, <1>7, <3>1, SummaryKeepsLayout DEF summary, SameLayout
    <3> QED
      BY <3>1
  <2>2. "layout" \in InvalidationOf(list[i])
    BY <2>1 DEF InvalidationOf, IsAside
  <2> QED
    BY <2>2 DEF dirty
<1>8. ASSUME base # summary
      PROVE  "paint" \in dirty
  BY <1>2, <1>4, <1>8, ListFacts DEF summary, AreMutations, InvalidationOf, dirty
<1>9. LaidOutWhenRestyled
  BY <1>2, <1>3, <1>7, <1>8 DEF LaidOutWhenRestyled, base
<1> QED
  BY <1>6, <1>9

LEMMA StyleInitInv == StyleInit => RestyleInv
<1> SUFFICES ASSUME StyleInit PROVE RestyleInv
  OBVIOUS
<1>1. PICK rules \in BaseSheets : pageStyle = [engine |-> NewEngine, summary |-> ParseCssLite(rules), work |-> 0, revision |-> 0,
                    layout |-> 0, paint |-> 0]
  BY DEF StyleInit
<1> DEFINE base == ParseCssLite(rules)
<1>2. IsSheet(base)
  <2>1. IsVec(rules) /\ \A i \in DOMAIN rules : IsVec(rules[i].declarations) /\ IsVec(rules[i].selectors)
    BY StyleAssumption DEF StyleAssumption
  <2>2. IsList(rules) /\ \A i \in DOMAIN rules : IsList(rules[i].declarations) /\ IsList(rules[i].selectors)
    BY <2>1 DEF IsVec, IsList
  <2> DEFINE n == Len(rules)
             places == [a \in 1 .. n |-> a]
  <2>3. n \in Nat /\ n \in 0 .. n /\ \A i \in 1 .. n : ThinnedRule(rules[i], rules[i])
    BY <2>2, ListFacts, ThinnedToItself
  <2> HIDE DEF n
  <2>4. Rise(places, n, n) /\ \A a \in 1 .. n : places[a] = a
    BY <2>3, RiseByOne
  <2> HIDE DEF places
  <2>5. ThinnedRules(rules, rules, places)
    BY <2>3, <2>4 DEF ThinnedRules, n
  <2> QED
    BY <2>5, RulesKeepAlike DEF Alike
<1>3. EngineOK(NewEngine)
  BY EmptyList DEF InlineRules, EngineOK, NewEngine
<1>4. ParseCssLite(<<>>) = EmptySheet
  <2>1. Len(<<>>) = 0
    BY EmptyList
  <2> DEFINE none == <<>>
  <2>2. Len(none) = 0 /\ Len(none) \in Nat
    BY <2>1
  <2> HIDE DEF none
  <2>3. PICK f : RulesSummedBy(none, f) /\ ParseCssLite(none) = f[Len(none)]
    BY <2>2, RulesAreSummed
  <2>4. f[0] = EmptySheet
    BY <2>2, <2>3 DEF RulesSummedBy
  <2> QED
    BY <2>2, <2>3, <2>4 DEF none
<1>5. ToStyleSheetLite(<<>>) = EmptySheet
  <2> DEFINE none == <<>>
             written == [i \in 1 .. Len(none) |-> WrittenRule(none[i])]
  <2>1. Len(none) = 0
    BY EmptyList
  <2>2. 1 .. 0 = {}
    OBVIOUS
  <2>3. written = <<>>
    <3> HIDE DEF none
    <3>1. written = [i \in {} |-> WrittenRule(none[i])]
      BY <2>1, <2>2
    <3> QED
      BY <3>1
  <2>4. ToStyleSheetLite(none) = ParseCssLite(written)
    BY DEF ToStyleSheetLite
  <2> HIDE DEF written
  <2> QED
    BY <1>4, <2>3, <2>4
<1> DEFINE active == ActiveSheets(NewEngine)
<1>6. Len(active) = 1 /\ active[1] = <<>>
  <2> DEFINE none == <<>>
             kept == {i \in DOMAIN none : ~none[i].disabled}
             picked == Picked(none, kept)
             lists == [i \in 1 .. Len(picked) |-> picked[i].rules]
  <2>1. IsList(none) /\ Len(none) = 0 /\ kept \in SUBSET DOMAIN none
    BY EmptyList
  <2>2. NewEngine.sheets = none /\ NewEngine.dynamic = <<>>
    BY DEF NewEngine
  <2> HIDE DEF none, kept
  <2>3. IsList(picked) /\ Len(picked) <= 0
    BY <2>1, PickedList
  <2>4. Len(picked) = 0
    BY <2>3, ListFacts
  <2> HIDE DEF picked
  <2>5. 1 .. 0 = {}
    OBVIOUS
  <2>6. lists = <<>>
    BY <2>4, <2>5
  <2>7. active = Append(lists, <<>>)
    BY <2>2 DEF ActiveSheets, picked, kept
  <2> HIDE DEF lists, active
  <2>8. active = << <<>> >>
    BY <2>6, <2>7
  <2> QED
    BY <2>8
<1>7. SetIn(ActiveSummaries(NewEngine)) = {} /\ SetIn(InlineSummary(NewEngine)) = {}
  <2>1. ActiveSummaries(NewEngine) = [i \in 1 .. 1 |-> ToStyleSheetLite(active[i])]
    <3> HIDE DEF active
    <3> QED
      BY <1>6 DEF ActiveSummaries, active
  <2> HIDE DEF active
  <2>2. DOMAIN ActiveSummaries(NewEngine) = 1 .. 1 /\ \A i \in 1 .. 1 : ActiveSummaries(NewEngine)[i] = EmptySheet
    BY <1>5, <1>6, <2>1
  <2>3. DOMAIN EmptySheet = {}
    BY DEF EmptySheet
  <2>4. InlineSummary(NewEngine) = <<EmptySheet>>
    BY <1>5 DEF InlineSummary, NewEngine
  <2>5. SetIn(InlineSummary(NewEngine)) = {}
    BY <2>3, <2>4, OneSheet
  <2>6. SetIn(ActiveSummaries(NewEngine)) = {}
    BY <2>2, <2>3 DEF SetIn
  <2> QED
    BY <2>5, <2>6
<1>8. ComputeSummarySheet(NewEngine, base) = base
  <2> DEFINE A == ActiveSummaries(NewEngine)
             L == InlineSummary(NewEngine)
             X == Merged(base, A)
  <2>1. base = [k \in DOMAIN base |-> base[k]]
    BY <1>2 DEF IsSheet
  <2>2. \A sheet, sheets : SetIn(sheets) = {} /\ IsSheet(sheet) => Merged(sheet, sheets) = sheet
    <3>1. ASSUME NEW sheet, NEW sheets, SetIn(sheets) = {}, IsSheet(sheet)
          PROVE  Merged(sheet, sheets) = sheet
      BY <3>1, MergedFacts DEF IsSheet
    <3> QED
      BY <3>1
  <2>3. X = base
    BY <1>2, <1>7, <2>2
  <2>4. Merged(X, L) = base
    BY <1>2, <1>7, <2>2, <2>3
  <2>5. ComputeSummarySheet(NewEngine, base) = Merged(X, L)
    BY SummaryMeans
  <2> QED
    BY <2>4, <2>5
<1> HIDE DEF base
<1>9. pageStyle.engine = NewEngine /\ pageStyle.summary = base /\ pageStyle.layout = 0 /\ pageStyle.paint = 0
  BY <1>1 DEF base
<1> QED
  BY <1>3, <1>8, <1>9 DEF RestyleInv

LEMMA NothingRestyled ==
  ASSUME RestyleInv, pageStyle' = pageStyle
  PROVE  RestyleInv' /\ LaidOutWhenRestyled
BY DEF RestyleInv, LaidOutWhenRestyled, SameLayout

LEMMA StyleStep ==
  ASSUME RestyleInv, DocumentStyled \/ PageRestyled
  PROVE  RestyleInv' /\ LaidOutWhenRestyled
<1>1. CASE DocumentStyled
  BY <1>1, NothingRestyled DEF DocumentStyled
<1>2. CASE ScriptStyled
  <2>1. PICK statements \in CssomScripts : pageStyle' = Restyled(ExtractEffects(statements))
    BY <1>2 DEF ScriptStyled
  <2> QED
    BY <2>1, EffectsAreMutations, RestyledStep
<1>3. CASE HostStyled
  <2>1. PICK m \in HostMutations : pageStyle' = Restyled(<<m>>)
    BY <1>3 DEF HostStyled
  <2>2. AreMutations(<<m>>)
    <3>1. IsList(<<m>>)
      <4>1. IsList(Append(<<>>, m))
        BY EmptyList, AppendList
      <4>2. Append(<<>>, m) = <<m>>
        OBVIOUS
      <4> QED
        BY <4>1, <4>2
    <3>2. Len(<<m>>) = 1 /\ <<m>>[1] = m /\ \A i \in 1 .. 1 : i = 1
      OBVIOUS
    <3>3. m.kind \in MutationKinds
      BY StyleAssumption DEF StyleAssumption
    <3> QED
      BY <3>1, <3>2, <3>3 DEF AreMutations
  <2> QED
    BY <2>1, <2>2, RestyledStep
<1> QED
  BY <1>1, <1>2, <1>3 DEF PageRestyled

\* What the engine makes of its sheets is always in what the page shows, so
\* computing the summary again changes nothing (compute_summary_sheet).
THEOREM RestyleInvariance == StyleSpec => []RestyleInv
<1>1. RestyleInv /\ [DocumentStyled \/ PageRestyled]_styleVars => RestyleInv'
  BY NothingRestyled, StyleStep DEF styleVars
<1> QED
  BY <1>1, StyleInitInv, PTL DEF StyleSpec

\* However many statements a script has and whatever it and the host did to the
\* page before: where a size, a distance or a display of the summary changes the
\* layout revision moves, and where anything changes the paint revision does
\* (layout_affecting_property, apply_cssom_invalidation).
THEOREM RestyledLaidOut == StyleSpec => RestyledPagesAreLaidOut
<1> DEFINE Step == /\ LayoutOf(pageStyle.summary) # LayoutOf(pageStyle'.summary) => pageStyle'.layout > pageStyle.layout
                   /\ pageStyle.summary # pageStyle'.summary => pageStyle'.paint > pageStyle.paint
<1>1. RestyleInv /\ [DocumentStyled \/ PageRestyled]_styleVars => RestyleInv' /\ [Step]_styleVars
  <2> SUFFICES ASSUME RestyleInv, [DocumentStyled \/ PageRestyled]_styleVars PROVE RestyleInv' /\ [Step]_styleVars
    OBVIOUS
  <2>1. RestyleInv' /\ LaidOutWhenRestyled
    BY NothingRestyled, StyleStep DEF styleVars
  <2>2. \A one, other : SameLayout(one, other) => LayoutOf(one) = LayoutOf(other)
    BY DEF SameLayout, LayoutOf
  <2>3. Step
    BY <2>1, <2>2 DEF LaidOutWhenRestyled
  <2> QED
    BY <2>1, <2>3
<1>2. StyleSpec => [][Step]_styleVars
  <2> HIDE DEF Step
  <2> QED
    BY <1>1, StyleInitInv, PTL DEF StyleSpec
<1> QED
  BY <1>2 DEF RestyledPagesAreLaidOut

=============================================================================
