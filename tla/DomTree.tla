------------------------------ MODULE DomTree ------------------------------
(***************************************************************************)
(* The document SylJS gives a script: ResearchDom, a map from node ids to  *)
(* nodes (crates/syljs/src/dom.rs).                                        *)
(*                                                                         *)
(* Scripts hold ids, not nodes: an element object outlives its node, and   *)
(* every operation looks the id up again.  Tags, texts and attributes are  *)
(* left out but for one thing, whether a node matches the selector in use. *)
(***************************************************************************)
EXTENDS Integers, Sequences, FiniteSets, SequencesExt

CONSTANTS
  MaxNodes,       \* bound: nodes made by one document, the body included
  MaxTargets      \* bound: ids with listeners

ASSUME DomAssumption == MaxNodes \in Nat \ {0} /\ MaxTargets \in Nat

VARIABLES
  nodes,          \* the nodes there are, by id
  nextNode,       \* the id the next node gets
  targets         \* the ids that have listeners; they keep them

domVars == <<nodes, nextNode, targets>>

NodeId == 1 .. MaxNodes
NoNode == 0
Body == 1

(* ResearchNode *)
Node == [parent: NodeId \cup {NoNode}, children: Seq(NodeId), matches: BOOLEAN]
NewNode(matches) == [parent |-> NoNode, children |-> <<>>, matches |-> matches]

Listed(children) == {children[i] : i \in DOMAIN children}

IsOnceEach(children) ==
  \A i, j \in DOMAIN children : children[i] = children[j] => i = j

(* children.retain(|id| *id != child); a list holds a child at most once   *)
(* (TreeIsMirrored), so one place to close is all there is.                *)
Without(children, child) ==
  LET k == CHOOSE i \in DOMAIN children : children[i] = child
  IN  IF child \in Listed(children)
      THEN [i \in 1 .. Len(children) - 1 |-> IF i < k THEN children[i] ELSE children[i + 1]]
      ELSE children

(* push, unless it is there already *)
With(children, child) ==
  IF child \in Listed(children) THEN children ELSE Append(children, child)

(* The ids a script may hold: those handed out so far. *)
Handles == 1 .. nextNode - 1

-----------------------------------------------------------------------------
DomInit ==
  /\ nodes = [n \in {Body} |-> NewNode(FALSE)]
  /\ nextNode = Body + 1
  /\ targets = {}

(* Mutant of AllocNode: ids are counted by the nodes there are. *)
AllocByCount(matches) ==
  LET id == Cardinality(DOMAIN nodes) + 1 IN
  /\ id \in NodeId
  /\ nodes' = [n \in DOMAIN nodes \cup {id} |-> IF n = id THEN NewNode(matches) ELSE nodes[n]]
  /\ nextNode' = id + 1
  /\ UNCHANGED targets

(* createElement, createTextNode: a node of its own, in no tree *)
AllocNode(matches) ==
  /\ nextNode \in NodeId
  /\ nodes' = [n \in DOMAIN nodes \cup {nextNode} |->
                 IF n = nextNode THEN NewNode(matches) ELSE nodes[n]]
  /\ nextNode' = nextNode + 1
  /\ UNCHANGED targets

(* The list of children a node has after child moved below parent. *)
ChildrenAfterAppend(n, parent, child) ==
  LET kept == IF n = nodes[child].parent THEN Without(nodes[n].children, child)
              ELSE nodes[n].children
  IN  IF n = parent THEN With(kept, child) ELSE kept

(* Nothing stops a node from going below itself or one of its own.         *)
AppendChild(parent, child) ==
  /\ {parent, child} \subseteq DOMAIN nodes
  /\ nodes' = [n \in DOMAIN nodes |->
                 [nodes[n] EXCEPT !.parent = IF n = child THEN parent ELSE @,
                                  !.children = ChildrenAfterAppend(n, parent, child)]]
  /\ UNCHANGED <<nextNode, targets>>

(* Mutant of RemoveNode: the children keep the parent they had. *)
RemoveKeepsParent(node) ==
  /\ node \in DOMAIN nodes \ {Body}
  /\ nodes' = [n \in DOMAIN nodes \ {node} |->
                 [nodes[n] EXCEPT !.children = IF n = nodes[node].parent THEN Without(@, node) ELSE @]]
  /\ UNCHANGED <<nextNode, targets>>

(* remove: the node goes, its children stay behind without a parent. *)
RemoveNode(node) ==
  /\ node \in DOMAIN nodes \ {Body}
  /\ nodes' = [n \in DOMAIN nodes \ {node} |->
                 [nodes[n] EXCEPT !.parent = IF n \in Listed(nodes[node].children) THEN NoNode ELSE @,
                                  !.children = IF n = nodes[node].parent
                                               THEN Without(@, node) ELSE @]]
  /\ UNCHANGED <<nextNode, targets>>

(* setAttribute, removeAttribute: the node may now match, or not. *)
SetAttribute(node, matches) ==
  /\ node \in DOMAIN nodes
  /\ nodes' = [nodes EXCEPT ![node].matches = matches]
  /\ UNCHANGED <<nextNode, targets>>

(* addEventListener asks nobody whether the node is still there. *)
AddEventListener(node) ==
  /\ node \in targets \/ Cardinality(targets) < MaxTargets
  /\ targets' = targets \cup {node}
  /\ UNCHANGED <<nodes, nextNode>>

DomNext ==
  \/ \E matches \in BOOLEAN : AllocNode(matches)
  \/ \E node \in Handles :
       \/ \E child \in Handles : AppendChild(node, child)
       \/ RemoveNode(node)
       \/ \E matches \in BOOLEAN : SetAttribute(node, matches)
       \/ AddEventListener(node)

DomSpec == DomInit /\ [][DomNext]_domVars

-----------------------------------------------------------------------------
(* Mutant of PushChildren: the children are pushed in order. *)
PushInOrder(stack, n) == stack \o nodes[n].children

(* The stack of querySelector on an element: the last entry is next, and   *)
(* children are pushed in reverse.                                         *)
PushChildren(stack, n) == stack \o Reverse(nodes[n].children)

(* One turn of its loop. *)
SearchTurn(root, search) ==
  LET n == Last(search.stack)
      rest == Front(search.stack)
  IN  IF search.stack = <<>> \/ search.found # NoNode THEN search
      ELSE IF n \notin DOMAIN nodes THEN [stack |-> rest, found |-> NoNode]
      ELSE IF n # root /\ nodes[n].matches THEN [stack |-> rest, found |-> n]
      ELSE [stack |-> PushChildren(rest, n), found |-> NoNode]

(* A search that ends takes each node once: MaxNodes turns are all of it.  *)
QuerySelectorWithin(root) ==
  LET after[k \in 0 .. MaxNodes] ==
        IF k = 0 THEN [stack |-> <<root>>, found |-> NoNode] ELSE SearchTurn(root, after[k - 1])
  IN  after[MaxNodes].found

(* The nodes at or under a node: what every set with that node and with    *)
(* the children of its nodes has.                                          *)
HasItsChildren(S) == \A n \in S \cap DOMAIN nodes : Listed(nodes[n].children) \subseteq S
Subtree(root) ==
  {n \in NodeId : \A S \in SUBSET NodeId : root \in S /\ HasItsChildren(S) => n \in S}

(* A node under itself. *)
InLoop(n) == \E c \in Listed(nodes[n].children) : n \in Subtree(c)

(* The order of the document: a node comes before what is under it, and    *)
(* before what is under the children that follow it, or follow a node it   *)
(* is under.                                                               *)
ComesBefore(a, b) ==
  /\ a # b
  /\ \/ b \in Subtree(a)
     \/ \E p \in DOMAIN nodes : \E i, j \in DOMAIN nodes[p].children :
          i < j /\ a \in Subtree(nodes[p].children[i]) /\ b \in Subtree(nodes[p].children[j])

-----------------------------------------------------------------------------
DomTypeOK ==
  /\ nextNode \in 2 .. MaxNodes + 1
  /\ DOMAIN nodes \subseteq Handles /\ Body \in DOMAIN nodes
  /\ \A n \in DOMAIN nodes : nodes[n] \in Node
  /\ targets \subseteq Handles

(* Parents and children tell one story: a node is in the list of its       *)
(* parent, once, and in no other list, whatever was moved, removed or      *)
(* appended below itself (append_child, remove_node).                      *)
TreeIsMirrored ==
  \A p \in DOMAIN nodes :
    /\ IsOnceEach(nodes[p].children)
    /\ Listed(nodes[p].children) = {n \in DOMAIN nodes : nodes[n].parent = p}
    /\ nodes[p].parent \in DOMAIN nodes \cup {NoNode}

(* A search from an element finds the matching node under it that comes    *)
(* first in the document (query_selector_within).  It says so only of      *)
(* trees without a loop: the search of a loop does not end.                *)
SearchFindsFirst ==
  \A root \in DOMAIN nodes :
    (\A n \in Subtree(root) : ~InLoop(n)) =>
      LET hits == {n \in Subtree(root) \ {root} : nodes[n].matches}
          found == QuerySelectorWithin(root)
      IN  IF hits = {} THEN found = NoNode
          ELSE found \in hits /\ \A other \in hits \ {found} : ComesBefore(found, other)

(* No listener hears a node it was not added to: a listener outlives its   *)
(* node, and no new node gets the id (alloc_node, add_event_listener).     *)
NewNodesHaveNoListeners ==
  [][(DOMAIN nodes' \ DOMAIN nodes) \cap targets = {}]_domVars
=============================================================================
