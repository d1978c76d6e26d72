---------------------------- MODULE LinkedList ------------------------------
(***************************************************************************)
(* linkedlist.LinkedList: a singly linked list whose elements count from   *)
(* 1, and the callers that keep a node findNode gave them and delete it    *)
(* later with deleteNode(Node), after other calls.                         *)
(*                                                                         *)
(* The nodes are numbered in the order of their creation and each is       *)
(* created with its number as data, so that elements can be told apart.    *)
(***************************************************************************)
EXTENDS Integers, Sequences, SequencesExt, FiniteSetsExt

CONSTANTS
  Holder,    \* callers that keep a node
  MaxNodes   \* bound: nodes created

ASSUME MaxNodesAssumption == MaxNodes \in Nat

Null == 0
Node == 1..MaxNodes

VARIABLES
  data,      \* Node.data
  next,      \* Node.next
  headNode,
  created,   \* the nodes created so far are 1..created
  held,      \* the node each holder got from findNode
  foundAs,   \* the element it held at that time
  moved,     \* elements that a deleteNode(Node) copied into another node
  npe        \* the last call ended with a NullPointerException

listVars == <<data, next, headNode, created, held, foundAs, moved, npe>>
handles == <<held, foundAs, moved>>

\* The nodes reached from node n by k references.
After(n, k) ==
  LET walk[j \in 0..k] == IF j = 0 THEN n ELSE IF walk[j - 1] = Null THEN Null ELSE next[walk[j - 1]]
  IN  walk[k]

Length == Min({k \in 0..MaxNodes : After(headNode, k) = Null})

Chain == [k \in 1..Length |-> After(headNode, k - 1)]

Elements == [k \in DOMAIN Chain |-> data[Chain[k]]]

\* The loops over the list end: no reference leads back.
ListTypeOK ==
  /\ data \in [Node -> Node]
  /\ next \in [Node -> Node \cup {Null}]
  /\ headNode \in Node \cup {Null}
  /\ created \in 0..MaxNodes
  /\ held \in [Holder -> Node \cup {Null}]
  /\ foundAs \in [Holder -> Node \cup {Null}]
  /\ moved \subseteq Node
  /\ npe \in BOOLEAN
  /\ After(headNode, MaxNodes) = Null

ListInit ==
  /\ data = [n \in Node |-> n]
  /\ next = [n \in Node |-> Null]
  /\ headNode = Null
  /\ created = 0
  /\ held = [h \in Holder |-> Null]
  /\ foundAs = [h \in Holder |-> Null]
  /\ moved = {}
  /\ npe = FALSE

-----------------------------------------------------------------------------
\* addNode(data): behind the last node.
AddNode ==
  /\ created < MaxNodes
  /\ created' = created + 1
  /\ IF headNode = Null THEN headNode' = created' /\ UNCHANGED next
                        ELSE next' = [next EXCEPT ![Last(Chain)] = created'] /\ UNCHANGED headNode
  /\ npe' = FALSE
  /\ UNCHANGED <<data, handles>>

\* mutation: the node before keeps its successor
AddBeforeWithoutLink(index, n) ==
  IF index = 1 THEN headNode' = n /\ next' = [next EXCEPT ![n] = headNode]
  ELSE /\ next' = [next EXCEPT ![Chain[index - 1]] = n]
       /\ UNCHANGED headNode

\* The new node takes the place of the one at index, which follows it.
AddBefore(index, n) ==
  IF index = 1 THEN headNode' = n /\ next' = [next EXCEPT ![n] = headNode]
  ELSE /\ next' = [next EXCEPT ![Chain[index - 1]] = n, ![n] = Chain[index]]
       /\ UNCHANGED headNode

\* addNode(index, data): an index out of range is ignored; 0 is let through, and nothing is
\* added (an empty list has no headNode.next).
AddNodeAt(index) ==
  /\ created < MaxNodes
  /\ created' = IF index \in 0..Length THEN created + 1 ELSE created
  /\ IF index \in 1..Length THEN AddBefore(index, created') ELSE UNCHANGED <<headNode, next>>
  /\ npe' = (index = 0 /\ headNode = Null)
  /\ UNCHANGED <<data, handles>>

\* deleteNode(index): as above for 0.
DeleteNodeAt(index) ==
  /\ headNode' = IF index = 1 /\ Length > 0 THEN next[headNode] ELSE headNode
  /\ next' = IF index \in 2..Length THEN [next EXCEPT ![Chain[index - 1]] = next[Chain[index]]]
                                    ELSE next
  /\ npe' = (index = 0 /\ headNode = Null)
  /\ UNCHANGED <<data, created, handles>>

\* findNode(index), whose result the holder keeps.
FindNode(h, index) ==
  /\ held' = [held EXCEPT ![h] = IF index \in 1..Length THEN Chain[index] ELSE Null]
  /\ foundAs' = [foundAs EXCEPT ![h] = IF held'[h] = Null THEN Null ELSE data[held'[h]]]
  /\ npe' = FALSE
  /\ UNCHANGED <<data, next, headNode, created, moved>>

\* mutation: the successor is not unlinked
CopySuccessorOnly(n) ==
  /\ data' = [data EXCEPT ![n] = data[next[n]]]
  /\ UNCHANGED next

\* deleteNode(Node): the successor's element and reference are copied into the node, so it is
\* the successor that leaves the list.
CopySuccessor(n) ==
  /\ data' = [data EXCEPT ![n] = data[next[n]]]
  /\ next' = [next EXCEPT ![n] = next[next[n]]]

\* A null node is ignored; a node without successor is not.
DeleteNode(h) ==
  LET n == held[h]
  IN  /\ IF n # Null /\ next[n] # Null
           THEN CopySuccessor(n) /\ moved' = moved \cup {data[next[n]]}
           ELSE UNCHANGED <<data, next, moved>>
      /\ npe' = (n # Null /\ next[n] = Null)
      /\ UNCHANGED <<headNode, created, held, foundAs>>

ListNext ==
  \/ AddNode
  \/ \E index \in -1..(MaxNodes + 1) : AddNodeAt(index) \/ DeleteNodeAt(index)
  \/ \E h \in Holder, index \in 0..MaxNodes : FindNode(h, index)
  \/ \E h \in Holder : DeleteNode(h)

ListSpec == ListInit /\ [][ListNext]_listVars

-----------------------------------------------------------------------------
Sequence == INSTANCE SequenceEdits WITH items <- Elements

\* Every call of LinkedList, whatever node it is given, adds at most one element or takes out
\* at most one and keeps the order of the rest, as a sequence does.
ListIsSequence == Sequence!Spec

\* deleteNode(Node) takes out the element its caller had found in the node, and no other, if
\* the element is still in the list, was not moved by an earlier deleteNode(Node) on its
\* predecessor, and is not the last (which ends with an exception and changes nothing).
\* Without the second condition it is false: the node the caller holds is then detached, and
\* the call changes nothing the list shows.
HeldNodeDeletesItsElement ==
  [][\A h \in Holder :
       /\ DeleteNode(h)
       /\ foundAs[h] \in ToSet(Elements) \ moved
       => IF npe' THEN Elements' = Elements
          ELSE \E k \in DOMAIN Elements :
                 Elements[k] = foundAs[h] /\ Elements' = RemoveAt(Elements, k)]_listVars
=============================================================================
