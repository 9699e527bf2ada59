----------------------------- MODULE ArenaTree -----------------------------
(***************************************************************************)
(* lovely_tree::Tree: an ordered tree kept in a slot map of nodes that are *)
(* linked to their parent, their first and last child and their left and   *)
(* right sibling, with an index from uuid to node.                         *)
(*                                                                         *)
(* A slot-map key carries a generation, so an insertion returns a key that *)
(* was never handed out before.  Here keys are 1, 2, 3, ... in the order   *)
(* they are handed out, and NoNode stands for None.  A call that returns   *)
(* Err before it touches the tree is a stutter and has no action.          *)
(***************************************************************************)
EXTENDS Integers, FiniteSets

CONSTANTS
    Uuid,       \* element uuids
    Content,    \* tag, attributes and text of a node: data to the tree
    MaxNodes    \* bound on the keys handed out in a behaviour

ASSUME ArenaTreeAssumption == MaxNodes \in Nat \ {0}

VARIABLES
    nodes,      \* Tree.nodes: a function from the live keys to nodes
    root,       \* Tree.root
    by_uuid,    \* Tree.by_uuid
    handed,     \* keys handed out so far
    strayed     \* history: some move_to got a sibling that is not a child of
                \* new_parent, or is the moved node itself

arenaVars == <<nodes, root, by_uuid, handed, strayed>>

NoNode == 0

Node == [uuid : Uuid, content : Content, parent : Nat,
         first : Nat, last : Nat, prev : Nat, next : Nat]

-----------------------------------------------------------------------------
(* Links *)

\* A slip: the right sibling keeps its link to the left one.
LinkedForward(f, id, p, l, r) ==
    [n \in DOMAIN f |-> [f[n] EXCEPT
        !.parent = IF n = id THEN p ELSE @,
        !.prev   = IF n = id THEN l ELSE @,
        !.next   = IF n = id THEN r ELSE IF n = l THEN id ELSE @,
        !.first  = IF n = p /\ l = NoNode THEN id ELSE @,
        !.last   = IF n = p /\ r = NoNode THEN id ELSE @]]

\* Put id, which no node links to, under p between the siblings l and r:
\* the link updates of append_child, insert_before, insert_after and of the
\* four positions of move_to.
Linked(f, id, p, l, r) ==
    [n \in DOMAIN f |-> [f[n] EXCEPT
        !.parent = IF n = id THEN p ELSE @,
        !.prev   = IF n = id THEN l ELSE IF n = r THEN id ELSE @,
        !.next   = IF n = id THEN r ELSE IF n = l THEN id ELSE @,
        !.first  = IF n = p /\ l = NoNode THEN id ELSE @,
        !.last   = IF n = p /\ r = NoNode THEN id ELSE @]]

\* A slip: detach_links without the update of last_child.
DetachedKeepsLast(f, id) ==
    [n \in DOMAIN f |-> [f[n] EXCEPT
        !.first = IF n = f[id].parent /\ @ = id THEN f[id].next ELSE @,
        !.next  = IF n = f[id].prev THEN f[id].next ELSE @,
        !.prev  = IF n = f[id].next THEN f[id].prev ELSE @]]

\* detach_links: parent and siblings of id bypass it; id keeps its own links.
Detached(f, id) ==
    [n \in DOMAIN f |-> [f[n] EXCEPT
        !.first = IF n = f[id].parent /\ @ = id THEN f[id].next ELSE @,
        !.last  = IF n = f[id].parent /\ @ = id THEN f[id].prev ELSE @,
        !.next  = IF n = f[id].prev THEN f[id].next ELSE @,
        !.prev  = IF n = f[id].next THEN f[id].prev ELSE @]]

\* move_to up to its match on the position: id is out, and linked to nothing
\* but its children.
Loose(f, id) ==
    [Detached(f, id) EXCEPT ![id].parent = NoNode,
                            ![id].prev = NoNode,
                            ![id].next = NoNode]

\* insert_node: a new node without children, not linked to yet.
WithNode(f, id, u, c) ==
    [n \in DOMAIN f \cup {id} |->
        IF n = id
        THEN [uuid |-> u, content |-> c, parent |-> NoNode, first |-> NoNode,
              last |-> NoNode, prev |-> NoNode, next |-> NoNode]
        ELSE f[n]]

-----------------------------------------------------------------------------
(* Walks *)

\* n and the nodes that a walk over parent from n meets.
Upward(f, n) ==
    {x \in DOMAIN f :
        \A S \in SUBSET DOMAIN f :
            /\ n \in S
            /\ \A y \in S : f[y].parent \in S \cup {NoNode}
            => x \in S}

\* id and what the stack of remove() reaches from it: the child list of every
\* node taken from the stack, by first_child and then next_sibling.
Downward(f, id) ==
    {x \in DOMAIN f :
        \A S \in SUBSET DOMAIN f :
            /\ id \in S
            /\ \A y \in S : f[y].first \in S \cup {NoNode}
            /\ \A y \in S \ {id} : f[y].next \in S \cup {NoNode}
            => x \in S}

ChildrenOf(f, p) == {n \in DOMAIN f : f[n].parent = p}

\* ChildrenIter: the child list of p, from first_child along next_sibling.
ChildList(f, p) ==
    LET n == Cardinality(ChildrenOf(f, p))
        at[i \in 1..n] == IF i = 1 THEN f[p].first
                          ELSE LET x == at[i - 1]
                               IN  IF x \in DOMAIN f THEN f[x].next ELSE NoNode
    IN  at

-----------------------------------------------------------------------------
(* Operations *)

\* Every insertion: a fresh key, the uuid not in use.
Insert(p, l, r, u, c) ==
    /\ handed < MaxNodes
    /\ u \notin DOMAIN by_uuid
    /\ handed' = handed + 1
    /\ nodes' = Linked(WithNode(nodes, handed + 1, u, c), handed + 1, p, l, r)
    /\ by_uuid' = [v \in DOMAIN by_uuid \cup {u} |->
                      IF v = u THEN handed + 1 ELSE by_uuid[v]]
    /\ UNCHANGED <<root, strayed>>

AppendChild(p, u, c) ==
    /\ p \in DOMAIN nodes
    /\ Insert(p, nodes[p].last, NoNode, u, c)

InsertBefore(s, u, c) ==
    /\ s \in DOMAIN nodes
    /\ nodes[s].parent # NoNode
    /\ Insert(nodes[s].parent, nodes[s].prev, s, u, c)

InsertAfter(s, u, c) ==
    /\ s \in DOMAIN nodes
    /\ nodes[s].parent # NoNode
    /\ Insert(nodes[s].parent, s, nodes[s].next, u, c)

\* A slip: remove() does not look whether it is asked for the root.
RemoveEvenRoot(id) ==
    /\ id \in DOMAIN nodes
    /\ LET f    == Detached(nodes, id)
           gone == Downward(f, id)
       IN  /\ nodes' = [n \in DOMAIN f \ gone |-> f[n]]
           /\ by_uuid' = [u \in DOMAIN by_uuid \ {f[n].uuid : n \in gone} |-> by_uuid[u]]
    /\ UNCHANGED <<root, handed, strayed>>

\* A slip: remove() takes the node and leaves its children in the arena.
RemoveNodeShallow(id) ==
    /\ id \in DOMAIN nodes \ {root}
    /\ LET f == Detached(nodes, id)
       IN  /\ nodes' = [n \in DOMAIN f \ {id} |-> f[n]]
           /\ by_uuid' = [u \in DOMAIN by_uuid \ {f[id].uuid} |-> by_uuid[u]]
    /\ UNCHANGED <<root, handed, strayed>>

RemoveNode(id) ==
    /\ id \in DOMAIN nodes \ {root}
    /\ LET f    == Detached(nodes, id)
           gone == Downward(f, id)
       IN  /\ nodes' = [n \in DOMAIN f \ gone |-> f[n]]
           /\ by_uuid' = [u \in DOMAIN by_uuid \ {f[n].uuid : n \in gone} |-> by_uuid[u]]
    /\ UNCHANGED <<root, handed, strayed>>

\* A slip: the walk starts above new_parent.
MayMoveBelowSelf(id, p) ==
    /\ id \in DOMAIN nodes \ {root}
    /\ p \in DOMAIN nodes
    /\ nodes[p].parent # NoNode => id \notin Upward(nodes, nodes[p].parent)

\* What move_to checks before it touches the tree: the walk from new_parent
\* ends without meeting id.  (Under a parent cycle it never ends.)
MayMove(id, p) ==
    /\ id \in DOMAIN nodes \ {root}
    /\ p \in DOMAIN nodes
    /\ id \notin Upward(nodes, p)
    /\ \E x \in Upward(nodes, p) : nodes[x].parent = NoNode

MoveTo(id, p, l, r) ==
    /\ nodes' = Linked(Loose(nodes, id), id, p, l, r)
    /\ UNCHANGED <<root, by_uuid, handed>>

MoveAppend(id, p) ==
    /\ MayMove(id, p)
    /\ MoveTo(id, p, Loose(nodes, id)[p].last, NoNode)
    /\ UNCHANGED strayed

MovePrepend(id, p) ==
    /\ MayMove(id, p)
    /\ MoveTo(id, p, NoNode, Loose(nodes, id)[p].first)
    /\ UNCHANGED strayed

\* A caller's slip that move_to does not refuse: s is not a child of p, or it
\* is id itself.
Stray(id, p, s) == s = id \/ s \notin ChildrenOf(nodes, p)

\* Before(s) and After(s) go under the parent of s; new_parent served only the
\* cycle check.
MoveBefore(id, p, s) ==
    /\ MayMove(id, p)
    /\ LET f == Loose(nodes, id)
       IN  /\ s \in DOMAIN f /\ f[s].parent # NoNode
           /\ MoveTo(id, f[s].parent, f[s].prev, s)
    /\ strayed' = (strayed \/ Stray(id, p, s))

MoveAfter(id, p, s) ==
    /\ MayMove(id, p)
    /\ LET f == Loose(nodes, id)
       IN  /\ s \in DOMAIN f /\ f[s].parent # NoNode
           /\ MoveTo(id, f[s].parent, s, f[s].next)
    /\ strayed' = (strayed \/ Stray(id, p, s))

\* Before or After a key that is gone, the root, a loose node or id itself:
\* Err, but id has left its place.
MoveLosesNode(id, p, s) ==
    /\ MayMove(id, p)
    /\ s \in DOMAIN nodes => Loose(nodes, id)[s].parent = NoNode
    /\ nodes' = Loose(nodes, id)
    /\ strayed' = TRUE
    /\ UNCHANGED <<root, by_uuid, handed>>

Update(id, c) ==
    /\ id \in DOMAIN nodes
    /\ nodes' = [nodes EXCEPT ![id].content = c]
    /\ UNCHANGED <<root, by_uuid, handed, strayed>>

\* Tree::new.
NewTree(u, c) ==
    /\ nodes = WithNode(<<>>, 1, u, c)
    /\ root = 1
    /\ by_uuid = [v \in {u} |-> 1]
    /\ handed = 1
    /\ strayed = FALSE

\* Keys that a caller may hold: those handed out so far.
Key == 1..handed

\* The calls a user of the tree may make, with uuids of U and contents of C.
ArenaCalls(U, C) ==
    \/ \E p \in Key, u \in U, c \in C :
           AppendChild(p, u, c) \/ InsertBefore(p, u, c) \/ InsertAfter(p, u, c)
    \/ \E id \in Key : RemoveNode(id)
    \/ \E id, p \in Key : MoveAppend(id, p) \/ MovePrepend(id, p)
    \/ \E id, p, s \in Key :
           MoveBefore(id, p, s) \/ MoveAfter(id, p, s) \/ MoveLosesNode(id, p, s)
    \/ \E id \in Key, c \in C : Update(id, c)

ArenaInit == \E u \in Uuid, c \in Content : NewTree(u, c)

\* A tree on its own, in the hands of any caller.
ArenaSpec == ArenaInit /\ [][ArenaCalls(Uuid, Content)]_arenaVars

-----------------------------------------------------------------------------
(* Properties *)

ArenaTypeOK ==
    /\ nodes \in [DOMAIN nodes -> Node]
    /\ handed \in Nat
    /\ DOMAIN nodes \subseteq 1..handed
    /\ root \in DOMAIN nodes
    /\ strayed \in BOOLEAN

\* The index and the nodes agree: every uuid names the one node that has it.
IndexIsExact ==
    /\ DOMAIN by_uuid = {nodes[n].uuid : n \in DOMAIN nodes}
    /\ \A n \in DOMAIN nodes : by_uuid[nodes[n].uuid] = n

\* The links between siblings, parents and children answer each other.
LinksAgree ==
    \A n \in DOMAIN nodes :
        LET x == nodes[n]
        IN  /\ x.prev # NoNode =>
                  /\ x.prev \in DOMAIN nodes
                  /\ nodes[x.prev].next = n
                  /\ nodes[x.prev].parent = x.parent
            /\ x.next # NoNode =>
                  /\ x.next \in DOMAIN nodes
                  /\ nodes[x.next].prev = n
            /\ x.parent # NoNode =>
                  /\ x.parent \in DOMAIN nodes
                  /\ x.prev = NoNode => nodes[x.parent].first = n
                  /\ x.next = NoNode => nodes[x.parent].last = n

\* check_invariants never fails, whatever the calls were, the refused ones and
\* the half-done ones included: debug_assert_invariants does not panic.
InvariantsHold == IndexIsExact /\ LinksAgree

\* What check_invariants does not look at: the list a walk over first_child
\* and next_sibling meets is all the children, each once.
ListsAreComplete ==
    /\ \A n \in DOMAIN nodes :
           /\ nodes[n].first \in ChildrenOf(nodes, n) \cup {NoNode}
           /\ nodes[n].first # NoNode => nodes[nodes[n].first].prev = NoNode
    /\ \A S \in SUBSET DOMAIN nodes :
           S # {} => \E x \in S : nodes[x].prev \notin S

\* As long as no caller strayed, every node hangs below the root: nothing is
\* lost to the walks, and no parent chain runs in a circle.
AllBelowRoot ==
    ~strayed => \A S \in SUBSET (DOMAIN nodes \ {root}) :
                    S # {} => \E x \in S : nodes[x].parent \in DOMAIN nodes \ S

=============================================================================
