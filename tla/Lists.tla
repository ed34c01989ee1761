-------------------------------- MODULE Lists --------------------------------
(***************************************************************************)
(* Base::List and Base::SingleList (Base/Container): the pointers of a     *)
(* doubly and of a singly linked list, beside the sequences they stand     *)
(* for.  LRUCache, ScheduledThread and Reactor keep iterators into a List  *)
(* for long and move and erase through them; LinkedThreadPool keeps its    *)
(* tasks in a SingleList.                                                  *)
(*                                                                         *)
(* A node outside a list is new or in a Val that release has returned;     *)
(* insert treats both alike, so its pointers are NoNode until then.  An      *)
(* iterator is a node of the list, or NoNode for end() and before_begin().   *)
(***************************************************************************)
EXTENDS Integers, Sequences, FiniteSets

CONSTANTS ListNode, NoNode

ASSUME ListAssumption == IsFiniteSet(ListNode) /\ NoNode \notin ListNode

VARIABLES
    double,     \* a List: [head, tail, next, prev, size]
    items,      \* the sequence it stands for
    loose,      \* the node that was moved before itself, or NoNode
    single,     \* a SingleList: [head, tail, next, size]
    entries,    \* the sequence it stands for
    tailSound   \* history: next_to_after has not moved the last node

listVars == <<double, items, loose, single, entries, tailSound>>

At(s, n) == IF n = NoNode THEN Len(s) + 1 ELSE CHOOSE i \in DOMAIN s : s[i] = n
NodesOf(s) == {s[i] : i \in DOMAIN s}
NotIn(s) == ListNode \ NodesOf(s)

\* s with n at the place i, and s without its places from i up to j.
Inserted(s, i, n) == SubSeq(s, 1, i - 1) \o <<n>> \o SubSeq(s, i, Len(s))
CutOut(s, i, j) == SubSeq(s, 1, i - 1) \o SubSeq(s, j, Len(s))
CutNode(s, n) == CutOut(s, At(s, n), At(s, n) + 1)

-----------------------------------------------------------------------------
(* List *)

\* The nodes p and q become neighbours; NoNode on either side is the list's end.
Neighbours(d, p, q) ==
    LET n == IF p = NoNode THEN [d EXCEPT !.head = q] ELSE [d EXCEPT !.next[p] = q]
    IN  IF q = NoNode THEN [n EXCEPT !.tail = p] ELSE [n EXCEPT !.prev[q] = p]

MutForgetsTail(d, n) ==
    LET p == d.prev[n]
        q == d.next[n]
        u == IF p = NoNode THEN [d EXCEPT !.head = q] ELSE [d EXCEPT !.next[p] = q]
    IN  IF q = NoNode THEN u ELSE [u EXCEPT !.prev[q] = p]

\* How move_to, erase and release take a node out of the chain.
Unchained(d, n) == Neighbours(d, d.prev[n], d.next[n])

\* How insert and move_to put the node n before dest.
ChainedBefore(d, dest, n) ==
    LET before == IF dest = NoNode THEN d.tail ELSE d.prev[dest]
    IN  Neighbours(Neighbours(d, before, n), n, dest)

Fresh(d, n) == [d EXCEPT !.next[n] = NoNode, !.prev[n] = NoNode]

\* insert, of new data or of a Val.
InsertNode(dest, n) ==
    /\ n \in NotIn(items)
    /\ double' = [ChainedBefore(double, dest, n) EXCEPT !.size = @ + 1]
    /\ items' = Inserted(items, At(items, dest), n)
    /\ UNCHANGED loose

\* move_to before another node or to the end: nothing moves when the node is
\* there already.
MoveTo(dest, n) ==
    /\ n \in NodesOf(items) /\ dest # n
    /\ double' = IF double.next[n] = dest THEN double ELSE ChainedBefore(Unchained(double, n), dest, n)
    /\ items' = LET rest == CutNode(items, n) IN Inserted(rest, At(rest, dest), n)
    /\ UNCHANGED loose

\* move_to before the node itself, which the test for this does not find: the node
\* is taken out of the chain and chained to itself, and _size counts it on.
MoveBeforeItself(n) ==
    /\ n \in NodesOf(items)
    /\ double' = [Unchained(double, n) EXCEPT !.next[n] = n, !.prev[n] = n]
    /\ items' = CutNode(items, n)
    /\ loose' = n

\* erase and release.
EraseNode(n) ==
    /\ n \in NodesOf(items)
    /\ double' = Fresh([Unchained(double, n) EXCEPT !.size = @ - 1], n)
    /\ items' = CutNode(items, n)
    /\ UNCHANGED loose

\* erase of the nodes from first up to end.
EraseNodes(first, end) ==
    /\ first \in NodesOf(items)
    /\ At(items, first) <= At(items, end)
    /\ LET gone == SubSeq(items, At(items, first), At(items, end) - 1)
       IN  /\ double' = LET d == Neighbours(double, double.prev[first], end)
                        IN  [d EXCEPT !.size = @ - Len(gone),
                                      !.next = [n \in ListNode |-> IF n \in NodesOf(gone) THEN NoNode ELSE d.next[n]],
                                      !.prev = [n \in ListNode |-> IF n \in NodesOf(gone) THEN NoNode ELSE d.prev[n]]]
           /\ items' = CutOut(items, At(items, first), At(items, end))
           /\ UNCHANGED loose

-----------------------------------------------------------------------------
(* SingleList *)

Following(n) == IF n = NoNode THEN single.head ELSE single.next[n]

\* The pointer after p, _head if p is NoNode, becomes n.
Linked(s, p, n) == IF p = NoNode THEN [s EXCEPT !.head = n] ELSE [s EXCEPT !.next[p] = n]

\* The place of the node after p.
AfterPlace(p) == IF p = NoNode THEN 1 ELSE At(entries, p) + 1

\* insert_after, of new data or of a Val.
InsertAfter(p, n) ==
    /\ n \in NotIn(entries)
    /\ single' = LET s == Linked([single EXCEPT !.next[n] = Following(p)], p, n)
                 IN  [s EXCEPT !.tail = IF single.tail = p THEN n ELSE @, !.size = @ + 1]
    /\ entries' = Inserted(entries, AfterPlace(p), n)
    /\ UNCHANGED tailSound

\* The node after from moves to the place after p.  _tail is kept up to date
\* when p was the last node, or when the node moves to the front.
NextToAfter(p, from) ==
    LET n == Following(from)
    IN  /\ p # from /\ n # NoNode /\ n # p
        /\ single' =
              LET s == Linked(single, from, single.next[n])
              IN  [Linked([s EXCEPT !.next[n] = IF p = NoNode THEN s.head ELSE s.next[p]], p, n) EXCEPT
                      !.tail = IF p = single.tail THEN n
                               ELSE IF p = NoNode /\ n = single.tail THEN from ELSE @]
        /\ entries' = LET rest == CutNode(entries, n)
                      IN  Inserted(rest, IF p = NoNode THEN 1 ELSE At(rest, p) + 1, n)
        /\ tailSound' = (tailSound /\ (p = NoNode \/ n # single.tail))

\* erase_after of one node, and release_after: nothing after the last one.
EraseAfter(p) ==
    LET n == Following(p)
    IN  /\ p # single.tail
        /\ single' = [Linked(single, p, single.next[n]) EXCEPT
                         !.next[n] = NoNode, !.size = @ - 1, !.tail = IF n = @ THEN p ELSE @]
        /\ entries' = CutNode(entries, n)
        /\ UNCHANGED tailSound

\* erase_after of the nodes between p and end.
EraseRangeAfter(p, end) ==
    /\ p # single.tail
    /\ AfterPlace(p) <= At(entries, end)
    /\ LET gone == SubSeq(entries, AfterPlace(p), At(entries, end) - 1)
           s == Linked(single, p, end)
       IN  /\ single' = [s EXCEPT !.size = @ - Len(gone),
                                  !.tail = IF end = NoNode THEN p ELSE @,
                                  !.next = [n \in ListNode |-> IF n \in NodesOf(gone) THEN NoNode ELSE s.next[n]]]
           /\ entries' = CutOut(entries, AfterPlace(p), At(entries, end))
    /\ UNCHANGED tailSound

-----------------------------------------------------------------------------
Unlinked == [n \in ListNode |-> NoNode]

ListInit ==
    /\ double = [head |-> NoNode, tail |-> NoNode, next |-> Unlinked, prev |-> Unlinked, size |-> 0]
    /\ items = <<>> /\ loose = NoNode
    /\ single = [head |-> NoNode, tail |-> NoNode, next |-> Unlinked, size |-> 0]
    /\ entries = <<>>
    /\ tailSound = TRUE

\* What is done with a list that has a loose node, and with a SingleList that does
\* not know its end, is not modelled.
DoubleNext ==
    /\ loose = NoNode
    /\ \E n \in ListNode :
          \/ \E d \in NodesOf(items) \cup {NoNode} : InsertNode(d, n) \/ MoveTo(d, n) \/ EraseNodes(n, d)
          \/ EraseNode(n) \/ MoveBeforeItself(n)
    /\ UNCHANGED <<single, entries, tailSound>>

SingleNext ==
    /\ tailSound
    /\ \E p \in NodesOf(entries) \cup {NoNode} :
          \/ \E n \in ListNode : InsertAfter(p, n)
          \/ \E q \in NodesOf(entries) \cup {NoNode} : NextToAfter(p, q) \/ EraseRangeAfter(p, q)
          \/ EraseAfter(p)
    /\ UNCHANGED <<double, items, loose>>

ListNext == DoubleNext \/ SingleNext

ListSpec == ListInit /\ [][ListNext]_listVars

-----------------------------------------------------------------------------
(* Properties *)

\* The pointers of a chain lead through s and nothing else.
Leads(list, s) ==
    /\ list.head = IF s = <<>> THEN NoNode ELSE Head(s)
    /\ \A i \in DOMAIN s : list.next[s[i]] = IF i = Len(s) THEN NoNode ELSE s[i + 1]

\* After any sequence of insertions, moves, erasures and releases a List leads
\* forwards and backwards through the nodes it should hold and knows its ends
\* and its size; only a node that was moved before itself is lost to it and yet
\* counted.  So does a SingleList until next_to_after moves the last node behind
\* another one, which leaves _tail where it was.
ListsAgree ==
    /\ Leads(double, items)
    /\ double.tail = IF items = <<>> THEN NoNode ELSE items[Len(items)]
    /\ \A i \in DOMAIN items : double.prev[items[i]] = IF i = 1 THEN NoNode ELSE items[i - 1]
    /\ double.size = IF loose = NoNode THEN Len(items) ELSE Len(items) + 1
    /\ Leads(single, entries) /\ single.size = Len(entries)
    /\ tailSound => single.tail = IF entries = <<>> THEN NoNode ELSE entries[Len(entries)]

=============================================================================
