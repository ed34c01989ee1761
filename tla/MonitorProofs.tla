---------------------------- MODULE MonitorProofs ----------------------------
(***************************************************************************)
(* Proofs about the monitors and the Reactor that waits on one of them.    *)
(*                                                                         *)
(* The monitors, for any descriptors, interests and data: a Selector and a *)
(* Poller always report what they were asked for, and an EPoller does      *)
(* while no interest is changed or empty (MonitorsAgree).                  *)
(*                                                                         *)
(* Each monitor has an invariant that ties it to the table a of what was   *)
(* asked; a call changes a by Entered and Removed, and one lemma for each  *)
(* monitor and each of the two shows that the call follows.                *)
(*                                                                         *)
(* The Reactor, for any connections, users and callbacks: its map, timers  *)
(* and monitor agree between two functions (ReactorAgrees), and every      *)
(* connection it was given is closed once (ClosedOnce).  ReactorInv says   *)
(* of each connection where it is on its way from add_channel to its       *)
(* closing.                                                                *)
(***************************************************************************)
EXTENDS Monitors, Reactor, FiniteSetTheorems, WellFoundedInduction, TLAPS

Table(a) ==
    /\ DOMAIN a \subseteq Descriptor
    /\ a \in [DOMAIN a -> Entry]
    /\ \A fd \in DOMAIN a : a[fd].fd = fd

\* A vector of entries holds those of a, each once.
Holds(l, a) ==
    /\ l \in Seq(Entry)
    /\ \A i, j \in DOMAIN l : l[i].fd = l[j].fd => i = j
    /\ \A i \in DOMAIN l : l[i].fd \in DOMAIN a /\ a[l[i].fd] = l[i]
    /\ \A fd \in DOMAIN a : \E i \in DOMAIN l : l[i].fd = fd

\* The descriptors that ask for the event b
Wants(a, b) == {fd \in DOMAIN a : b \in a[fd].event}

\* The counters count them, and no descriptor is above ndfs.
SelectorOK(s, a) ==
    /\ s \in [fds : Seq(Entry), readSize : Int, writeSize : Int, ndfs : Nat]
    /\ Holds(s.fds, a)
    /\ s.readSize = Cardinality(Wants(a, "Read"))
    /\ s.writeSize = Cardinality(Wants(a, "Write"))
    /\ \A i \in DOMAIN s.fds : s.fds[i].fd <= s.ndfs

PollFd == [fd : Descriptor, event : Interest]

\* Place i of the vector f and of the vector d hold one entry of a, and the map m
\* leads from its descriptor to i.
PollerAgrees(f, d, m, a) ==
    /\ f \in Seq(PollFd) /\ d \in Seq(Datum) /\ Len(d) = Len(f)
    /\ m \in [DOMAIN a -> Nat]
    /\ \A i \in DOMAIN f :
          /\ f[i].fd \in DOMAIN a /\ m[f[i].fd] = i
          /\ a[f[i].fd].event = f[i].event /\ a[f[i].fd].data = d[i]
    /\ \A fd \in DOMAIN a : m[fd] \in DOMAIN f /\ f[m[fd]].fd = fd

PollerOK(p, a) ==
    /\ p = [fds |-> p.fds, datas |-> p.datas, mapping |-> p.mapping]
    /\ PollerAgrees(p.fds, p.datas, p.mapping, a)

\* The map is the table, and the kernel has an entry for each of its nodes.
EPollerOK(e, k, a) ==
    /\ e = [fds |-> a, active |-> Cardinality(DOMAIN a)]
    /\ k = [fd \in DOMAIN a |-> [event |-> a[fd].event, node |-> fd]]
    /\ \A fd \in DOMAIN a : a[fd].event # {}

AnswersOK ==
    /\ answers.selector = answers.asked /\ answers.poller = answers.asked
    /\ plain => answers.epoller = answers.asked

MonitorInv ==
    /\ Table(asked)
    /\ SelectorOK(selector, asked)
    /\ PollerOK(poller, asked)
    /\ plain \in BOOLEAN
    /\ plain => EPollerOK(epoller, kernel, asked)
    /\ AnswersOK

-----------------------------------------------------------------------------
(* The table *)

\* The fields of an entry.
LEMMA EntryFields ==
    ASSUME NEW e \in Entry
    PROVE  /\ e.fd \in Descriptor /\ e.fd \in Nat /\ e.fd > 0
           /\ e.event \in Interest /\ e.event \subseteq {"Read", "Write"}
           /\ e.data \in Datum
<1>1. e.fd \in Descriptor /\ e.event \in Interest /\ e.data \in Datum
    BY DEF Entry
<1>2. e.fd \in Nat \ {0} /\ e.event \in SUBSET {"Read", "Write"}
    BY <1>1, MonitorAssumption, Zenon
<1> QED BY <1>1, <1>2

\* An entry comes into the table, or takes the place of the one before.
LEMMA TableEntered ==
    ASSUME NEW a, Table(a), NEW e \in Entry
    PROVE  /\ Table(Entered(a, e.fd, e))
           /\ DOMAIN Entered(a, e.fd, e) = DOMAIN a \cup {e.fd}
           /\ \A fd \in DOMAIN a \cup {e.fd} : Entered(a, e.fd, e)[fd] = IF fd = e.fd THEN e ELSE a[fd]
BY EntryFields DEF Table, Entered

\* An entry leaves it.
LEMMA TableRemoved ==
    ASSUME NEW a, Table(a), NEW k
    PROVE  /\ Table(Removed(a, k))
           /\ DOMAIN Removed(a, k) = DOMAIN a \ {k}
           /\ \A fd \in DOMAIN a \ {k} : Removed(a, k)[fd] = a[fd]
BY DEF Table, Removed

\* The sets that are counted are finite.
LEMMA WantsFinite ==
    ASSUME NEW a, Table(a), NEW b
    PROVE  /\ IsFiniteSet(DOMAIN a) /\ Cardinality(DOMAIN a) \in Nat
           /\ IsFiniteSet(Wants(a, b)) /\ Cardinality(Wants(a, b)) \in Nat
           /\ \A fd \in Wants(a, b) : Cardinality(Wants(a, b)) > 0
<1>1. IsFiniteSet(DOMAIN a)
    BY MonitorAssumption, FS_Subset DEF Table
<1>2. IsFiniteSet(Wants(a, b))
    BY <1>1, FS_Subset DEF Wants
<1>3. Cardinality(DOMAIN a) \in Nat /\ Cardinality(Wants(a, b)) \in Nat
    BY <1>1, <1>2, FS_CardinalityType
<1>4. ASSUME NEW fd \in Wants(a, b) PROVE Cardinality(Wants(a, b)) # 0
    BY <1>2, FS_EmptySet
<1> QED BY <1>1, <1>2, <1>3, <1>4

\* One more element, or one less
LEMMA CountChange ==
    ASSUME NEW S, IsFiniteSet(S), NEW x
    PROVE  /\ Cardinality(S \cup {x}) = Cardinality(S) + (IF x \in S THEN 0 ELSE 1)
           /\ Cardinality(S \ {x}) = Cardinality(S) - (IF x \in S THEN 1 ELSE 0)
<1>0. Cardinality(S) \in Nat
    BY FS_CardinalityType
<1>1. CASE x \in S
    <2>1. S \cup {x} = S
        BY <1>1
    <2>2. Cardinality(S \ {x}) = Cardinality(S) - 1
        BY <1>1, FS_RemoveElement
    <2>3. Cardinality(S \cup {x}) = Cardinality(S) + 0
        <3>1. Cardinality(S) = Cardinality(S) + 0
            BY <1>0
        <3> QED BY <2>1, <3>1, Zenon
    <2>4. Cardinality(S \cup {x}) = Cardinality(S) + (IF x \in S THEN 0 ELSE 1)
        BY <1>1, <2>3, Zenon
    <2>5. Cardinality(S \ {x}) = Cardinality(S) - (IF x \in S THEN 1 ELSE 0)
        BY <1>1, <2>2, Zenon
    <2> QED BY <2>4, <2>5
<1>2. CASE x \notin S
    <2>1. S \ {x} = S
        BY <1>2
    <2>2. Cardinality(S \cup {x}) = Cardinality(S) + 1
        BY <1>2, FS_AddElement
    <2>3. Cardinality(S \ {x}) = Cardinality(S) - 0
        <3>1. Cardinality(S) = Cardinality(S) - 0
            BY <1>0
        <3> QED BY <2>1, <3>1, Zenon
    <2>4. Cardinality(S \cup {x}) = Cardinality(S) + (IF x \in S THEN 0 ELSE 1)
        BY <1>2, <2>2, Zenon
    <2>5. Cardinality(S \ {x}) = Cardinality(S) - (IF x \in S THEN 1 ELSE 0)
        BY <1>2, <2>3, Zenon
    <2> QED BY <2>4, <2>5
<1> QED BY <1>1, <1>2

\* add_fd and update_fd change a counter by what the entry says ...
LEMMA WantsEntered ==
    ASSUME NEW a, Table(a), NEW e \in Entry, NEW b
    PROVE  Cardinality(Wants(Entered(a, e.fd, e), b))
             = Cardinality(Wants(a, b)) - (IF e.fd \in Wants(a, b) THEN 1 ELSE 0)
                                        + (IF b \in e.event THEN 1 ELSE 0)
<1> DEFINE S == Wants(a, b)
<1>1. IsFiniteSet(S) /\ Cardinality(S) \in Nat
    BY WantsFinite
<1>2. Wants(Entered(a, e.fd, e), b) = IF b \in e.event THEN S \cup {e.fd} ELSE S \ {e.fd}
    <2>1. PICK c : c = Entered(a, e.fd, e)
        OBVIOUS
    <2>2. /\ DOMAIN c = DOMAIN a \cup {e.fd}
          /\ \A fd \in DOMAIN a \cup {e.fd} : c[fd] = IF fd = e.fd THEN e ELSE a[fd]
        BY <2>1, TableEntered
    <2>3. Wants(c, b) = IF b \in e.event THEN S \cup {e.fd} ELSE S \ {e.fd}
        BY <2>2 DEF Wants
    <2> QED BY <2>1, <2>3
<1> HIDE DEF S
<1>3. /\ Cardinality(S \cup {e.fd}) = Cardinality(S) + (IF e.fd \in S THEN 0 ELSE 1)
      /\ Cardinality(S \ {e.fd}) = Cardinality(S) - (IF e.fd \in S THEN 1 ELSE 0)
    BY <1>1, CountChange
<1>4. Cardinality(Wants(Entered(a, e.fd, e), b))
        = Cardinality(S) - (IF e.fd \in S THEN 1 ELSE 0) + (IF b \in e.event THEN 1 ELSE 0)
    BY <1>1, <1>2, <1>3
<1> QED BY <1>4 DEF S

\* ... and so does remove_fd.
LEMMA WantsRemoved ==
    ASSUME NEW a, Table(a), NEW k, NEW b
    PROVE  Cardinality(Wants(Removed(a, k), b)) = Cardinality(Wants(a, b)) - (IF k \in Wants(a, b) THEN 1 ELSE 0)
<1>1. Wants(Removed(a, k), b) = Wants(a, b) \ {k}
    <2>1. PICK c : c = Removed(a, k)
        OBVIOUS
    <2>2. DOMAIN c = DOMAIN a \ {k} /\ \A fd \in DOMAIN a \ {k} : c[fd] = a[fd]
        BY <2>1, TableRemoved
    <2>3. Wants(c, b) = Wants(a, b) \ {k}
        BY <2>2 DEF Wants
    <2> QED BY <2>1, <2>3
<1> DEFINE S == Wants(a, b)
<1>2. IsFiniteSet(S)
    BY WantsFinite
<1> HIDE DEF S
<1>3. Cardinality(S \ {k}) = Cardinality(S) - (IF k \in S THEN 1 ELSE 0)
    BY <1>2, CountChange
<1> QED BY <1>1, <1>3, Zenon DEF S

-----------------------------------------------------------------------------
(* Vectors *)

\* The last element takes the place of the one removed.
LEMMA SwapOutFacts ==
    ASSUME NEW S, NEW s \in Seq(S), NEW i \in DOMAIN s
    PROVE  /\ SwapOut(s, i) \in Seq(S) /\ Len(SwapOut(s, i)) = Len(s) - 1
           /\ Len(s) \in Nat /\ Len(s) > 0 /\ DOMAIN s = 1 .. Len(s)
           /\ \A j \in 1 .. Len(s) - 1 : SwapOut(s, i)[j] = IF j = i THEN s[Len(s)] ELSE s[j]
<1>1. Len(s) \in Nat /\ Len(s) > 0 /\ DOMAIN s = 1 .. Len(s) /\ \A j \in 1 .. Len(s) : s[j] \in S
    OBVIOUS
<1>2. SwapOut(s, i) = [j \in 1 .. Len(s) - 1 |-> IF j = i THEN s[Len(s)] ELSE s[j]]
    BY DEF SwapOut
<1>3. SwapOut(s, i) \in [1 .. Len(s) - 1 -> S]
    BY <1>1, <1>2
<1>4. Len(s) - 1 \in Nat
    BY <1>1
<1>5. SwapOut(s, i) \in Seq(S) /\ Len(SwapOut(s, i)) = Len(s) - 1
    BY <1>3, <1>4
<1> QED BY <1>1, <1>2, <1>5

\* Every set of numbers has a least one.
LEMMA Smallest ==
    ASSUME NEW T, T \subseteq Nat, T # {}
    PROVE  \E m \in T : \A n \in T : m <= n
<1>1. PICK m \in T : \A n \in T : ~ (<<n, m>> \in OpToRel(<, Nat))
    BY WFMin, NatLessThanWellFounded, Zenon
<1>2. \A n \in T : ~ (n < m)
    BY <1>1, Zenon DEF OpToRel
<1> QED BY <1>2

\* Any list of entries has a highest descriptor.
LEMMA HighestOfList ==
    ASSUME NEW l \in Seq(Entry), NEW top \in Nat, \A i \in DOMAIN l : l[i].fd <= top
    PROVE  Highest(l) \in Nat /\ \A i \in DOMAIN l : l[i].fd <= Highest(l)
<1> DEFINE F == {0} \cup {l[i].fd : i \in DOMAIN l}
           T == {n \in Nat : \A i \in DOMAIN l : l[i].fd <= n}
<1>1. \A i \in DOMAIN l : l[i].fd \in Nat
    <2>1. \A i \in DOMAIN l : l[i] \in Entry
        OBVIOUS
    <2> QED BY <2>1, EntryFields
<1>2. T \subseteq Nat /\ top \in T
    OBVIOUS
<1>3. PICK m \in T : \A n \in T : m <= n
    BY <1>2, Smallest
<1>4. m \in F
    <2> SUFFICES ASSUME m \notin F PROVE FALSE
        OBVIOUS
    <2>1. m \in Nat /\ m # 0 /\ \A i \in DOMAIN l : l[i].fd <= m /\ l[i].fd # m
        OBVIOUS
    <2>2. m - 1 \in Nat /\ \A i \in DOMAIN l : l[i].fd <= m - 1
        BY <1>1, <2>1
    <2>3. m - 1 \in T
        BY <2>2
    <2> QED BY <1>3, <2>1, <2>3
<1>5. \E n \in F : \A i \in DOMAIN l : l[i].fd <= n
    BY <1>4
<1>6. Highest(l) \in F /\ \A i \in DOMAIN l : l[i].fd <= Highest(l)
    BY <1>5, Zenon DEF Highest
<1> QED BY <1>1, <1>6

\* push_back of a new entry ...
LEMMA ListAppend ==
    ASSUME NEW a, Table(a), NEW l, Holds(l, a), NEW e \in Entry, e.fd \notin DOMAIN a
    PROVE  Holds(Append(l, e), Entered(a, e.fd, e))
<1> DEFINE k == Append(l, e)
           c == Entered(a, e.fd, e)
           n == Len(l)
<1>1. /\ l \in Seq(Entry) /\ n \in Nat /\ DOMAIN l = 1 .. n
      /\ k \in Seq(Entry) /\ DOMAIN k = 1 .. n + 1
      /\ k[n + 1] = e /\ \A i \in 1 .. n : k[i] = l[i]
    BY DEF Holds
<1>2. /\ \A i, j \in 1 .. n : l[i].fd = l[j].fd => i = j
      /\ \A i \in 1 .. n : l[i].fd \in DOMAIN a /\ a[l[i].fd] = l[i]
      /\ \A fd \in DOMAIN a : \E i \in 1 .. n : l[i].fd = fd
    BY <1>1 DEF Holds
<1>3. /\ DOMAIN c = DOMAIN a \cup {e.fd}
      /\ \A fd \in DOMAIN a \cup {e.fd} : c[fd] = IF fd = e.fd THEN e ELSE a[fd]
    BY TableEntered
<1> HIDE DEF k, c, n
<1>4. \A i \in 1 .. n + 1 : i \in 1 .. n \/ i = n + 1
    BY <1>1
<1>5. \A i, j \in 1 .. n + 1 : k[i].fd = k[j].fd => i = j
    BY <1>1, <1>2, <1>4
<1>6. ASSUME NEW i \in 1 .. n + 1 PROVE k[i].fd \in DOMAIN c /\ c[k[i].fd] = k[i]
    <2>1. CASE i \in 1 .. n
        <3>1. k[i] = l[i] /\ l[i].fd \in DOMAIN a /\ a[l[i].fd] = l[i]
            BY <1>1, <1>2, <2>1, Zenon
        <3>2. l[i].fd # e.fd
            BY <3>1, Zenon
        <3> QED BY <1>3, <3>1, <3>2, Zenon
    <2>2. CASE i = n + 1
        BY <1>1, <1>3, <2>2, Zenon
    <2> QED BY <1>4, <2>1, <2>2
<1>7. \A fd \in DOMAIN c : \E i \in 1 .. n + 1 : k[i].fd = fd
    <2>1. \A fd \in DOMAIN a : \E i \in 1 .. n + 1 : k[i].fd = fd
        BY <1>1, <1>2
    <2>2. n + 1 \in 1 .. n + 1
        BY <1>1
    <2> QED BY <1>1, <1>3, <2>1, <2>2
<1>8. Holds(k, c)
    BY <1>1, <1>5, <1>6, <1>7 DEF Holds
<1> QED BY <1>8 DEF k, c

\* ... an entry changed in its place ...
LEMMA ListReplace ==
    ASSUME NEW a, Table(a), NEW l, Holds(l, a), NEW e \in Entry, NEW p \in DOMAIN l, l[p].fd = e.fd
    PROVE  Holds([l EXCEPT ![p] = e], Entered(a, e.fd, e))
<1> DEFINE k == [l EXCEPT ![p] = e]
           c == Entered(a, e.fd, e)
<1>1. /\ k \in Seq(Entry) /\ DOMAIN k = DOMAIN l /\ k[p] = e
      /\ \A i \in DOMAIN l : i # p => k[i] = l[i]
    BY DEF Holds
<1>2. /\ \A i, j \in DOMAIN l : l[i].fd = l[j].fd => i = j
      /\ \A i \in DOMAIN l : l[i].fd \in DOMAIN a /\ a[l[i].fd] = l[i]
      /\ \A fd \in DOMAIN a : \E i \in DOMAIN l : l[i].fd = fd
    BY DEF Holds
<1>3. /\ DOMAIN c = DOMAIN a \cup {e.fd}
      /\ \A fd \in DOMAIN a \cup {e.fd} : c[fd] = IF fd = e.fd THEN e ELSE a[fd]
    BY TableEntered
<1> HIDE DEF k, c
<1>4. \A i \in DOMAIN l : k[i].fd = l[i].fd
    BY <1>1
<1>5. ASSUME NEW i \in DOMAIN l PROVE k[i].fd \in DOMAIN c /\ c[k[i].fd] = k[i]
    <2>1. CASE i = p
        BY <1>1, <1>3, <2>1, Zenon
    <2>2. CASE i # p
        <3>1. k[i] = l[i] /\ l[i].fd \in DOMAIN a /\ a[l[i].fd] = l[i] /\ l[i].fd # e.fd
            BY <1>1, <1>2, <2>2, Zenon
        <3> QED BY <1>3, <3>1, Zenon
    <2> QED BY <2>1, <2>2
<1>6. \A i, j \in DOMAIN l : k[i].fd = k[j].fd => i = j
    BY <1>2, <1>4, Zenon
<1>7. e.fd \in DOMAIN a
    BY <1>2, Zenon
<1>8. \A fd \in DOMAIN c : \E i \in DOMAIN l : k[i].fd = fd
    BY <1>2, <1>3, <1>4, <1>7
<1>9. Holds(k, c)
    BY <1>1, <1>5, <1>6, <1>8, Zenon DEF Holds
<1> QED BY <1>9 DEF k, c

\* ... and one taken out.
LEMMA ListSwapOut ==
    ASSUME NEW a, Table(a), NEW l, Holds(l, a), NEW p \in DOMAIN l, NEW fd, fd = l[p].fd
    PROVE  Holds(SwapOut(l, p), Removed(a, fd))
<1> DEFINE k == SwapOut(l, p)
           c == Removed(a, fd)
<1>0. l \in Seq(Entry)
    BY DEF Holds
<1>1. PICK n \in Nat : n = Len(l)
    BY <1>0
<1>2. /\ l \in Seq(Entry) /\ n > 0 /\ DOMAIN l = 1 .. n
      /\ k \in Seq(Entry) /\ Len(k) = n - 1
      /\ \A j \in 1 .. n - 1 : k[j] = IF j = p THEN l[n] ELSE l[j]
    <2>1. /\ k \in Seq(Entry) /\ Len(k) = Len(l) - 1
          /\ Len(l) > 0 /\ DOMAIN l = 1 .. Len(l)
          /\ \A j \in 1 .. Len(l) - 1 : k[j] = IF j = p THEN l[Len(l)] ELSE l[j]
        BY <1>0, SwapOutFacts
    <2> QED BY <1>0, <1>1, <2>1
<1>3. /\ \A i, j \in 1 .. n : l[i].fd = l[j].fd => i = j
      /\ \A i \in 1 .. n : l[i].fd \in DOMAIN a /\ a[l[i].fd] = l[i]
      /\ \A g \in DOMAIN a : \E i \in 1 .. n : l[i].fd = g
    BY <1>2 DEF Holds
<1>4. DOMAIN c = DOMAIN a \ {fd} /\ \A g \in DOMAIN a \ {fd} : c[g] = a[g]
    BY TableRemoved
<1> HIDE DEF k, c
<1>5. DOMAIN k = 1 .. n - 1 /\ p \in 1 .. n /\ n \in 1 .. n
    BY <1>2
<1>6. \A j \in 1 .. n - 1 : j \in 1 .. n /\ j # n
    OBVIOUS
<1>7. ASSUME NEW i \in 1 .. n - 1, NEW j \in 1 .. n - 1, k[i].fd = k[j].fd PROVE i = j
    <2>1. k[i] = (IF i = p THEN l[n] ELSE l[i]) /\ k[j] = (IF j = p THEN l[n] ELSE l[j])
        BY <1>2
    <2> QED BY <1>3, <1>5, <1>6, <1>7, <2>1
<1>8. ASSUME NEW i \in 1 .. n - 1 PROVE k[i].fd \in DOMAIN c /\ c[k[i].fd] = k[i]
    <2>1. PICK j \in 1 .. n : k[i] = l[j] /\ j # p
        BY <1>2, <1>5, <1>6
    <2>2. l[j].fd # fd /\ l[j].fd \in DOMAIN a /\ a[l[j].fd] = l[j]
        BY <1>3, <1>5, <2>1, Zenon
    <2> QED BY <1>4, <2>1, <2>2
<1>9. ASSUME NEW g \in DOMAIN c PROVE \E i \in 1 .. n - 1 : k[i].fd = g
    <2>1. PICK i \in 1 .. n : l[i].fd = g
        BY <1>3, <1>4
    <2>2. i # p
        BY <1>4, <2>1
    <2>3. CASE i # n
        BY <1>2, <2>1, <2>2, <2>3
    <2>4. CASE i = n
        <3>1. p \in 1 .. n - 1
            BY <1>5, <2>2, <2>4
        <3> QED BY <1>2, <2>1, <2>4, <3>1
    <2> QED BY <2>3, <2>4
<1>10. Holds(k, c)
    BY <1>2, <1>5, <1>7, <1>8, <1>9 DEF Holds
<1> QED BY <1>10 DEF k, c

-----------------------------------------------------------------------------
(* Selector *)

\* What a Selector is made of
LEMMA SelectorMade ==
    ASSUME NEW l, NEW r \in Int, NEW w \in Int, NEW n \in Nat, NEW a,
           Holds(l, a), r = Cardinality(Wants(a, "Read")), w = Cardinality(Wants(a, "Write")),
           \A i \in DOMAIN l : l[i].fd <= n
    PROVE  SelectorOK([fds |-> l, readSize |-> r, writeSize |-> w, ndfs |-> n], a)
<1>1. l \in Seq(Entry)
    BY DEF Holds
<1>2. PICK s : s = [fds |-> l, readSize |-> r, writeSize |-> w, ndfs |-> n]
    OBVIOUS
<1>3. /\ s \in [fds : Seq(Entry), readSize : Int, writeSize : Int, ndfs : Nat]
      /\ s.fds = l /\ s.readSize = r /\ s.writeSize = w /\ s.ndfs = n
    BY <1>1, <1>2
<1>4. SelectorOK(s, a)
    BY <1>3, Zenon DEF SelectorOK
<1> QED BY <1>2, <1>4

\* find_fd finds what was added, and nothing else.
LEMMA SelectorFinds ==
    ASSUME Table(asked), SelectorOK(selector, asked), NEW fd
    PROVE  /\ SelectorHas(fd) <=> fd \in DOMAIN asked
           /\ fd \in DOMAIN asked => /\ SelectorFind(fd) \in DOMAIN selector.fds
                                     /\ selector.fds[SelectorFind(fd)] = asked[fd]
                                     /\ asked[fd] \in Entry /\ asked[fd].fd = fd
<1>1. PICK l : l = selector.fds
    OBVIOUS
<1>2. Holds(l, asked)
    BY <1>1, Zenon DEF SelectorOK
<1>3. /\ \A i \in DOMAIN l : l[i].fd \in DOMAIN asked /\ asked[l[i].fd] = l[i]
      /\ \A g \in DOMAIN asked : \E i \in DOMAIN l : l[i].fd = g
    BY <1>2, Zenon DEF Holds
<1>4. SelectorHas(fd) <=> \E i \in DOMAIN l : l[i].fd = fd
    BY <1>1, Zenon DEF SelectorHas
<1>5. SelectorHas(fd) <=> fd \in DOMAIN asked
    BY <1>3, <1>4, Zenon
<1>6. ASSUME fd \in DOMAIN asked
      PROVE  /\ SelectorFind(fd) \in DOMAIN l /\ l[SelectorFind(fd)] = asked[fd]
             /\ asked[fd] \in Entry /\ asked[fd].fd = fd
    <2>1. SelectorFind(fd) = CHOOSE i \in DOMAIN l : l[i].fd = fd
        BY <1>1, Zenon DEF SelectorFind
    <2>2. SelectorFind(fd) \in DOMAIN l /\ l[SelectorFind(fd)].fd = fd
        BY <1>3, <1>6, <2>1, Zenon
    <2>3. asked[fd] \in Entry /\ asked[fd].fd = fd
        BY <1>6 DEF Table
    <2> QED BY <1>3, <2>2, <2>3, Zenon
<1> QED BY <1>1, <1>5, <1>6, Zenon

\* What SelectorOK says of the fields
LEMMA SelectorFields ==
    ASSUME NEW s, NEW a, SelectorOK(s, a)
    PROVE  /\ s.fds \in Seq(Entry) /\ s.readSize \in Int /\ s.writeSize \in Int /\ s.ndfs \in Nat
           /\ Holds(s.fds, a)
           /\ s.readSize = Cardinality(Wants(a, "Read"))
           /\ s.writeSize = Cardinality(Wants(a, "Write"))
           /\ \A i \in DOMAIN s.fds : s.fds[i] \in Entry /\ s.fds[i].fd \in Nat /\ s.fds[i].fd <= s.ndfs
           /\ s = [fds |-> s.fds, readSize |-> s.readSize, writeSize |-> s.writeSize, ndfs |-> s.ndfs]
<1>1. s \in [fds : Seq(Entry), readSize : Int, writeSize : Int, ndfs : Nat]
    BY DEF SelectorOK
<1>2. \A i \in DOMAIN s.fds : s.fds[i] \in Entry
    BY <1>1
<1>3. \A i \in DOMAIN s.fds : s.fds[i].fd \in Nat
    BY <1>2, EntryFields
<1> QED BY <1>1, <1>2, <1>3 DEF SelectorOK

\* add_fd
LEMMA SelectorAdded ==
    ASSUME Table(asked), SelectorOK(selector, asked), NEW e \in Entry, e.fd \notin DOMAIN asked
    PROVE  SelectorOK(SelectorAdd(e), Entered(asked, e.fd, e))
<1>1. PICK l, r, w, n : l = selector.fds /\ r = selector.readSize /\ w = selector.writeSize /\ n = selector.ndfs
    OBVIOUS
<1>2. /\ l \in Seq(Entry) /\ r \in Int /\ w \in Int /\ n \in Nat /\ Holds(l, asked)
      /\ r = Cardinality(Wants(asked, "Read")) /\ w = Cardinality(Wants(asked, "Write"))
      /\ \A i \in DOMAIN l : l[i].fd \in Nat /\ l[i].fd <= n
    BY <1>1, SelectorFields
<1>3. PICK k, q, v, top : /\ k = Append(l, e)
                          /\ q = r + One("Read" \in e.event) /\ v = w + One("Write" \in e.event)
                          /\ top = IF n < e.fd THEN e.fd ELSE n
    OBVIOUS
<1>4. SelectorAdd(e) = [fds |-> k, readSize |-> q, writeSize |-> v, ndfs |-> top]
    <2>1. ~SelectorHas(e.fd)
        BY SelectorFinds
    <2> QED BY <1>1, <1>3, <2>1, Zenon DEF SelectorAdd
<1>5. Holds(k, Entered(asked, e.fd, e))
    BY <1>2, <1>3, ListAppend
<1>6. e.fd \in Nat
    BY EntryFields
<1>7. top \in Nat /\ \A i \in DOMAIN k : k[i].fd <= top
    <2>1. DOMAIN l = 1 .. Len(l) /\ Len(l) \in Nat /\ DOMAIN k = 1 .. Len(l) + 1
        BY <1>2, <1>3
    <2>2. \A i \in DOMAIN l : k[i] = l[i]
        BY <1>2, <1>3
    <2>3. k[Len(l) + 1] = e
        BY <1>2, <1>3
    <2>4. n <= top /\ e.fd <= top /\ top \in Nat
        BY <1>2, <1>3, <1>6
    <2>5. \A i \in DOMAIN l : k[i].fd <= top
        BY <1>2, <2>2, <2>4
    <2>6. \A i \in DOMAIN k : i \in DOMAIN l \/ i = Len(l) + 1
        BY <2>1
    <2> QED BY <2>3, <2>4, <2>5, <2>6
<1>8. q \in Int /\ q = Cardinality(Wants(Entered(asked, e.fd, e), "Read"))
    <2>1. e.fd \notin Wants(asked, "Read")
        BY DEF Wants
    <2>2. Cardinality(Wants(Entered(asked, e.fd, e), "Read"))
            = r - (IF e.fd \in Wants(asked, "Read") THEN 1 ELSE 0) + (IF "Read" \in e.event THEN 1 ELSE 0)
        BY <1>2, WantsEntered
    <2>3. Cardinality(Wants(Entered(asked, e.fd, e), "Read")) = r - 0 + One("Read" \in e.event)
        BY <2>1, <2>2, Zenon DEF One
    <2>4. One("Read" \in e.event) \in {0, 1}
        BY DEF One
    <2> QED BY <1>2, <1>3, <2>3, <2>4
<1>9. v \in Int /\ v = Cardinality(Wants(Entered(asked, e.fd, e), "Write"))
    <2>1. e.fd \notin Wants(asked, "Write")
        BY DEF Wants
    <2>2. Cardinality(Wants(Entered(asked, e.fd, e), "Write"))
            = w - (IF e.fd \in Wants(asked, "Write") THEN 1 ELSE 0) + (IF "Write" \in e.event THEN 1 ELSE 0)
        BY <1>2, WantsEntered
    <2>3. Cardinality(Wants(Entered(asked, e.fd, e), "Write")) = w - 0 + One("Write" \in e.event)
        BY <2>1, <2>2, Zenon DEF One
    <2>4. One("Write" \in e.event) \in {0, 1}
        BY DEF One
    <2> QED BY <1>2, <1>3, <2>3, <2>4
<1>10. SelectorOK([fds |-> k, readSize |-> q, writeSize |-> v, ndfs |-> top], Entered(asked, e.fd, e))
    BY <1>5, <1>7, <1>8, <1>9, SelectorMade
<1> QED BY <1>4, <1>10

\* The counters when an entry takes the place of another ...
LEMMA CounterUpdated ==
    ASSUME NEW a, Table(a), NEW e \in Entry, e.fd \in DOMAIN a, NEW b
    PROVE  /\ Cardinality(Wants(a, b)) - One(b \in a[e.fd].event) + One(b \in e.event) \in Int
           /\ Cardinality(Wants(a, b)) - One(b \in a[e.fd].event) + One(b \in e.event)
                = Cardinality(Wants(Entered(a, e.fd, e), b))
<1>1. PICK r : r = Cardinality(Wants(a, b))
    OBVIOUS
<1>2. r \in Int
    BY <1>1, WantsFinite
<1>3. Cardinality(Wants(Entered(a, e.fd, e), b))
        = r - (IF e.fd \in Wants(a, b) THEN 1 ELSE 0) + (IF b \in e.event THEN 1 ELSE 0)
    BY <1>1, WantsEntered
<1>4. (e.fd \in Wants(a, b)) <=> (b \in a[e.fd].event)
    BY DEF Wants
<1>5. Cardinality(Wants(Entered(a, e.fd, e), b)) = r - One(b \in a[e.fd].event) + One(b \in e.event)
    BY <1>3, <1>4, Zenon DEF One
<1>6. One(b \in a[e.fd].event) \in Int /\ One(b \in e.event) \in Int
    BY DEF One
<1>7. r - One(b \in a[e.fd].event) + One(b \in e.event) \in Int
    BY <1>2, <1>6
<1> QED BY <1>1, <1>5, <1>7, Zenon

\* ... and when one leaves.
LEMMA CounterRemoved ==
    ASSUME NEW a, Table(a), NEW fd \in DOMAIN a, NEW b
    PROVE  /\ Cardinality(Wants(a, b)) - One(b \in a[fd].event) \in Int
           /\ Cardinality(Wants(a, b)) - One(b \in a[fd].event) = Cardinality(Wants(Removed(a, fd), b))
<1>1. PICK r : r = Cardinality(Wants(a, b))
    OBVIOUS
<1>2. r \in Int
    BY <1>1, WantsFinite
<1>3. Cardinality(Wants(Removed(a, fd), b)) = r - (IF fd \in Wants(a, b) THEN 1 ELSE 0)
    BY <1>1, WantsRemoved
<1>4. (fd \in Wants(a, b)) <=> (b \in a[fd].event)
    BY DEF Wants
<1>5. Cardinality(Wants(Removed(a, fd), b)) = r - One(b \in a[fd].event)
    BY <1>3, <1>4, Zenon DEF One
<1>6. One(b \in a[fd].event) \in Int
    BY DEF One
<1>7. r - One(b \in a[fd].event) \in Int
    BY <1>2, <1>6
<1> QED BY <1>1, <1>5, <1>7, Zenon

\* update_fd
LEMMA SelectorUpdated ==
    ASSUME Table(asked), SelectorOK(selector, asked), NEW e \in Entry, e.fd \in DOMAIN asked
    PROVE  SelectorOK(SelectorUpdate(e), Entered(asked, e.fd, e))
<1>1. PICK l, r, w, n : l = selector.fds /\ r = selector.readSize /\ w = selector.writeSize /\ n = selector.ndfs
    OBVIOUS
<1>2. /\ l \in Seq(Entry) /\ r \in Int /\ w \in Int /\ n \in Nat /\ Holds(l, asked)
      /\ r = Cardinality(Wants(asked, "Read")) /\ w = Cardinality(Wants(asked, "Write"))
      /\ \A i \in DOMAIN l : l[i].fd \in Nat /\ l[i].fd <= n
      /\ selector = [fds |-> l, readSize |-> r, writeSize |-> w, ndfs |-> n]
    BY <1>1, SelectorFields
<1>3. PICK i : i = SelectorFind(e.fd)
    OBVIOUS
<1>4. SelectorHas(e.fd) /\ i \in DOMAIN l /\ l[i] = asked[e.fd] /\ l[i].fd = e.fd
    BY <1>1, <1>3, SelectorFinds
<1>5. PICK k, q, v : /\ k = [l EXCEPT ![i] = e]
                     /\ q = r - One("Read" \in l[i].event) + One("Read" \in e.event)
                     /\ v = w - One("Write" \in l[i].event) + One("Write" \in e.event)
    OBVIOUS
<1>6. SelectorUpdate(e) = [fds |-> k, readSize |-> q, writeSize |-> v, ndfs |-> n]
    <2>1. SelectorUpdate(e) = [selector EXCEPT
                 !.fds[i] = e,
                 !.readSize = @ - One("Read" \in l[i].event) + One("Read" \in e.event),
                 !.writeSize = @ - One("Write" \in l[i].event) + One("Write" \in e.event)]
        BY <1>1, <1>3, <1>4, Zenon DEF SelectorUpdate
    <2> HIDE <1>1
    <2> QED BY <1>2, <1>5, <2>1
<1>7. Holds(k, Entered(asked, e.fd, e))
    BY <1>2, <1>4, <1>5, ListReplace
<1>8. \A j \in DOMAIN k : k[j].fd <= n
    BY <1>2, <1>4, <1>5
<1>9. q \in Int /\ q = Cardinality(Wants(Entered(asked, e.fd, e), "Read"))
    BY <1>2, <1>4, <1>5, CounterUpdated, Zenon
<1>10. v \in Int /\ v = Cardinality(Wants(Entered(asked, e.fd, e), "Write"))
    BY <1>2, <1>4, <1>5, CounterUpdated, Zenon
<1>11. SelectorOK([fds |-> k, readSize |-> q, writeSize |-> v, ndfs |-> n], Entered(asked, e.fd, e))
    BY <1>2, <1>7, <1>8, <1>9, <1>10, SelectorMade
<1> QED BY <1>6, <1>11

\* remove_fd: the highest descriptor is looked for when it goes.
LEMMA SelectorTakenOut ==
    ASSUME Table(asked), SelectorOK(selector, asked), NEW fd \in DOMAIN asked
    PROVE  SelectorOK(SelectorRemove(fd), Removed(asked, fd))
<1>1. PICK l, r, w, n : l = selector.fds /\ r = selector.readSize /\ w = selector.writeSize /\ n = selector.ndfs
    OBVIOUS
<1>2. /\ l \in Seq(Entry) /\ r \in Int /\ w \in Int /\ n \in Nat /\ Holds(l, asked)
      /\ r = Cardinality(Wants(asked, "Read")) /\ w = Cardinality(Wants(asked, "Write"))
      /\ \A i \in DOMAIN l : l[i].fd \in Nat /\ l[i].fd <= n
    BY <1>1, SelectorFields
<1>3. PICK i : i = SelectorFind(fd)
    OBVIOUS
<1>4. SelectorHas(fd) /\ i \in DOMAIN l /\ l[i] = asked[fd] /\ l[i].fd = fd
    BY <1>1, <1>3, SelectorFinds
<1>5. PICK k, q, v, top : /\ k = SwapOut(l, i)
                          /\ q = r - One("Read" \in l[i].event) /\ v = w - One("Write" \in l[i].event)
                          /\ top = IF fd = n THEN Highest(k) ELSE n
    OBVIOUS
<1>6. SelectorRemove(fd) = [fds |-> k, readSize |-> q, writeSize |-> v, ndfs |-> top]
    BY <1>1, <1>3, <1>4, <1>5, Zenon DEF SelectorRemove
<1>7. Holds(k, Removed(asked, fd))
    BY <1>2, <1>4, <1>5, ListSwapOut
<1>8. top \in Nat /\ \A j \in DOMAIN k : k[j].fd <= top
    <2>1. /\ k \in Seq(Entry) /\ Len(k) = Len(l) - 1 /\ Len(l) > 0 /\ DOMAIN l = 1 .. Len(l)
          /\ \A j \in 1 .. Len(l) - 1 : k[j] = IF j = i THEN l[Len(l)] ELSE l[j]
        BY <1>2, <1>4, <1>5, SwapOutFacts
    <2>2. \A j \in DOMAIN k : \E h \in DOMAIN l : k[j] = l[h]
        BY <1>2, <2>1
    <2>3. \A j \in DOMAIN k : k[j].fd <= n
        BY <1>2, <2>2, Zenon
    <2>4. Highest(k) \in Nat /\ \A j \in DOMAIN k : k[j].fd <= Highest(k)
        BY <1>2, <2>1, <2>3, HighestOfList
    <2> QED BY <1>2, <1>5, <2>3, <2>4, Zenon
<1>9. q \in Int /\ q = Cardinality(Wants(Removed(asked, fd), "Read"))
    BY <1>2, <1>4, <1>5, CounterRemoved, Zenon
<1>10. v \in Int /\ v = Cardinality(Wants(Removed(asked, fd), "Write"))
    BY <1>2, <1>4, <1>5, CounterRemoved, Zenon
<1>11. SelectorOK([fds |-> k, readSize |-> q, writeSize |-> v, ndfs |-> top], Removed(asked, fd))
    BY <1>7, <1>8, <1>9, <1>10, SelectorMade
<1> QED BY <1>6, <1>11

\* remove_all leaves what a new Selector holds.
LEMMA SelectorCleared == Table(<<>>) /\ SelectorOK(SelectorEmpty, <<>>)
<1>1. PICK a : a = <<>>
    OBVIOUS
<1>2. DOMAIN a = {} /\ a \in Seq(Entry)
    BY <1>1
<1>3. a \in [DOMAIN a -> Entry]
    BY <1>1
<1>4. Table(a)
    BY <1>2, <1>3 DEF Table
<1>5. Wants(a, "Read") = {} /\ Wants(a, "Write") = {}
    BY <1>2 DEF Wants
<1>6. 0 = Cardinality(Wants(a, "Read")) /\ 0 = Cardinality(Wants(a, "Write"))
    BY <1>5, FS_EmptySet
<1>7. Holds(a, a) /\ \A i \in DOMAIN a : a[i].fd <= 0
    BY <1>2 DEF Holds
<1>8. SelectorOK([fds |-> a, readSize |-> 0, writeSize |-> 0, ndfs |-> 0], a)
    BY <1>6, <1>7, SelectorMade
<1> QED BY <1>1, <1>4, <1>8, Zenon DEF SelectorEmpty

\* Neither the counters nor ndfs keep a Selector from looking at an event it was asked for.
LEMMA SelectorSees ==
    ASSUME Table(asked), SelectorOK(selector, asked), NEW i \in DOMAIN selector.fds, NEW R,
           NEW b \in selector.fds[i].event \cap R
    PROVE  /\ selector.fds[i].fd <= selector.ndfs
           /\ b = "Read" => selector.readSize > 0
           /\ b = "Write" => selector.writeSize > 0
<1>1. PICK e : e = selector.fds[i]
    OBVIOUS
<1>2. /\ e.fd <= selector.ndfs /\ e \in Entry
      /\ selector.readSize = Cardinality(Wants(asked, "Read"))
      /\ selector.writeSize = Cardinality(Wants(asked, "Write"))
    BY <1>1, SelectorFields
<1>3. e.fd \in DOMAIN asked /\ asked[e.fd] = e
    BY <1>1 DEF SelectorOK, Holds
<1>4. e.fd \in Wants(asked, b)
    BY <1>1, <1>3, Zenon DEF Wants
<1>5. Cardinality(Wants(asked, b)) > 0
    BY <1>4, WantsFinite
<1> QED BY <1>1, <1>2, <1>5

\* select reports what was asked for.
LEMMA SelectorReports ==
    ASSUME Table(asked), SelectorOK(selector, asked), NEW ready
    PROVE  SelectorEvents(ready) = Promised(ready)
<1> DEFINE l == selector.fds
           seen(e) == {b \in e.event \cap ready[e.fd] :
                       /\ e.fd <= selector.ndfs
                       /\ b = "Read" => selector.readSize > 0
                       /\ b = "Write" => selector.writeSize > 0}
<1>1. ASSUME NEW i \in DOMAIN l PROVE seen(l[i]) = l[i].event \cap ready[l[i].fd]
    <2>1. \A b \in selector.fds[i].event \cap ready[selector.fds[i].fd] :
             /\ selector.fds[i].fd <= selector.ndfs
             /\ b = "Read" => selector.readSize > 0
             /\ b = "Write" => selector.writeSize > 0
        BY SelectorSees
    <2> QED BY <2>1, Zenon
<1>2. SelectorEvents(ready)
        = {[l[i] EXCEPT !.event = seen(l[i])] : i \in {j \in DOMAIN l : seen(l[j]) # {}}}
    BY Zenon DEF SelectorEvents
<1> HIDE DEF seen, l
<1>3. /\ \A i \in DOMAIN l : l[i].fd \in DOMAIN asked /\ asked[l[i].fd] = l[i]
      /\ \A g \in DOMAIN asked : \E i \in DOMAIN l : l[i].fd = g
    BY Zenon DEF SelectorOK, Holds, l
<1>4. Promised(ready)
        = {[asked[fd] EXCEPT !.event = asked[fd].event \cap ready[fd]] :
             fd \in {g \in DOMAIN asked : asked[g].event \cap ready[g] # {}}}
    BY DEF Promised
<1>5. ASSUME NEW x \in SelectorEvents(ready) PROVE x \in Promised(ready)
    <2>1. PICK i \in DOMAIN l : seen(l[i]) # {} /\ x = [l[i] EXCEPT !.event = seen(l[i])]
        BY <1>2, <1>5, Zenon
    <2>2. PICK fd : fd = l[i].fd
        OBVIOUS
    <2>3. fd \in DOMAIN asked /\ asked[fd] = l[i]
        BY <1>3, <2>2, Zenon
    <2>4. seen(l[i]) = asked[fd].event \cap ready[fd]
        BY <1>1, <2>2, <2>3, Zenon
    <2>5. /\ asked[fd].event \cap ready[fd] # {}
          /\ x = [asked[fd] EXCEPT !.event = asked[fd].event \cap ready[fd]]
        BY <2>1, <2>3, <2>4, Zenon
    <2> QED BY <1>4, <2>3, <2>5, Zenon
<1>6. ASSUME NEW x \in Promised(ready) PROVE x \in SelectorEvents(ready)
    <2>1. PICK fd \in DOMAIN asked : /\ asked[fd].event \cap ready[fd] # {}
                                     /\ x = [asked[fd] EXCEPT !.event = asked[fd].event \cap ready[fd]]
        BY <1>4, <1>6, Zenon
    <2>2. PICK i \in DOMAIN l : l[i].fd = fd
        BY <1>3, Zenon
    <2>3. asked[fd] = l[i]
        BY <1>3, <2>2, Zenon
    <2>4. seen(l[i]) = asked[fd].event \cap ready[fd]
        BY <1>1, <2>2, <2>3, Zenon
    <2>5. seen(l[i]) # {} /\ x = [l[i] EXCEPT !.event = seen(l[i])]
        BY <2>1, <2>3, <2>4, Zenon
    <2> QED BY <1>2, <2>5, Zenon
<1> QED BY <1>5, <1>6, Zenon

-----------------------------------------------------------------------------
(* Poller *)

\* What PollerAgrees says of its parts, with one name for their length
LEMMA PollerFacts ==
    ASSUME NEW f, NEW d, NEW m, NEW a, NEW n, n = Len(f), PollerAgrees(f, d, m, a)
    PROVE  /\ f \in Seq(PollFd) /\ d \in Seq(Datum)
           /\ n \in Nat /\ Len(d) = n /\ DOMAIN f = 1 .. n /\ DOMAIN d = 1 .. n
           /\ m \in [DOMAIN a -> Nat] /\ DOMAIN m = DOMAIN a
           /\ \A i \in 1 .. n : /\ f[i].fd \in DOMAIN a /\ m[f[i].fd] = i
                                /\ a[f[i].fd].event = f[i].event /\ a[f[i].fd].data = d[i]
           /\ \A fd \in DOMAIN a : m[fd] \in 1 .. n /\ f[m[fd]].fd = fd
<1>1. /\ f \in Seq(PollFd) /\ d \in Seq(Datum) /\ Len(d) = n
      /\ m \in [DOMAIN a -> Nat]
    BY DEF PollerAgrees
<1>2. n \in Nat /\ DOMAIN f = 1 .. n /\ DOMAIN d = 1 .. n /\ DOMAIN m = DOMAIN a
    BY <1>1
<1> QED BY <1>1, <1>2, Zenon DEF PollerAgrees

\* push_back to both vectors ...
LEMMA PollAppend ==
    ASSUME NEW a, Table(a), NEW f, NEW d, NEW m, PollerAgrees(f, d, m, a),
           NEW e \in Entry, e.fd \notin DOMAIN a
    PROVE  PollerAgrees(Append(f, [fd |-> e.fd, event |-> e.event]), Append(d, e.data),
                        Entered(m, e.fd, Len(f) + 1), Entered(a, e.fd, e))
<1>1. PICK n, p, k, v, t, c :
        /\ n = Len(f) /\ p = [fd |-> e.fd, event |-> e.event] /\ k = Append(f, p)
        /\ v = Append(d, e.data) /\ t = Entered(m, e.fd, n + 1) /\ c = Entered(a, e.fd, e)
    OBVIOUS
<1>2. /\ f \in Seq(PollFd) /\ d \in Seq(Datum)
      /\ n \in Nat /\ Len(d) = n /\ DOMAIN f = 1 .. n /\ DOMAIN d = 1 .. n
      /\ m \in [DOMAIN a -> Nat] /\ DOMAIN m = DOMAIN a
      /\ \A i \in 1 .. n : /\ f[i].fd \in DOMAIN a /\ m[f[i].fd] = i
                           /\ a[f[i].fd].event = f[i].event /\ a[f[i].fd].data = d[i]
      /\ \A fd \in DOMAIN a : m[fd] \in 1 .. n /\ f[m[fd]].fd = fd
    <2>1. n = Len(f)
        BY <1>1
    <2> QED BY <2>1, PollerFacts
<1>3. e.fd \in Descriptor /\ e.event \in Interest /\ e.data \in Datum
    BY EntryFields
<1>4. p \in PollFd /\ p.fd = e.fd /\ p.event = e.event
    BY <1>1, <1>3 DEF PollFd
<1>5. /\ k \in Seq(PollFd) /\ Len(k) = n + 1 /\ DOMAIN k = 1 .. n + 1
      /\ k[n + 1] = p /\ \A i \in 1 .. n : k[i] = f[i]
    BY <1>1, <1>2, <1>4
<1>6. /\ v \in Seq(Datum) /\ Len(v) = n + 1
      /\ v[n + 1] = e.data /\ \A i \in 1 .. n : v[i] = d[i]
    BY <1>1, <1>2, <1>3
<1>7. /\ DOMAIN c = DOMAIN a \cup {e.fd} /\ c[e.fd] = e
      /\ \A fd \in DOMAIN a : fd # e.fd => c[fd] = a[fd]
    <2>1. /\ DOMAIN Entered(a, e.fd, e) = DOMAIN a \cup {e.fd}
          /\ \A fd \in DOMAIN a \cup {e.fd} : Entered(a, e.fd, e)[fd] = IF fd = e.fd THEN e ELSE a[fd]
        BY TableEntered
    <2>2. c = Entered(a, e.fd, e)
        BY <1>1
    <2> QED BY <2>1, <2>2
<1>8. /\ t \in [DOMAIN c -> Nat] /\ t[e.fd] = n + 1
      /\ \A fd \in DOMAIN a : fd # e.fd => t[fd] = m[fd]
    BY <1>1, <1>2, <1>7 DEF Entered
<1>9. ASSUME NEW i \in DOMAIN k
      PROVE  /\ k[i].fd \in DOMAIN c /\ t[k[i].fd] = i
             /\ c[k[i].fd].event = k[i].event /\ c[k[i].fd].data = v[i]
    <2>1. i \in 1 .. n \/ i = n + 1
        BY <1>2, <1>5
    <2>2. CASE i \in 1 .. n
        <3>1. PICK g : g = k[i].fd
            OBVIOUS
        <3>2. g = f[i].fd /\ g \in DOMAIN a /\ g # e.fd /\ v[i] = d[i] /\ k[i] = f[i]
            BY <1>2, <1>5, <1>6, <2>2, <3>1, Zenon
        <3>3. t[g] = m[g] /\ c[g] = a[g] /\ g \in DOMAIN c
            BY <1>7, <1>8, <3>2, Zenon
        <3>4. m[g] = i /\ a[g].event = f[i].event /\ a[g].data = d[i]
            BY <1>2, <2>2, <3>2, Zenon
        <3> QED BY <3>1, <3>2, <3>3, <3>4, Zenon
    <2>3. CASE i = n + 1
        BY <1>4, <1>5, <1>6, <1>7, <1>8, <2>3, Zenon
    <2> QED BY <2>1, <2>2, <2>3
<1>10. ASSUME NEW fd \in DOMAIN c PROVE t[fd] \in DOMAIN k /\ k[t[fd]].fd = fd
    <2>1. CASE fd = e.fd
        <3>1. n + 1 \in 1 .. n + 1
            BY <1>2
        <3> QED BY <1>4, <1>5, <1>8, <2>1, <3>1, Zenon
    <2>2. CASE fd # e.fd
        <3>1. fd \in DOMAIN a /\ t[fd] = m[fd]
            BY <1>7, <1>8, <2>2
        <3>2. m[fd] \in 1 .. n /\ f[m[fd]].fd = fd
            BY <1>2, <3>1, Zenon
        <3>3. m[fd] \in 1 .. n + 1
            BY <1>2, <3>2
        <3> QED BY <1>5, <3>1, <3>2, <3>3, Zenon
    <2> QED BY <2>1, <2>2
<1>11. PollerAgrees(k, v, t, c)
    BY <1>5, <1>6, <1>8, <1>9, <1>10 DEF PollerAgrees
<1> QED BY <1>1, <1>11

\* ... a place of them changed ...
LEMMA PollReplace ==
    ASSUME NEW a, Table(a), NEW f, NEW d, NEW m, PollerAgrees(f, d, m, a),
           NEW e \in Entry, e.fd \in DOMAIN a, NEW p, p = m[e.fd]
    PROVE  PollerAgrees([f EXCEPT ![p].event = e.event], [d EXCEPT ![p] = e.data], m, Entered(a, e.fd, e))
<1>1. PICK n, k, v, c : /\ n = Len(f) /\ k = [f EXCEPT ![p].event = e.event]
                        /\ v = [d EXCEPT ![p] = e.data] /\ c = Entered(a, e.fd, e)
    OBVIOUS
<1>2. /\ f \in Seq(PollFd) /\ d \in Seq(Datum)
      /\ n \in Nat /\ Len(d) = n /\ DOMAIN f = 1 .. n /\ DOMAIN d = 1 .. n
      /\ m \in [DOMAIN a -> Nat] /\ DOMAIN m = DOMAIN a
      /\ \A i \in 1 .. n : /\ f[i].fd \in DOMAIN a /\ m[f[i].fd] = i
                           /\ a[f[i].fd].event = f[i].event /\ a[f[i].fd].data = d[i]
      /\ \A fd \in DOMAIN a : m[fd] \in 1 .. n /\ f[m[fd]].fd = fd
    <2>1. n = Len(f)
        BY <1>1
    <2> QED BY <2>1, PollerFacts
<1>3. e.fd \in Descriptor /\ e.event \in Interest /\ e.data \in Datum
    BY EntryFields
<1>4. p \in 1 .. n /\ f[p].fd = e.fd /\ f[p] \in PollFd
    BY <1>2
<1>5. PICK q : q = [f[p] EXCEPT !.event = e.event]
    OBVIOUS
<1>6. q \in PollFd /\ q.fd = e.fd /\ q.event = e.event
    BY <1>3, <1>4, <1>5 DEF PollFd
<1>7. /\ k \in Seq(PollFd) /\ Len(k) = n /\ DOMAIN k = 1 .. n
      /\ k[p] = q /\ \A i \in 1 .. n : i # p => k[i] = f[i]
    <2>1. k = [f EXCEPT ![p] = q]
        BY <1>1, <1>5, Zenon
    <2> QED BY <1>2, <1>4, <1>6, <2>1
<1>8. /\ v \in Seq(Datum) /\ Len(v) = n
      /\ v[p] = e.data /\ \A i \in 1 .. n : i # p => v[i] = d[i]
    BY <1>1, <1>2, <1>3, <1>4
<1>9. /\ DOMAIN c = DOMAIN a /\ c[e.fd] = e
      /\ \A fd \in DOMAIN a : fd # e.fd => c[fd] = a[fd]
    BY <1>1, TableEntered
<1>10. ASSUME NEW i \in 1 .. n PROVE k[i].fd = f[i].fd
    BY <1>4, <1>6, <1>7, Zenon
<1>11. ASSUME NEW i \in DOMAIN k
       PROVE  /\ k[i].fd \in DOMAIN c /\ m[k[i].fd] = i
              /\ c[k[i].fd].event = k[i].event /\ c[k[i].fd].data = v[i]
    <2>1. i \in 1 .. n /\ k[i].fd = f[i].fd /\ k[i].fd \in DOMAIN c /\ m[k[i].fd] = i
        BY <1>2, <1>7, <1>9, <1>10, Zenon
    <2>2. CASE i = p
        BY <1>6, <1>7, <1>8, <1>9, <2>1, <2>2, Zenon
    <2>3. CASE i # p
        <3>1. k[i] = f[i] /\ v[i] = d[i] /\ f[i].fd # e.fd
            BY <1>2, <1>7, <1>8, <2>1, <2>3, Zenon
        <3>2. a[f[i].fd].event = f[i].event /\ a[f[i].fd].data = d[i] /\ c[f[i].fd] = a[f[i].fd]
            BY <1>2, <1>9, <2>1, <3>1, Zenon
        <3> QED BY <2>1, <3>1, <3>2, Zenon
    <2> QED BY <2>1, <2>2, <2>3, Zenon
<1>12. \A fd \in DOMAIN c : m[fd] \in DOMAIN k /\ k[m[fd]].fd = fd
    BY <1>2, <1>7, <1>9, <1>10, Zenon
<1>13. m \in [DOMAIN c -> Nat]
    BY <1>2, <1>9
<1>14. PollerAgrees(k, v, m, c)
    BY <1>7, <1>8, <1>11, <1>12, <1>13 DEF PollerAgrees
<1> QED BY <1>1, <1>14

\* ... and the last one moved to the place of the one removed.
LEMMA PollSwapOut ==
    ASSUME NEW a, Table(a), NEW f, NEW d, NEW m, PollerAgrees(f, d, m, a),
           NEW fd \in DOMAIN a, NEW p, p = m[fd]
    PROVE  PollerAgrees(SwapOut(f, p), SwapOut(d, p), Removed(Entered(m, f[Len(f)].fd, p), fd), Removed(a, fd))
<1>1. PICK n, k, v, last, t, c : /\ n = Len(f) /\ k = SwapOut(f, p) /\ v = SwapOut(d, p) /\ last = f[n].fd
                                 /\ t = Removed(Entered(m, last, p), fd) /\ c = Removed(a, fd)
    OBVIOUS
<1>2. /\ f \in Seq(PollFd) /\ d \in Seq(Datum)
      /\ n \in Nat /\ Len(d) = n /\ DOMAIN f = 1 .. n /\ DOMAIN d = 1 .. n
      /\ m \in [DOMAIN a -> Nat] /\ DOMAIN m = DOMAIN a
      /\ \A i \in 1 .. n : /\ f[i].fd \in DOMAIN a /\ m[f[i].fd] = i
                           /\ a[f[i].fd].event = f[i].event /\ a[f[i].fd].data = d[i]
      /\ \A g \in DOMAIN a : m[g] \in 1 .. n /\ f[m[g]].fd = g
    <2>1. n = Len(f)
        BY <1>1
    <2> QED BY <2>1, PollerFacts
<1>3. p \in 1 .. n /\ f[p].fd = fd /\ p \in Nat
    BY <1>2
<1>4. n \in 1 .. n /\ n - 1 \in Nat
    BY <1>2, <1>3
<1>5. /\ k \in Seq(PollFd) /\ Len(k) = n - 1 /\ DOMAIN k = 1 .. n - 1
      /\ \A j \in 1 .. n - 1 : k[j] = IF j = p THEN f[n] ELSE f[j]
    <2>1. f \in Seq(PollFd) /\ p \in DOMAIN f
        BY <1>2, <1>3
    <2>2. /\ SwapOut(f, p) \in Seq(PollFd) /\ Len(SwapOut(f, p)) = Len(f) - 1
          /\ \A j \in 1 .. Len(f) - 1 : SwapOut(f, p)[j] = IF j = p THEN f[Len(f)] ELSE f[j]
        BY <2>1, SwapOutFacts
    <2>3. k = SwapOut(f, p) /\ Len(f) = n
        BY <1>1, <1>2
    <2> QED BY <2>2, <2>3
<1>6. /\ v \in Seq(Datum) /\ Len(v) = n - 1
      /\ \A j \in 1 .. n - 1 : v[j] = IF j = p THEN d[n] ELSE d[j]
    <2>1. d \in Seq(Datum) /\ p \in DOMAIN d
        BY <1>2, <1>3
    <2>2. /\ SwapOut(d, p) \in Seq(Datum) /\ Len(SwapOut(d, p)) = Len(d) - 1
          /\ \A j \in 1 .. Len(d) - 1 : SwapOut(d, p)[j] = IF j = p THEN d[Len(d)] ELSE d[j]
        BY <2>1, SwapOutFacts
    <2>3. v = SwapOut(d, p) /\ Len(d) = n
        BY <1>1, <1>2
    <2> QED BY <2>2, <2>3
<1>7. DOMAIN c = DOMAIN a \ {fd} /\ \A g \in DOMAIN a \ {fd} : c[g] = a[g]
    BY <1>1, TableRemoved, Zenon
<1>8. last \in DOMAIN a /\ m[last] = n
    BY <1>1, <1>2, <1>4, Zenon
<1>9. /\ t \in [DOMAIN c -> Nat]
      /\ \A g \in DOMAIN c : t[g] = IF g = last THEN p ELSE m[g]
    <2>1. PICK u : u = Entered(m, last, p)
        OBVIOUS
    <2>2. u \in [DOMAIN a -> Nat] /\ DOMAIN u = DOMAIN a /\ \A g \in DOMAIN a : u[g] = IF g = last THEN p ELSE m[g]
        BY <1>2, <1>3, <1>8, <2>1 DEF Entered
    <2>3. t = [g \in DOMAIN c |-> u[g]]
        <3>1. t = Removed(u, fd)
            BY <1>1, <2>1
        <3> QED BY <1>7, <2>2, <3>1, Zenon DEF Removed
    <2> QED BY <1>7, <2>2, <2>3
\* Place j holds what was at place h, which is not the one removed.
<1>10. ASSUME NEW j \in 1 .. n - 1
       PROVE  \E h \in 1 .. n : /\ k[j] = f[h] /\ v[j] = d[h] /\ h # p
                                /\ h = n => j = p
                                /\ h # n => j = h
    <2>1. CASE j = p
        <3>1. n # p
            BY <1>2, <2>1
        <3> QED BY <1>4, <1>5, <1>6, <2>1, <3>1, Zenon
    <2>2. CASE j # p
        <3>1. j \in 1 .. n /\ j # n
            BY <1>2
        <3> QED BY <1>5, <1>6, <2>2, <3>1, Zenon
    <2> QED BY <2>1, <2>2
<1>11. ASSUME NEW j \in DOMAIN k
       PROVE  /\ k[j].fd \in DOMAIN c /\ t[k[j].fd] = j
              /\ c[k[j].fd].event = k[j].event /\ c[k[j].fd].data = v[j]
    <2>1. PICK h \in 1 .. n : /\ k[j] = f[h] /\ v[j] = d[h] /\ h # p
                              /\ h = n => j = p
                              /\ h # n => j = h
        BY <1>5, <1>10, Zenon
    <2>2. PICK g : g = k[j].fd
        OBVIOUS
    <2>3. g \in DOMAIN a /\ m[g] = h /\ a[g].event = k[j].event /\ a[g].data = v[j]
        BY <1>2, <2>1, <2>2, Zenon
    <2>4. g # fd
        BY <2>1, <2>3, Zenon
    <2>5. g \in DOMAIN c /\ c[g] = a[g]
        BY <1>7, <2>3, <2>4
    <2>6. t[g] = j
        <3>1. CASE h = n
            <4>1. g = last
                BY <1>1, <2>1, <2>2, <3>1, Zenon
            <4> QED BY <1>9, <2>1, <2>5, <3>1, <4>1, Zenon
        <3>2. CASE h # n
            <4>1. g # last
                BY <1>8, <2>3, <3>2, Zenon
            <4> QED BY <1>9, <2>1, <2>3, <2>5, <3>2, <4>1, Zenon
        <3> QED BY <3>1, <3>2
    <2> QED BY <2>2, <2>3, <2>5, <2>6, Zenon
<1>12. ASSUME NEW g \in DOMAIN c PROVE t[g] \in DOMAIN k /\ k[t[g]].fd = g
    <2>1. g \in DOMAIN a /\ g # fd /\ m[g] \in 1 .. n /\ f[m[g]].fd = g
        BY <1>2, <1>7
    <2>2. m[g] # p
        BY <1>3, <2>1, Zenon
    <2>3. CASE g = last
        <3>1. t[g] = p /\ p # n
            BY <1>8, <1>9, <2>2, <2>3, Zenon
        <3>2. p \in 1 .. n - 1
            BY <1>2, <1>3, <3>1
        <3>3. k[p] = f[n]
            BY <1>5, <3>2, Zenon
        <3> QED BY <1>1, <1>5, <2>3, <3>1, <3>2, <3>3, Zenon
    <2>4. CASE g # last
        <3>1. t[g] = m[g] /\ m[g] # n
            <4>1. t[g] = m[g]
                BY <1>9, <2>4, Zenon
            <4>2. m[g] # n
                BY <1>1, <2>1, <2>4, Zenon
            <4> QED BY <4>1, <4>2
        <3>2. PICK i : i = m[g]
            OBVIOUS
        <3>3. i \in 1 .. n - 1 /\ i # p
            BY <1>2, <2>1, <2>2, <3>1, <3>2
        <3>4. k[i] = f[i]
            BY <1>5, <3>3, Zenon
        <3> QED BY <1>5, <2>1, <3>1, <3>2, <3>3, <3>4, Zenon
    <2> QED BY <2>3, <2>4
<1>13. PollerAgrees(k, v, t, c)
    BY <1>5, <1>6, <1>9, <1>11, <1>12 DEF PollerAgrees
<1> QED BY <1>1, <1>13

\* What a Poller is made of
LEMMA PollerMade ==
    ASSUME NEW f, NEW d, NEW m, NEW a, PollerAgrees(f, d, m, a)
    PROVE  PollerOK([fds |-> f, datas |-> d, mapping |-> m], a)
<1>1. PICK p : p = [fds |-> f, datas |-> d, mapping |-> m]
    OBVIOUS
<1>2. p.fds = f /\ p.datas = d /\ p.mapping = m
    BY <1>1
<1>3. PollerOK(p, a)
    BY <1>1, <1>2, Zenon DEF PollerOK
<1> QED BY <1>1, <1>3

\* The mapping tells what was added.
LEMMA PollerFinds ==
    ASSUME PollerOK(poller, asked), NEW fd
    PROVE  PollerHas(fd) <=> fd \in DOMAIN asked
<1>1. PICK m : m = poller.mapping
    OBVIOUS
<1>2. m \in [DOMAIN asked -> Nat]
    BY <1>1, Zenon DEF PollerOK, PollerAgrees
<1>3. DOMAIN m = DOMAIN asked
    BY <1>2
<1> QED BY <1>1, <1>3, Zenon DEF PollerHas

\* add_fd
LEMMA PollerAdded ==
    ASSUME Table(asked), PollerOK(poller, asked), NEW e \in Entry, e.fd \notin DOMAIN asked
    PROVE  PollerOK(PollerAdd(e), Entered(asked, e.fd, e))
<1>1. PICK f, d, m : f = poller.fds /\ d = poller.datas /\ m = poller.mapping
    OBVIOUS
<1>2. PollerAgrees(f, d, m, asked)
    BY <1>1, Zenon DEF PollerOK
<1>3. PollerAdd(e) = [fds |-> Append(f, [fd |-> e.fd, event |-> e.event]), datas |-> Append(d, e.data),
                      mapping |-> Entered(m, e.fd, Len(f) + 1)]
    <2>1. ~PollerHas(e.fd)
        BY PollerFinds
    <2> QED BY <1>1, <2>1, Zenon DEF PollerAdd
<1>4. PollerAgrees(Append(f, [fd |-> e.fd, event |-> e.event]), Append(d, e.data),
                   Entered(m, e.fd, Len(f) + 1), Entered(asked, e.fd, e))
    BY <1>2, PollAppend
<1> QED BY <1>3, <1>4, PollerMade

\* update_fd
LEMMA PollerUpdated ==
    ASSUME Table(asked), PollerOK(poller, asked), NEW e \in Entry, e.fd \in DOMAIN asked
    PROVE  PollerOK(PollerUpdate(e), Entered(asked, e.fd, e))
<1>1. PICK f, d, m, p : f = poller.fds /\ d = poller.datas /\ m = poller.mapping /\ p = m[e.fd]
    OBVIOUS
<1>2. poller = [fds |-> f, datas |-> d, mapping |-> m] /\ PollerAgrees(f, d, m, asked)
    BY <1>1, Zenon DEF PollerOK
<1>3. PollerUpdate(e) = [fds |-> [f EXCEPT ![p].event = e.event], datas |-> [d EXCEPT ![p] = e.data],
                         mapping |-> m]
    <2>1. PollerHas(e.fd)
        BY PollerFinds
    <2>2. PollerUpdate(e) = [poller EXCEPT !.fds[p].event = e.event, !.datas[p] = e.data]
        BY <1>1, <2>1, Zenon DEF PollerUpdate
    <2> HIDE <1>1
    <2> QED BY <1>2, <2>2
<1>4. PollerAgrees([f EXCEPT ![p].event = e.event], [d EXCEPT ![p] = e.data], m, Entered(asked, e.fd, e))
    BY <1>1, <1>2, PollReplace
<1> QED BY <1>3, <1>4, PollerMade

\* remove_fd
LEMMA PollerTakenOut ==
    ASSUME Table(asked), PollerOK(poller, asked), NEW fd \in DOMAIN asked
    PROVE  PollerOK(PollerRemove(fd), Removed(asked, fd))
<1>1. PICK f, d, m, p : f = poller.fds /\ d = poller.datas /\ m = poller.mapping /\ p = m[fd]
    OBVIOUS
<1>2. PollerAgrees(f, d, m, asked)
    BY <1>1, Zenon DEF PollerOK
<1>3. PollerRemove(fd) = [fds |-> SwapOut(f, p), datas |-> SwapOut(d, p),
                          mapping |-> Removed(Entered(m, f[Len(f)].fd, p), fd)]
    <2>1. PollerHas(fd)
        BY PollerFinds
    <2> QED BY <1>1, <2>1, Zenon DEF PollerRemove
<1>4. PollerAgrees(SwapOut(f, p), SwapOut(d, p), Removed(Entered(m, f[Len(f)].fd, p), fd), Removed(asked, fd))
    BY <1>1, <1>2, PollSwapOut
<1> QED BY <1>3, <1>4, PollerMade

\* remove_all leaves what a new Poller holds.
LEMMA PollerCleared == PollerOK(PollerEmpty, <<>>)
<1>1. PICK a : a = <<>>
    OBVIOUS
<1>2. DOMAIN a = {} /\ a \in Seq(PollFd) /\ a \in Seq(Datum) /\ a \in [DOMAIN a -> Nat]
    BY <1>1
<1>3. PollerAgrees(a, a, a, a)
    BY <1>2 DEF PollerAgrees
<1>4. PollerOK([fds |-> a, datas |-> a, mapping |-> a], a)
    BY <1>3, PollerMade
<1> QED BY <1>1, <1>4, Zenon DEF PollerEmpty

\* poll reports what was asked for.
LEMMA PollerReports ==
    ASSUME Table(asked), PollerOK(poller, asked), NEW ready
    PROVE  PollerEvents(ready) = Promised(ready)
<1> DEFINE f == poller.fds
           d == poller.datas
           seen(p) == p.event \cap ready[p.fd]
<1>1. PollerEvents(ready)
        = {[fd |-> f[i].fd, event |-> seen(f[i]), data |-> d[i]] : i \in {j \in DOMAIN f : seen(f[j]) # {}}}
    BY Zenon DEF PollerEvents
<1>2. Promised(ready)
        = {[asked[fd] EXCEPT !.event = asked[fd].event \cap ready[fd]] :
             fd \in {g \in DOMAIN asked : asked[g].event \cap ready[g] # {}}}
    BY DEF Promised
<1>3. PICK m : PollerAgrees(f, d, m, asked)
    BY Zenon DEF PollerOK, f, d
<1>4. \A p : seen(p) = p.event \cap ready[p.fd]
    BY Zenon
<1> HIDE DEF seen, f, d
<1>5. /\ \A i \in DOMAIN f : /\ f[i].fd \in DOMAIN asked
                             /\ asked[f[i].fd].event = f[i].event /\ asked[f[i].fd].data = d[i]
      /\ \A fd \in DOMAIN asked : m[fd] \in DOMAIN f /\ f[m[fd]].fd = fd
    BY <1>3, Zenon DEF PollerAgrees
\* The same report of place i and of its descriptor
<1>6. ASSUME NEW i \in DOMAIN f, NEW fd, fd = f[i].fd
      PROVE  /\ seen(f[i]) = asked[fd].event \cap ready[fd]
             /\ [fd |-> f[i].fd, event |-> seen(f[i]), data |-> d[i]]
                  = [asked[fd] EXCEPT !.event = asked[fd].event \cap ready[fd]]
    <2>1. fd \in DOMAIN asked /\ asked[fd].event = f[i].event /\ asked[fd].data = d[i]
        BY <1>5, <1>6, Zenon
    <2>2. seen(f[i]) = asked[fd].event \cap ready[fd]
        BY <1>4, <1>6, <2>1, Zenon
    <2>3. PICK e, x, y : e = asked[fd] /\ x = seen(f[i]) /\ y = d[i]
        OBVIOUS
    <2>4. e \in Entry /\ e.fd = fd /\ e.data = y
        BY <2>1, <2>3 DEF Table
    <2>5. [fd |-> fd, event |-> x, data |-> y] = [e EXCEPT !.event = x]
        BY <2>4 DEF Entry
    <2> QED BY <1>6, <2>2, <2>3, <2>5, Zenon
<1>7. ASSUME NEW x \in PollerEvents(ready) PROVE x \in Promised(ready)
    <2>1. PICK i \in DOMAIN f : seen(f[i]) # {} /\ x = [fd |-> f[i].fd, event |-> seen(f[i]), data |-> d[i]]
        BY <1>1, <1>7, Zenon
    <2>2. PICK fd : fd = f[i].fd
        OBVIOUS
    <2>3. /\ fd \in DOMAIN asked /\ asked[fd].event \cap ready[fd] # {}
          /\ x = [asked[fd] EXCEPT !.event = asked[fd].event \cap ready[fd]]
        BY <1>5, <1>6, <2>1, <2>2, Zenon
    <2> QED BY <1>2, <2>3, Zenon
<1>8. ASSUME NEW x \in Promised(ready) PROVE x \in PollerEvents(ready)
    <2>1. PICK fd \in DOMAIN asked : /\ asked[fd].event \cap ready[fd] # {}
                                     /\ x = [asked[fd] EXCEPT !.event = asked[fd].event \cap ready[fd]]
        BY <1>2, <1>8, Zenon
    <2>2. PICK i \in DOMAIN f : fd = f[i].fd
        BY <1>5, Zenon
    <2>3. seen(f[i]) # {} /\ x = [fd |-> f[i].fd, event |-> seen(f[i]), data |-> d[i]]
        BY <1>6, <2>1, <2>2, Zenon
    <2> QED BY <1>1, <2>3, Zenon
<1> QED BY <1>7, <1>8, Zenon

-----------------------------------------------------------------------------
(* EPoller *)

\* What EPollerOK says of the parts
LEMMA EPollerFacts ==
    ASSUME NEW a, Table(a), NEW e, NEW k, EPollerOK(e, k, a)
    PROVE  /\ e.fds = a /\ e.active = Cardinality(DOMAIN a)
           /\ DOMAIN k = DOMAIN a
           /\ \A fd \in DOMAIN a : /\ k[fd] = [event |-> a[fd].event, node |-> fd]
                                   /\ a[fd].event # {} /\ fd \in Nat /\ fd > 0
<1>1. e.fds = a /\ e.active = Cardinality(DOMAIN a)
    BY DEF EPollerOK
<1>2. \A fd \in DOMAIN a : fd \in Nat \ {0}
    BY MonitorAssumption DEF Table
<1> QED BY <1>1, <1>2 DEF EPollerOK

\* add_fd returns what is promised ...
LEMMA EPollerAddFinds ==
    ASSUME Table(asked), EPollerOK(epoller, kernel, asked), NEW e \in Entry, e.event # {}
    PROVE  EPollerAddReturns(e) <=> e.fd \notin DOMAIN asked
<1>1. PICK g, k : g = epoller.fds /\ k = kernel
    OBVIOUS
<1>2. DOMAIN g = DOMAIN asked /\ DOMAIN k = DOMAIN asked
    BY <1>1, EPollerFacts
<1>3. /\ EPollerHas(e.fd) <=> e.fd \in DOMAIN asked
      /\ e.fd \in DOMAIN kernel <=> e.fd \in DOMAIN asked
    BY <1>1, <1>2, Zenon DEF EPollerHas
<1> QED BY <1>3, Zenon DEF EPollerAddReturns

\* ... and registers the entry.
LEMMA EPollerAdded ==
    ASSUME Table(asked), EPollerOK(epoller, kernel, asked), NEW e \in Entry, e.event # {},
           e.fd \notin DOMAIN asked, EPollerAdd(e)
    PROVE  EPollerOK(epoller', kernel', Entered(asked, e.fd, e))
<1>1. PICK a, k, fd : a = asked /\ k = kernel /\ fd = e.fd
    OBVIOUS
<1>2. /\ epoller.fds = a /\ epoller.active = Cardinality(DOMAIN a)
      /\ DOMAIN k = DOMAIN a
      /\ \A g \in DOMAIN a : k[g] = [event |-> a[g].event, node |-> g] /\ a[g].event # {}
    BY <1>1, EPollerFacts
<1>3. /\ epoller' = [fds |-> Entered(a, fd, e), active |-> Cardinality(DOMAIN a) + 1]
      /\ kernel' = Entered(k, fd, [event |-> e.event, node |-> fd])
    <2>1. ~EPollerHas(e.fd) /\ e.fd \notin DOMAIN kernel
        BY <1>1, <1>2, Zenon DEF EPollerHas
    <2>2. One(e.fd \notin DOMAIN kernel) = 1
        BY <2>1, Zenon DEF One
    <2>3. /\ epoller' = [fds |-> Entered(epoller.fds, e.fd, e),
                         active |-> epoller.active + One(e.fd \notin DOMAIN kernel)]
          /\ kernel' = KernelAdd(e.fd, e)
        BY <2>1, Zenon DEF EPollerAdd
    <2>4. KernelAdd(e.fd, e) = Entered(kernel, e.fd, [event |-> e.event, node |-> e.fd])
        BY <2>1, Zenon DEF KernelAdd
    <2> QED BY <1>1, <1>2, <2>2, <2>3, <2>4, Zenon
<1>4. PICK c, x, y : c = Entered(a, fd, e) /\ x = epoller' /\ y = kernel'
    OBVIOUS
<1>5. /\ DOMAIN c = DOMAIN a \cup {fd}
      /\ \A g \in DOMAIN a \cup {fd} : c[g] = IF g = fd THEN e ELSE a[g]
    <2>1. /\ DOMAIN Entered(asked, e.fd, e) = DOMAIN asked \cup {e.fd}
          /\ \A g \in DOMAIN asked \cup {e.fd} : Entered(asked, e.fd, e)[g] = IF g = e.fd THEN e ELSE asked[g]
        BY TableEntered
    <2> QED BY <1>1, <1>4, <2>1
<1>6. Cardinality(DOMAIN c) = Cardinality(DOMAIN a) + 1
    <2>1. IsFiniteSet(DOMAIN a) /\ fd \notin DOMAIN a
        BY <1>1, WantsFinite
    <2> QED BY <1>5, <2>1, FS_AddElement
<1>7. y = [g \in DOMAIN c |-> [event |-> c[g].event, node |-> g]]
    <2>1. y = [g \in DOMAIN k \cup {fd} |-> IF g = fd THEN [event |-> e.event, node |-> fd] ELSE k[g]]
        BY <1>3, <1>4, Zenon DEF Entered
    <2>2. DOMAIN k \cup {fd} = DOMAIN c
        BY <1>2, <1>5
    <2>3. ASSUME NEW g \in DOMAIN c
          PROVE  (IF g = fd THEN [event |-> e.event, node |-> fd] ELSE k[g]) = [event |-> c[g].event, node |-> g]
        <3>1. CASE g = fd
            BY <1>5, <3>1, Zenon
        <3>2. CASE g # fd
            <4>1. g \in DOMAIN a /\ c[g] = a[g]
                BY <1>5, <3>2
            <4> QED BY <1>2, <3>2, <4>1, Zenon
        <3> QED BY <3>1, <3>2
    <2> QED BY <2>1, <2>2, <2>3, Zenon
<1>8. x = [fds |-> c, active |-> Cardinality(DOMAIN c)]
    BY <1>3, <1>4, <1>6, Zenon
<1>9. \A g \in DOMAIN c : c[g].event # {}
    <2>1. \A g \in DOMAIN c : g = fd \/ g \in DOMAIN a
        BY <1>5
    <2> QED BY <1>2, <1>5, <2>1, Zenon
<1>10. EPollerOK(x, y, c)
    BY <1>7, <1>8, <1>9, Zenon DEF EPollerOK
<1> QED BY <1>1, <1>4, <1>10, Zenon

\* remove_fd, of a descriptor closed or not
LEMMA EPollerTakenOut ==
    ASSUME Table(asked), EPollerOK(epoller, kernel, asked), NEW fd \in DOMAIN asked, NEW closed,
           EPollerRemove(fd, closed)
    PROVE  EPollerOK(epoller', kernel', Removed(asked, fd))
<1>1. PICK a, k : a = asked /\ k = kernel
    OBVIOUS
<1>2. /\ epoller.fds = a /\ epoller.active = Cardinality(DOMAIN a)
      /\ DOMAIN k = DOMAIN a
      /\ \A g \in DOMAIN a : k[g] = [event |-> a[g].event, node |-> g] /\ a[g].event # {}
    BY <1>1, EPollerFacts
<1>3. /\ epoller' = [fds |-> Removed(a, fd), active |-> Cardinality(DOMAIN a) - 1]
      /\ kernel' = KernelDel({fd})
    <2>1. EPollerHas(fd)
        BY <1>1, <1>2, Zenon DEF EPollerHas
    <2> QED BY <1>1, <1>2, <2>1, Zenon DEF EPollerRemove
<1>4. PICK c, x, y : c = Removed(a, fd) /\ x = epoller' /\ y = kernel'
    OBVIOUS
<1>5. DOMAIN c = DOMAIN a \ {fd} /\ \A g \in DOMAIN a \ {fd} : c[g] = a[g]
    <2>1. /\ DOMAIN Removed(asked, fd) = DOMAIN asked \ {fd}
          /\ \A g \in DOMAIN asked \ {fd} : Removed(asked, fd)[g] = asked[g]
        BY TableRemoved
    <2> QED BY <1>1, <1>4, <2>1
<1>6. Cardinality(DOMAIN c) = Cardinality(DOMAIN a) - 1
    <2>1. IsFiniteSet(DOMAIN a) /\ fd \in DOMAIN a
        BY <1>1, WantsFinite
    <2> QED BY <1>5, <2>1, FS_RemoveElement
<1>7. y = [g \in DOMAIN c |-> [event |-> c[g].event, node |-> g]]
    <2>1. DOMAIN kernel \ {fd} = DOMAIN c
        BY <1>1, <1>2, <1>5
    <2>2. y = [g \in DOMAIN kernel \ {fd} |-> kernel[g]]
        BY <1>3, <1>4, Zenon DEF KernelDel
    <2>3. ASSUME NEW g \in DOMAIN c PROVE kernel[g] = [event |-> c[g].event, node |-> g]
        BY <1>1, <1>2, <1>5
    <2> QED BY <2>1, <2>2, <2>3, Zenon
<1>8. x = [fds |-> c, active |-> Cardinality(DOMAIN c)]
    BY <1>3, <1>4, <1>6, Zenon
<1>9. \A g \in DOMAIN c : c[g].event # {}
    BY <1>2, <1>5
<1>10. EPollerOK(x, y, c)
    BY <1>7, <1>8, <1>9, Zenon DEF EPollerOK
<1> QED BY <1>1, <1>4, <1>10, Zenon

\* update_fd that gives a descriptor new data
LEMMA EPollerUpdated ==
    ASSUME Table(asked), EPollerOK(epoller, kernel, asked), NEW e \in Entry, e.fd \in DOMAIN asked,
           e.event = asked[e.fd].event, EPollerUpdate(e)
    PROVE  EPollerOK(epoller', kernel', Entered(asked, e.fd, e))
<1>1. PICK a, k, fd : a = asked /\ k = kernel /\ fd = e.fd
    OBVIOUS
<1>2. /\ epoller.fds = a /\ epoller.active = Cardinality(DOMAIN a)
      /\ DOMAIN k = DOMAIN a
      /\ \A g \in DOMAIN a : k[g] = [event |-> a[g].event, node |-> g] /\ a[g].event # {}
      /\ epoller = [fds |-> a, active |-> Cardinality(DOMAIN a)]
    BY <1>1, EPollerFacts DEF EPollerOK
<1>3. kernel' = k /\ epoller' = [epoller EXCEPT !.fds[fd].data = e.data]
    <2>1. EPollerHas(e.fd) /\ e.event # {}
        BY <1>1, <1>2, Zenon DEF EPollerHas
    <2> QED BY <1>1, <2>1, Zenon DEF EPollerUpdate
<1>4. PICK c, x, y : c = Entered(a, fd, e) /\ x = epoller' /\ y = kernel'
    OBVIOUS
<1>5. /\ DOMAIN c = DOMAIN a
      /\ \A g \in DOMAIN a : c[g] = IF g = fd THEN e ELSE a[g]
    <2>1. /\ DOMAIN Entered(asked, e.fd, e) = DOMAIN asked \cup {e.fd}
          /\ \A g \in DOMAIN asked \cup {e.fd} : Entered(asked, e.fd, e)[g] = IF g = e.fd THEN e ELSE asked[g]
        BY TableEntered
    <2> QED BY <1>1, <1>4, <2>1
\* An entry with the same interest and descriptor differs in its datum only.
<1>6. [a[fd] EXCEPT !.data = e.data] = e
    <2>1. PICK o, v : o = a[fd] /\ v = e.data
        OBVIOUS
    <2>2. o \in Entry /\ o.fd = e.fd /\ o.event = e.event
        BY <1>1, <2>1 DEF Table
    <2>3. [o EXCEPT !.data = v] = e
        BY <2>1, <2>2 DEF Entry
    <2> QED BY <2>1, <2>3, Zenon
<1>7. [a EXCEPT ![fd].data = e.data] = c
    <2>1. [a EXCEPT ![fd].data = e.data] = [a EXCEPT ![fd] = e]
        BY <1>6, Zenon
    <2>2. a \in [DOMAIN a -> Entry] /\ fd \in DOMAIN a
        BY <1>1 DEF Table
    <2>3. c = [g \in DOMAIN a |-> IF g = fd THEN e ELSE a[g]]
        <3>1. c = [g \in DOMAIN a \cup {fd} |-> IF g = fd THEN e ELSE a[g]]
            BY <1>4, Zenon DEF Entered
        <3>2. DOMAIN a \cup {fd} = DOMAIN a
            BY <2>2
        <3> QED BY <3>1, <3>2, Zenon
    <2>4. [a EXCEPT ![fd] = e] = [g \in DOMAIN a |-> IF g = fd THEN e ELSE a[g]]
        BY <2>2
    <2> QED BY <2>1, <2>3, <2>4, Zenon
<1>8. x = [fds |-> c, active |-> Cardinality(DOMAIN c)]
    <2>1. PICK b, n : b = [a EXCEPT ![fd].data = e.data] /\ n = Cardinality(DOMAIN a)
        OBVIOUS
    <2>2. x = [[fds |-> a, active |-> n] EXCEPT !.fds = b]
        BY <1>2, <1>3, <1>4, <2>1, Zenon
    <2>3. x = [fds |-> b, active |-> n]
        BY <2>2
    <2> QED BY <1>5, <1>7, <2>1, <2>3, Zenon
<1>9. y = [g \in DOMAIN c |-> [event |-> c[g].event, node |-> g]]
    <2>1. y = [g \in DOMAIN asked |-> [event |-> asked[g].event, node |-> g]]
        BY <1>1, <1>3, <1>4, Zenon DEF EPollerOK
    <2>2. DOMAIN asked = DOMAIN c
        BY <1>1, <1>5
    <2>3. ASSUME NEW g \in DOMAIN c PROVE asked[g].event = c[g].event
        BY <1>1, <1>5
    <2> QED BY <2>1, <2>2, <2>3, Zenon
<1>10. \A g \in DOMAIN c : c[g].event # {}
    BY <1>1, <1>2, <1>5
<1>11. EPollerOK(x, y, c)
    BY <1>8, <1>9, <1>10, Zenon DEF EPollerOK
<1> QED BY <1>1, <1>4, <1>11, Zenon

\* remove_all unregisters every entry.
LEMMA EPollerCleared ==
    ASSUME Table(asked), EPollerOK(epoller, kernel, asked), EPollerRemoveAll
    PROVE  EPollerOK(epoller', kernel', <<>>)
<1>1. PICK a, k : a = asked /\ k = kernel
    OBVIOUS
<1>2. epoller.fds = a /\ DOMAIN k = DOMAIN a /\ \A fd \in DOMAIN a : fd > 0
    BY <1>1, EPollerFacts
<1>3. {g \in DOMAIN epoller.fds : g > 0} = DOMAIN a
    BY <1>2
<1>4. PICK c, x, y : c = <<>> /\ x = epoller' /\ y = kernel'
    OBVIOUS
<1>5. DOMAIN c = {} /\ Cardinality(DOMAIN c) = 0
    BY <1>4, FS_EmptySet
<1>6. x = [fds |-> c, active |-> Cardinality(DOMAIN c)]
    BY <1>4, <1>5, Zenon DEF EPollerRemoveAll, EPollerEmpty
<1>7. y = [g \in DOMAIN c |-> [event |-> c[g].event, node |-> g]]
    <2>1. y = [g \in DOMAIN kernel \ DOMAIN a |-> kernel[g]]
        BY <1>3, <1>4, Zenon DEF EPollerRemoveAll, KernelDel
    <2>2. DOMAIN kernel \ DOMAIN a = DOMAIN c
        BY <1>1, <1>2, <1>5
    <2>3. ASSUME NEW g \in DOMAIN c PROVE kernel[g] = [event |-> c[g].event, node |-> g]
        BY <1>5
    <2> QED BY <2>1, <2>2, <2>3, Zenon
<1>8. \A g \in DOMAIN c : c[g].event # {}
    BY <1>5
<1>9. EPollerOK(x, y, c)
    BY <1>6, <1>7, <1>8, Zenon DEF EPollerOK
<1> QED BY <1>4, <1>9, Zenon

\* epoll_wait reports what was asked for.
LEMMA EPollerReports ==
    ASSUME Table(asked), EPollerOK(epoller, kernel, asked), NEW ready
    PROVE  EPollerEvents(ready) = Promised(ready)
<1> DEFINE k == kernel
           seen(fd) == k[fd].event \cap ready[fd]
<1>1. EPollerEvents(ready)
        = {[epoller.fds[k[fd].node] EXCEPT !.event = seen(fd)] : fd \in {g \in DOMAIN k : seen(g) # {}}}
    BY Zenon DEF EPollerEvents
<1>2. Promised(ready)
        = {[asked[fd] EXCEPT !.event = asked[fd].event \cap ready[fd]] :
             fd \in {g \in DOMAIN asked : asked[g].event \cap ready[g] # {}}}
    BY DEF Promised
<1>3. /\ epoller.fds = asked /\ DOMAIN k = DOMAIN asked
      /\ \A fd \in DOMAIN asked : k[fd] = [event |-> asked[fd].event, node |-> fd]
    BY EPollerFacts
<1>4. ASSUME NEW fd \in DOMAIN asked
      PROVE  seen(fd) = asked[fd].event \cap ready[fd] /\ epoller.fds[k[fd].node] = asked[fd]
    <2>1. k[fd] = [event |-> asked[fd].event, node |-> fd]
        BY <1>3
    <2>2. k[fd].event = asked[fd].event /\ k[fd].node = fd
        BY <2>1
    <2> QED BY <1>3, <2>2, Zenon
<1> HIDE DEF seen, k
<1>5. ASSUME NEW x \in EPollerEvents(ready) PROVE x \in Promised(ready)
    <2>1. PICK fd \in DOMAIN k : seen(fd) # {} /\ x = [epoller.fds[k[fd].node] EXCEPT !.event = seen(fd)]
        BY <1>1, <1>5, Zenon
    <2>2. fd \in DOMAIN asked
        BY <1>3, Zenon
    <2>3. /\ asked[fd].event \cap ready[fd] # {}
          /\ x = [asked[fd] EXCEPT !.event = asked[fd].event \cap ready[fd]]
        BY <1>4, <2>1, <2>2, Zenon
    <2> QED BY <1>2, <2>2, <2>3, Zenon
<1>6. ASSUME NEW x \in Promised(ready) PROVE x \in EPollerEvents(ready)
    <2>1. PICK fd \in DOMAIN asked : /\ asked[fd].event \cap ready[fd] # {}
                                     /\ x = [asked[fd] EXCEPT !.event = asked[fd].event \cap ready[fd]]
        BY <1>2, <1>6, Zenon
    <2>2. fd \in DOMAIN k
        BY <1>3, Zenon
    <2>3. seen(fd) # {} /\ x = [epoller.fds[k[fd].node] EXCEPT !.event = seen(fd)]
        BY <1>4, <2>1, Zenon
    <2> QED BY <1>1, <2>2, <2>3, Zenon
<1> QED BY <1>5, <1>6, Zenon

-----------------------------------------------------------------------------
(* All three *)

\* The invariant holds of the new monitors ...
LEMMA InvInit == MonitorInit => MonitorInv
<1> SUFFICES ASSUME MonitorInit PROVE MonitorInv
    OBVIOUS
<1>1. asked = <<>> /\ selector = SelectorEmpty /\ poller = PollerEmpty /\ plain = TRUE
    BY DEF MonitorInit
<1>2. Table(asked) /\ SelectorOK(selector, asked) /\ PollerOK(poller, asked)
    BY <1>1, SelectorCleared, PollerCleared, Zenon
<1>3. EPollerOK(epoller, kernel, asked)
    <2>1. PICK a, x, y : a = asked /\ x = epoller /\ y = kernel
        OBVIOUS
    <2>2. a = <<>> /\ y = <<>> /\ x = [fds |-> <<>>, active |-> 0]
        BY <1>1, <2>1, Zenon DEF MonitorInit, EPollerEmpty
    <2>3. DOMAIN a = {} /\ Cardinality(DOMAIN a) = 0
        BY <2>2, FS_EmptySet
    <2>4. x = [fds |-> a, active |-> Cardinality(DOMAIN a)]
        BY <2>2, <2>3, Zenon
    <2>5. y = [fd \in DOMAIN a |-> [event |-> a[fd].event, node |-> fd]]
        BY <2>2, <2>3
    <2>6. \A fd \in DOMAIN a : a[fd].event # {}
        BY <2>3
    <2>7. EPollerOK(x, y, a)
        BY <2>4, <2>5, <2>6, Zenon DEF EPollerOK
    <2> QED BY <2>1, <2>7, Zenon
<1>4. AnswersOK
    <2>1. answers = [selector |-> TRUE, poller |-> TRUE, epoller |-> TRUE, asked |-> TRUE]
        BY DEF MonitorInit
    <2> QED BY <2>1 DEF AnswersOK
<1> QED BY <1>1, <1>2, <1>3, <1>4 DEF MonitorInv

\* ... add_fd preserves it ...
LEMMA InvAdd ==
    ASSUME MonitorInv, NEW e \in Entry, AddFd(e)
    PROVE  MonitorInv'
<1>1. /\ Table(asked) /\ SelectorOK(selector, asked) /\ PollerOK(poller, asked)
      /\ plain \in BOOLEAN /\ (plain => EPollerOK(epoller, kernel, asked))
    BY DEF MonitorInv
<1>2. /\ selector' = SelectorAdd(e) /\ poller' = PollerAdd(e) /\ EPollerAdd(e)
      /\ asked' = (IF e.fd \in DOMAIN asked THEN asked ELSE Entered(asked, e.fd, e))
      /\ plain' = (plain /\ e.event # {})
    BY DEF AddFd
<1>3. plain' \in BOOLEAN /\ (plain' => plain /\ e.event # {})
    BY <1>1, <1>2
<1>4. /\ SelectorHas(e.fd) <=> e.fd \in DOMAIN asked
      /\ PollerHas(e.fd) <=> e.fd \in DOMAIN asked
      /\ plain' => (EPollerAddReturns(e) <=> e.fd \notin DOMAIN asked)
    BY <1>1, <1>3, SelectorFinds, PollerFinds, EPollerAddFinds
<1>5. AnswersOK'
    <2>1. answers' = [selector |-> ~SelectorHas(e.fd), poller |-> ~PollerHas(e.fd),
                      epoller |-> EPollerAddReturns(e), asked |-> e.fd \notin DOMAIN asked]
        BY DEF AddFd
    <2>2. /\ answers'.selector = ~SelectorHas(e.fd) /\ answers'.poller = ~PollerHas(e.fd)
          /\ answers'.epoller = EPollerAddReturns(e) /\ answers'.asked = (e.fd \notin DOMAIN asked)
        BY <2>1, Zenon
    <2>3. /\ (~SelectorHas(e.fd)) = (e.fd \notin DOMAIN asked)
          /\ (~PollerHas(e.fd)) = (e.fd \notin DOMAIN asked)
          /\ plain' => EPollerAddReturns(e) = (e.fd \notin DOMAIN asked)
        <3>1. EPollerAddReturns(e) \in BOOLEAN
            BY DEF EPollerAddReturns
        <3> QED BY <1>4, <3>1
    <2> QED BY <2>2, <2>3, Zenon DEF AnswersOK
<1>6. CASE e.fd \in DOMAIN asked
    <2>1. asked' = asked
        BY <1>2, <1>6
    <2>2. selector' = selector
        BY <1>2, <1>4, <1>6 DEF SelectorAdd
    <2>3. poller' = poller
        BY <1>2, <1>4, <1>6 DEF PollerAdd
    <2>4. ASSUME plain' PROVE EPollerOK(epoller', kernel', asked')
        <3>1. epoller.fds = asked /\ EPollerOK(epoller, kernel, asked)
            BY <1>1, <1>3, <2>4 DEF EPollerOK
        <3>2. EPollerHas(e.fd)
            BY <1>6, <3>1, Zenon DEF EPollerHas
        <3>3. epoller' = epoller /\ kernel' = kernel
            BY <1>2, <3>2 DEF EPollerAdd
        <3> QED BY <2>1, <3>1, <3>3
    <2> QED BY <1>1, <1>3, <1>5, <2>1, <2>2, <2>3, <2>4 DEF MonitorInv
<1>7. CASE e.fd \notin DOMAIN asked
    <2>1. asked' = Entered(asked, e.fd, e)
        BY <1>2, <1>7
    <2>2. Table(asked')
        BY <1>1, <2>1, TableEntered
    <2>3. SelectorOK(selector', asked')
        BY <1>1, <1>2, <1>7, <2>1, SelectorAdded
    <2>4. PollerOK(poller', asked')
        BY <1>1, <1>2, <1>7, <2>1, PollerAdded
    <2>5. ASSUME plain' PROVE EPollerOK(epoller', kernel', asked')
        BY <1>1, <1>2, <1>3, <1>7, <2>1, <2>5, EPollerAdded
    <2> QED BY <1>3, <1>5, <2>2, <2>3, <2>4, <2>5 DEF MonitorInv
<1> QED BY <1>6, <1>7

\* ... update_fd does ...
LEMMA InvUpdate ==
    ASSUME MonitorInv, NEW e \in Entry, UpdateFd(e)
    PROVE  MonitorInv'
<1>1. /\ Table(asked) /\ SelectorOK(selector, asked) /\ PollerOK(poller, asked)
      /\ plain \in BOOLEAN /\ (plain => EPollerOK(epoller, kernel, asked))
      /\ AnswersOK
    BY DEF MonitorInv
<1>2. /\ e.fd \in DOMAIN asked /\ asked' = Entered(asked, e.fd, e)
      /\ selector' = SelectorUpdate(e) /\ poller' = PollerUpdate(e) /\ EPollerUpdate(e)
      /\ plain' = (plain /\ e.event = asked[e.fd].event)
      /\ answers' = answers
    BY DEF UpdateFd
<1>3. plain' \in BOOLEAN /\ (plain' => plain /\ e.event = asked[e.fd].event)
    BY <1>1, <1>2
<1>4. Table(asked')
    BY <1>1, <1>2, TableEntered
<1>5. SelectorOK(selector', asked')
    BY <1>1, <1>2, SelectorUpdated
<1>6. PollerOK(poller', asked')
    BY <1>1, <1>2, PollerUpdated
<1>7. ASSUME plain' PROVE EPollerOK(epoller', kernel', asked')
    BY <1>1, <1>2, <1>3, <1>7, EPollerUpdated
<1>8. AnswersOK'
    BY <1>1, <1>2, <1>3 DEF AnswersOK
<1> QED BY <1>3, <1>4, <1>5, <1>6, <1>7, <1>8 DEF MonitorInv

\* ... remove_fd does ...
LEMMA InvRemove ==
    ASSUME MonitorInv, NEW fd, NEW closed, RemoveFd(fd, closed)
    PROVE  MonitorInv'
<1>1. /\ Table(asked) /\ SelectorOK(selector, asked) /\ PollerOK(poller, asked)
      /\ plain \in BOOLEAN /\ (plain => EPollerOK(epoller, kernel, asked))
      /\ AnswersOK
    BY DEF MonitorInv
<1>2. /\ fd \in DOMAIN asked /\ asked' = Removed(asked, fd)
      /\ selector' = SelectorRemove(fd) /\ poller' = PollerRemove(fd) /\ EPollerRemove(fd, closed)
      /\ plain' = plain /\ answers' = answers
    BY DEF RemoveFd
<1>3. Table(asked')
    BY <1>1, <1>2, TableRemoved
<1>4. SelectorOK(selector', asked')
    BY <1>1, <1>2, SelectorTakenOut
<1>5. PollerOK(poller', asked')
    BY <1>1, <1>2, PollerTakenOut
<1>6. ASSUME plain' PROVE EPollerOK(epoller', kernel', asked')
    BY <1>1, <1>2, <1>6, EPollerTakenOut
<1>7. AnswersOK'
    BY <1>1, <1>2 DEF AnswersOK
<1> QED BY <1>1, <1>2, <1>3, <1>4, <1>5, <1>6, <1>7 DEF MonitorInv

\* ... and remove_all does.
LEMMA InvRemoveAll ==
    ASSUME MonitorInv, RemoveAll
    PROVE  MonitorInv'
<1>1. /\ Table(asked) /\ plain \in BOOLEAN /\ (plain => EPollerOK(epoller, kernel, asked))
      /\ AnswersOK
    BY DEF MonitorInv
<1>2. /\ asked' = <<>> /\ selector' = SelectorEmpty /\ poller' = PollerEmpty /\ EPollerRemoveAll
      /\ plain' = plain /\ answers' = answers
    BY DEF RemoveAll
<1>3. Table(asked') /\ SelectorOK(selector', asked') /\ PollerOK(poller', asked')
    BY <1>2, SelectorCleared, PollerCleared, Zenon
<1>4. ASSUME plain' PROVE EPollerOK(epoller', kernel', asked')
    <2>1. EPollerOK(epoller', kernel', <<>>)
        BY <1>1, <1>2, <1>4, EPollerCleared
    <2> QED BY <1>2, <2>1, Zenon
<1>5. AnswersOK'
    BY <1>1, <1>2 DEF AnswersOK
<1> QED BY <1>1, <1>2, <1>3, <1>4, <1>5 DEF MonitorInv

\* What every reachable state of the monitors is like: a Selector and a Poller hold
\* exactly the entries asked for, whatever was called, and an EPoller and the epoll
\* instance do as long as no interest was changed and none was empty.
THEOREM MonitorInvariant == MonitorSpec => []MonitorInv
<1>1. ASSUME MonitorInv, [MonitorNext]_monitorVars PROVE MonitorInv'
    <2>1. ASSUME NEW e \in Entry, AddFd(e) PROVE MonitorInv'
        BY <1>1, <2>1, InvAdd
    <2>2. ASSUME NEW e \in Entry, UpdateFd(e) PROVE MonitorInv'
        BY <1>1, <2>2, InvUpdate
    <2>3. ASSUME NEW fd \in Descriptor, NEW closed \in BOOLEAN, RemoveFd(fd, closed) PROVE MonitorInv'
        BY <1>1, <2>3, InvRemove
    <2>4. CASE RemoveAll
        BY <1>1, <2>4, InvRemoveAll
    <2>5. CASE UNCHANGED monitorVars
        BY <1>1, <2>5 DEF monitorVars, MonitorInv, AnswersOK
    <2> QED BY <1>1, <2>1, <2>2, <2>3, <2>4, <2>5 DEF MonitorNext
<1> QED BY <1>1, InvInit, PTL DEF MonitorSpec

\* Whatever is ready, and whatever was called before, select and poll report exactly the
\* events asked for with the data last given, add_fd of both answers as the table does,
\* and epoll does the same while no interest was changed and none was empty.
THEOREM MonitorsAlwaysAgree == MonitorSpec => []MonitorsAgree
<1>1. MonitorInv => MonitorsAgree
    <2> SUFFICES ASSUME MonitorInv PROVE MonitorsAgree
        OBVIOUS
    <2>1. /\ Table(asked) /\ SelectorOK(selector, asked) /\ PollerOK(poller, asked)
          /\ plain => EPollerOK(epoller, kernel, asked)
          /\ AnswersOK
        BY DEF MonitorInv
    <2>2. ASSUME NEW ready
          PROVE  /\ SelectorEvents(ready) = Promised(ready)
                 /\ PollerEvents(ready) = Promised(ready)
                 /\ plain => EPollerEvents(ready) = Promised(ready)
        BY <2>1, SelectorReports, PollerReports, EPollerReports
    <2>3. plain => epoller.active = Cardinality(DOMAIN asked)
        BY <2>1, EPollerFacts
    <2>4. /\ answers.selector = answers.asked /\ answers.poller = answers.asked
          /\ plain => answers.epoller = answers.asked
        BY <2>1 DEF AnswersOK
    <2> QED BY <2>2, <2>3, <2>4, Zenon DEF MonitorsAgree
<1> QED BY <1>1, MonitorInvariant, PTL

-----------------------------------------------------------------------------
(* The reactor *)

\* What each variable ranges over.
Scans == {"timeouts", "tasks", "alive"}
Request ==
    [op : {"add"}, conn : Conn] \cup [op : {"update", "weak", "send"}, fd : Fd \cup {0}]
    \cup [op : {"shutdown"}]
Serving == [conn : Conn \cup {NoConn}, bits : SUBSET Bits, at : {"error", "close", "read", "write"}]
ReactorTypes ==
    /\ owner \in {"off", "on", "stopping", "stopped"}
    /\ lpc \in {"none", "top", "begin", "asleep", "events", "done"} \cup Scans
    /\ loopQuit \in BOOLEAN
    /\ fdOf \in [Conn -> Fd \cup {0}]
    /\ connState \in [Conn -> {"none", "open", "sent", "late", "added", "closed"}]
    /\ closes \in [Conn -> {0, 1}]
    /\ serving \in Serving

\* s holds each of its elements once, and these are S.
Elements(s) == {s[i] : i \in DOMAIN s}
Once(s) == \A i, j \in DOMAIN s : s[i] = s[j] => i = j

\* The timers hold one entry for each descriptor of D.
TimerOf(t, D) ==
    /\ t \in Seq([fd : Fd, old : BOOLEAN])
    /\ \A i, j \in DOMAIN t : t[i].fd = t[j].fd => i = j
    /\ {t[i].fd : i \in DOMAIN t} = D

Tabled ==
    /\ DOMAIN channels \subseteq Fd
    /\ channels \in [DOMAIN channels -> Conn]
    /\ watched \in [DOMAIN channels -> SUBSET Bits]
    /\ TimerOf(timers, DOMAIN channels)

\* A connection has a descriptor from its opening until it is closed, and no
\* other connection has it then; one whose close callback has run is closed.
Numbered ==
    /\ \A c \in Conn : fdOf[c] = 0 <=> connState[c] \in {"none", "closed"}
    /\ \A c, d \in Conn : fdOf[c] = fdOf[d] => c = d \/ fdOf[c] = 0
    /\ \A c \in Conn : closes[c] = 1 => connState[c] = "closed" /\ (serving.conn = c => serving.bits = {})

\* A channel is in the map from its adding until its closing, or until the
\* scan that closed it gets over it; close_alive leaves closed ones behind.
Passed(fd) ==
    \/ serving # Idle /\ fd = Head(todo)
    \/ lpc = "alive" /\ fd \notin Elements(todo)
Mapped ==
    /\ \A fd \in DOMAIN channels :
          \/ fdOf[channels[fd]] = fd /\ connState[channels[fd]] = "added"
          \/ connState[channels[fd]] = "closed" /\ Passed(fd)
    /\ \A c \in Conn : connState[c] = "added" => fdOf[c] \in DOMAIN channels /\ channels[fdOf[c]] = c
    /\ \A fd \in DOMAIN channels :
          lpc = "alive" /\ fd \notin Elements(todo) => connState[channels[fd]] = "closed"

Scanned ==
    /\ todo \in Seq(Fd) /\ Once(todo) /\ Elements(todo) \subseteq DOMAIN channels
    /\ lpc \notin Scans => todo = <<>>
    /\ serving # Idle => todo # <<>> /\ serving.conn = channels[Head(todo)]

\* The functions not yet run, in their order: each connection that was sent is
\* among them once, before the shutdown.
Pending == batch \o queued
Adds(e, c) == e.op = "add" /\ e.conn = c
Sent(p, st, o) ==
    /\ p \in Seq(Request)
    /\ \A i \in DOMAIN p : \A c \in Conn : Adds(p[i], c) => st[c] \in {"sent", "late"}
    /\ \A i, j \in DOMAIN p : \A c \in Conn : Adds(p[i], c) /\ Adds(p[j], c) => i = j
    /\ \A c \in Conn : st[c] = "sent" => \E i \in DOMAIN p : Adds(p[i], c)
    /\ \A i, j \in DOMAIN p : \A c \in Conn :
          p[i].op = "shutdown" /\ Adds(p[j], c) /\ st[c] = "sent" => j < i
    /\ o \in {"off", "on"} => \A i \in DOMAIN p : p[i].op # "shutdown"
Queued ==
    /\ batch \in Seq(Request) /\ queued \in Seq(Request)
    /\ lpc # "events" => batch = <<>>
    /\ Sent(Pending, connState, owner)

Quitting ==
    /\ owner \in {"off", "on"} => ~loopQuit
    /\ loopQuit => \A c \in Conn : connState[c] # "sent"
    /\ lpc \in {"alive", "done"} => loopQuit
    /\ owner = "off" => lpc = "none"
    /\ owner = "stopped" => lpc = "done"
    /\ lpc = "done" => DOMAIN channels = {}

ReactorInv ==
    /\ ReactorTypes /\ Tabled /\ Numbered /\ Mapped /\ Scanned /\ Queued /\ Quitting

-----------------------------------------------------------------------------
(* Orders and timers *)

\* InOrder, which stands for the order of a map or of the monitor, lists a
\* finite set.
LEMMA InOrderLists ==
    ASSUME NEW S, IsFiniteSet(S)
    PROVE  InOrder(S) \in Seq(S) /\ Once(InOrder(S)) /\ Elements(InOrder(S)) = S
<1> DEFINE n == Cardinality(S)
           Lists(s) == \A x \in S : \E i \in DOMAIN s : s[i] = x /\ \A j \in DOMAIN s \ {i} : s[j] # x
<1>1. n \in Nat /\ ExistsBijection(1..n, S)
  BY FS_CardinalityType
<1>2. PICK f : f \in Bijection(1..n, S)
  BY <1>1 DEF ExistsBijection
<1>3. f \in [1..n -> S] /\ Lists(f)
  BY <1>2 DEF Bijection, Injection, Surjection, IsInjective
<1> DEFINE s == InOrder(S)
<1>4. s \in [1..n -> S] /\ Lists(s)
  BY <1>3 DEF InOrder
<1> HIDE DEF s, n
<1>5. s \in Seq(S) /\ DOMAIN s = 1..n
  BY <1>1, <1>4
<1>6. Elements(s) = S
  BY <1>4, <1>5 DEF Elements
<1>7. Once(s)
  BY <1>4, <1>5 DEF Once
<1> QED BY <1>5, <1>6, <1>7 DEF s

\* A scan gets on by one place.
LEMMA NextInScan ==
    ASSUME NEW T, NEW s \in Seq(T), s # <<>>, Once(s)
    PROVE  /\ Tail(s) \in Seq(T) /\ Once(Tail(s))
           /\ Head(s) \in Elements(s) /\ Elements(Tail(s)) = Elements(s) \ {Head(s)}
<1>1. /\ Len(s) \in Nat /\ Len(s) > 0 /\ DOMAIN s = 1..Len(s) /\ Head(s) = s[1]
      /\ Tail(s) \in Seq(T) /\ DOMAIN Tail(s) = 1..Len(s) - 1
      /\ \A i \in 1..Len(s) - 1 : Tail(s)[i] = s[i + 1]
  OBVIOUS
<1>2. Once(Tail(s))
  <2> SUFFICES ASSUME NEW i \in 1..Len(s) - 1, NEW j \in 1..Len(s) - 1, Tail(s)[i] = Tail(s)[j] PROVE i = j
    BY <1>1 DEF Once
  <2>1. i + 1 \in DOMAIN s /\ j + 1 \in DOMAIN s /\ s[i + 1] = s[j + 1]
    BY <1>1
  <2>2. i + 1 = j + 1
    BY <2>1 DEF Once
  <2> QED BY <2>2, <1>1
<1>3. Head(s) \in Elements(s)
  BY <1>1 DEF Elements
<1>4. ASSUME NEW x \in Elements(Tail(s)) PROVE x \in Elements(s) \ {Head(s)}
  <2>1. PICK i \in 1..Len(s) - 1 : x = Tail(s)[i]
    BY <1>1 DEF Elements
  <2>2. i + 1 \in DOMAIN s /\ x = s[i + 1] /\ 1 \in DOMAIN s /\ i + 1 # 1
    BY <1>1, <2>1
  <2> QED BY <1>1, <2>2 DEF Elements, Once
<1>5. ASSUME NEW x \in Elements(s) \ {Head(s)} PROVE x \in Elements(Tail(s))
  <2>1. PICK i \in DOMAIN s : x = s[i]
    BY DEF Elements
  <2>2. i \in 1..Len(s) /\ i # 1
    BY <1>1, <2>1
  <2>3. i - 1 \in DOMAIN Tail(s) /\ Tail(s)[i - 1] = x
    BY <1>1, <2>1, <2>2
  <2> QED BY <2>3 DEF Elements
<1> QED BY <1>1, <1>2, <1>3, <1>4, <1>5

\* A new entry comes to the end of the timers.
LEMMA TimerEnters ==
    ASSUME NEW D, NEW t, TimerOf(t, D), NEW fd \in Fd \ D
    PROVE  TimerOf(Append(t, [fd |-> fd, old |-> FALSE]), D \cup {fd})
<1> DEFINE T == [fd : Fd, old : BOOLEAN]
           u == Append(t, [fd |-> fd, old |-> FALSE])
           n == Len(t)
<1>1. t \in Seq(T) /\ DOMAIN t = 1..n /\ n \in Nat
  BY DEF TimerOf
<1>2. \A i, j \in 1..n : t[i].fd = t[j].fd => i = j
  BY <1>1 DEF TimerOf
<1>3. \A i \in 1..n : t[i].fd \in D
  BY <1>1 DEF TimerOf
<1>4. \A g \in D : \E i \in 1..n : t[i].fd = g
  BY <1>1 DEF TimerOf
<1>5. u \in Seq(T)
  BY <1>1
<1>6. DOMAIN u = 1..n + 1 /\ (\A i \in 1..n : u[i] = t[i]) /\ u[n + 1].fd = fd
  BY <1>1
<1> HIDE DEF u, n, T
<1>7. \A i, j \in 1..n + 1 : u[i].fd = u[j].fd => i = j
  BY <1>1, <1>2, <1>3, <1>6
<1>8. \A g \in D \cup {fd} : \E i \in 1..n + 1 : u[i].fd = g
  BY <1>1, <1>4, <1>6
<1>9. \A i \in 1..n + 1 : u[i].fd \in D \cup {fd}
  BY <1>1, <1>3, <1>6
<1>10. {u[i].fd : i \in DOMAIN u} = D \cup {fd}
  BY <1>6, <1>8, <1>9
<1> QED BY <1>5, <1>6, <1>7, <1>10 DEF TimerOf, T, u

\* One is taken out where the channel's iterator leads.
LEMMA TimerLeaves ==
    ASSUME NEW D, TimerOf(timers, D), NEW fd \in D
    PROVE  TimerOf(Unqueued(fd), D \ {fd})
<1> DEFINE T == [fd : Fd, old : BOOLEAN]
           u == Unqueued(fd)
           n == Len(timers)
           p == CHOOSE i \in DOMAIN timers : timers[i].fd = fd
           a == SubSeq(timers, 1, p - 1)
           b == SubSeq(timers, p + 1, n)
<1>1. timers \in Seq(T) /\ DOMAIN timers = 1..n /\ n \in Nat
  BY DEF TimerOf
<1>2. \A i, j \in 1..n : timers[i].fd = timers[j].fd => i = j
  BY <1>1 DEF TimerOf
<1>3. \A i \in 1..n : timers[i].fd \in D
  BY <1>1 DEF TimerOf
<1>4. \A g \in D : \E i \in 1..n : timers[i].fd = g
  BY <1>1 DEF TimerOf
<1>5. p \in 1..n /\ timers[p].fd = fd
  BY <1>1, <1>4
<1>6. u = a \o b
  BY DEF Unqueued
<1> HIDE DEF p, n, T, u
<1>7. a \in Seq(T) /\ Len(a) = p - 1 /\ \A i \in 1..p - 1 : a[i] = timers[i]
  BY <1>1, <1>5
<1>8. b \in Seq(T) /\ Len(b) = n - p /\ \A i \in 1..n - p : b[i] = timers[i + p]
  BY <1>1, <1>5
<1> HIDE DEF a, b
<1>9. u \in Seq(T) /\ Len(u) = n - 1
  BY <1>1, <1>5, <1>6, <1>7, <1>8
<1>10. DOMAIN u = 1..n - 1
  BY <1>9, <1>1
<1>11. \A i \in 1..n - 1 : u[i] = timers[IF i < p THEN i ELSE i + 1]
  BY <1>1, <1>5, <1>6, <1>7, <1>8
<1>12. \A i, j \in 1..n - 1 : u[i].fd = u[j].fd => i = j
  <2> SUFFICES ASSUME NEW i \in 1..n - 1, NEW j \in 1..n - 1, u[i].fd = u[j].fd PROVE i = j
    OBVIOUS
  <2> DEFINE k == IF i < p THEN i ELSE i + 1
             l == IF j < p THEN j ELSE j + 1
  <2>1. k \in 1..n /\ l \in 1..n /\ u[i] = timers[k] /\ u[j] = timers[l]
    BY <1>1, <1>5, <1>11
  <2>2. k = l
    BY <2>1, <1>2
  <2> QED BY <2>2, <1>1, <1>5
<1>13. \A i \in 1..n - 1 : u[i].fd \in D \ {fd}
  <2> SUFFICES ASSUME NEW i \in 1..n - 1 PROVE u[i].fd \in D \ {fd}
    OBVIOUS
  <2> DEFINE k == IF i < p THEN i ELSE i + 1
  <2>1. k \in 1..n /\ k # p /\ u[i] = timers[k]
    BY <1>1, <1>5, <1>11
  <2> QED BY <2>1, <1>2, <1>3, <1>5
<1>14. \A g \in D \ {fd} : \E i \in 1..n - 1 : u[i].fd = g
  <2> SUFFICES ASSUME NEW g \in D \ {fd} PROVE \E i \in 1..n - 1 : u[i].fd = g
    OBVIOUS
  <2>1. PICK k \in 1..n : timers[k].fd = g
    BY <1>4
  <2>2. k # p
    BY <2>1, <1>5
  <2> DEFINE i == IF k < p THEN k ELSE k - 1
  <2>3. i \in 1..n - 1 /\ (IF i < p THEN i ELSE i + 1) = k
    BY <2>2, <1>1, <1>5
  <2>4. u[i] = timers[k]
    BY <2>3, <1>11
  <2> QED BY <2>1, <2>3, <2>4
<1>15. {u[i].fd : i \in DOMAIN u} = D \ {fd}
  BY <1>10, <1>13, <1>14
<1> QED BY <1>9, <1>10, <1>12, <1>15 DEF TimerOf, T, u

\* The timers are as many as their descriptors.
LEMMA TimersCounted ==
    ASSUME NEW D, NEW t, TimerOf(t, D)
    PROVE  IsFiniteSet(D) /\ Len(t) = Cardinality(D)
<1> DEFINE n == Len(t)
           f == [i \in 1..n |-> t[i].fd]
<1>1. n \in Nat /\ DOMAIN t = 1..n
  BY DEF TimerOf
<1>2. \A i, j \in 1..n : t[i].fd = t[j].fd => i = j
  BY <1>1 DEF TimerOf
<1>3. (\A i \in 1..n : t[i].fd \in D) /\ \A g \in D : \E i \in 1..n : t[i].fd = g
  BY <1>1 DEF TimerOf
<1> HIDE DEF n
<1>4. f \in [1..n -> D] /\ (\A i, j \in 1..n : f[i] = f[j] => i = j) /\ \A g \in D : \E i \in 1..n : f[i] = g
  BY <1>2, <1>3
<1>5. f \in Bijection(1..n, D)
  BY <1>4, Zenon DEF Bijection, Injection, Surjection, IsInjective
<1>6. ExistsBijection(1..n, D)
  BY <1>5, Zenon DEF ExistsBijection
<1>7. IsFiniteSet(1..n) /\ Cardinality(1..n) = n
  BY <1>1, FS_Interval
<1> QED BY <1>6, <1>7, FS_Bijection DEF n

-----------------------------------------------------------------------------
(* The functions not yet run *)

\* Whether a connection was sent, and whether stop was called, is all that
\* matters.
LEMMA SentStays ==
    ASSUME NEW p, NEW st, NEW o, Sent(p, st, o), NEW st2, NEW o2,
           \A d \in Conn : st2[d] = st[d] \/ (st[d] \notin {"sent", "late"} /\ st2[d] \notin {"sent", "late"}),
           o2 \in {"off", "on"} => o \in {"off", "on"}
    PROVE  Sent(p, st2, o2)
<1>1. \A d \in Conn : st2[d] \in {"sent", "late"} <=> st[d] \in {"sent", "late"}
  OBVIOUS
<1>2. \A d \in Conn : st2[d] = "sent" <=> st[d] = "sent"
  OBVIOUS
<1> QED BY <1>1, <1>2, Zenon DEF Sent

\* The first of the functions is run.
LEMMA SentRun ==
    ASSUME NEW p, NEW st, NEW o, Sent(p, st, o), p # <<>>, NEW st2,
           \A d \in Conn : ~Adds(Head(p), d) => st2[d] = st[d],
           \A d \in Conn : Adds(Head(p), d) => st2[d] \notin {"sent", "late"}
    PROVE  Sent(Tail(p), st2, o)
<1> DEFINE t == Tail(p)
           n == Len(p)
<1>1. p \in Seq(Request)
  BY DEF Sent
<1>2. /\ n \in Nat /\ n > 0 /\ DOMAIN p = 1..n /\ Head(p) = p[1]
      /\ t \in Seq(Request) /\ DOMAIN t = 1..n - 1
      /\ \A i \in 1..n - 1 : t[i] = p[i + 1]
  BY <1>1
<1> HIDE DEF t, n
<1>3. \A i \in 1..n : \A c \in Conn : Adds(p[i], c) => st[c] \in {"sent", "late"}
  BY <1>2 DEF Sent
<1>4. \A i, j \in 1..n : \A c \in Conn : Adds(p[i], c) /\ Adds(p[j], c) => i = j
  BY <1>2 DEF Sent
<1>5. \A c \in Conn : st[c] = "sent" => \E i \in 1..n : Adds(p[i], c)
  BY <1>2 DEF Sent
<1>6. \A i, j \in 1..n : \A c \in Conn :
          p[i].op = "shutdown" /\ Adds(p[j], c) /\ st[c] = "sent" => j < i
  BY <1>2 DEF Sent
<1>7. o \in {"off", "on"} => \A i \in 1..n : p[i].op # "shutdown"
  BY <1>2 DEF Sent
<1>8. \A i \in 1..n - 1 : i + 1 \in 1..n /\ i + 1 # 1
  BY <1>2
<1>9. \A i \in 1..n - 1 : \A c \in Conn : Adds(t[i], c) => ~Adds(Head(p), c) /\ Adds(p[i + 1], c)
  BY <1>2, <1>4, <1>8
<1>10. \A i \in 1..n - 1 : \A c \in Conn : Adds(t[i], c) => st2[c] \in {"sent", "late"}
  BY <1>3, <1>8, <1>9
<1>11. \A i, j \in 1..n - 1 : \A c \in Conn : Adds(t[i], c) /\ Adds(t[j], c) => i = j
  <2> SUFFICES ASSUME NEW i \in 1..n - 1, NEW j \in 1..n - 1, NEW c \in Conn, Adds(t[i], c), Adds(t[j], c)
               PROVE  i = j
    OBVIOUS
  <2>1. i + 1 = j + 1
    BY <1>4, <1>8, <1>9
  <2> QED BY <2>1
<1>12. \A c \in Conn : st2[c] = "sent" => \E i \in 1..n - 1 : Adds(t[i], c)
  <2> SUFFICES ASSUME NEW c \in Conn, st2[c] = "sent" PROVE \E i \in 1..n - 1 : Adds(t[i], c)
    OBVIOUS
  <2>1. ~Adds(Head(p), c) /\ st[c] = "sent"
    OBVIOUS
  <2>2. PICK i \in 1..n : Adds(p[i], c)
    BY <1>5, <2>1
  <2>3. i # 1
    BY <1>2, <2>1, <2>2
  <2>4. i - 1 \in 1..n - 1 /\ t[i - 1] = p[i]
    BY <1>2, <2>3
  <2> QED BY <2>2, <2>4
<1>13. \A i, j \in 1..n - 1 : \A c \in Conn :
          t[i].op = "shutdown" /\ Adds(t[j], c) /\ st2[c] = "sent" => j < i
  <2> SUFFICES ASSUME NEW i \in 1..n - 1, NEW j \in 1..n - 1, NEW c \in Conn,
                      t[i].op = "shutdown", Adds(t[j], c), st2[c] = "sent"
               PROVE  j < i
    OBVIOUS
  <2>1. p[i + 1].op = "shutdown" /\ Adds(p[j + 1], c) /\ st[c] = "sent"
    BY <1>2, <1>9
  <2>2. j + 1 < i + 1
    BY <2>1, <1>6, <1>8
  <2> QED BY <2>2
<1>14. o \in {"off", "on"} => \A i \in 1..n - 1 : t[i].op # "shutdown"
  BY <1>2, <1>7, <1>8
<1> QED BY <1>2, <1>10, <1>11, <1>12, <1>13, <1>14 DEF Sent, t

\* A function is put.
LEMMA SentMore ==
    ASSUME NEW p, NEW st, NEW o, Sent(p, st, o), NEW e \in Request, NEW st2, NEW o2,
           \A d \in Conn : ~Adds(e, d) => st2[d] = st[d],
           \A d \in Conn : Adds(e, d) => /\ st[d] \notin {"sent", "late"} /\ st2[d] \in {"sent", "late"}
                                         /\ st2[d] = "sent" => o \in {"off", "on"},
           o2 \in {"off", "on"} => o \in {"off", "on"} /\ e.op # "shutdown"
    PROVE  Sent(Append(p, e), st2, o2)
<1> DEFINE t == Append(p, e)
           n == Len(p)
<1>1. p \in Seq(Request)
  BY DEF Sent
<1>2. /\ n \in Nat /\ DOMAIN p = 1..n
      /\ t \in Seq(Request) /\ DOMAIN t = 1..n + 1
      /\ \A i \in 1..n : t[i] = p[i]
      /\ t[n + 1] = e
  BY <1>1
<1> HIDE DEF t, n
<1>3. \A i \in 1..n : \A c \in Conn : Adds(p[i], c) => st[c] \in {"sent", "late"}
  BY <1>2 DEF Sent
<1>4. \A i, j \in 1..n : \A c \in Conn : Adds(p[i], c) /\ Adds(p[j], c) => i = j
  BY <1>2 DEF Sent
<1>5. \A c \in Conn : st[c] = "sent" => \E i \in 1..n : Adds(p[i], c)
  BY <1>2 DEF Sent
<1>6. \A i, j \in 1..n : \A c \in Conn :
          p[i].op = "shutdown" /\ Adds(p[j], c) /\ st[c] = "sent" => j < i
  BY <1>2 DEF Sent
<1>7. o \in {"off", "on"} => \A i \in 1..n : p[i].op # "shutdown"
  BY <1>2 DEF Sent
<1>8. \A i \in 1..n + 1 : i \in 1..n \/ i = n + 1
  BY <1>2
<1>9. \A i \in 1..n : \A c \in Conn : Adds(p[i], c) => ~Adds(e, c) /\ st2[c] = st[c]
  BY <1>3
<1>10. \A i \in 1..n + 1 : \A c \in Conn : Adds(t[i], c) => st2[c] \in {"sent", "late"}
  BY <1>2, <1>3, <1>8, <1>9
<1>11. \A i, j \in 1..n + 1 : \A c \in Conn : Adds(t[i], c) /\ Adds(t[j], c) => i = j
  BY <1>2, <1>4, <1>8, <1>9
<1>12. \A c \in Conn : st2[c] = "sent" => \E i \in 1..n + 1 : Adds(t[i], c)
  <2> SUFFICES ASSUME NEW c \in Conn, st2[c] = "sent" PROVE \E i \in 1..n + 1 : Adds(t[i], c)
    OBVIOUS
  <2>1. CASE Adds(e, c)
    BY <2>1, <1>2
  <2>2. CASE ~Adds(e, c)
    <3>1. PICK i \in 1..n : Adds(p[i], c)
      BY <2>2, <1>5
    <3>2. i \in 1..n + 1 /\ Adds(t[i], c)
      BY <3>1, <1>2
    <3> QED BY <3>2
  <2> QED BY <2>1, <2>2
<1>13. ASSUME NEW i \in 1..n + 1, NEW j \in 1..n + 1, NEW c \in Conn,
              t[i].op = "shutdown", Adds(t[j], c), st2[c] = "sent"
       PROVE  j < i
  <2>1. CASE j = n + 1
    <3>1. Adds(e, c) /\ o \in {"off", "on"} /\ e.op = "add"
      BY <2>1, <1>2, <1>13 DEF Adds
    <3>2. i = n + 1
      BY <3>1, <1>2, <1>7, <1>8, <1>13
    <3> QED BY <3>1, <3>2, <1>2, <1>13
  <2>2. CASE j \in 1..n
    <3>1. Adds(p[j], c) /\ st[c] = "sent"
      BY <2>2, <1>2, <1>9, <1>13
    <3>2. CASE i = n + 1
      BY <3>2, <2>2, <1>2
    <3>3. CASE i \in 1..n
      <4>1. p[i].op = "shutdown"
        BY <3>3, <1>2, <1>13
      <4> QED BY <4>1, <3>1, <3>3, <2>2, <1>6
    <3> QED BY <3>2, <3>3, <1>8
  <2> QED BY <2>1, <2>2, <1>8
<1>14. o2 \in {"off", "on"} => \A i \in 1..n + 1 : t[i].op # "shutdown"
  BY <1>2, <1>7, <1>8
<1> QED BY <1>2, <1>10, <1>11, <1>12, <1>13, <1>14 DEF Sent, t

\* What put_event, the swap and the run of a function do to the two queues.
LEMMA PendingParts ==
    ASSUME NEW b \in Seq(Request), NEW q \in Seq(Request), NEW e \in Request
    PROVE  /\ b \o Append(q, e) = Append(b \o q, e)
           /\ b = <<>> => q \o <<>> = b \o q
           /\ b # <<>> => /\ b \o q # <<>> /\ Head(b \o q) = Head(b) /\ Head(b) \in Request
                          /\ Tail(b \o q) = Tail(b) \o q /\ Tail(b) \in Seq(Request)
<1>1. b \o Append(q, e) = Append(b \o q, e)
  OBVIOUS
<1>2. b = <<>> => q \o <<>> = b \o q
  OBVIOUS
<1>3. b # <<>> => b \o q # <<>> /\ Head(b \o q) = Head(b) /\ Head(b) \in Request
  OBVIOUS
<1>4. b # <<>> => Tail(b \o q) = Tail(b) \o q /\ Tail(b) \in Seq(Request)
  OBVIOUS
<1> QED BY <1>1, <1>2, <1>3, <1>4

-----------------------------------------------------------------------------
(* Steps of the loop *)

\* What a step that leaves the queues alone must keep of the connections.
LEMMA QueueUnmoved ==
    ASSUME Queued, UNCHANGED <<queued, batch>>, lpc' # "events" => batch = <<>>,
           owner' \in {"off", "on"} => owner \in {"off", "on"},
           \A d \in Conn : \/ connState'[d] = connState[d]
                           \/ connState[d] \notin {"sent", "late"} /\ connState'[d] \notin {"sent", "late"}
    PROVE  Queued'
<1>1. Sent(Pending, connState, owner)
  BY DEF Queued
<1>2. Sent(Pending, connState', owner')
  BY <1>1, SentStays
<1>3. Pending' = Pending
  BY DEF Pending
<1>4. Sent(Pending, connState, owner)'
  BY <1>2, <1>3
<1> QED BY <1>4 DEF Queued

LEMMA TablesUnmoved ==
    ASSUME Tabled, UNCHANGED tableVars
    PROVE  Tabled' /\ DOMAIN channels' = DOMAIN channels /\ DOMAIN watched = DOMAIN channels
<1>1. channels' = channels /\ watched' = watched /\ timers' = timers
  BY DEF tableVars
<1>2. Tabled' <=> Tabled
  BY <1>1 DEF Tabled, TimerOf
<1>3. DOMAIN watched = DOMAIN channels
  BY DEF Tabled
<1> QED BY <1>1, <1>2, <1>3

\* The map and the monitor's table have few descriptors.
LEMMA TablesFinite ==
    ASSUME Tabled
    PROVE  /\ IsFiniteSet(DOMAIN channels) /\ Len(timers) = Cardinality(DOMAIN channels)
           /\ DOMAIN watched = DOMAIN channels
<1>1. TimerOf(timers, DOMAIN channels) /\ DOMAIN watched = DOMAIN channels
  BY DEF Tabled
<1> QED BY <1>1, TimersCounted

\* remove_timeouts scans the timers' beginning.
LEMMA OldOnesScanned ==
    ASSUME NEW D, TimerOf(timers, D), D \subseteq Fd, NEW s, s = [i \in 1..OldTimers |-> timers[i].fd]
    PROVE  s \in Seq(Fd) /\ Once(s) /\ Elements(s) \subseteq D
<1> DEFINE n == Len(timers)
<1>1. n \in Nat /\ DOMAIN timers = 1..n
  BY DEF TimerOf
<1>2. \A i, j \in 1..n : timers[i].fd = timers[j].fd => i = j
  BY <1>1 DEF TimerOf
<1>3. \A i \in 1..n : timers[i].fd \in D
  BY <1>1 DEF TimerOf
<1> HIDE DEF n
<1>4. IsFiniteSet(1..n) /\ Cardinality(1..n) = n
  BY <1>1, FS_Interval
<1> DEFINE O == {i \in DOMAIN timers : timers[i].old}
<1>5. O \in SUBSET (1..n)
  BY <1>1
<1>6. IsFiniteSet(O) /\ Cardinality(O) <= n
  BY <1>4, <1>5, FS_Subset
<1>7. OldTimers \in Nat /\ OldTimers <= n
  BY <1>6, FS_CardinalityType DEF OldTimers
<1>8. \A i \in 1..OldTimers : i \in 1..n
  BY <1>1, <1>7
<1>9. DOMAIN s = 1..OldTimers /\ (\A i \in 1..OldTimers : s[i] = timers[i].fd /\ s[i] \in D)
  BY <1>3, <1>8
<1>10. s \in [1..OldTimers -> Fd]
  BY <1>3, <1>8
<1>11. s \in Seq(Fd)
  BY <1>7, <1>10
<1>12. Once(s)
  BY <1>2, <1>8, <1>9 DEF Once
<1>13. Elements(s) \subseteq D
  BY <1>9 DEF Elements
<1> QED BY <1>11, <1>12, <1>13

\* A scan of some of the descriptors begins.
LEMMA LoopTopKeeps ==
    ASSUME ReactorInv, LoopTop
    PROVE  ReactorInv'
<1>1. /\ ReactorTypes /\ Tabled /\ Numbered /\ Mapped /\ Scanned /\ Queued /\ Quitting
  BY DEF ReactorInv
<1>2. /\ lpc = "top" /\ UNCHANGED <<owner, loopVars, fdOf, tableVars, serving, connState, closes>>
      /\ lpc' = IF loopQuit THEN "alive" ELSE "timeouts"
      /\ IF loopQuit THEN todo' = InOrder(DOMAIN channels) ELSE todo' = [i \in 1..OldTimers |-> timers[i].fd]
  BY DEF LoopTop
<1>3. UNCHANGED <<owner, loopQuit, weak, queued, batch, fdOf, channels, timers, watched, serving, connState, closes>>
  BY <1>2 DEF loopVars, tableVars
<1>4. Tabled' /\ DOMAIN channels' = DOMAIN channels
  BY <1>1, <1>2, TablesUnmoved
<1>5. /\ todo' \in Seq(Fd) /\ Once(todo') /\ Elements(todo') \subseteq DOMAIN channels
      /\ loopQuit => Elements(todo') = DOMAIN channels
  <2>1. TimerOf(timers, DOMAIN channels) /\ DOMAIN channels \subseteq Fd
    BY <1>1 DEF Tabled
  <2>2. CASE loopQuit
    <3>1. IsFiniteSet(DOMAIN channels)
      BY <2>1, TimersCounted
    <3>2. todo' \in Seq(DOMAIN channels) /\ Once(todo') /\ Elements(todo') = DOMAIN channels
      BY <3>1, <2>2, <1>2, InOrderLists
    <3> QED BY <3>2, <2>1
  <2>3. CASE ~loopQuit
    BY <2>3, <2>1, <1>2, OldOnesScanned
  <2> QED BY <2>2, <2>3
<1>6. serving = Idle
  BY <1>1, <1>2 DEF Scanned, Scans
<1>7. ReactorTypes'
  BY <1>1, <1>2, <1>3 DEF ReactorTypes, Scans
<1>8. Numbered'
  BY <1>1, <1>3 DEF Numbered
<1>9. Mapped'
  BY <1>1, <1>2, <1>3, <1>5, <1>6 DEF Mapped, Passed
<1>10. Scanned'
  BY <1>1, <1>2, <1>3, <1>5, <1>6 DEF Scanned, Scans
<1>11. Queued'
  <2>1. lpc' # "events" => batch = <<>>
    BY <1>1, <1>2 DEF Queued
  <2> QED BY <2>1, <1>1, <1>3, QueueUnmoved
<1>12. Quitting'
  BY <1>1, <1>2, <1>3 DEF Quitting
<1> QED BY <1>4, <1>7, <1>8, <1>9, <1>10, <1>11, <1>12 DEF ReactorInv

\* The thread goes to another place of the loop, between scans.
LEMMA LoopMoves ==
    ASSUME ReactorInv, lpc \notin {"alive", "done"}, serving = Idle, todo = <<>>,
           lpc' \in {"none", "top", "begin", "asleep", "events", "tasks"},
           UNCHANGED <<loopQuit, fdOf, channels, timers, watched, todo, serving, connState, closes>>, Queued',
           owner' \in {"off", "on", "stopping", "stopped"}, owner' \in {"off", "on"} => owner \in {"off", "on"},
           owner' = "off" => lpc' = "none", owner' # "stopped"
    PROVE  ReactorInv'
<1>1. /\ ReactorTypes /\ Tabled /\ Numbered /\ Mapped /\ Scanned /\ Queued /\ Quitting
  BY DEF ReactorInv
<1>2. Tabled' /\ DOMAIN channels' = DOMAIN channels
  BY <1>1, TablesUnmoved DEF tableVars
<1>3. ReactorTypes'
  BY <1>1 DEF ReactorTypes, Scans
<1>4. Numbered'
  BY <1>1 DEF Numbered
<1>5. Mapped'
  BY <1>1 DEF Mapped, Passed
<1>6. Scanned'
  BY <1>1 DEF Scanned, Scans
<1>7. Quitting'
  BY <1>1 DEF Quitting
<1> QED BY <1>2, <1>3, <1>4, <1>5, <1>6, <1>7 DEF ReactorInv

\* loop_begin swaps the queues, or the thread goes to sleep.
LEMMA LoopBeginKeeps ==
    ASSUME ReactorInv, LoopBegin
    PROVE  ReactorInv'
<1>1. /\ ReactorTypes /\ Scanned /\ Queued /\ Quitting
  BY DEF ReactorInv
<1>2. /\ lpc = "begin" /\ lpc' \in {"events", "asleep"}
      /\ UNCHANGED <<owner, loopQuit, fdOf, channels, timers, watched, todo, serving, connState, closes>>
  BY DEF LoopBegin, tableVars
<1>3. serving = Idle /\ todo = <<>>
  BY <1>1, <1>2 DEF Scanned, Scans
<1>4. Queued'
  <2>1. CASE UNCHANGED <<queued, batch>> /\ lpc' = "asleep"
    <3>1. lpc' # "events" => batch = <<>>
      BY <1>1, <1>2 DEF Queued
    <3> QED BY <2>1, <3>1, <1>1, <1>2, QueueUnmoved
  <2>2. CASE lpc' = "events" /\ batch' = queued /\ queued' = <<>>
    <3>1. batch = <<>> /\ batch \in Seq(Request) /\ queued \in Seq(Request) /\ Sent(Pending, connState, owner)
      BY <1>1, <1>2 DEF Queued
    <3>2. [op |-> "shutdown"] \in Request
      BY Zenon DEF Request
    <3>3. queued \o <<>> = batch \o queued
      BY <3>1, <3>2, PendingParts
    <3>4. Pending' = Pending
      BY <3>3, <2>2 DEF Pending
    <3>5. Sent(Pending, connState, owner)'
      BY <3>1, <3>4, <1>2
    <3>6. batch' \in Seq(Request) /\ queued' \in Seq(Request)
      BY <2>2, <3>1
    <3> QED BY <2>2, <3>5, <3>6 DEF Queued
  <2> QED BY <2>1, <2>2 DEF LoopBegin
<1>5. owner \in {"off", "on", "stopping", "stopped"} /\ owner # "off" /\ owner # "stopped"
  BY <1>1, <1>2 DEF ReactorTypes, Quitting
<1> QED BY <1>2, <1>3, <1>4, <1>5, LoopMoves

\* loop_end has run the whole batch.
LEMMA LoopEndKeeps ==
    ASSUME ReactorInv, LoopEnd
    PROVE  ReactorInv'
<1>1. /\ ReactorTypes /\ Scanned /\ Queued /\ Quitting
  BY DEF ReactorInv
<1>2. /\ lpc = "events" /\ lpc' = "top" /\ batch = <<>>
      /\ UNCHANGED <<owner, loopQuit, queued, batch, fdOf, channels, timers, watched, todo, serving, connState, closes>>
  BY DEF LoopEnd, tableVars, loopVars
<1>3. serving = Idle /\ todo = <<>>
  BY <1>1, <1>2 DEF Scanned, Scans
<1>4. Queued'
  BY <1>1, <1>2, QueueUnmoved
<1>5. owner \in {"off", "on", "stopping", "stopped"} /\ owner # "off" /\ owner # "stopped"
  BY <1>1, <1>2 DEF ReactorTypes, Quitting
<1> QED BY <1>2, <1>3, <1>4, <1>5, LoopMoves

\* The distributor has got over the events, and has woken the loop.
LEMMA DistributedKeeps ==
    ASSUME ReactorInv, Distributed
    PROVE  ReactorInv'
<1>1. /\ ReactorTypes /\ Queued /\ Quitting
  BY DEF ReactorInv
<1>2. /\ lpc = "tasks" /\ lpc' = "begin" /\ serving = Idle /\ todo = <<>>
      /\ UNCHANGED <<owner, loopQuit, queued, batch, fdOf, channels, timers, watched, todo, serving, connState, closes>>
  BY DEF Distributed, tableVars
<1>3. batch = <<>>
  BY <1>1, <1>2 DEF Queued
<1>4. Queued'
  BY <1>1, <1>2, <1>3, QueueUnmoved
<1>5. owner \in {"off", "on", "stopping", "stopped"} /\ owner # "off" /\ owner # "stopped"
  BY <1>1, <1>2 DEF ReactorTypes, Quitting
<1> QED BY <1>2, <1>4, <1>5, LoopMoves

-----------------------------------------------------------------------------
(* Steps of a scan *)

\* What a step leaves to a scan that goes on, and what it must keep.
LEMMA ScanGoesOn ==
    ASSUME ReactorInv, lpc \in Scans, lpc' = lpc,
           UNCHANGED <<owner, loopQuit, queued, batch, fdOf, connState, closes>>,
           serving' \in Serving, Tabled', Numbered', Mapped', Scanned'
    PROVE  ReactorInv'
<1>1. ReactorTypes /\ Queued /\ Quitting
  BY DEF ReactorInv
<1>2. ReactorTypes'
  BY <1>1 DEF ReactorTypes
<1>3. Queued'
  <2>1. lpc' # "events" => batch = <<>>
    BY <1>1 DEF Queued
  <2> QED BY <2>1, <1>1, QueueUnmoved
<1>4. Quitting'
  BY <1>1 DEF Quitting, Scans
<1> QED BY <1>2, <1>3, <1>4 DEF ReactorInv

\* A channel of the scan is told: it is one that is not closed.
LEMMA TellKeeps ==
    ASSUME ReactorInv, lpc \in Scans, lpc' = lpc, serving = Idle, todo # <<>>,
           UNCHANGED <<owner, loopQuit, queued, batch, fdOf, channels, timers, watched, todo, connState, closes>>,
           NEW bits \in SUBSET Bits, serving' = Serve(channels[Head(todo)], bits)
    PROVE  ReactorInv'
<1>1. /\ ReactorTypes /\ Tabled /\ Numbered /\ Mapped /\ Scanned
  BY DEF ReactorInv
<1> DEFINE fd == Head(todo)
           c == channels[fd]
<1>2. todo \in Seq(Fd) /\ Once(todo) /\ Elements(todo) \subseteq DOMAIN channels
  BY <1>1 DEF Scanned
<1>3. fd \in Elements(todo) /\ fd \in DOMAIN channels
  BY <1>2, NextInScan
<1>4. channels \in [DOMAIN channels -> Conn]
  BY <1>1 DEF Tabled
<1>5. c \in Conn
  BY <1>3, <1>4
<1>6. fdOf[c] = fd /\ connState[c] = "added"
  BY <1>1, <1>3 DEF Mapped, Passed
<1> HIDE DEF fd, c
<1>7. /\ serving' = [conn |-> c, bits |-> bits, at |-> "error"]
      /\ serving'.conn = c /\ serving' \in Serving
  BY <1>5 DEF Serve, Serving, c, fd
<1>8. serving' # Idle
  BY <1>5, <1>7, ReactorAssumption DEF Idle
<1>9. Tabled'
  BY <1>1, TablesUnmoved DEF tableVars
<1>10. Numbered'
  <2>1. \A d \in Conn : closes[d] = 1 => connState[d] = "closed"
    BY <1>1 DEF Numbered
  <2>2. \A d \in Conn : closes[d] = 1 => d # c
    BY <2>1, <1>6
  <2> QED BY <2>2, <1>1, <1>7 DEF Numbered
<1>11. Mapped'
  BY <1>1, <1>8 DEF Mapped, Passed
<1>12. Scanned'
  BY <1>1, <1>7 DEF Scanned, c, fd
<1> QED BY <1>7, <1>9, <1>10, <1>11, <1>12, ScanGoesOn

\* remove_timeouts tells the next silent channel.
LEMMA TimeoutTellKeeps ==
    ASSUME ReactorInv, TimeoutTell
    PROVE  ReactorInv'
<1>1. {"Error"} \in SUBSET Bits
  BY DEF Bits
<1>2. /\ lpc \in Scans /\ lpc' = lpc /\ serving = Idle /\ todo # <<>>
      /\ UNCHANGED <<owner, loopQuit, queued, batch, fdOf, channels, timers, watched, todo, connState, closes>>
      /\ serving' = Serve(channels[Head(todo)], {"Error"})
  BY DEF TimeoutTell, Scans, tableVars, loopVars
<1> QED BY <1>1, <1>2, TellKeeps

\* close_alive tells the next channel.
LEMMA AliveTellKeeps ==
    ASSUME ReactorInv, AliveTell
    PROVE  ReactorInv'
<1>1. {"Error"} \in SUBSET Bits
  BY DEF Bits
<1>2. /\ lpc \in Scans /\ lpc' = lpc /\ serving = Idle /\ todo # <<>>
      /\ UNCHANGED <<owner, loopQuit, queued, batch, fdOf, channels, timers, watched, todo, connState, closes>>
      /\ serving' = Serve(channels[Head(todo)], {"Error"})
  BY DEF AliveTell, Scans, tableVars, loopVars
<1> QED BY <1>1, <1>2, TellKeeps

\* create_task takes over what the monitor reports.
LEMMA CreateTaskKeeps ==
    ASSUME ReactorInv, CreateTask
    PROVE  ReactorInv'
<1>1. PICK bits \in SUBSET (watched[Head(todo)] \cup {"Error", "HangUp"}) :
          serving' = Serve(channels[Head(todo)], bits)
  BY DEF CreateTask
<1>2. /\ lpc \in Scans /\ lpc' = lpc /\ serving = Idle /\ todo # <<>>
      /\ UNCHANGED <<owner, loopQuit, queued, batch, fdOf, channels, timers, watched, todo, connState, closes>>
  BY DEF CreateTask, Scans, tableVars, loopVars
<1>3. Tabled /\ Scanned
  BY DEF ReactorInv
<1>4. todo \in Seq(Fd) /\ Once(todo) /\ Elements(todo) \subseteq DOMAIN channels
  BY <1>3 DEF Scanned
<1>5. Head(todo) \in DOMAIN channels
  BY <1>2, <1>4, NextInScan
<1>6. watched[Head(todo)] \in SUBSET Bits
  BY <1>3, <1>5 DEF Tabled
<1>7. bits \in SUBSET Bits
  BY <1>1, <1>6 DEF Bits
<1> QED BY <1>1, <1>2, <1>7, TellKeeps

\* The monitor has answered, or the loop has no channel and goes on to wait.
LEMMA PollKeeps ==
    ASSUME ReactorInv, Poll
    PROVE  ReactorInv'
<1>1. /\ ReactorTypes /\ Tabled /\ Numbered /\ Mapped /\ Scanned /\ Queued /\ Quitting
  BY DEF ReactorInv
<1>2. /\ lpc = "timeouts" /\ serving = Idle /\ todo = <<>>
      /\ UNCHANGED <<owner, loopQuit, queued, batch, fdOf, channels, timers, watched, serving, connState, closes>>
  BY DEF Poll, tableVars, loopVars
<1>3. batch = <<>>
  BY <1>1, <1>2 DEF Queued
<1>4. owner \in {"off", "on", "stopping", "stopped"} /\ owner # "off" /\ owner # "stopped"
  BY <1>1, <1>2 DEF ReactorTypes, Quitting
<1>5. CASE lpc' = "begin" /\ UNCHANGED todo
  <2>1. Queued'
    BY <1>1, <1>2, <1>3, QueueUnmoved
  <2> QED BY <2>1, <1>2, <1>4, <1>5, LoopMoves
<1>6. CASE lpc' = "tasks" /\ \E ready \in SUBSET DOMAIN watched : todo' = InOrder(ready)
  <2>1. PICK ready \in SUBSET DOMAIN watched : todo' = InOrder(ready)
    BY <1>6
  <2>2. IsFiniteSet(DOMAIN channels) /\ DOMAIN watched = DOMAIN channels
    BY <1>1, TablesFinite
  <2>3. IsFiniteSet(ready)
    BY <2>2, FS_Subset
  <2>4. todo' \in Seq(ready) /\ Once(todo') /\ Elements(todo') = ready
    BY <2>1, <2>3, InOrderLists
  <2>5. DOMAIN channels \subseteq Fd
    BY <1>1 DEF Tabled
  <2>6. todo' \in Seq(Fd) /\ Elements(todo') \subseteq DOMAIN channels
    BY <2>2, <2>4, <2>5
  <2>7. Tabled' /\ Numbered'
    BY <1>1, <1>2, TablesUnmoved DEF tableVars, Numbered
  <2>8. Mapped'
    BY <1>1, <1>2, <1>6 DEF Mapped, Passed
  <2>9. Scanned'
    BY <1>2, <1>6, <2>4, <2>6 DEF Scanned, Scans
  <2>10. Queued'
    BY <1>1, <1>2, <1>3, QueueUnmoved
  <2>11. ReactorTypes' /\ Quitting'
    BY <1>1, <1>2, <1>6 DEF ReactorTypes, Quitting, Scans
  <2> QED BY <2>7, <2>8, <2>9, <2>10, <2>11 DEF ReactorInv
<1> QED BY <1>5, <1>6 DEF Poll

\* A handler of the channel that is served has run: the connection may be
\* closed then, and nothing else has changed.
CallbackCloses(c) ==
    fdOf' = [fdOf EXCEPT ![c] = 0] /\ connState' = [connState EXCEPT ![c] = "closed"]
Handled(c) ==
    /\ serving' \in Serving /\ serving'.conn = c
    /\ UNCHANGED <<fdOf, connState>> \/ CallbackCloses(c)
    /\ \/ UNCHANGED closes
       \/ closes' = [closes EXCEPT ![c] = @ + 1] /\ CallbackCloses(c) /\ serving'.bits = {}

\* ... which keeps the invariant.
LEMMA HandledKeeps ==
    ASSUME ReactorInv, serving.bits # {}, Handled(serving.conn),
           UNCHANGED <<owner, lpc, loopQuit, queued, batch, channels, timers, watched, todo>>
    PROVE  ReactorInv'
<1>1. /\ ReactorTypes /\ Tabled /\ Numbered /\ Mapped /\ Scanned /\ Queued /\ Quitting
  BY DEF ReactorInv
<1> DEFINE c == serving.conn
           fd == Head(todo)
<1>2. serving # Idle
  BY DEF Idle
<1>3. todo # <<>> /\ c = channels[fd] /\ lpc \in Scans
  BY <1>1, <1>2 DEF Scanned
<1>4. todo \in Seq(Fd) /\ Once(todo) /\ Elements(todo) \subseteq DOMAIN channels
  BY <1>1 DEF Scanned
<1>5. fd \in DOMAIN channels
  BY <1>3, <1>4, NextInScan
<1>6. c \in Conn
  BY <1>1, <1>3, <1>5 DEF Tabled
<1>7. \/ fdOf[c] = fd /\ connState[c] = "added"
      \/ connState[c] = "closed"
  BY <1>1, <1>3, <1>5 DEF Mapped
<1>8. closes[c] = 0
  BY <1>1, <1>6 DEF Numbered, ReactorTypes
<1>9. /\ fdOf \in [Conn -> Fd \cup {0}] /\ closes \in [Conn -> {0, 1}]
      /\ connState \in [Conn -> {"none", "open", "sent", "late", "added", "closed"}]
  BY <1>1 DEF ReactorTypes
<1> HIDE DEF c, fd
<1>10. serving' # Idle
  BY <1>6, ReactorAssumption DEF Handled, Idle, c
<1>11. Tabled'
  BY <1>1, TablesUnmoved DEF tableVars
<1>12. \/ UNCHANGED <<fdOf, connState>>
       \/ /\ fdOf' = [fdOf EXCEPT ![c] = 0] /\ fdOf'[c] = 0 /\ \A d \in Conn \ {c} : fdOf'[d] = fdOf[d]
          /\ connState' = [connState EXCEPT ![c] = "closed"] /\ connState'[c] = "closed"
          /\ \A d \in Conn \ {c} : connState'[d] = connState[d]
  BY <1>6, <1>9 DEF Handled, CallbackCloses, c
<1>13. \/ UNCHANGED closes
       \/ closes' = [closes EXCEPT ![c] = 1] /\ connState'[c] = "closed" /\ serving'.bits = {}
  BY <1>6, <1>8, <1>9 DEF Handled, CallbackCloses, c
<1>14. serving' \in Serving /\ serving'.conn = c
  BY DEF Handled, c
<1>15. ReactorTypes'
  BY <1>1, <1>9, <1>12, <1>13, <1>14 DEF ReactorTypes
<1>16. Numbered'
  <2>1. \A d \in Conn : fdOf'[d] = 0 <=> connState'[d] \in {"none", "closed"}
    BY <1>1, <1>12 DEF Numbered
  <2>2. \A d, e \in Conn : fdOf'[d] = fdOf'[e] => d = e \/ fdOf'[d] = 0
    BY <1>1, <1>12 DEF Numbered
  <2>3. \A d \in Conn : closes'[d] = 1 => connState'[d] = "closed" /\ (serving'.conn = d => serving'.bits = {})
    BY <1>1, <1>8, <1>9, <1>12, <1>13, <1>14 DEF Numbered
  <2> QED BY <2>1, <2>2, <2>3 DEF Numbered
<1>17. Mapped'
  <2>1. ASSUME NEW g \in DOMAIN channels
        PROVE  \/ fdOf'[channels[g]] = g /\ connState'[channels[g]] = "added"
               \/ connState'[channels[g]] = "closed" /\ Passed(g)'
    <3>1. channels[g] \in Conn
      BY <1>1 DEF Tabled
    <3>2. \/ fdOf[channels[g]] = g /\ connState[channels[g]] = "added"
          \/ connState[channels[g]] = "closed" /\ Passed(g)
      BY <1>1 DEF Mapped
    <3>3. Passed(g) => Passed(g)'
      BY <1>10 DEF Passed
    <3>4. \A h : h = fd => Passed(h)'
      BY <1>10 DEF Passed, fd
    <3>5. CASE channels[g] # c
      BY <3>1, <3>2, <3>3, <3>5, <1>12
    <3>6. CASE channels[g] = c
      <4>1. CASE connState[c] = "closed"
        <5>1. Passed(g)' /\ connState'[c] = "closed"
          BY <3>2, <3>3, <3>6, <4>1, <1>12
        <5> QED BY <5>1, <3>6
      <4>2. CASE fdOf[c] = fd /\ connState[c] = "added"
        <5>1. g = fd
          BY <3>2, <3>6, <4>2
        <5>2. CASE UNCHANGED <<fdOf, connState>>
          BY <5>2, <3>6, <4>2, <5>1
        <5>3. CASE connState'[c] = "closed"
          BY <5>1, <5>3, <3>4, <3>6
        <5> QED BY <5>2, <5>3, <1>12
      <4> QED BY <4>1, <4>2, <1>7
    <3> QED BY <3>5, <3>6
  <2>2. \A d \in Conn : connState'[d] = "added" => fdOf'[d] \in DOMAIN channels /\ channels[fdOf'[d]] = d
    BY <1>1, <1>12 DEF Mapped
  <2>3. \A g \in DOMAIN channels : lpc = "alive" /\ g \notin Elements(todo) => connState'[channels[g]] = "closed"
    <3>1. \A g \in DOMAIN channels : channels[g] \in Conn
      BY <1>1 DEF Tabled
    <3> QED BY <3>1, <1>1, <1>12 DEF Mapped
  <2> QED BY <2>1, <2>2, <2>3 DEF Mapped
<1>18. Scanned'
  BY <1>1, <1>3, <1>14 DEF Scanned, fd
<1>19. Queued'
  <2>1. lpc' # "events" => batch = <<>>
    BY <1>1 DEF Queued
  <2>2. \A d \in Conn : \/ connState'[d] = connState[d]
                        \/ connState[d] \notin {"sent", "late"} /\ connState'[d] \notin {"sent", "late"}
    BY <1>7, <1>12
  <2> QED BY <2>1, <2>2, <1>1, QueueUnmoved
<1>20. Quitting'
  BY <1>1, <1>12 DEF Quitting
<1> QED BY <1>11, <1>15, <1>16, <1>17, <1>18, <1>19, <1>20 DEF ReactorInv

\* invoke_event, whatever handler's turn it is.
LEMMA InvokeEventKeeps ==
    ASSUME ReactorInv, InvokeEvent
    PROVE  ReactorInv'
<1> DEFINE c == serving.conn
           at == After(serving.at)
           Alone == UNCHANGED <<fdOf, connState>>
<1>1. serving \in Serving /\ serving.bits # {}
      /\ UNCHANGED <<owner, lpc, loopQuit, queued, batch, channels, timers, watched, todo>>
  BY DEF ReactorInv, ReactorTypes, InvokeEvent, loopVars, tableVars
<1>2. /\ c \in Conn \cup {NoConn} /\ serving.bits \in SUBSET Bits
      /\ serving.at \in {"error", "close", "read", "write"}
      /\ at \in {"error", "close", "read", "write"}
  BY <1>1 DEF Serving, After
<1> HIDE DEF at
<1>3. \A b \in SUBSET Bits : \A p \in {"error", "close", "read", "write"} :
          [conn |-> c, bits |-> b, at |-> p] \in Serving
  BY <1>2 DEF Serving
<1>4. ASSUME NEW b \in SUBSET Bits, Callback(c, b), UNCHANGED closes PROVE Handled(c)
  <2>1. b \cup {"HangUp"} \in SUBSET Bits
    BY DEF Bits
  <2>2. \/ serving' = [conn |-> c, bits |-> b, at |-> at] /\ (Alone \/ CallbackCloses(c))
        \/ serving' = [conn |-> c, bits |-> b \cup {"HangUp"}, at |-> at] /\ Alone
    BY <1>4 DEF Callback, at, CallbackCloses, c
  <2>3. PICK r \in SUBSET Bits : serving' = [conn |-> c, bits |-> r, at |-> at]
    BY <2>1, <2>2
  <2>4. serving' \in Serving
    BY <1>2, <1>3, <2>3
  <2>5. serving'.conn = c
    BY <2>3
  <2> QED BY <1>4, <2>2, <2>4, <2>5 DEF Handled
<1>5. ASSUME NEW b \in SUBSET Bits, HandleError(c, b), UNCHANGED closes PROVE Handled(c)
  <2>1. b \ {"Error"} \in SUBSET Bits
    OBVIOUS
  <2> QED BY <1>4, <1>5, <2>1 DEF HandleError
<1>6. ASSUME HandleClose(c) PROVE Handled(c)
  <2>1. {} \in SUBSET Bits
    OBVIOUS
  <2> QED BY <1>3, <1>6, <2>1 DEF HandleClose, Handled, CallbackCloses, Serve
<1>7. ASSUME HandleRead(c), UNCHANGED closes PROVE Handled(c)
  <2> DEFINE b == serving.bits \ {"Read", "HangUp"}
  <2>1. b \in SUBSET Bits /\ b \cup {"HangUp"} \in SUBSET Bits
    BY <1>2 DEF Bits
  <2>2. CASE HandleError(c, b)
    BY <2>1, <2>2, <1>5, <1>7
  <2>3. CASE Callback(c, b)
    BY <2>1, <2>3, <1>4, <1>7
  <2>4. CASE serving' = [conn |-> c, bits |-> b \cup {"HangUp"}, at |-> "write"] /\ Alone
    BY <2>1, <2>4, <1>3, <1>7 DEF Handled
  <2> QED BY <2>2, <2>3, <2>4, <1>7 DEF HandleRead
<1>8. ASSUME HandleWrite(c), UNCHANGED closes PROVE Handled(c)
  <2> DEFINE b == serving.bits \ {"Write"}
  <2>1. b \in SUBSET Bits /\ b \cup {"HangUp"} \in SUBSET Bits
    BY <1>2 DEF Bits
  <2>2. CASE HandleError(c, b)
    BY <2>1, <2>2, <1>5, <1>8
  <2>3. CASE Callback(c, b)
    BY <2>1, <2>3, <1>4, <1>8
  <2>4. CASE serving' = [conn |-> c, bits |-> b \cup {"HangUp"}, at |-> "error"] /\ CallbackCloses(c)
    BY <2>1, <2>4, <1>3, <1>8 DEF Handled
  <2> QED BY <2>2, <2>3, <2>4, <1>8 DEF HandleWrite, CallbackCloses
<1>9. CASE serving' = [serving EXCEPT !.at = at] /\ UNCHANGED <<fdOf, connState, closes>>
  <2>1. serving' = [conn |-> c, bits |-> serving.bits, at |-> at]
    BY <1>1, <1>9 DEF Serving
  <2>2. Handled(c)
    BY <2>1, <1>2, <1>3, <1>9 DEF Handled
  <2> QED BY <2>2, <1>1, HandledKeeps
<1>10. CASE Handled(c)
  BY <1>10, <1>1, HandledKeeps
<1> HIDE DEF c
<1>11. \/ HandleError(c, serving.bits) /\ UNCHANGED closes
       \/ HandleClose(c)
       \/ HandleRead(c) /\ UNCHANGED closes
       \/ HandleWrite(c) /\ UNCHANGED closes
       \/ serving' = [serving EXCEPT !.at = at] /\ UNCHANGED <<fdOf, connState, closes>>
  BY DEF InvokeEvent, at, c
<1> QED BY <1>2, <1>5, <1>6, <1>7, <1>8, <1>9, <1>10, <1>11

\* erase_channel takes the descriptor out of all three tables.
LEMMA ErasedTables ==
    ASSUME Tabled, NEW fd \in DOMAIN channels, EraseChannel(fd)
    PROVE  /\ Tabled' /\ DOMAIN channels' = DOMAIN channels \ {fd}
           /\ \A g \in DOMAIN channels \ {fd} : channels'[g] = channels[g]
<1> DEFINE D == DOMAIN channels
<1>1. /\ D \subseteq Fd /\ channels \in [D -> Conn] /\ watched \in [D -> SUBSET Bits] /\ TimerOf(timers, D)
  BY DEF Tabled
<1>2. /\ watched' = [g \in DOMAIN watched \ {fd} |-> watched[g]]
      /\ channels' = [g \in DOMAIN channels \ {fd} |-> channels[g]]
      /\ timers' = Unqueued(fd)
  BY DEF EraseChannel
<1>3. TimerOf(timers', D \ {fd})
  BY <1>1, <1>2, TimerLeaves
<1>4. /\ DOMAIN channels' = D \ {fd} /\ \A g \in D \ {fd} : channels'[g] = channels[g]
      /\ channels' \in [D \ {fd} -> Conn] /\ watched' \in [D \ {fd} -> SUBSET Bits]
  BY <1>1, <1>2
<1> HIDE DEF D
<1>5. TimerOf(timers', DOMAIN channels') /\ DOMAIN channels' \subseteq Fd
  BY <1>1, <1>3, <1>4
<1>6. channels' \in [DOMAIN channels' -> Conn] /\ watched' \in [DOMAIN channels' -> SUBSET Bits]
  BY <1>4
<1>7. Tabled'
  BY <1>5, <1>6 DEF Tabled, TimerOf
<1> QED BY <1>4, <1>7 DEF D

\* The channel's callbacks have run: one that is closed is erased, another
\* one stays, and the scan gets on.
LEMMA NextChannel ==
    ASSUME ReactorInv, lpc \in {"timeouts", "tasks"}, lpc' = lpc, Served,
           UNCHANGED <<owner, loopQuit, queued, batch, fdOf, connState, closes>>,
           todo' = Tail(todo), serving' = Idle,
           \/ Valid(serving.conn) /\ UNCHANGED channels /\ Tabled'
           \/ ~Valid(serving.conn) /\ EraseChannel(Head(todo))
    PROVE  ReactorInv'
<1>1. /\ ReactorTypes /\ Tabled /\ Numbered /\ Mapped /\ Scanned
  BY DEF ReactorInv
<1> DEFINE c == serving.conn
           fd == Head(todo)
<1>2. serving # Idle
  BY DEF Idle, Served
<1>3. todo # <<>> /\ c = channels[fd]
  BY <1>1, <1>2 DEF Scanned
<1>4. todo \in Seq(Fd) /\ Once(todo) /\ Elements(todo) \subseteq DOMAIN channels
  BY <1>1 DEF Scanned
<1>5. /\ fd \in DOMAIN channels /\ fd \in Elements(todo)
      /\ Tail(todo) \in Seq(Fd) /\ Once(Tail(todo)) /\ Elements(Tail(todo)) = Elements(todo) \ {fd}
  BY <1>3, <1>4, NextInScan
<1>6. c \in Conn /\ channels \in [DOMAIN channels -> Conn]
  BY <1>1, <1>3, <1>5 DEF Tabled
<1>7. \A g \in DOMAIN channels \ {fd} : fdOf[channels[g]] = g /\ connState[channels[g]] = "added"
  BY <1>1 DEF Mapped, Passed
<1>8. \A d \in Conn : connState[d] = "added" => fdOf[d] \in DOMAIN channels /\ channels[fdOf[d]] = d
  BY <1>1 DEF Mapped
<1>9. fdOf[c] = 0 <=> connState[c] \in {"none", "closed"}
  BY <1>1, <1>6 DEF Numbered
<1>10. \/ fdOf[c] = fd /\ connState[c] = "added"
       \/ connState[c] = "closed"
  BY <1>1, <1>3, <1>5 DEF Mapped
<1> HIDE DEF c, fd
<1>11. lpc \in Scans /\ serving' \in Serving /\ serving'.conn = NoConn /\ serving'.bits = {}
  BY DEF Scans, Serving, Idle
<1>12. Numbered'
  <2>1. \A d \in Conn : closes[d] = 1 => connState[d] = "closed"
    BY <1>1 DEF Numbered
  <2> QED BY <2>1, <1>1, <1>11 DEF Numbered
<1>13. CASE fdOf[c] # 0
  <2>1. UNCHANGED channels /\ Tabled'
    BY <1>13 DEF Valid, c
  <2>2. connState[c] = "added" /\ fdOf[c] = fd
    BY <1>10, <1>9, <1>13
  <2>3. \A g \in DOMAIN channels : fdOf[channels[g]] = g /\ connState[channels[g]] = "added"
    BY <2>2, <1>3, <1>7
  <2>4. Mapped'
    BY <2>1, <2>3, <1>8 DEF Mapped
  <2>5. Scanned'
    BY <2>1, <1>1, <1>4, <1>5, <1>11 DEF Scanned, fd
  <2> QED BY <2>1, <2>4, <2>5, <1>11, <1>12, ScanGoesOn
<1>14. CASE fdOf[c] = 0
  <2>1. EraseChannel(fd)
    BY <1>14 DEF Valid, c, fd
  <2>2. /\ Tabled' /\ DOMAIN channels' = DOMAIN channels \ {fd}
        /\ \A g \in DOMAIN channels \ {fd} : channels'[g] = channels[g]
    BY <2>1, <1>1, <1>5, ErasedTables
  <2>3. connState[c] # "added"
    BY <1>14, <1>9
  <2>4. \A d \in Conn : connState[d] = "added" => fdOf[d] \in DOMAIN channels \ {fd} /\ channels[fdOf[d]] = d
    BY <2>3, <1>3, <1>8
  <2>5. Mapped'
    BY <2>2, <2>4, <1>7 DEF Mapped
  <2>6. Scanned'
    BY <2>2, <1>1, <1>4, <1>5, <1>11 DEF Scanned, fd
  <2> QED BY <2>2, <2>5, <2>6, <1>11, <1>12, ScanGoesOn
<1> QED BY <1>13, <1>14

\* remove_timeouts has told a channel.
LEMMA TimeoutToldKeeps ==
    ASSUME ReactorInv, TimeoutTold
    PROVE  ReactorInv'
<1>1. /\ lpc \in {"timeouts", "tasks"} /\ lpc' = lpc /\ Served /\ todo' = Tail(todo) /\ serving' = Idle
      /\ UNCHANGED <<owner, loopQuit, queued, batch, fdOf, connState, closes>>
      /\ IF Valid(serving.conn) THEN UNCHANGED tableVars ELSE EraseChannel(Head(todo))
  BY DEF TimeoutTold, loopVars
<1>2. Tabled
  BY DEF ReactorInv
<1>3. UNCHANGED tableVars => UNCHANGED channels /\ Tabled'
  BY <1>2, TablesUnmoved DEF tableVars
<1> QED BY <1>1, <1>3, NextChannel

\* create_task has served one, and renews its timer.
LEMMA TaskDoneKeeps ==
    ASSUME ReactorInv, TaskDone
    PROVE  ReactorInv'
<1> DEFINE fd == Head(todo)
<1>1. /\ lpc \in {"timeouts", "tasks"} /\ lpc' = lpc /\ Served /\ todo' = Tail(todo) /\ serving' = Idle
      /\ UNCHANGED <<owner, loopQuit, queued, batch, fdOf, connState, closes>>
  BY DEF TaskDone, loopVars
<1>2. \/ /\ Valid(serving.conn) /\ UNCHANGED <<channels, watched>>
         /\ timers' = Append(Unqueued(fd), [fd |-> fd, old |-> FALSE])
      \/ ~Valid(serving.conn) /\ EraseChannel(fd)
  BY DEF TaskDone
<1>3. Tabled /\ Scanned
  BY DEF ReactorInv
<1>4. fd \in DOMAIN channels
  <2>1. serving # Idle
    BY <1>1 DEF Idle, Served
  <2>2. todo \in Seq(Fd) /\ todo # <<>> /\ Once(todo) /\ Elements(todo) \subseteq DOMAIN channels
    BY <2>1, <1>3 DEF Scanned
  <2> QED BY <2>2, NextInScan
<1>5. CASE Valid(serving.conn)
  <2>1. UNCHANGED <<channels, watched>> /\ timers' = Append(Unqueued(fd), [fd |-> fd, old |-> FALSE])
    BY <1>2, <1>5
  <2>2. TimerOf(timers, DOMAIN channels) /\ fd \in Fd
    BY <1>3, <1>4 DEF Tabled
  <2> HIDE DEF fd
  <2>3. TimerOf(Unqueued(fd), DOMAIN channels \ {fd})
    BY <2>2, <1>4, TimerLeaves
  <2>4. TimerOf(timers', (DOMAIN channels \ {fd}) \cup {fd})
    BY <2>1, <2>2, <2>3, TimerEnters
  <2>5. (DOMAIN channels \ {fd}) \cup {fd} = DOMAIN channels
    BY <1>4
  <2>6. TimerOf(timers', DOMAIN channels)
    BY <2>4, <2>5
  <2>7. Tabled'
    BY <2>1, <2>6, <1>3 DEF Tabled, TimerOf
  <2> QED BY <2>1, <2>7, <1>1, <1>5, NextChannel
<1>6. CASE ~Valid(serving.conn)
  BY <1>1, <1>2, <1>6, NextChannel
<1> QED BY <1>5, <1>6

\* close_alive tells a channel once more, or goes on to the next one.
LEMMA AliveToldKeeps ==
    ASSUME ReactorInv, AliveTold
    PROVE  ReactorInv'
<1>1. /\ ReactorTypes /\ Tabled /\ Numbered /\ Mapped /\ Scanned
  BY DEF ReactorInv
<1> DEFINE c == serving.conn
           fd == Head(todo)
<1>2. /\ lpc = "alive" /\ lpc' = lpc /\ lpc \in Scans /\ Served
      /\ UNCHANGED <<owner, loopQuit, queued, batch, fdOf, channels, timers, watched, connState, closes>>
  BY DEF AliveTold, loopVars, tableVars, Scans
<1>3. serving # Idle
  BY <1>2 DEF Idle, Served
<1>4. todo # <<>> /\ c = channels[fd]
  BY <1>1, <1>3 DEF Scanned
<1>5. todo \in Seq(Fd) /\ Once(todo) /\ Elements(todo) \subseteq DOMAIN channels
  BY <1>1 DEF Scanned
<1>6. /\ fd \in DOMAIN channels /\ fd \in Elements(todo)
      /\ Tail(todo) \in Seq(Fd) /\ Once(Tail(todo)) /\ Elements(Tail(todo)) = Elements(todo) \ {fd}
  BY <1>4, <1>5, NextInScan
<1>7. c \in Conn
  BY <1>1, <1>4, <1>6 DEF Tabled
<1>8. fdOf[c] = 0 <=> connState[c] \in {"none", "closed"}
  BY <1>1, <1>7 DEF Numbered
<1>9. \/ fdOf[c] = fd /\ connState[c] = "added"
      \/ connState[c] = "closed"
  BY <1>1, <1>4, <1>6 DEF Mapped
<1>10. Tabled'
  BY <1>1, <1>2, TablesUnmoved DEF tableVars
<1>11. CASE fdOf[c] # 0
  <2>1. serving' = Serve(c, {"HangUp"}) /\ UNCHANGED todo
    BY <1>11 DEF AliveTold, Valid
  <2>2. serving' \in Serving /\ serving'.conn = c
    BY <2>1, <1>7 DEF Serve, Serving, Bits
  <2>3. serving' # Idle
    BY <2>2, <1>7, ReactorAssumption DEF Idle
  <2>4. connState[c] = "added"
    BY <1>8, <1>9, <1>11
  <2> HIDE DEF c, fd
  <2>5. Numbered'
    <3>1. \A d \in Conn : closes[d] = 1 => connState[d] = "closed"
      BY <1>1 DEF Numbered
    <3>2. \A d \in Conn : closes[d] = 1 => d # c
      BY <3>1, <2>4
    <3> QED BY <3>2, <1>1, <1>2, <2>2 DEF Numbered
  <2>6. Mapped'
    BY <1>1, <1>2, <2>1, <2>3 DEF Mapped, Passed
  <2>7. Scanned'
    BY <1>1, <1>2, <1>4, <2>1, <2>2 DEF Scanned, fd
  <2> QED BY <1>2, <1>10, <2>2, <2>5, <2>6, <2>7, ScanGoesOn
<1>12. CASE fdOf[c] = 0
  <2>1. serving' = Idle /\ todo' = Tail(todo)
    BY <1>12 DEF AliveTold, Valid
  <2>2. serving' \in Serving /\ serving'.conn = NoConn /\ serving'.bits = {}
    BY <2>1 DEF Serving, Idle
  <2>3. connState[c] = "closed"
    BY <1>8, <1>9, <1>12
  <2> HIDE DEF c, fd
  <2>4. Numbered'
    <3>1. \A d \in Conn : closes[d] = 1 => connState[d] = "closed"
      BY <1>1 DEF Numbered
    <3> QED BY <3>1, <1>1, <1>2, <2>2 DEF Numbered
  <2>5. Mapped'
    <3>1. \A g \in DOMAIN channels : g \notin Elements(todo') => connState[channels[g]] = "closed"
      BY <1>1, <1>2, <1>4, <1>6, <2>1, <2>3 DEF Mapped
    <3>2. ASSUME NEW g \in DOMAIN channels
          PROVE  \/ fdOf[channels[g]] = g /\ connState[channels[g]] = "added"
                 \/ connState[channels[g]] = "closed" /\ g \notin Elements(todo')
      BY <1>1, <1>2, <1>6, <2>1 DEF Mapped, Passed, fd
    <3> QED BY <3>1, <3>2, <1>1, <1>2 DEF Mapped, Passed
  <2>6. Scanned'
    BY <1>1, <1>2, <1>5, <1>6, <2>1, <2>2 DEF Scanned
  <2> QED BY <1>2, <1>10, <2>2, <2>4, <2>5, <2>6, ScanGoesOn
<1> QED BY <1>11, <1>12

-----------------------------------------------------------------------------
(* The functions that are run, and the end *)

\* A function of the batch is run: what it may do to the connections and to
\* the tables.
LEMMA EventRun ==
    ASSUME ReactorInv, lpc = "events", lpc' = lpc, batch # <<>>, batch' = Tail(batch),
           UNCHANGED <<owner, queued, todo, serving, closes>>,
           loopQuit' \in BOOLEAN, loopQuit' => loopQuit \/ Head(batch).op = "shutdown",
           fdOf' \in [Conn -> Fd \cup {0}],
           connState' \in [Conn -> {"none", "open", "sent", "late", "added", "closed"}],
           Tabled', Numbered', Mapped',
           \A d \in Conn : Adds(Head(batch), d) => connState'[d] = "added",
           \A d \in Conn : ~Adds(Head(batch), d) =>
              \/ connState'[d] = connState[d]
              \/ connState[d] \notin {"sent", "late"} /\ connState'[d] \notin {"sent", "late"}
    PROVE  ReactorInv'
<1>1. /\ ReactorTypes /\ Scanned /\ Queued /\ Quitting
  BY DEF ReactorInv
<1> DEFINE p == Pending
           e == Head(batch)
           st == [d \in Conn |-> IF Adds(e, d) THEN "added" ELSE connState[d]]
<1>2. batch \in Seq(Request) /\ queued \in Seq(Request) /\ Sent(p, connState, owner)
  BY <1>1 DEF Queued
<1>3. [op |-> "shutdown"] \in Request
  BY Zenon DEF Request
<1>4. /\ p # <<>> /\ Head(p) = e /\ e \in Request
      /\ Tail(p) = Tail(batch) \o queued /\ Tail(batch) \in Seq(Request)
  BY <1>2, <1>3, PendingParts DEF Pending
<1>5. Pending' = Tail(p)
  BY <1>4 DEF Pending
<1> HIDE DEF p, e
<1>6. Sent(Tail(p), st, owner)
  <2>1. \A d \in Conn : ~Adds(Head(p), d) => st[d] = connState[d]
    BY <1>4
  <2>2. \A d \in Conn : Adds(Head(p), d) => st[d] \notin {"sent", "late"}
    BY <1>4
  <2> HIDE DEF st
  <2> QED BY <2>1, <2>2, <1>2, <1>4, SentRun
<1>7. \A d \in Conn : connState'[d] = st[d] \/ (st[d] \notin {"sent", "late"} /\ connState'[d] \notin {"sent", "late"})
  BY DEF e
<1>8. Sent(Tail(p), connState', owner')
  <2> HIDE DEF st
  <2> QED BY <1>6, <1>7, SentStays
<1>9. Sent(Pending, connState, owner)'
  BY <1>5, <1>8
<1>10. Queued'
  BY <1>2, <1>4, <1>9 DEF Queued
<1>11. ReactorTypes'
  BY <1>1 DEF ReactorTypes
<1>12. Scanned'
  <2>1. todo = <<>> /\ serving = Idle
    BY <1>1 DEF Scanned, Scans
  <2> QED BY <2>1, <1>1 DEF Scanned, Scans, Elements
<1>13. \A d \in Conn : connState'[d] = "sent" => connState[d] = "sent" /\ ~Adds(e, d)
  BY DEF e
<1>14. Quitting'
  <2>1. CASE loopQuit
    <3>1. \A d \in Conn : connState'[d] # "sent"
      BY <2>1, <1>1, <1>13 DEF Quitting
    <3> QED BY <2>1, <3>1, <1>1 DEF Quitting
  <2>2. CASE ~loopQuit /\ e.op = "shutdown"
    <3>1. /\ \A i, j \in DOMAIN p : \A c \in Conn :
                p[i].op = "shutdown" /\ Adds(p[j], c) /\ connState[c] = "sent" => j < i
          /\ \A c \in Conn : connState[c] = "sent" => \E i \in DOMAIN p : Adds(p[i], c)
          /\ owner \in {"off", "on"} => \A i \in DOMAIN p : p[i].op # "shutdown"
          /\ p \in Seq(Request)
      BY <1>2, Zenon DEF Sent
    <3>2. 1 \in DOMAIN p /\ p[1] = e /\ \A j \in DOMAIN p : ~(j < 1)
      BY <1>4, <3>1
    <3>3. \A c \in Conn : connState[c] # "sent"
      BY <3>1, <3>2, <2>2
    <3>4. owner \notin {"off", "on"}
      BY <3>1, <3>2, <2>2
    <3>5. \A d \in Conn : connState'[d] # "sent"
      BY <3>3, <1>13
    <3> QED BY <3>4, <3>5, <1>1 DEF Quitting
  <2>3. CASE ~loopQuit /\ e.op # "shutdown"
    <3>1. ~loopQuit'
      BY <2>3 DEF e
    <3> QED BY <3>1, <1>1 DEF Quitting
  <2> QED BY <2>1, <2>2, <2>3
<1> QED BY <1>10, <1>11, <1>12, <1>14 DEF ReactorInv

\* Between scans the map holds exactly the connections that are added.
LEMMA MappedHere ==
    ASSUME ReactorInv, lpc = "events"
    PROVE  /\ serving = Idle /\ todo = <<>>
           /\ \A g : ~Passed(g)
           /\ \A g \in DOMAIN channels : channels[g] \in Conn /\ fdOf[channels[g]] = g /\ connState[channels[g]] = "added"
           /\ \A d \in Conn : connState[d] = "added" => fdOf[d] \in DOMAIN channels /\ channels[fdOf[d]] = d
<1>1. Tabled /\ Mapped /\ Scanned
  BY DEF ReactorInv
<1>2. serving = Idle /\ todo = <<>>
  BY <1>1 DEF Scanned, Scans
<1>3. \A g : ~Passed(g)
  BY <1>2 DEF Passed
<1>4. \A g \in DOMAIN channels : channels[g] \in Conn
  BY <1>1 DEF Tabled
<1>5. \A g \in DOMAIN channels : fdOf[channels[g]] = g /\ connState[channels[g]] = "added"
  BY <1>1, <1>3 DEF Mapped
<1>6. \A d \in Conn : connState[d] = "added" => fdOf[d] \in DOMAIN channels /\ channels[fdOf[d]] = d
  BY <1>1 DEF Mapped
<1> QED BY <1>2, <1>3, <1>4, <1>5, <1>6

\* add_channel's function: the descriptor cannot be in the map, so that the
\* connection is never refused.
LEMMA RunAddKeeps ==
    ASSUME ReactorInv, lpc = "events", lpc' = lpc, batch # <<>>, batch' = Tail(batch),
           UNCHANGED <<owner, queued, todo, serving, closes, loopQuit, fdOf>>,
           Head(batch).op = "add", RunAdd(Head(batch).conn)
    PROVE  ReactorInv'
<1>1. /\ ReactorTypes /\ Tabled /\ Numbered /\ Queued
  BY DEF ReactorInv
<1> DEFINE c == Head(batch).conn
           fd == fdOf[c]
           D == DOMAIN channels
<1>2. batch \in Seq(Request) /\ queued \in Seq(Request) /\ Sent(Pending, connState, owner)
  BY <1>1 DEF Queued
<1>3. Head(batch) \in Request
  BY <1>2
<1>4. c \in Conn /\ Adds(Head(batch), c) /\ \A d \in Conn : Adds(Head(batch), d) => d = c
  BY <1>3 DEF Request, Adds
<1>5. connState[c] \in {"sent", "late"}
  <2>1. [op |-> "shutdown"] \in Request
    BY Zenon DEF Request
  <2>2. Pending # <<>> /\ Head(Pending) = Head(batch)
    BY <1>2, <2>1, PendingParts DEF Pending
  <2>3. Pending \in Seq(Request) /\ \A i \in DOMAIN Pending : \A d \in Conn : Adds(Pending[i], d) => connState[d] \in {"sent", "late"}
    BY <1>2, Zenon DEF Sent
  <2>4. 1 \in DOMAIN Pending /\ Pending[1] = Head(batch)
    BY <2>2, <2>3
  <2> QED BY <2>3, <2>4, <1>4
<1> HIDE DEF c
<1>6. fd # 0 /\ fd \in Fd
  BY <1>1, <1>4, <1>5 DEF Numbered, ReactorTypes
<1>7. /\ serving = Idle /\ \A g : ~Passed(g)
      /\ \A g \in D : channels[g] \in Conn /\ fdOf[channels[g]] = g /\ connState[channels[g]] = "added"
      /\ \A d \in Conn : connState[d] = "added" => fdOf[d] \in D /\ channels[fdOf[d]] = d
  BY MappedHere
<1>8. fd \notin D
  <2> SUFFICES ASSUME fd \in D PROVE FALSE
    OBVIOUS
  <2>1. channels[fd] = c
    BY <1>1, <1>4, <1>6, <1>7 DEF Numbered
  <2> QED BY <2>1, <1>5, <1>7
<1>9. /\ channels' = [g \in D \cup {fd} |-> IF g = fd THEN c ELSE channels[g]]
      /\ watched' = [g \in DOMAIN watched \cup {fd} |-> IF g = fd THEN {"Read"} ELSE watched[g]]
      /\ timers' = Append(timers, [fd |-> fd, old |-> FALSE])
      /\ connState' = [connState EXCEPT ![c] = "added"]
  BY <1>8 DEF RunAdd, c
<1>10. /\ D \subseteq Fd /\ channels \in [D -> Conn] /\ watched \in [D -> SUBSET Bits] /\ TimerOf(timers, D)
       /\ fdOf \in [Conn -> Fd \cup {0}]
       /\ connState \in [Conn -> {"none", "open", "sent", "late", "added", "closed"}]
  BY <1>1 DEF Tabled, ReactorTypes
<1> HIDE DEF fd, D
<1>11. TimerOf(timers', D \cup {fd})
  BY <1>6, <1>8, <1>9, <1>10, TimerEnters
<1>12. /\ DOMAIN channels' = D \cup {fd} /\ channels'[fd] = c /\ \A g \in D : channels'[g] = channels[g]
       /\ channels' \in [D \cup {fd} -> Conn]
  BY <1>4, <1>8, <1>9, <1>10
<1>13. watched' \in [D \cup {fd} -> SUBSET Bits]
  BY <1>9, <1>10 DEF Bits
<1>14. Tabled'
  <2>1. TimerOf(timers', DOMAIN channels') /\ DOMAIN channels' \subseteq Fd
    BY <1>6, <1>10, <1>11, <1>12
  <2>2. channels' \in [DOMAIN channels' -> Conn] /\ watched' \in [DOMAIN channels' -> SUBSET Bits]
    BY <1>12, <1>13
  <2> QED BY <2>1, <2>2 DEF Tabled, TimerOf
<1>15. /\ connState'[c] = "added" /\ \A d \in Conn \ {c} : connState'[d] = connState[d]
       /\ connState' \in [Conn -> {"none", "open", "sent", "late", "added", "closed"}]
  BY <1>4, <1>9, <1>10
<1>16. Numbered'
  <2>1. \A d \in Conn : closes[d] = 1 => d # c
    BY <1>1, <1>5 DEF Numbered
  <2>2. \A d \in Conn : fdOf[d] = 0 <=> connState'[d] \in {"none", "closed"}
    BY <1>1, <1>5, <1>6, <1>15 DEF Numbered, fd
  <2> QED BY <2>1, <2>2, <1>1, <1>15 DEF Numbered
<1>17. Mapped'
  <2>1. \A g \in DOMAIN channels' : fdOf[channels'[g]] = g /\ connState'[channels'[g]] = "added"
    BY <1>5, <1>7, <1>12, <1>15 DEF fd
  <2>2. \A d \in Conn : connState'[d] = "added" => fdOf[d] \in DOMAIN channels' /\ channels'[fdOf[d]] = d
    BY <1>7, <1>8, <1>12, <1>15 DEF fd
  <2> QED BY <2>1, <2>2 DEF Mapped
<1>18. \A d \in Conn : Adds(Head(batch), d) => connState'[d] = "added"
  BY <1>4, <1>15
<1>19. \A d \in Conn : ~Adds(Head(batch), d) => connState'[d] = connState[d]
  BY <1>4, <1>15
<1>20. loopQuit' \in BOOLEAN /\ (loopQuit' => loopQuit)
  BY <1>1 DEF ReactorTypes
<1>21. fdOf' \in [Conn -> Fd \cup {0}]
  BY <1>10
<1> QED BY <1>14, <1>15, <1>16, <1>17, <1>18, <1>19, <1>20, <1>21, EventRun

\* update_channel's function changes what the monitor waits for.
LEMMA RunUpdateKeeps ==
    ASSUME ReactorInv, lpc = "events", lpc' = lpc, batch # <<>>, batch' = Tail(batch),
           UNCHANGED <<owner, queued, todo, serving, closes, loopQuit, fdOf, channels, timers, connState>>,
           Head(batch).op = "update", NEW fd, RunUpdate(fd)
    PROVE  ReactorInv'
<1>1. /\ ReactorTypes /\ Tabled /\ Numbered /\ Mapped
  BY DEF ReactorInv
<1>2. watched' \in [DOMAIN channels -> SUBSET Bits]
  <2>1. watched \in [DOMAIN channels -> SUBSET Bits] /\ Bits \ {"Error", "HangUp"} \in SUBSET Bits
    BY <1>1 DEF Tabled
  <2> QED BY <2>1 DEF RunUpdate
<1>3. Tabled'
  BY <1>1, <1>2 DEF Tabled, TimerOf
<1>4. Numbered' /\ Mapped'
  BY <1>1 DEF Numbered, Mapped, Passed
<1>5. \A d \in Conn : ~Adds(Head(batch), d)
  BY DEF Adds
<1>6. /\ loopQuit' \in BOOLEAN /\ (loopQuit' => loopQuit) /\ fdOf' \in [Conn -> Fd \cup {0}]
      /\ connState' \in [Conn -> {"none", "open", "sent", "late", "added", "closed"}]
  BY <1>1 DEF ReactorTypes
<1> QED BY <1>3, <1>4, <1>5, <1>6, EventRun

\* weak_up_channel's function may close the agent it is given, which is erased
\* then.
LEMMA RunWeakUpKeeps ==
    ASSUME ReactorInv, lpc = "events", lpc' = lpc, batch # <<>>, batch' = Tail(batch),
           UNCHANGED <<owner, queued, todo, serving, closes, loopQuit>>,
           Head(batch).op # "add", NEW fd \in DOMAIN channels,
           fdOf' = [fdOf EXCEPT ![channels[fd]] = 0],
           connState' = [connState EXCEPT ![channels[fd]] = "closed"],
           EraseChannel(fd)
    PROVE  ReactorInv'
<1>1. /\ ReactorTypes /\ Tabled /\ Numbered
  BY DEF ReactorInv
<1> DEFINE c == channels[fd]
           D == DOMAIN channels
<1>2. /\ serving = Idle /\ \A g : ~Passed(g)
      /\ \A g \in D : channels[g] \in Conn /\ fdOf[channels[g]] = g /\ connState[channels[g]] = "added"
      /\ \A d \in Conn : connState[d] = "added" => fdOf[d] \in D /\ channels[fdOf[d]] = d
  BY MappedHere
<1>3. c \in Conn /\ fdOf[c] = fd /\ connState[c] = "added"
  BY <1>2
<1>4. /\ Tabled' /\ DOMAIN channels' = D \ {fd}
      /\ \A g \in D \ {fd} : channels'[g] = channels[g]
  BY <1>1, ErasedTables
<1>5. fdOf \in [Conn -> Fd \cup {0}] /\ connState \in [Conn -> {"none", "open", "sent", "late", "added", "closed"}]
  BY <1>1 DEF ReactorTypes
<1>6. fdOf' = [fdOf EXCEPT ![c] = 0] /\ connState' = [connState EXCEPT ![c] = "closed"]
  OBVIOUS
<1> HIDE DEF c, D
<1>7. /\ fdOf'[c] = 0 /\ (\A d \in Conn \ {c} : fdOf'[d] = fdOf[d]) /\ fdOf' \in [Conn -> Fd \cup {0}]
      /\ connState'[c] = "closed" /\ (\A d \in Conn \ {c} : connState'[d] = connState[d])
      /\ connState' \in [Conn -> {"none", "open", "sent", "late", "added", "closed"}]
  BY <1>3, <1>5, <1>6
<1>8. Numbered'
  <2>1. \A d \in Conn : fdOf'[d] = 0 <=> connState'[d] \in {"none", "closed"}
    BY <1>1, <1>7 DEF Numbered
  <2>2. \A d, e \in Conn : fdOf'[d] = fdOf'[e] => d = e \/ fdOf'[d] = 0
    BY <1>1, <1>7 DEF Numbered
  <2>3. \A d \in Conn : closes[d] = 1 => connState'[d] = "closed" /\ (serving.conn = d => serving.bits = {})
    BY <1>1, <1>7 DEF Numbered
  <2> QED BY <2>1, <2>2, <2>3 DEF Numbered
<1>9. Mapped'
  <2>1. \A g \in DOMAIN channels' : fdOf'[channels'[g]] = g /\ connState'[channels'[g]] = "added"
    <3> SUFFICES ASSUME NEW g \in D \ {fd} PROVE fdOf'[channels[g]] = g /\ connState'[channels[g]] = "added"
      BY <1>4
    <3>1. channels[g] \in Conn \ {c}
      BY <1>2, <1>3
    <3> QED BY <3>1, <1>2, <1>7
  <2>2. \A d \in Conn : connState'[d] = "added" => fdOf'[d] \in DOMAIN channels' /\ channels'[fdOf'[d]] = d
    <3> SUFFICES ASSUME NEW d \in Conn, connState'[d] = "added"
                 PROVE  fdOf[d] \in D \ {fd} /\ channels[fdOf[d]] = d /\ fdOf'[d] = fdOf[d]
      BY <1>4
    <3>1. d # c /\ fdOf'[d] = fdOf[d] /\ connState[d] = "added"
      BY <1>7
    <3>2. fdOf[d] \in D /\ channels[fdOf[d]] = d
      BY <3>1, <1>2
    <3> QED BY <3>1, <3>2 DEF c
  <2> QED BY <2>1, <2>2 DEF Mapped
<1>10. \A d \in Conn : ~Adds(Head(batch), d)
  BY DEF Adds
<1>11. \A d \in Conn : \/ connState'[d] = connState[d]
                       \/ connState[d] \notin {"sent", "late"} /\ connState'[d] \notin {"sent", "late"}
  BY <1>3, <1>7
<1>12. loopQuit' \in BOOLEAN /\ (loopQuit' => loopQuit)
  BY <1>1 DEF ReactorTypes
<1> QED BY <1>4, <1>7, <1>8, <1>9, <1>10, <1>11, <1>12, EventRun

\* The functions that change no table: send_to_loop's, one that finds nothing
\* to do, and the shutdown.
LEMMA QuietEvent ==
    ASSUME ReactorInv, lpc = "events", lpc' = lpc, batch # <<>>, batch' = Tail(batch),
           UNCHANGED <<owner, queued, todo, serving, closes, fdOf, tableVars, connState>>,
           Head(batch).op # "add",
           loopQuit' \in BOOLEAN, loopQuit' => loopQuit \/ Head(batch).op = "shutdown"
    PROVE  ReactorInv'
<1>1. /\ ReactorTypes /\ Tabled /\ Numbered /\ Mapped
  BY DEF ReactorInv
<1>2. Tabled' /\ channels' = channels
  BY <1>1, TablesUnmoved DEF tableVars
<1>3. Numbered' /\ Mapped'
  BY <1>1, <1>2 DEF Numbered, Mapped, Passed
<1>4. \A d \in Conn : ~Adds(Head(batch), d)
  BY DEF Adds
<1>5. fdOf' \in [Conn -> Fd \cup {0}] /\ connState' \in [Conn -> {"none", "open", "sent", "late", "added", "closed"}]
  BY <1>1 DEF ReactorTypes
<1> QED BY <1>2, <1>3, <1>4, <1>5, EventRun

\* Whichever function of the batch is next.
LEMMA RunEventKeeps ==
    ASSUME ReactorInv, RunEvent
    PROVE  ReactorInv'
<1> DEFINE e == Head(batch)
<1>1. /\ lpc = "events" /\ lpc' = lpc /\ batch # <<>> /\ batch' = Tail(batch)
      /\ UNCHANGED <<owner, queued, todo, serving, closes>>
  BY DEF RunEvent
<1>2. loopQuit \in BOOLEAN
  BY DEF ReactorInv, ReactorTypes
<1>3. CASE e.op = "add" /\ RunAdd(e.conn) /\ UNCHANGED <<loopQuit, fdOf>>
  BY <1>1, <1>3, RunAddKeeps
<1>4. CASE e.op = "update" /\ RunUpdate(e.fd) /\ UNCHANGED <<loopQuit, fdOf, channels, timers, connState>>
  <2> DEFINE fd == e.fd
  <2>1. RunUpdate(fd)
    BY <1>4
  <2> HIDE DEF fd
  <2> QED BY <2>1, <1>1, <1>4, RunUpdateKeeps
<1>5. CASE e.op = "weak" /\ RunWeakUp(e.fd) /\ UNCHANGED loopQuit
  <2>1. CASE UNCHANGED <<fdOf, tableVars, connState>>
    BY <2>1, <1>1, <1>2, <1>5, QuietEvent
  <2>2. CASE /\ e.fd \in DOMAIN channels
             /\ fdOf' = [fdOf EXCEPT ![channels[e.fd]] = 0]
             /\ connState' = [connState EXCEPT ![channels[e.fd]] = "closed"]
             /\ EraseChannel(e.fd)
    <3>1. e.op # "add"
      BY <1>5
    <3> QED BY <2>2, <3>1, <1>1, <1>5, RunWeakUpKeeps
  <2> QED BY <2>1, <2>2, <1>5 DEF RunWeakUp
<1>6. CASE e.op = "send" /\ UNCHANGED <<loopQuit, fdOf, tableVars, connState>>
  BY <1>1, <1>2, <1>6, QuietEvent
<1>7. CASE e.op = "shutdown" /\ loopQuit' = TRUE /\ UNCHANGED <<fdOf, tableVars, connState>>
  BY <1>1, <1>7, QuietEvent
<1> QED BY <1>3, <1>4, <1>5, <1>6, <1>7 DEF RunEvent

\* When close_alive has got over every channel all are closed, and nothing that
\* was sent is left in the queue that is destroyed.
LEMMA DestroySourceKeeps ==
    ASSUME ReactorInv, DestroySource
    PROVE  ReactorInv'
<1>1. /\ ReactorTypes /\ Tabled /\ Numbered /\ Mapped /\ Scanned /\ Queued /\ Quitting
  BY DEF ReactorInv
<1>2. /\ lpc = "alive" /\ lpc' = "done" /\ serving = Idle /\ todo = <<>>
      /\ channels' = <<>> /\ timers' = <<>> /\ watched' = <<>> /\ queued' = <<>>
      /\ connState' = [d \in Conn |-> IF connState[d] = "sent" THEN "lost" ELSE connState[d]]
      /\ UNCHANGED <<owner, loopQuit, batch, fdOf, todo, serving, closes>>
  BY DEF DestroySource
<1>3. \A d \in Conn : connState[d] # "sent"
  BY <1>1, <1>2 DEF Quitting
<1>4. connState' = connState
  <2>1. connState \in [Conn -> {"none", "open", "sent", "late", "added", "closed"}]
    BY <1>1 DEF ReactorTypes
  <2>2. \A d \in Conn : connState'[d] = connState[d]
    BY <1>2, <1>3
  <2> QED BY <2>1, <2>2, <1>2
<1>5. \A g : g \notin Elements(todo)
  BY <1>2 DEF Elements
<1>6. \A d \in Conn : connState[d] # "added"
  BY <1>1, <1>2, <1>5 DEF Mapped
<1>7. DOMAIN channels' = {} /\ channels' \in [{} -> Conn] /\ watched' \in [{} -> SUBSET Bits]
  BY <1>2
<1>8. Tabled'
  <2>1. TimerOf(timers', {})
    BY <1>2 DEF TimerOf
  <2> QED BY <2>1, <1>7 DEF Tabled, TimerOf
<1>9. Numbered'
  BY <1>1, <1>2, <1>4 DEF Numbered
<1>10. Mapped'
  BY <1>4, <1>6, <1>7 DEF Mapped
<1>11. Scanned'
  BY <1>1, <1>2, <1>5, <1>7 DEF Scanned, Scans, Elements
<1>12. Queued'
  <2>1. batch = <<>>
    BY <1>1, <1>2 DEF Queued
  <2>2. Pending' = <<>>
    BY <2>1, <1>2 DEF Pending
  <2>3. Sent(<<>>, connState, owner')
    BY <1>3 DEF Sent
  <2>4. Sent(Pending, connState, owner)'
    BY <2>2, <2>3, <1>4
  <2> QED BY <2>1, <2>4, <1>2 DEF Queued
<1>13. ReactorTypes'
  BY <1>1, <1>2, <1>4 DEF ReactorTypes
<1>14. Quitting'
  BY <1>1, <1>2, <1>3, <1>4, <1>7 DEF Quitting
<1> QED BY <1>8, <1>9, <1>10, <1>11, <1>12, <1>13, <1>14 DEF ReactorInv

-----------------------------------------------------------------------------
(* Steps of the owner and the users *)

\* A function is put: the loop's thread is woken if it sleeps, and a
\* connection may be on its way.
LEMMA PutKeeps ==
    ASSUME ReactorInv, NEW e \in Request, Put(e), lpc # "done",
           UNCHANGED <<loopQuit, batch, fdOf, channels, timers, watched, todo, serving, closes>>,
           owner' \in {"on", "stopping"}, owner' = "on" => owner = "on" /\ e.op # "shutdown",
           connState' \in [Conn -> {"none", "open", "sent", "late", "added", "closed"}],
           \A d \in Conn : ~Adds(e, d) => connState'[d] = connState[d],
           \A d \in Conn : Adds(e, d) => /\ connState[d] = "open" /\ connState'[d] \in {"sent", "late"}
                                         /\ connState'[d] = "sent" => owner = "on"
    PROVE  ReactorInv'
<1>1. /\ ReactorTypes /\ Tabled /\ Numbered /\ Mapped /\ Scanned /\ Queued /\ Quitting
  BY DEF ReactorInv
<1>2. queued' = Append(queued, e) /\ (lpc' = lpc \/ (lpc = "asleep" /\ lpc' = "begin"))
  BY DEF Put, Woken
<1>3. batch \in Seq(Request) /\ queued \in Seq(Request) /\ Sent(Pending, connState, owner)
  BY <1>1 DEF Queued
<1>4. Queued'
  <2>1. batch \o Append(queued, e) = Append(batch \o queued, e)
    BY <1>3, PendingParts
  <2>2. Pending' = Append(Pending, e)
    BY <2>1, <1>2 DEF Pending
  <2>3. \A d \in Conn : Adds(e, d) => /\ connState[d] \notin {"sent", "late"} /\ connState'[d] \in {"sent", "late"}
                                      /\ connState'[d] = "sent" => owner \in {"off", "on"}
    OBVIOUS
  <2>4. owner' \in {"off", "on"} => owner \in {"off", "on"} /\ e.op # "shutdown"
    OBVIOUS
  <2>5. Sent(Append(Pending, e), connState', owner')
    BY <2>3, <2>4, <1>3, SentMore
  <2>6. Sent(Pending, connState, owner)'
    BY <2>2, <2>5
  <2>7. queued' \in Seq(Request) /\ batch' \in Seq(Request) /\ (lpc' # "events" => batch' = <<>>)
    BY <1>1, <1>2, <1>3 DEF Queued
  <2> QED BY <2>6, <2>7 DEF Queued
<1>5. ReactorTypes'
  BY <1>1, <1>2 DEF ReactorTypes, Scans
<1>6. Tabled'
  BY <1>1, TablesUnmoved DEF tableVars
<1>7. \A d \in Conn : connState'[d] = connState[d] \/ (connState[d] = "open" /\ connState'[d] \in {"sent", "late"})
  OBVIOUS
<1>8. Numbered'
  BY <1>1, <1>7 DEF Numbered
<1>9. Mapped'
  <2>1. \A g \in DOMAIN channels : channels[g] \in Conn
    BY <1>1 DEF Tabled
  <2>2. \A g : Passed(g)' <=> Passed(g)
    BY <1>2 DEF Passed
  <2>3. \A g \in DOMAIN channels : connState[channels[g]] \in {"added", "closed"}
    BY <1>1 DEF Mapped
  <2>4. \A g \in DOMAIN channels : connState'[channels[g]] = connState[channels[g]]
    BY <2>1, <2>3, <1>7
  <2>5. \A d \in Conn : connState'[d] = "added" => connState[d] = "added"
    BY <1>7
  <2>6. \A d \in Conn : connState[d] = "added" => fdOf[d] \in DOMAIN channels /\ channels[fdOf[d]] = d
    BY <1>1 DEF Mapped
  <2>7. \A g \in DOMAIN channels :
          \/ fdOf[channels[g]] = g /\ connState[channels[g]] = "added"
          \/ connState[channels[g]] = "closed" /\ Passed(g)
    BY <1>1 DEF Mapped
  <2>8. \A g \in DOMAIN channels : lpc' = "alive" /\ g \notin Elements(todo) => connState[channels[g]] = "closed"
    BY <1>1, <1>2 DEF Mapped
  <2> QED BY <2>2, <2>4, <2>5, <2>6, <2>7, <2>8 DEF Mapped
<1>10. Scanned'
  BY <1>1, <1>2 DEF Scanned, Scans
<1>11. Quitting'
  BY <1>1, <1>2, <1>7 DEF Quitting
<1> QED BY <1>4, <1>5, <1>6, <1>8, <1>9, <1>10, <1>11 DEF ReactorInv

\* stop puts the shutdown.
LEMMA ReactorStopKeeps ==
    ASSUME ReactorInv, ReactorStop
    PROVE  ReactorInv'
<1> DEFINE e == [op |-> "shutdown"]
<1>1. e \in Request
  BY Zenon DEF Request
<1>2. \A d \in Conn : ~Adds(e, d)
  BY DEF Adds
<1>3. /\ owner = "on" /\ owner' = "stopping" /\ Put(e)
      /\ UNCHANGED <<loopQuit, batch, fdOf, channels, timers, watched, todo, serving, closes, connState>>
  BY DEF ReactorStop, tableVars
<1>4. lpc # "done" /\ connState \in [Conn -> {"none", "open", "sent", "late", "added", "closed"}]
  BY <1>3 DEF ReactorInv, Quitting, ReactorTypes
<1> HIDE DEF e
<1> QED BY <1>1, <1>2, <1>3, <1>4, PutKeeps

\* update_channel, weak_up_channel and send_to_loop.
LEMMA CallLoopKeeps ==
    ASSUME ReactorInv, NEW op \in {"update", "weak", "send"}, NEW fd \in Fd \cup {0}, CallLoop(op, fd)
    PROVE  ReactorInv'
<1> DEFINE e == [op |-> op, fd |-> fd]
<1>1. e \in Request
  BY Zenon DEF Request
<1>2. e.op = op /\ \A d \in Conn : ~Adds(e, d)
  BY DEF Adds
<1>3. /\ owner = "on" /\ owner' = "on" /\ Put(e)
      /\ UNCHANGED <<loopQuit, batch, fdOf, channels, timers, watched, todo, serving, closes, connState>>
  BY DEF CallLoop, tableVars
<1>4. lpc # "done" /\ connState \in [Conn -> {"none", "open", "sent", "late", "added", "closed"}]
  BY <1>3 DEF ReactorInv, Quitting, ReactorTypes
<1>5. op # "shutdown"
  OBVIOUS
<1> HIDE DEF e
<1> QED BY <1>1, <1>2, <1>3, <1>4, <1>5, PutKeeps

\* add_channel, before stop or after it.
LEMMA AddChannelKeeps ==
    ASSUME ReactorInv, NEW c \in Conn, AddChannel(c)
    PROVE  ReactorInv'
<1> DEFINE e == [op |-> "add", conn |-> c]
<1>1. e \in Request
  BY Zenon DEF Request
<1>2. e.op = "add" /\ \A d \in Conn : Adds(e, d) <=> d = c
  BY DEF Adds
<1>3. /\ owner \in {"on", "stopping"} /\ owner' = owner /\ Put(e) /\ lpc # "done" /\ connState[c] = "open"
      /\ UNCHANGED <<loopQuit, batch, fdOf, channels, timers, watched, todo, serving, closes>>
      /\ connState' = [connState EXCEPT ![c] = IF owner = "on" THEN "sent" ELSE "late"]
  BY DEF AddChannel, Running, tableVars
<1>4. connState \in [Conn -> {"none", "open", "sent", "late", "added", "closed"}]
  BY DEF ReactorInv, ReactorTypes
<1> HIDE DEF e
<1>5. /\ connState' \in [Conn -> {"none", "open", "sent", "late", "added", "closed"}]
      /\ \A d \in Conn : d # c => connState'[d] = connState[d]
      /\ connState'[c] \in {"sent", "late"} /\ (connState'[c] = "sent" => owner = "on")
  BY <1>3, <1>4
<1>6. \A d \in Conn : ~Adds(e, d) => connState'[d] = connState[d]
  BY <1>2, <1>5
<1>7. \A d \in Conn : Adds(e, d) => /\ connState[d] = "open" /\ connState'[d] \in {"sent", "late"}
                                    /\ connState'[d] = "sent" => owner = "on"
  BY <1>2, <1>3, <1>5
<1>8. owner' \in {"on", "stopping"} /\ (owner' = "on" => owner = "on" /\ e.op # "shutdown")
  BY <1>2, <1>3
<1> QED BY <1>1, <1>3, <1>5, <1>6, <1>7, <1>8, PutKeeps

\* A free descriptor is left for every connection that is opened.
LEMMA DescriptorLeft ==
    ASSUME fdOf \in [Conn -> Fd \cup {0}], NEW c \in Conn, fdOf[c] = 0
    PROVE  Fd \ {fdOf[d] : d \in Conn} # {}
<1> DEFINE n == Cardinality(Conn)
           C == Conn \ {c}
<1>1. IsFiniteSet(Conn)
  BY ReactorAssumption
<1>2. n \in Nat /\ IsFiniteSet(C) /\ Cardinality(C) = n - 1
  BY <1>1, FS_CardinalityType, FS_RemoveElement
<1>3. Fd = 1..n
  BY DEF Fd
<1> HIDE DEF n
<1>4. Cardinality(Fd) = n
  <2>1. Cardinality(1..n) = n
    BY <1>2, FS_Interval
  <2> QED BY <2>1, <1>3
<1> SUFFICES ASSUME Fd \subseteq {fdOf[d] : d \in Conn} PROVE FALSE
  OBVIOUS
<1>5. \A f \in Fd : \E d \in C : fdOf[d] = f
  <2> SUFFICES ASSUME NEW f \in Fd PROVE \E d \in C : fdOf[d] = f
    OBVIOUS
  <2>1. PICK d \in Conn : fdOf[d] = f
    OBVIOUS
  <2>2. f # 0
    BY <1>2, <1>3
  <2> QED BY <2>1, <2>2
<1> DEFINE g == [f \in Fd |-> CHOOSE d \in C : fdOf[d] = f]
<1>6. \A f \in Fd : g[f] \in C /\ fdOf[g[f]] = f
  BY <1>5
<1>7. g \in [Fd -> C]
  BY <1>5
<1> HIDE DEF g, C
<1>8. \A f, h \in Fd : g[f] = g[h] => f = h
  BY <1>6
<1>9. g \in Injection(Fd, C)
  BY <1>7, <1>8 DEF Injection, IsInjective
<1>10. Cardinality(Fd) <= Cardinality(C)
  BY <1>2, <1>9, FS_Injection
<1> QED BY <1>2, <1>4, <1>10

\* A connection is made, under a descriptor nobody has.
LEMMA OpenKeeps ==
    ASSUME ReactorInv, NEW c \in Conn, Open(c)
    PROVE  ReactorInv'
<1>1. /\ ReactorTypes /\ Tabled /\ Numbered /\ Mapped /\ Scanned /\ Queued /\ Quitting
  BY DEF ReactorInv
<1> DEFINE free == Fd \ {fdOf[d] : d \in Conn}
           low == CHOOSE f \in free : \A g \in free : f <= g
<1>2. /\ connState[c] = "none"
      /\ fdOf' = [fdOf EXCEPT ![c] = low] /\ connState' = [connState EXCEPT ![c] = "open"]
      /\ UNCHANGED <<owner, lpc, loopQuit, queued, batch, channels, timers, watched, todo, serving, closes>>
  BY DEF Open, loopVars, tableVars
<1>3. fdOf \in [Conn -> Fd \cup {0}] /\ connState \in [Conn -> {"none", "open", "sent", "late", "added", "closed"}]
  BY <1>1 DEF ReactorTypes
<1>4. fdOf[c] = 0
  BY <1>1, <1>2 DEF Numbered
<1>5. Fd \subseteq Nat /\ 0 \notin Fd
  <2>1. Cardinality(Conn) \in Nat
    BY ReactorAssumption, FS_CardinalityType
  <2> QED BY <2>1 DEF Fd
<1>6. low \in free
  <2>1. free # {} /\ free \subseteq Nat
    BY <1>3, <1>4, <1>5, DescriptorLeft
  <2> HIDE DEF free
  <2>2. \E f \in free : \A g \in free : f <= g
    BY <2>1, Smallest
  <2> QED BY <2>2
<1> HIDE DEF low
<1>7. low \in Fd /\ low # 0 /\ \A d \in Conn : fdOf[d] # low
  BY <1>5, <1>6
<1>8. /\ fdOf'[c] = low /\ (\A d \in Conn \ {c} : fdOf'[d] = fdOf[d]) /\ fdOf' \in [Conn -> Fd \cup {0}]
      /\ connState'[c] = "open" /\ (\A d \in Conn \ {c} : connState'[d] = connState[d])
      /\ connState' \in [Conn -> {"none", "open", "sent", "late", "added", "closed"}]
  BY <1>2, <1>3, <1>7
<1>9. ReactorTypes'
  BY <1>1, <1>2, <1>8 DEF ReactorTypes
<1>10. Tabled'
  BY <1>1, <1>2, TablesUnmoved DEF tableVars
<1>11. Numbered'
  <2>1. \A d \in Conn : fdOf'[d] = 0 <=> connState'[d] \in {"none", "closed"}
    BY <1>1, <1>7, <1>8 DEF Numbered
  <2>2. \A d, e \in Conn : fdOf'[d] = fdOf'[e] => d = e \/ fdOf'[d] = 0
    BY <1>1, <1>7, <1>8 DEF Numbered
  <2>3. \A d \in Conn : closes[d] = 1 => connState'[d] = "closed" /\ (serving.conn = d => serving.bits = {})
    BY <1>1, <1>2, <1>8 DEF Numbered
  <2> QED BY <2>1, <2>2, <2>3, <1>2 DEF Numbered
<1>12. Mapped'
  <2>1. \A g \in DOMAIN channels : channels[g] \in Conn \ {c}
    BY <1>1, <1>2 DEF Tabled, Mapped
  <2>2. \A d \in Conn : connState'[d] = "added" => d # c
    BY <1>8
  <2>3. \A g : Passed(g)' <=> Passed(g)
    BY <1>2 DEF Passed
  <2>4. \A g \in DOMAIN channels : fdOf'[channels[g]] = fdOf[channels[g]] /\ connState'[channels[g]] = connState[channels[g]]
    BY <2>1, <1>8
  <2>5. \A g \in DOMAIN channels' :
          \/ fdOf'[channels'[g]] = g /\ connState'[channels'[g]] = "added"
          \/ connState'[channels'[g]] = "closed" /\ Passed(g)'
    BY <2>3, <2>4, <1>1, <1>2 DEF Mapped
  <2>6. \A d \in Conn : connState'[d] = "added" => fdOf'[d] \in DOMAIN channels' /\ channels'[fdOf'[d]] = d
    BY <2>2, <1>1, <1>2, <1>8 DEF Mapped
  <2>7. \A g \in DOMAIN channels' : lpc' = "alive" /\ g \notin Elements(todo') => connState'[channels'[g]] = "closed"
    BY <2>4, <1>1, <1>2 DEF Mapped
  <2> QED BY <2>5, <2>6, <2>7 DEF Mapped
<1>13. Scanned'
  BY <1>1, <1>2 DEF Scanned
<1>14. Queued'
  <2>1. lpc' # "events" => batch = <<>>
    BY <1>1, <1>2 DEF Queued
  <2>2. \A d \in Conn : \/ connState'[d] = connState[d]
                        \/ connState[d] \notin {"sent", "late"} /\ connState'[d] \notin {"sent", "late"}
    BY <1>2, <1>8
  <2> QED BY <2>1, <2>2, <1>1, <1>2, QueueUnmoved
<1>15. Quitting'
  BY <1>1, <1>2, <1>8 DEF Quitting
<1> QED BY <1>9, <1>10, <1>11, <1>12, <1>13, <1>14, <1>15 DEF ReactorInv

\* start, after which the loop's thread runs.
LEMMA ReactorStartKeeps ==
    ASSUME ReactorInv, ReactorStart
    PROVE  ReactorInv'
<1>1. /\ ReactorTypes /\ Scanned /\ Queued /\ Quitting
  BY DEF ReactorInv
<1>2. /\ owner = "off" /\ owner' = "on" /\ lpc' = "top"
      /\ UNCHANGED <<loopQuit, queued, batch, fdOf, channels, timers, watched, todo, serving, connState, closes>>
  BY DEF ReactorStart, loopVars, tableVars
<1>3. lpc = "none"
  BY <1>1, <1>2 DEF Quitting
<1>4. serving = Idle /\ todo = <<>> /\ batch = <<>>
  BY <1>1, <1>3 DEF Scanned, Scans, Queued
<1>5. Queued'
  BY <1>1, <1>2, <1>4, QueueUnmoved
<1> QED BY <1>2, <1>3, <1>4, <1>5, LoopMoves

\* The loop's thread has ended before stop returns.
LEMMA ReactorJoinKeeps ==
    ASSUME ReactorInv, ReactorJoin
    PROVE  ReactorInv'
<1>1. /\ ReactorTypes /\ Tabled /\ Numbered /\ Mapped /\ Scanned /\ Queued /\ Quitting
  BY DEF ReactorInv
<1>2. /\ owner = "stopping" /\ lpc = "done" /\ owner' = "stopped"
      /\ UNCHANGED <<lpc, loopQuit, queued, batch, fdOf, channels, timers, watched, todo, serving, connState, closes>>
  BY DEF ReactorJoin, loopVars, tableVars
<1>3. ReactorTypes' /\ Numbered' /\ Mapped' /\ Scanned' /\ Quitting'
  BY <1>1, <1>2 DEF ReactorTypes, Numbered, Mapped, Passed, Scanned, Quitting
<1>4. Tabled'
  BY <1>1, <1>2, TablesUnmoved DEF tableVars
<1>5. Queued'
  <2>1. lpc' # "events" => batch = <<>>
    BY <1>1, <1>2 DEF Queued
  <2> QED BY <2>1, <1>1, <1>2, QueueUnmoved
<1> QED BY <1>3, <1>4, <1>5 DEF ReactorInv

\* An entry of the timers becomes old where it is.
LEMMA AgeKeeps ==
    ASSUME ReactorInv, Age
    PROVE  ReactorInv'
<1>1. /\ ReactorTypes /\ Tabled /\ Numbered /\ Mapped /\ Scanned /\ Queued /\ Quitting
  BY DEF ReactorInv
<1>2. UNCHANGED <<owner, lpc, loopQuit, queued, batch, fdOf, channels, watched, todo, serving, connState, closes>>
  BY DEF Age, loopVars
<1>3. PICK i \in DOMAIN timers : timers' = [timers EXCEPT ![i].old = TRUE]
  BY DEF Age
<1>4. TimerOf(timers', DOMAIN channels)
  <2> DEFINE n == Len(timers)
             D == DOMAIN channels
             T == [fd : Fd, old : BOOLEAN]
  <2>1. timers \in Seq(T) /\ DOMAIN timers = 1..n /\ n \in Nat
    BY <1>1 DEF Tabled, TimerOf
  <2>2. \A j, k \in DOMAIN timers : timers[j].fd = timers[k].fd => j = k
    BY <1>1 DEF Tabled, TimerOf
  <2>3. {timers[j].fd : j \in DOMAIN timers} = D
    BY <1>1 DEF Tabled, TimerOf
  <2> HIDE DEF n, D, T
  <2>4. i \in DOMAIN timers /\ timers[i] \in T
    BY <1>3, <2>1 DEF n
  <2> DEFINE v == [timers[i] EXCEPT !.old = TRUE]
  <2>5. v \in T /\ v.fd = timers[i].fd
    BY <2>4 DEF T
  <2>6. timers' = [timers EXCEPT ![i] = v]
    BY <1>3
  <2> HIDE DEF v
  <2>7. timers' \in Seq(T) /\ DOMAIN timers' = DOMAIN timers
    BY <2>1, <2>5, <2>6
  <2>8. \A j \in DOMAIN timers : timers'[j].fd = timers[j].fd
    BY <2>1, <2>5, <2>6
  <2>9. {timers'[j].fd : j \in DOMAIN timers'} = D
    BY <2>3, <2>7, <2>8
  <2>10. \A j, k \in DOMAIN timers' : timers'[j].fd = timers'[k].fd => j = k
    BY <2>2, <2>7, <2>8
  <2> QED BY <2>7, <2>9, <2>10 DEF TimerOf, D, T
<1>5. Tabled'
  BY <1>1, <1>2, <1>4 DEF Tabled, TimerOf
<1>6. ReactorTypes' /\ Numbered' /\ Mapped' /\ Scanned' /\ Quitting'
  BY <1>1, <1>2 DEF ReactorTypes, Numbered, Mapped, Passed, Scanned, Quitting
<1>7. Queued'
  <2>1. lpc' # "events" => batch = <<>>
    BY <1>1, <1>2 DEF Queued
  <2> QED BY <2>1, <1>1, <1>2, QueueUnmoved
<1> QED BY <1>5, <1>6, <1>7 DEF ReactorInv

-----------------------------------------------------------------------------
(* The reactor's theorems *)

\* Nothing is in the reactor before start.
LEMMA ReactorInitially == ASSUME ReactorInit PROVE ReactorInv
<1>1. /\ owner = "off" /\ lpc = "none" /\ loopQuit = FALSE /\ queued = <<>> /\ batch = <<>>
      /\ fdOf = [c \in Conn |-> 0] /\ channels = <<>> /\ timers = <<>> /\ watched = <<>>
      /\ todo = <<>> /\ serving = Idle
      /\ connState = [c \in Conn |-> "none"] /\ closes = [c \in Conn |-> 0]
  BY DEF ReactorInit
<1>2. DOMAIN channels = {} /\ channels \in [{} -> Conn] /\ watched \in [{} -> SUBSET Bits]
  BY <1>1
<1>3. Idle \in Serving
  BY DEF Idle, Serving
<1>4. ReactorTypes
  BY <1>1, <1>3 DEF ReactorTypes
<1>5. Tabled
  <2>1. TimerOf(timers, {})
    BY <1>1 DEF TimerOf
  <2> QED BY <2>1, <1>2 DEF Tabled
<1>6. Numbered
  BY <1>1 DEF Numbered
<1>7. Mapped
  BY <1>1, <1>2 DEF Mapped
<1>8. Scanned
  BY <1>1 DEF Scanned, Once, Elements
<1>9. Queued
  <2>1. Pending = <<>>
    BY <1>1 DEF Pending
  <2>2. Sent(<<>>, connState, owner)
    BY <1>1 DEF Sent
  <2>3. Sent(Pending, connState, owner)
    BY <2>1, <2>2
  <2> QED BY <2>3, <1>1 DEF Queued
<1>10. Quitting
  BY <1>1 DEF Quitting
<1> QED BY <1>4, <1>5, <1>6, <1>7, <1>8, <1>9, <1>10 DEF ReactorInv

\* Every step keeps the invariant.
LEMMA ReactorStep == ASSUME ReactorInv, [ReactorNext]_reactorVars PROVE ReactorInv'
<1>1. CASE LoopStep
  BY <1>1, LoopTopKeeps, LoopBeginKeeps, LoopEndKeeps, InvokeEventKeeps, TimeoutTellKeeps, TimeoutToldKeeps,
     PollKeeps, CreateTaskKeeps, TaskDoneKeeps, DistributedKeeps, RunEventKeeps, AliveTellKeeps, AliveToldKeeps,
     DestroySourceKeeps DEF LoopStep
<1>2. CASE ReactorStart \/ ReactorStop \/ ReactorJoin \/ Age
  BY <1>2, ReactorStartKeeps, ReactorStopKeeps, ReactorJoinKeeps, AgeKeeps
<1>3. ASSUME NEW c \in Conn, Open(c) \/ AddChannel(c) PROVE ReactorInv'
  BY <1>3, OpenKeeps, AddChannelKeeps
<1>4. ASSUME NEW fd \in Fd, CallLoop("update", fd) \/ CallLoop("weak", fd) PROVE ReactorInv'
  BY <1>4, CallLoopKeeps
<1>5. CASE CallLoop("send", 0)
  BY <1>5, CallLoopKeeps
<1>6. CASE UNCHANGED reactorVars
  <2>1. UNCHANGED <<owner, lpc, loopQuit, queued, batch, fdOf, channels, timers, watched, todo, serving, connState, closes>>
    BY <1>6 DEF reactorVars
  <2>2. /\ ReactorTypes /\ Tabled /\ Numbered /\ Mapped /\ Scanned /\ Queued /\ Quitting
    BY DEF ReactorInv
  <2>3. ReactorTypes' /\ Numbered' /\ Mapped' /\ Scanned' /\ Quitting'
    BY <2>1, <2>2 DEF ReactorTypes, Numbered, Mapped, Passed, Scanned, Quitting
  <2>4. Tabled'
    BY <2>1, <2>2, TablesUnmoved DEF tableVars
  <2>5. Queued'
    <3>1. lpc' # "events" => batch = <<>>
      BY <2>1, <2>2 DEF Queued
    <3> QED BY <3>1, <2>1, <2>2, QueueUnmoved
  <2> QED BY <2>3, <2>4, <2>5 DEF ReactorInv
<1> QED BY <1>1, <1>2, <1>3, <1>4, <1>5, <1>6 DEF ReactorNext

\* What the invariant says between two functions.
LEMMA ReactorInvAgrees == ReactorInv => ReactorAgrees
<1> SUFFICES ASSUME ReactorInv, serving = Idle, lpc \notin {"alive", "done"}
             PROVE  /\ DOMAIN channels = DOMAIN watched
                    /\ DOMAIN channels = {timers[i].fd : i \in DOMAIN timers}
                    /\ Len(timers) = Cardinality(DOMAIN channels)
                    /\ \A fd \in DOMAIN channels : fdOf[channels[fd]] = fd
  BY DEF ReactorAgrees
<1>1. Tabled /\ Mapped
  BY DEF ReactorInv
<1>2. DOMAIN channels = {timers[i].fd : i \in DOMAIN timers}
  BY <1>1 DEF Tabled, TimerOf
<1>3. DOMAIN channels = DOMAIN watched /\ Len(timers) = Cardinality(DOMAIN channels)
  BY <1>1, TablesFinite
<1>4. \A fd \in DOMAIN channels : fdOf[channels[fd]] = fd
  BY <1>1 DEF Mapped, Passed
<1> QED BY <1>2, <1>3, <1>4

\* What it says of the callbacks, and once stop has returned.
LEMMA ReactorInvCloses == ReactorInv => ClosedOnce
<1> SUFFICES ASSUME ReactorInv PROVE ClosedOnce
  OBVIOUS
<1>1. ReactorTypes /\ Mapped /\ Quitting
  BY DEF ReactorInv
<1>2. /\ closes \in [Conn -> {0, 1}]
      /\ connState \in [Conn -> {"none", "open", "sent", "late", "added", "closed"}]
  BY <1>1 DEF ReactorTypes
<1>3. \A c \in Conn : closes[c] <= 1 /\ connState[c] # "refused" /\ connState[c] # "lost"
  BY <1>2
<1>4. ASSUME owner = "stopped", NEW c \in Conn PROVE connState[c] \notin {"sent", "added"}
  <2>1. lpc = "done" /\ loopQuit /\ DOMAIN channels = {}
    BY <1>1, <1>4 DEF Quitting
  <2> QED BY <2>1, <1>1 DEF Mapped, Quitting
<1> QED BY <1>2, <1>3, <1>4 DEF ClosedOnce

\* The reactor's map, its timers and its monitor hold the same open
\* connections between two functions, whatever callbacks, users and the system
\* do.
THEOREM ReactorAlwaysAgrees == ReactorSpec => []ReactorAgrees
<1>1. ReactorInit => ReactorInv
  BY ReactorInitially
<1>2. ReactorInv /\ [ReactorNext]_reactorVars => ReactorInv'
  BY ReactorStep
<1>3. ReactorInv => ReactorAgrees
  BY ReactorInvAgrees
<1> QED BY <1>1, <1>2, <1>3, PTL DEF ReactorSpec

\* No close callback runs twice, no connection is refused or lost, and all
\* that were added are closed when stop returns.
THEOREM EachClosedOnce == ReactorSpec => []ClosedOnce
<1>1. ReactorInit => ReactorInv
  BY ReactorInitially
<1>2. ReactorInv /\ [ReactorNext]_reactorVars => ReactorInv'
  BY ReactorStep
<1>3. ReactorInv => ClosedOnce
  BY ReactorInvCloses
<1> QED BY <1>1, <1>2, <1>3, PTL DEF ReactorSpec

=============================================================================
