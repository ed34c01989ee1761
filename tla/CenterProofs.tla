---------------------------- MODULE CenterProofs ----------------------------
(***************************************************************************)
(* Proofs about LinkLogCenter, for any nodes, servers and bounds: an entry *)
(* of _check and the timer that reads its flag always belong together      *)
(* (TimersMatch), and a registration and a creation leave the node's type  *)
(* and parent in the index, whichever comes first (PairsAgree).            *)
(***************************************************************************)
EXTENDS LinkCenter, TLAPS

\* TimersMatch of the entries c, the timers T and the flags k, strengthened: no two
\* timers read one flag, so that the end of one leaves the others their flags.
Matching(c, T, k) ==
    /\ k \in Seq({"armed", "met", "freed"})
    /\ T \subseteq [node : Node, cell : DOMAIN k]
    /\ \A t, u \in T : t.cell = u.cell => t = u
    /\ \A n \in DOMAIN c :
          /\ k[c[n].cell] = "armed"
          /\ [node |-> n, cell |-> c[n].cell] \in T
    /\ \A t \in T :
          /\ k[t.cell] # "freed"
          /\ k[t.cell] = "armed" => t.node \in DOMAIN c /\ c[t.node].cell = t.cell

CheckInv == Matching(check, timers, cells)

\* The entries have timers of their own, whose flags exist.
LEMMA EntryTimers ==
    ASSUME NEW c, NEW T, NEW k, Matching(c, T, k)
    PROVE  /\ \A n \in DOMAIN c : c[n].cell \in DOMAIN k /\ n \in Node
           /\ \A n, m \in DOMAIN c : c[n].cell = c[m].cell => n = m
           /\ \A t \in T : t.cell \in DOMAIN k /\ t.node \in Node /\ t = [node |-> t.node, cell |-> t.cell]
<1>1. \A t \in T : t.cell \in DOMAIN k /\ t.node \in Node /\ t = [node |-> t.node, cell |-> t.cell]
    BY DEF Matching
<1>2. ASSUME NEW n \in DOMAIN c PROVE c[n].cell \in DOMAIN k /\ n \in Node
    <2>1. PICK t \in T : t = [node |-> n, cell |-> c[n].cell]
        BY Zenon DEF Matching
    <2>2. t.node = n /\ t.cell = c[n].cell
        BY <2>1
    <2> QED BY <1>1, <2>2
<1>3. ASSUME NEW n \in DOMAIN c, NEW m \in DOMAIN c, c[n].cell = c[m].cell PROVE n = m
    <2>1. PICK t \in T : t = [node |-> n, cell |-> c[n].cell]
        BY Zenon DEF Matching
    <2>2. PICK u \in T : u = [node |-> m, cell |-> c[m].cell]
        BY Zenon DEF Matching
    <2>3. t.node = n /\ t.cell = c[n].cell /\ u.node = m /\ u.cell = c[m].cell
        BY <2>1, <2>2
    <2>4. t.cell = u.cell => t = u
        BY Zenon DEF Matching
    <2> QED BY <1>3, <2>3, <2>4
<1> QED BY <1>1, <1>2, <1>3

\* A new entry gets a new flag and a timer.
LEMMA ArmMatches ==
    ASSUME CheckInv, NEW n \in Node, n \notin DOMAIN check, NEW entry,
           entry = [type |-> entry.type, parent |-> entry.parent, itime |-> entry.itime,
                    ptime |-> entry.ptime, cell |-> entry.cell],
           Arm(n, entry)
    PROVE  CheckInv'
<1>1. PICK c, T, k : c = check /\ T = timers /\ k = cells
    OBVIOUS
<1>2. PICK p : p = Len(k) + 1
    OBVIOUS
<1>3. PICK d, U, l, x, t : /\ d = check' /\ U = timers' /\ l = cells'
                           /\ x = [entry EXCEPT !.cell = p] /\ t = [node |-> n, cell |-> p]
    OBVIOUS
<1>4. /\ d = [m \in DOMAIN c \cup {n} |-> IF m = n THEN x ELSE c[m]]
      /\ l = Append(k, "armed") /\ U = T \cup {t}
    BY <1>1, <1>2, <1>3, Zenon DEF Arm
<1>5. Matching(c, T, k)
    BY <1>1, Zenon DEF CheckInv
<1>6. x.cell = p
    <2>1. x = [type |-> entry.type, parent |-> entry.parent, itime |-> entry.itime,
               ptime |-> entry.ptime, cell |-> p]
        BY <1>3
    <2> QED BY <2>1
<1>7. /\ l \in Seq({"armed", "met", "freed"}) /\ p \in DOMAIN l /\ l[p] = "armed"
      /\ p \notin DOMAIN k
      /\ \A i \in DOMAIN k : i \in DOMAIN l /\ l[i] = k[i]
    <2>1. k \in Seq({"armed", "met", "freed"})
        BY <1>5 DEF Matching
    <2> QED BY <1>2, <1>4, <2>1
<1>8. n \notin DOMAIN c
    BY <1>1
<1>9. DOMAIN d = DOMAIN c \cup {n} /\ d[n] = x /\ \A m \in DOMAIN c : d[m] = c[m]
    BY <1>4, <1>8
<1>10. t.node = n /\ t.cell = p
    BY <1>3
<1>11. \A u \in T : u.cell \in DOMAIN k /\ u.cell # p
    BY <1>5, <1>7, EntryTimers
<1>12. U \subseteq [node : Node, cell : DOMAIN l]
    <2>1. t \in [node : Node, cell : DOMAIN l]
        BY <1>3, <1>7
    <2>2. ASSUME NEW u \in T PROVE u \in [node : Node, cell : DOMAIN l]
        BY <1>5, <1>7, EntryTimers
    <2> QED BY <1>4, <2>1, <2>2
<1>13. \A u, v \in U : u.cell = v.cell => u = v
    <2>1. \A u, v \in T : u.cell = v.cell => u = v
        BY <1>5, Zenon DEF Matching
    <2> QED BY <1>4, <1>10, <1>11, <2>1
<1>14. ASSUME NEW m \in DOMAIN d
       PROVE  l[d[m].cell] = "armed" /\ [node |-> m, cell |-> d[m].cell] \in U
    <2>1. CASE m = n
        BY <1>3, <1>4, <1>6, <1>7, <1>9, <2>1
    <2>2. CASE m # n
        <3>1. m \in DOMAIN c /\ d[m] = c[m]
            BY <1>9, <2>2
        <3>2. c[m].cell \in DOMAIN k
            BY <1>5, <3>1, EntryTimers
        <3>3. k[c[m].cell] = "armed" /\ [node |-> m, cell |-> c[m].cell] \in T
            BY <1>5, <3>1, Zenon DEF Matching
        <3> QED BY <1>4, <1>7, <3>1, <3>2, <3>3
    <2> QED BY <2>1, <2>2
<1>15. ASSUME NEW u \in U
       PROVE  /\ l[u.cell] # "freed"
              /\ l[u.cell] = "armed" => u.node \in DOMAIN d /\ d[u.node].cell = u.cell
    <2>1. CASE u = t
        BY <1>6, <1>7, <1>9, <1>10, <2>1
    <2>2. CASE u # t
        <3>1. u \in T /\ u.cell \in DOMAIN k /\ l[u.cell] = k[u.cell]
            BY <1>4, <1>7, <1>11, <2>2
        <3>2. /\ k[u.cell] # "freed"
              /\ k[u.cell] = "armed" => u.node \in DOMAIN c /\ c[u.node].cell = u.cell
            BY <1>5, <3>1, Zenon DEF Matching
        <3> QED BY <1>9, <3>1, <3>2
    <2> QED BY <2>1, <2>2
<1>16. Matching(d, U, l)
    BY <1>7, <1>12, <1>13, <1>14, <1>15 DEF Matching
<1> QED BY <1>3, <1>16, Zenon DEF CheckInv

\* An entry leaves: its flag is no longer set, and no other entry has it.
LEMMA LeaveMatches ==
    ASSUME NEW c, NEW T, NEW k, Matching(c, T, k), NEW n \in DOMAIN c, NEW d, NEW l,
           d = [m \in DOMAIN c \ {n} |-> c[m]], l = [k EXCEPT ![c[n].cell] = "met"]
    PROVE  Matching(d, T, l)
<1>1. /\ DOMAIN d = DOMAIN c \ {n}
      /\ \A m \in DOMAIN d : d[m] = c[m]
    OBVIOUS
<1>2. PICK p : p = c[n].cell
    OBVIOUS
<1>3. /\ \A m \in DOMAIN c : c[m].cell \in DOMAIN k
      /\ \A m \in DOMAIN d : c[m].cell # p
      /\ \A t \in T : t.cell \in DOMAIN k
      /\ p \in DOMAIN k
    <2>1. /\ \A m \in DOMAIN c : c[m].cell \in DOMAIN k
          /\ \A m, o \in DOMAIN c : c[m].cell = c[o].cell => m = o
          /\ \A t \in T : t.cell \in DOMAIN k
        BY EntryTimers
    <2> QED BY <1>1, <1>2, <2>1
<1>4. k \in Seq({"armed", "met", "freed"})
    BY DEF Matching
<1>5. /\ l \in Seq({"armed", "met", "freed"}) /\ DOMAIN l = DOMAIN k /\ l[p] = "met"
      /\ \A i \in DOMAIN k : i # p => l[i] = k[i]
    BY <1>2, <1>3, <1>4
<1>6. /\ T \subseteq [node : Node, cell : DOMAIN l]
      /\ \A t, u \in T : t.cell = u.cell => t = u
    BY <1>5, Zenon DEF Matching
<1>7. ASSUME NEW m \in DOMAIN d
      PROVE  l[d[m].cell] = "armed" /\ [node |-> m, cell |-> d[m].cell] \in T
    <2>1. m \in DOMAIN c /\ d[m] = c[m]
        BY <1>1
    <2>2. k[c[m].cell] = "armed" /\ [node |-> m, cell |-> c[m].cell] \in T
        BY <2>1, Zenon DEF Matching
    <2>3. l[c[m].cell] = k[c[m].cell]
        BY <1>3, <1>5, <2>1, Zenon
    <2> QED BY <2>1, <2>2, <2>3
<1>8. ASSUME NEW t \in T
      PROVE  /\ l[t.cell] # "freed"
             /\ l[t.cell] = "armed" => t.node \in DOMAIN d /\ d[t.node].cell = t.cell
    <2>1. CASE t.cell = p
        BY <1>5, <2>1
    <2>2. CASE t.cell # p
        <3>1. l[t.cell] = k[t.cell]
            BY <1>3, <1>5, <2>2
        <3>2. /\ k[t.cell] # "freed"
              /\ k[t.cell] = "armed" => t.node \in DOMAIN c /\ c[t.node].cell = t.cell
            BY Zenon DEF Matching
        <3>3. ASSUME k[t.cell] = "armed" PROVE t.node \in DOMAIN d /\ d[t.node].cell = t.cell
            <4>1. t.node \in DOMAIN c /\ c[t.node].cell = t.cell
                BY <3>2, <3>3
            <4>2. t.node # n
                BY <1>2, <2>2, <4>1
            <4> QED BY <1>1, <4>1, <4>2
        <3> QED BY <3>1, <3>2, <3>3
    <2> QED BY <2>1, <2>2
<1> QED BY <1>5, <1>6, <1>7, <1>8 DEF Matching

\* on_time: the entry is met by its other half.
LEMMA MeetMatches ==
    ASSUME CheckInv, NEW n \in DOMAIN check, Meet(n)
    PROVE  CheckInv'
<1>1. PICK c, T, k, d, l : c = check /\ T = timers /\ k = cells /\ d = check' /\ l = cells'
    OBVIOUS
<1>2. /\ d = [m \in DOMAIN c \ {n} |-> c[m]] /\ l = [k EXCEPT ![c[n].cell] = "met"]
      /\ timers' = T
    BY <1>1, Zenon DEF Meet
<1>3. Matching(c, T, k) /\ n \in DOMAIN c
    BY <1>1, Zenon DEF CheckInv
<1>4. Matching(d, T, l)
    BY <1>2, <1>3, LeaveMatches
<1> QED BY <1>1, <1>2, <1>4, Zenon DEF CheckInv

\* check_timeout: a timer ends, with its entry if its flag is still set.
LEMMA TimeoutMatches ==
    ASSUME CheckInv, NEW t \in timers, CheckTimeout(t)
    PROVE  CheckInv'
<1>1. PICK c, T, k, d, U, l, p :
        /\ c = check /\ T = timers /\ k = cells /\ d = check' /\ U = timers' /\ l = cells'
        /\ p = t.cell
    OBVIOUS
<1>2. /\ k[p] = "armed" => d = [m \in DOMAIN c \ {t.node} |-> c[m]]
      /\ k[p] # "armed" => d = c
      /\ l = [k EXCEPT ![p] = "freed"] /\ U = T \ {t} /\ t \in T
    BY <1>1, Zenon DEF CheckTimeout, ExpireEntry
<1>3. Matching(c, T, k)
    BY <1>1, Zenon DEF CheckInv
<1>4. /\ k \in Seq({"armed", "met", "freed"})
      /\ T \subseteq [node : Node, cell : DOMAIN k]
      /\ \A u, v \in T : u.cell = v.cell => u = v
      /\ \A n \in DOMAIN c : k[c[n].cell] = "armed" /\ [node |-> n, cell |-> c[n].cell] \in T
      /\ \A u \in T : /\ k[u.cell] # "freed"
                      /\ k[u.cell] = "armed" => u.node \in DOMAIN c /\ c[u.node].cell = u.cell
    BY <1>3, Zenon DEF Matching
<1>5. /\ \A n \in DOMAIN c : c[n].cell \in DOMAIN k
      /\ \A n, m \in DOMAIN c : c[n].cell = c[m].cell => n = m
      /\ \A u \in T : u.cell \in DOMAIN k
    BY <1>3, EntryTimers
<1>6. p \in DOMAIN k /\ \A u \in U : u \in T /\ u.cell # p /\ u.cell \in DOMAIN k
    BY <1>1, <1>2, <1>4, <1>5
<1>7. /\ l \in Seq({"armed", "met", "freed"}) /\ DOMAIN l = DOMAIN k
      /\ \A i \in DOMAIN k : i # p => l[i] = k[i]
    BY <1>2, <1>4, <1>6
\* No entry that stays reads the flag of t.
<1>8. ASSUME NEW m \in DOMAIN d PROVE m \in DOMAIN c /\ d[m] = c[m] /\ c[m].cell # p
    <2>1. CASE k[p] = "armed"
        <3>1. t.node \in DOMAIN c /\ c[t.node].cell = p
            BY <1>1, <1>2, <1>4, <2>1, Zenon
        <3>2. m \in DOMAIN c /\ m # t.node /\ d[m] = c[m]
            BY <1>2, <2>1
        <3> QED BY <1>5, <3>1, <3>2
    <2>2. CASE k[p] # "armed"
        <3>1. d = c
            BY <1>2, <2>2
        <3>2. k[c[m].cell] = "armed"
            BY <1>4, <3>1
        <3> QED BY <2>2, <3>1, <3>2
    <2> QED BY <2>1, <2>2
<1>9. ASSUME NEW m \in DOMAIN d
      PROVE  l[d[m].cell] = "armed" /\ [node |-> m, cell |-> d[m].cell] \in U
    <2>1. m \in DOMAIN c /\ d[m] = c[m] /\ c[m].cell # p
        BY <1>8
    <2>2. k[c[m].cell] = "armed" /\ c[m].cell \in DOMAIN k
        BY <1>4, <1>5, <2>1, Zenon
    <2>3. PICK u \in T : u = [node |-> m, cell |-> c[m].cell]
        BY <1>4, <2>1, Zenon
    <2>4. u.cell # p
        BY <2>1, <2>3
    <2>5. u \in U
        BY <1>1, <1>2, <2>4
    <2>6. l[c[m].cell] = k[c[m].cell]
        BY <1>7, <2>1, <2>2, Zenon
    <2> QED BY <2>1, <2>2, <2>3, <2>5, <2>6
<1>10. ASSUME NEW u \in U
       PROVE  /\ l[u.cell] # "freed"
              /\ l[u.cell] = "armed" => u.node \in DOMAIN d /\ d[u.node].cell = u.cell
    <2>1. u \in T /\ u.cell # p /\ l[u.cell] = k[u.cell]
        BY <1>6, <1>7
    <2>2. /\ k[u.cell] # "freed"
          /\ k[u.cell] = "armed" => u.node \in DOMAIN c /\ c[u.node].cell = u.cell
        BY <1>4, <2>1, Zenon
    <2>3. ASSUME k[u.cell] = "armed" PROVE u.node \in DOMAIN d /\ d[u.node].cell = u.cell
        <3>1. u.node \in DOMAIN c /\ c[u.node].cell = u.cell
            BY <2>2, <2>3
        <3>2. CASE k[p] = "armed"
            <4>1. t.node \in DOMAIN c /\ c[t.node].cell = p
                BY <1>1, <1>2, <1>4, <3>2, Zenon
            <4>2. u.node # t.node
                BY <2>1, <3>1, <4>1, Zenon
            <4>3. d = [m \in DOMAIN c \ {t.node} |-> c[m]]
                BY <1>2, <3>2
            <4> QED BY <3>1, <4>2, <4>3
        <3>3. CASE k[p] # "armed"
            BY <1>2, <3>1, <3>3
        <3> QED BY <3>2, <3>3
    <2> QED BY <2>1, <2>2, <2>3
<1>11. U \subseteq [node : Node, cell : DOMAIN l] /\ \A u, v \in U : u.cell = v.cell => u = v
    BY <1>2, <1>4, <1>7
<1>12. Matching(d, U, l)
    BY <1>7, <1>9, <1>10, <1>11 DEF Matching
<1> QED BY <1>1, <1>12, Zenon DEF CheckInv

\* Nothing is kept over a restart.
LEMMA EmptyMatches == Matching(<<>>, {}, <<>>)
<1>1. PICK c : c = <<>>
    OBVIOUS
<1>2. DOMAIN c = {} /\ c \in Seq({"armed", "met", "freed"})
    BY <1>1
<1>3. Matching(c, {}, c)
    BY <1>2 DEF Matching
<1> QED BY <1>1, <1>3

\* The types of nodes, by which a registration or a creation goes through _check
LEMMA TypesOfNodes ==
    /\ ~(Head_ = BranchHead) /\ ~(Fork = BranchHead)
    /\ \A type \in {Fork, RpcFork, RpcDecision} : type > Decision <=> ~(type <= Decision)
BY DEF Head_, BranchHead, Fork, Decision, RpcFork, RpcDecision

\* handle_register_logger
LEMMA RegisterMatches ==
    ASSUME CheckInv, NEW s, NEW n \in Node, NEW type \in {Fork, RpcFork, RpcDecision},
           HandleRegister(s, n, type)
    PROVE  CheckInv'
<1>1. CASE type > Decision /\ n \in DOMAIN check
    <2>1. RegisterMeets(n, type)
        BY <1>1, TypesOfNodes DEF HandleRegister
    <2> QED BY <1>1, <2>1, MeetMatches DEF RegisterMeets
<1>2. CASE type > Decision /\ n \notin DOMAIN check
    <2>1. Arm(n, [type |-> type, parent |-> Parent, itime |-> 0, ptime |-> 0, cell |-> 0])
        BY <1>2, TypesOfNodes DEF HandleRegister
    <2> QED BY <1>2, <2>1, ArmMatches
<1>3. CASE type <= Decision
    <2>1. UNCHANGED checkVars
        BY <1>3, TypesOfNodes DEF HandleRegister
    <2> QED BY <2>1 DEF checkVars, CheckInv
<1> QED BY <1>1, <1>2, <1>3, TypesOfNodes

\* handle_create_logger
LEMMA CreateMatches ==
    ASSUME CheckInv, NEW s, NEW n \in Node, NEW t, NEW type, HandleCreate(s, n, t, type)
    PROVE  CheckInv'
<1>1. CASE type = BranchHead /\ n \in DOMAIN check
    BY <1>1, MeetMatches DEF HandleCreate
<1>2. CASE type = BranchHead /\ n \notin DOMAIN check
    <2>1. Arm(n, [type |-> type, parent |-> NoParent, itime |-> t, ptime |-> 0, cell |-> 0])
        BY <1>2, Zenon DEF HandleCreate
    <2> QED BY <1>2, <2>1, ArmMatches
<1>3. CASE type # BranchHead
    <2>1. UNCHANGED checkVars
        BY <1>3, Zenon DEF HandleCreate
    <2> QED BY <2>1 DEF checkVars, CheckInv
<1> QED BY <1>1, <1>2, <1>3

\* The steps that leave _check and its timers alone
LEMMA OthersMatch ==
    ASSUME CheckInv, UNCHANGED checkVars
    PROVE  CheckInv'
BY DEF checkVars, CheckInv

\* An entry of _check and its timer belong together in every reachable state.
THEOREM CheckInvariant == CenterSpec => []CheckInv
<1>1. CenterInit => CheckInv
    BY EmptyMatches DEF CenterInit, CheckInv
<1>2. ASSUME CheckInv, [CenterNext]_centerVars PROVE CheckInv'
    <2>1. ASSUME NEW s \in Server, HandleRecord(s) PROVE CheckInv'
        <3>1. ASSUME NEW n \in Node, NEW type \in {Fork, RpcFork, RpcDecision}, HandleRegister(s, n, type)
              PROVE  CheckInv'
            BY <1>2, <3>1, RegisterMatches
        <3>2. ASSUME NEW n \in Node, NEW t \in Time, NEW type \in {Head_, BranchHead, Fork},
                     HandleCreate(s, n, t, type)
              PROVE  CheckInv'
            BY <1>2, <3>2, CreateMatches
        <3>3. ASSUME NEW k \in DOMAIN index, HandleLog(s, k) \/ HandleEnd(s, k) PROVE CheckInv'
            BY <1>2, <3>3, OthersMatch DEF HandleLog, HandleEnd
        <3>4. ASSUME NEW n \in Node, HandleError(s, n) PROVE CheckInv'
            BY <1>2, <3>4, OthersMatch DEF HandleError
        <3>5. CASE HandleOffline(s)
            BY <1>2, <3>5, OthersMatch DEF HandleOffline
        <3> QED BY <2>1, <3>1, <3>2, <3>3, <3>4, <3>5, Zenon DEF HandleRecord
    <2>2. ASSUME NEW s \in Server, AddServer(s) \/ RemoveServer(s) \/ LoseServer(s) PROVE CheckInv'
        BY <1>2, <2>2, OthersMatch DEF AddServer, RemoveServer, LoseServer
    <2>3. CASE EndBatch
        BY <1>2, <2>3, OthersMatch DEF EndBatch
    <2>4. CASE Restart
        BY <2>4, EmptyMatches DEF Restart, CheckInv
    <2>5. CASE Users
        BY <1>2, <2>5, OthersMatch DEF Users
    <2>6. ASSUME NEW t \in timers, CheckTimeout(t) PROVE CheckInv'
        BY <1>2, <2>6, TimeoutMatches
    <2>7. CASE UNCHANGED centerVars
        BY <1>2, <2>7, OthersMatch DEF centerVars
    <2> QED BY <1>2, <2>1, <2>2, <2>3, <2>4, <2>5, <2>6, <2>7, Zenon DEF CenterNext
<1> QED BY <1>1, <1>2, PTL DEF CenterSpec

\* However registrations, creations, matches, timeouts and restarts follow each other, a
\* flag is freed once, by its timer and after its last use, and a timer whose flag is
\* still set finds its entry.
THEOREM TimersAlwaysMatch == CenterSpec => []TimersMatch
<1>1. CheckInv => TimersMatch
    BY Zenon DEF CheckInv, Matching, TimersMatch
<1> QED BY <1>1, CheckInvariant, PTL

-----------------------------------------------------------------------------
(* Pairs *)

IsHalf(r, n) ==
    /\ r.node = n
    /\ \/ r.op = "Register" /\ r.type > Decision
       \/ r.op = "Create" /\ r.type = BranchHead

IndexTyped(x) ==
    \A k \in DOMAIN x :
        x[k] = [type |-> x[k].type, parent |-> x[k].parent, ptime |-> x[k].ptime, at |-> x[k].at]

\* What is known of the node n when the records at H of the history h were about it,
\* c and x are _check and the index, and L are the nodes whose entries timed out:
\* one half is in _check, two have left the registration's data in the index.
NodePaired(n, H, h, x, c, L) ==
    /\ \A i \in H : h[i].op = "Create" => h[i].key.node = n
    /\ H = {} => n \notin DOMAIN c
    /\ \A i \in H : (H = {i} /\ n \notin L) =>
          /\ n \in DOMAIN c
          /\ h[i].op = "Register" => c[n].type = h[i].type /\ c[n].parent = Parent
          /\ h[i].op = "Create" =>
                /\ h[i].key = Index_Key(n, c[n].itime)
                /\ h[i].call # "handling_error" => h[i].key \in DOMAIN x
    /\ \A i, j \in H :
          (/\ H = {i, j} /\ h[i].op = "Register" /\ h[j].op = "Create"
           /\ n \notin L /\ h[j].call # "handling_error") =>
          /\ h[j].key \in DOMAIN x
          /\ x[h[j].key].type = h[i].type /\ x[h[j].key].parent = Parent

PairInv ==
    /\ \E S : handled \in Seq(S)
    /\ IndexTyped(index)
    /\ \A n \in Node : NodePaired(n, Halves(n), handled, index, check, late)

\* The index still has what it had of the node n.
IndexKept(n, x, y) ==
    \A k \in DOMAIN x : k.node = n =>
        /\ k \in DOMAIN y
        /\ y[k].type = x[k].type /\ y[k].parent = x[k].parent

\* So has _check, unless the node's entry timed out.
CheckKept(n, c, d, M) ==
    /\ n \in DOMAIN d => n \in DOMAIN c
    /\ (n \notin M /\ n \in DOMAIN c) => n \in DOMAIN d /\ d[n] = c[n]

\* A step without a half of the node n that leaves the node's entries as they are
LEMMA PairKept ==
    ASSUME NEW n, NEW H, NEW h, NEW x, NEW c, NEW L, NodePaired(n, H, h, x, c, L),
           NEW g, NEW y, NEW d, NEW M,
           \A i \in H : g[i] = h[i], L \subseteq M, IndexKept(n, x, y), CheckKept(n, c, d, M)
    PROVE  NodePaired(n, H, g, y, d, M)
<1>1. \A i \in H : g[i].op = "Create" => g[i].key.node = n
    BY Zenon DEF NodePaired
<1>2. H = {} => n \notin DOMAIN d
    BY Zenon DEF NodePaired, CheckKept
<1>3. ASSUME NEW i \in H, H = {i}, n \notin M
      PROVE  /\ n \in DOMAIN d
             /\ g[i].op = "Register" => d[n].type = g[i].type /\ d[n].parent = Parent
             /\ g[i].op = "Create" =>
                   /\ g[i].key = Index_Key(n, d[n].itime)
                   /\ g[i].call # "handling_error" => g[i].key \in DOMAIN y
    <2>1. n \notin L /\ g[i] = h[i]
        BY <1>3
    <2>2. /\ n \in DOMAIN c
          /\ h[i].op = "Register" => c[n].type = h[i].type /\ c[n].parent = Parent
          /\ h[i].op = "Create" =>
                /\ h[i].key = Index_Key(n, c[n].itime)
                /\ h[i].call # "handling_error" => h[i].key \in DOMAIN x
        BY <1>3, <2>1, Zenon DEF NodePaired
    <2>3. n \in DOMAIN d /\ d[n] = c[n]
        BY <1>3, <2>2, Zenon DEF CheckKept
    <2>4. (h[i].op = "Create" /\ h[i].call # "handling_error") => h[i].key \in DOMAIN y
        BY <1>1, <2>1, <2>2, Zenon DEF IndexKept
    <2> QED BY <2>1, <2>2, <2>3, <2>4
<1>4. ASSUME NEW i \in H, NEW j \in H, H = {i, j}, g[i].op = "Register", g[j].op = "Create",
             n \notin M, g[j].call # "handling_error"
      PROVE  /\ g[j].key \in DOMAIN y
             /\ y[g[j].key].type = g[i].type /\ y[g[j].key].parent = Parent
    <2>1. n \notin L /\ g[i] = h[i] /\ g[j] = h[j]
        BY <1>4
    <2>2. /\ h[j].key \in DOMAIN x
          /\ x[h[j].key].type = h[i].type /\ x[h[j].key].parent = Parent
        BY <1>4, <2>1, Zenon DEF NodePaired
    <2>3. h[j].key.node = n
        BY <1>1, <1>4, <2>1
    <2>4. /\ h[j].key \in DOMAIN y
          /\ y[h[j].key].type = x[h[j].key].type /\ y[h[j].key].parent = x[h[j].key].parent
        BY <2>2, <2>3, Zenon DEF IndexKept
    <2> QED BY <2>1, <2>2, <2>4
<1> QED BY <1>1, <1>2, <1>3, <1>4, Zenon DEF NodePaired

\* Another record comes into the history.
LEMMA HistoryGrows ==
    ASSUME \E S : handled \in Seq(S), NEW r, handled' = Append(handled, r),
           NEW p, p = Len(handled) + 1
    PROVE  /\ \E S : handled' \in Seq(S)
           /\ \A n : /\ p \notin Halves(n)
                     /\ IsHalf(r, n) => Halves(n)' = Halves(n) \cup {p}
                     /\ ~IsHalf(r, n) => Halves(n)' = Halves(n)
                     /\ \A i \in Halves(n) : handled'[i] = handled[i]
           /\ handled'[p] = r
<1>1. PICK S : handled \in Seq(S)
    OBVIOUS
<1>2. PICK h, g : h = handled /\ g = handled'
    OBVIOUS
<1>3. h \in Seq(S \cup {r})
    BY <1>1, <1>2
<1>4. /\ g \in Seq(S \cup {r}) /\ DOMAIN g = DOMAIN h \cup {p}
      /\ p \notin DOMAIN h /\ g[p] = r
      /\ \A i \in DOMAIN h : g[i] = h[i]
    BY <1>2, <1>3
<1>5. \A n : Halves(n) = {i \in DOMAIN h : IsHalf(h[i], n)}
    BY <1>2, Zenon DEF Halves, IsHalf
<1>6. \A n : Halves(n)' = {i \in DOMAIN g : IsHalf(g[i], n)}
    BY <1>2, Zenon DEF Halves, IsHalf
<1>7. ASSUME NEW n
      PROVE  /\ p \notin Halves(n)
             /\ IsHalf(r, n) => Halves(n)' = Halves(n) \cup {p}
             /\ ~IsHalf(r, n) => Halves(n)' = Halves(n)
             /\ \A i \in Halves(n) : handled'[i] = handled[i]
    <2>1. PICK H, G : H = Halves(n) /\ G = Halves(n)'
        OBVIOUS
    <2>2. H = {i \in DOMAIN h : IsHalf(h[i], n)} /\ G = {i \in DOMAIN g : IsHalf(g[i], n)}
        BY <1>5, <1>6, <2>1, Zenon
    <2>3. p \notin H /\ \A i \in H : g[i] = h[i]
        BY <1>4, <2>2
    <2>4. \A i : i \in G <=> i \in H \/ (i = p /\ IsHalf(r, n))
        BY <1>4, <2>2, Zenon
    <2> QED BY <1>2, <2>1, <2>3, <2>4
<1> QED BY <1>2, <1>4, <1>7

\* The first half of a node waits in _check.
LEMMA FirstHalf ==
    ASSUME NEW n, NEW H, NEW h, NEW x, NEW c, NEW L, NodePaired(n, H, h, x, c, L),
           n \notin DOMAIN c, NEW p, p \notin H,
           NEW g, NEW y, NEW d, \A i \in H : g[i] = h[i],
           g[p].op = "Create" => g[p].key.node = n,
           n \in DOMAIN d,
           g[p].op = "Register" => d[n].type = g[p].type /\ d[n].parent = Parent,
           g[p].op = "Create" =>
                /\ g[p].key = Index_Key(n, d[n].itime)
                /\ g[p].call # "handling_error" => g[p].key \in DOMAIN y
    PROVE  NodePaired(n, H \cup {p}, g, y, d, L)
<1> DEFINE G == H \cup {p}
<1>1. \A i \in G : g[i].op = "Create" => g[i].key.node = n
    BY DEF NodePaired
<1>2. G # {}
    OBVIOUS
<1>3. ASSUME NEW i \in G, G = {i} PROVE i = p
    BY <1>3
\* The other half had been in _check, unless it timed out.
<1>4. ASSUME NEW i \in G, NEW j \in G, G = {i, j}, i # j, n \notin L PROVE FALSE
    <2>1. PICK o \in H : H = {o}
        BY <1>4
    <2> QED BY <1>4, <2>1, Zenon DEF NodePaired
<1>5. ASSUME NEW i \in G, NEW j \in G, g[i].op = "Register", g[j].op = "Create" PROVE i # j
    BY <1>5
<1> HIDE DEF G
<1>6. NodePaired(n, G, g, y, d, L)
    BY <1>1, <1>2, <1>3, <1>4, <1>5, Zenon DEF NodePaired
<1> QED BY <1>6 DEF G

\* The creation at p leaves in the index y what a registration before it said ...
CreationTells(n, H, h, c, g, y, p) ==
    \A i \in H : (/\ h[i].op = "Register" /\ g[p].op = "Create" /\ g[p].call # "handling_error"
                  /\ c[n].type = h[i].type /\ c[n].parent = Parent) =>
        /\ g[p].key \in DOMAIN y
        /\ y[g[p].key].type = h[i].type /\ y[g[p].key].parent = Parent

\* ... and a registration at p what it says itself.
RegistrationTells(n, H, h, x, c, g, y, p) ==
    \A i \in H : (/\ h[i].op = "Create" /\ g[p].op = "Register"
                  /\ h[i].key \in DOMAIN x /\ h[i].key = Index_Key(n, c[n].itime)) =>
        /\ h[i].key \in DOMAIN y
        /\ y[h[i].key].type = g[p].type /\ y[h[i].key].parent = Parent

\* The second half finds the first one, and they leave their data in the index.
LEMMA SecondHalf ==
    ASSUME NEW n, NEW H, NEW h, NEW x, NEW c, NEW L, NodePaired(n, H, h, x, c, L),
           n \in DOMAIN c, NEW p, p \notin H,
           NEW g, NEW y, NEW d, \A i \in H : g[i] = h[i],
           g[p].op = "Create" => g[p].key.node = n,
           CreationTells(n, H, h, c, g, y, p), RegistrationTells(n, H, h, x, c, g, y, p)
    PROVE  NodePaired(n, H \cup {p}, g, y, d, L)
<1> DEFINE G == H \cup {p}
<1>1. \A i \in G : g[i].op = "Create" => g[i].key.node = n
    BY DEF NodePaired
<1>2. H # {}
    BY Zenon DEF NodePaired
<1>3. G # {} /\ \A i \in G : G # {i}
    BY <1>2
<1>4. ASSUME NEW i \in G, NEW j \in G, G = {i, j}, g[i].op = "Register", g[j].op = "Create",
             n \notin L, g[j].call # "handling_error"
      PROVE  /\ g[j].key \in DOMAIN y
             /\ y[g[j].key].type = g[i].type /\ y[g[j].key].parent = Parent
    <2>1. i # j
        BY <1>4
    <2>2. CASE j = p
        <3>1. H = {i} /\ i \in H /\ g[i] = h[i]
            BY <1>4, <2>1, <2>2
        <3>2. c[n].type = h[i].type /\ c[n].parent = Parent
            BY <1>4, <3>1, Zenon DEF NodePaired
        <3> QED BY <1>4, <2>2, <3>1, <3>2 DEF CreationTells
    <2>3. CASE i = p
        <3>1. H = {j} /\ j \in H /\ g[j] = h[j]
            BY <1>4, <2>1, <2>3
        <3>2. h[j].key = Index_Key(n, c[n].itime) /\ h[j].key \in DOMAIN x
            BY <1>4, <3>1, Zenon DEF NodePaired
        <3> QED BY <1>4, <2>3, <3>1, <3>2 DEF RegistrationTells
    <2>4. i = p \/ j = p
        BY <1>4
    <2> QED BY <2>2, <2>3, <2>4
<1> HIDE DEF G
<1>5. NodePaired(n, G, g, y, d, L)
    BY <1>1, <1>3, <1>4, Zenon DEF NodePaired
<1> QED BY <1>5 DEF G

\* create_logger adds at most an entry.
LEMMA CreateIndex ==
    ASSUME IndexTyped(index), NEW n, NEW t, NEW type, NEW parent, NEW ptime,
           CreateLogger(n, t, type, parent, ptime)
    PROVE  /\ IndexTyped(index') /\ \A m : IndexKept(m, index, index')
           /\ CanCreate(n, t) => /\ Index_Key(n, t) \in DOMAIN index'
                                 /\ index'[Index_Key(n, t)].type = type
                                 /\ index'[Index_Key(n, t)].parent = parent
<1>1. PICK x, y, key, v : /\ x = index /\ y = index' /\ key = Index_Key(n, t)
                          /\ v = Index_Value(type, parent, ptime)
    OBVIOUS
<1>2. v = [type |-> v.type, parent |-> v.parent, ptime |-> v.ptime, at |-> v.at]
      /\ v.type = type /\ v.parent = parent
    BY <1>1 DEF Index_Value
<1>3. CASE CanCreate(n, t)
    <2>1. y = [k \in DOMAIN x \cup {key} |-> IF k = key THEN v ELSE x[k]] /\ key \notin DOMAIN x
        BY <1>1, <1>3, Zenon DEF CreateLogger, CanCreate
    <2>2. DOMAIN y = DOMAIN x \cup {key} /\ y[key] = v /\ \A k \in DOMAIN x : y[k] = x[k]
        BY <2>1
    <2>3. IndexTyped(y)
        BY <1>1, <1>2, <2>2 DEF IndexTyped
    <2>4. \A m : IndexKept(m, x, y)
        BY <2>2 DEF IndexKept
    <2> QED BY <1>1, <1>2, <2>2, <2>3, <2>4
<1>4. CASE ~CanCreate(n, t)
    <2>1. index' = index
        BY <1>4, Zenon DEF CreateLogger
    <2> QED BY <1>4, <2>1 DEF IndexKept
<1> QED BY <1>3, <1>4

\* update_logger changes the type and the parent of an entry that is there.
LEMMA UpdateIndex ==
    ASSUME IndexTyped(index), NEW n, NEW t, NEW type, NEW parent, NEW ptime,
           UpdateLogger(n, t, type, parent, ptime)
    PROVE  /\ IndexTyped(index') /\ \A m : m # n => IndexKept(m, index, index')
           /\ Index_Key(n, t) \in DOMAIN index => /\ Index_Key(n, t) \in DOMAIN index'
                                                  /\ index'[Index_Key(n, t)].type = type
                                                  /\ index'[Index_Key(n, t)].parent = parent
<1>1. PICK x, y, key : x = index /\ y = index' /\ key = Index_Key(n, t)
    OBVIOUS
<1>2. key.node = n
    BY <1>1 DEF Index_Key
<1>3. CASE key \in DOMAIN x
    <2>1. y = [x EXCEPT ![key].type = type, ![key].parent = parent, ![key].ptime = ptime]
        BY <1>1, <1>3, Zenon DEF UpdateLogger
    <2>2. PICK o : o = x[key]
        OBVIOUS
    <2>3. o = [type |-> o.type, parent |-> o.parent, ptime |-> o.ptime, at |-> o.at]
        BY <1>1, <1>3, <2>2, Zenon DEF IndexTyped
    <2>4. PICK v : v = [type |-> type, parent |-> parent, ptime |-> ptime, at |-> o.at]
        OBVIOUS
    <2>5. DOMAIN y = DOMAIN x /\ y[key] = v /\ \A k \in DOMAIN x : k # key => y[k] = x[k]
        BY <1>3, <2>1, <2>2, <2>3, <2>4
    <2>6. v.type = type /\ v.parent = parent /\ v.ptime = ptime /\ v.at = o.at
        BY <2>4
    <2>7. IndexTyped(y)
        <3>1. \A k \in DOMAIN x : x[k] = [type |-> x[k].type, parent |-> x[k].parent,
                                           ptime |-> x[k].ptime, at |-> x[k].at]
            BY <1>1, Zenon DEF IndexTyped
        <3>2. v = [type |-> v.type, parent |-> v.parent, ptime |-> v.ptime, at |-> v.at]
            BY <2>4, <2>6, Zenon
        <3>3. ASSUME NEW k \in DOMAIN y
              PROVE  y[k] = [type |-> y[k].type, parent |-> y[k].parent, ptime |-> y[k].ptime, at |-> y[k].at]
            BY <2>5, <3>1, <3>2, Zenon
        <3> QED BY <3>3, Zenon DEF IndexTyped
    <2>8. ASSUME NEW m, m # n PROVE IndexKept(m, x, y)
        BY <1>2, <2>5, <2>8 DEF IndexKept
    <2> QED BY <1>1, <2>5, <2>6, <2>7, <2>8, <1>3
<1>4. CASE key \notin DOMAIN x
    <2>1. index' = index
        BY <1>1, <1>4, Zenon DEF UpdateLogger
    <2> QED BY <1>1, <1>4, <2>1 DEF IndexKept
<1> QED BY <1>3, <1>4

\* handle_a_log changes the place in an entry.
LEMMA PlaceIndex ==
    ASSUME IndexTyped(index), NEW k \in DOMAIN index, PlaceLog(k)
    PROVE  IndexTyped(index') /\ \A m : IndexKept(m, index, index')
<1>1. PICK x, y, p : x = index /\ y = index' /\ p = [file |-> Last(records).file, index |-> Last(records).index]
    OBVIOUS
<1>2. y = [x EXCEPT ![k].at = p]
    BY <1>1, Zenon DEF PlaceLog
<1>3. PICK o, v : o = x[k] /\ v = [o EXCEPT !.at = p]
    OBVIOUS
<1>4. \A q \in DOMAIN x : x[q] = [type |-> x[q].type, parent |-> x[q].parent,
                                   ptime |-> x[q].ptime, at |-> x[q].at]
    BY <1>1, Zenon DEF IndexTyped
<1>5. o = [type |-> o.type, parent |-> o.parent, ptime |-> o.ptime, at |-> o.at]
    BY <1>1, <1>3, <1>4, Zenon
<1>6. /\ v = [type |-> v.type, parent |-> v.parent, ptime |-> v.ptime, at |-> v.at]
      /\ v.type = o.type /\ v.parent = o.parent
    BY <1>3, <1>5
<1>7. DOMAIN y = DOMAIN x /\ y[k] = v /\ \A q \in DOMAIN x : q # k => y[q] = x[q]
    BY <1>1, <1>2, <1>3
<1>8. ASSUME NEW q \in DOMAIN y
      PROVE  y[q] = [type |-> y[q].type, parent |-> y[q].parent, ptime |-> y[q].ptime, at |-> y[q].at]
    BY <1>4, <1>6, <1>7, Zenon
<1>9. \A m : IndexKept(m, x, y)
    BY <1>3, <1>6, <1>7 DEF IndexKept
<1> QED BY <1>1, <1>8, <1>9 DEF IndexTyped

\* An entry comes into _check ...
LEMMA ArmChecks ==
    ASSUME NEW n, n \notin DOMAIN check, NEW type, NEW parent, NEW itime, NEW ptime,
           Arm(n, [type |-> type, parent |-> parent, itime |-> itime, ptime |-> ptime, cell |-> 0])
    PROVE  /\ n \in DOMAIN check' /\ check'[n].type = type /\ check'[n].parent = parent
           /\ check'[n].itime = itime
           /\ \A m : m # n => CheckKept(m, check, check', late')
           /\ late' = late
<1>1. PICK c, d, e, p : /\ c = check /\ d = check' /\ p = Len(cells) + 1
                        /\ e = [type |-> type, parent |-> parent, itime |-> itime, ptime |-> ptime, cell |-> 0]
    OBVIOUS
<1>2. PICK x : x = [e EXCEPT !.cell = p]
    OBVIOUS
<1>3. d = [m \in DOMAIN c \cup {n} |-> IF m = n THEN x ELSE c[m]] /\ late' = late
    BY <1>1, <1>2, Zenon DEF Arm
<1>4. DOMAIN d = DOMAIN c \cup {n} /\ d[n] = x /\ \A m \in DOMAIN c : m # n => d[m] = c[m]
    BY <1>3
<1>5. x.type = type /\ x.parent = parent /\ x.itime = itime
    BY <1>1, <1>2
<1>6. ASSUME NEW m, m # n, NEW M PROVE CheckKept(m, c, d, M)
    BY <1>4, <1>6 DEF CheckKept
<1> QED BY <1>1, <1>3, <1>4, <1>5, <1>6

\* ... and leaves it.
LEMMA MeetChecks ==
    ASSUME NEW n \in DOMAIN check, Meet(n)
    PROVE  /\ \A m : m # n => CheckKept(m, check, check', late')
           /\ late' = late
BY DEF Meet, CheckKept

\* The records, and which of them are halves
LEMMA RecordFields ==
    ASSUME NEW n, NEW t, NEW type, NEW call, NEW k, NEW back
    PROVE  /\ RegisterRecord(n, type).op = "Register" /\ RegisterRecord(n, type).node = n
           /\ RegisterRecord(n, type).type = type
           /\ CreateRecord(n, t, type, call).op = "Create" /\ CreateRecord(n, t, type, call).node = n
           /\ CreateRecord(n, t, type, call).type = type
           /\ CreateRecord(n, t, type, call).key = Index_Key(n, t)
           /\ CreateRecord(n, t, type, call).call = call
           /\ EndRecord(k).op = "End" /\ LogRecord(k, back).op = "Log"
           /\ ErrorRecord(n).op = "Error" /\ OfflineRecord(n).op = "Offline"
BY DEF Record, RegisterRecord, CreateRecord, EndRecord, LogRecord, ErrorRecord, OfflineRecord

\* A step with a record that is no half of the node, or with none
LEMMA RecordKept ==
    ASSUME PairInv, NEW n \in Node, NEW r, Handled(r), ~IsHalf(r, n),
           IndexKept(n, index, index'), CheckKept(n, check, check', late'), late \subseteq late'
    PROVE  NodePaired(n, Halves(n), handled, index, check, late)'
<1>1. PICK h, g, p, H : h = handled /\ g = handled' /\ p = Len(h) + 1 /\ H = Halves(n)
    OBVIOUS
<1>2. \E S : handled \in Seq(S)
    BY Zenon DEF PairInv
<1>3. handled' = Append(handled, r) /\ p = Len(handled) + 1
    BY <1>1, Zenon DEF Handled
<1>4. Halves(n)' = H /\ \A i \in H : g[i] = h[i]
    BY <1>1, <1>2, <1>3, HistoryGrows
<1>5. PICK x, y, c, d, L, M : x = index /\ y = index' /\ c = check /\ d = check' /\ L = late /\ M = late'
    OBVIOUS
<1>6. NodePaired(n, H, h, x, c, L)
    BY <1>1, <1>5, Zenon DEF PairInv
<1>7. IndexKept(n, x, y) /\ CheckKept(n, c, d, M) /\ L \subseteq M
    BY <1>5
<1>8. NodePaired(n, H, g, y, d, M)
    BY <1>4, <1>6, <1>7, PairKept
<1> QED BY <1>1, <1>4, <1>5, <1>8, Zenon

\* handle_register_logger
LEMMA RegisterPairs ==
    ASSUME PairInv, NEW s, NEW n \in Node, NEW type \in {Fork, RpcFork, RpcDecision},
           HandleRegister(s, n, type)
    PROVE  PairInv'
<1>1. PICK r : r = RegisterRecord(n, type)
    OBVIOUS
<1>2. Handled(r) /\ r.op = "Register" /\ r.node = n /\ r.type = type
    BY <1>1, RecordFields DEF HandleRegister
<1>3. PICK p : p = Len(handled) + 1
    OBVIOUS
<1>4. /\ \E S : handled' \in Seq(S)
      /\ \A m : /\ p \notin Halves(m)
                /\ IsHalf(r, m) => Halves(m)' = Halves(m) \cup {p}
                /\ \A i \in Halves(m) : handled'[i] = handled[i]
      /\ handled'[p] = r
    <2>1. \E S : handled \in Seq(S)
        BY Zenon DEF PairInv
    <2>2. handled' = Append(handled, r)
        BY <1>2 DEF Handled
    <2> QED BY <1>3, <2>1, <2>2, HistoryGrows
<1>5. \A m : IsHalf(r, m) <=> m = n /\ type > Decision
    BY <1>2 DEF IsHalf
<1>6. IndexTyped(index) /\ \A m \in Node : NodePaired(m, Halves(m), handled, index, check, late)
    BY Zenon DEF PairInv
<1>7. PICK h, g, x, y, c, d, L : /\ h = handled /\ g = handled' /\ x = index /\ y = index'
                                 /\ c = check /\ d = check' /\ L = late
    OBVIOUS
<1>8. PICK H : H = Halves(n)
    OBVIOUS
<1>9. NodePaired(n, H, h, x, c, L) /\ p \notin H /\ \A i \in H : g[i] = h[i]
    BY <1>4, <1>6, <1>7, <1>8, Zenon
<1>10. g[p].op = "Register" /\ g[p].type = type
    BY <1>2, <1>4, <1>7
<1>11. CASE type > Decision /\ n \in DOMAIN check
    <2>1. RegisterMeets(n, type)
        BY <1>11, TypesOfNodes DEF HandleRegister
    <2>2. UpdateLogger(n, check[n].itime, type, Parent, ParentTime) /\ Meet(n)
        BY <2>1 DEF RegisterMeets
    <2>3. PICK key : key = Index_Key(n, c[n].itime)
        OBVIOUS
    <2>4. /\ IndexTyped(index') /\ \A m : m # n => IndexKept(m, index, index')
          /\ key \in DOMAIN x => key \in DOMAIN y /\ y[key].type = type /\ y[key].parent = Parent
        BY <1>6, <1>7, <2>2, <2>3, UpdateIndex
    <2>5. late' = late /\ \A m : m # n => CheckKept(m, check, check', late')
        BY <1>11, <2>2, MeetChecks
    <2>6. n \in DOMAIN c
        BY <1>7, <1>11
    <2>7. NodePaired(n, H \cup {p}, g, y, d, L)
        <3>1. g[p].op # "Create"
            BY <1>10
        <3>2. CreationTells(n, H, h, c, g, y, p) /\ RegistrationTells(n, H, h, x, c, g, y, p)
            BY <1>10, <2>3, <2>4 DEF CreationTells, RegistrationTells
        <3> QED BY <1>9, <2>6, <3>1, <3>2, SecondHalf
    <2>8. Halves(n)' = H \cup {p}
        BY <1>4, <1>5, <1>8, <1>11
    <2>9. NodePaired(n, Halves(n), handled, index, check, late)'
        BY <1>7, <2>5, <2>7, <2>8, Zenon
    <2>10. ASSUME NEW m \in Node, m # n PROVE NodePaired(m, Halves(m), handled, index, check, late)'
        BY <1>2, <1>5, <2>4, <2>5, <2>10, RecordKept
    <2> QED BY <1>4, <2>4, <2>9, <2>10, Zenon DEF PairInv
<1>12. CASE type > Decision /\ n \notin DOMAIN check
    <2>1. /\ Arm(n, [type |-> type, parent |-> Parent, itime |-> 0, ptime |-> 0, cell |-> 0])
          /\ index' = index
        BY <1>12, TypesOfNodes DEF HandleRegister
    <2>2. /\ n \in DOMAIN check' /\ check'[n].type = type /\ check'[n].parent = Parent
          /\ late' = late /\ \A m : m # n => CheckKept(m, check, check', late')
        BY <1>12, <2>1, ArmChecks
    <2>3. NodePaired(n, H \cup {p}, g, y, d, L)
        <3>1. n \notin DOMAIN c /\ n \in DOMAIN d /\ d[n].type = g[p].type /\ d[n].parent = Parent
            BY <1>7, <1>10, <1>12, <2>2
        <3>2. g[p].op # "Create"
            BY <1>10
        <3> QED BY <1>9, <3>1, <3>2, FirstHalf
    <2>4. Halves(n)' = H \cup {p}
        BY <1>4, <1>5, <1>8, <1>12
    <2>5. NodePaired(n, Halves(n), handled, index, check, late)'
        BY <1>7, <2>2, <2>3, <2>4, Zenon
    <2>6. \A m : IndexKept(m, index, index')
        BY <2>1 DEF IndexKept
    <2>7. ASSUME NEW m \in Node, m # n PROVE NodePaired(m, Halves(m), handled, index, check, late)'
        BY <1>2, <1>5, <2>2, <2>6, <2>7, RecordKept
    <2>8. IndexTyped(index')
        BY <1>6, <2>1
    <2> QED BY <1>4, <2>5, <2>7, <2>8, Zenon DEF PairInv
<1>13. CASE ~(type > Decision)
    <2>1. check' = check /\ index' = index /\ late' = late
        <3>1. type <= Decision
            BY <1>13, TypesOfNodes
        <3>2. UNCHANGED <<checkVars, index>>
            BY <1>13, <3>1, TypesOfNodes DEF HandleRegister
        <3> QED BY <3>2 DEF checkVars
    <2>2. \A m : IndexKept(m, index, index') /\ CheckKept(m, check, check', late')
        BY <2>1 DEF IndexKept, CheckKept
    <2>3. ASSUME NEW m \in Node PROVE NodePaired(m, Halves(m), handled, index, check, late)'
        BY <1>2, <1>5, <1>13, <2>1, <2>2, RecordKept
    <2>4. IndexTyped(index')
        BY <1>6, <2>1
    <2> QED BY <1>4, <2>3, <2>4, Zenon DEF PairInv
<1> QED BY <1>11, <1>12, <1>13

\* handle_create_logger
LEMMA CreatePairs ==
    ASSUME PairInv, NEW s, NEW n \in Node, NEW t, NEW type, HandleCreate(s, n, t, type)
    PROVE  PairInv'
<1>1. PICK as, call : /\ as = CreatedAs(n, type)
                      /\ call = IF ~CanCreate(n, t) THEN "handling_error"
                                ELSE IF as.type = Head_ THEN "create_head_logger" ELSE "create_logger"
    OBVIOUS
<1>2. PICK r : r = CreateRecord(n, t, type, call)
    OBVIOUS
<1>3. /\ Handled(r) /\ CreateLogger(n, t, as.type, as.parent, as.ptime)
      /\ call # "handling_error" => CanCreate(n, t)
    BY <1>1, <1>2, Zenon DEF HandleCreate
<1>4. /\ r.op = "Create" /\ r.node = n /\ r.type = type /\ r.key = Index_Key(n, t) /\ r.call = call
    BY <1>2, RecordFields
<1>5. PICK p : p = Len(handled) + 1
    OBVIOUS
<1>6. /\ \E S : handled' \in Seq(S)
      /\ \A m : /\ p \notin Halves(m)
                /\ IsHalf(r, m) => Halves(m)' = Halves(m) \cup {p}
                /\ \A i \in Halves(m) : handled'[i] = handled[i]
      /\ handled'[p] = r
    <2>1. \E S : handled \in Seq(S)
        BY Zenon DEF PairInv
    <2>2. handled' = Append(handled, r)
        BY <1>3 DEF Handled
    <2> QED BY <1>5, <2>1, <2>2, HistoryGrows
<1>7. \A m : IsHalf(r, m) <=> m = n /\ type = BranchHead
    BY <1>4 DEF IsHalf
<1>8. IndexTyped(index) /\ \A m \in Node : NodePaired(m, Halves(m), handled, index, check, late)
    BY Zenon DEF PairInv
<1>9. PICK h, g, x, y, c, d, L, H : /\ h = handled /\ g = handled' /\ x = index /\ y = index'
                                    /\ c = check /\ d = check' /\ L = late /\ H = Halves(n)
    OBVIOUS
<1>10. NodePaired(n, H, h, x, c, L) /\ p \notin H /\ \A i \in H : g[i] = h[i]
    BY <1>6, <1>8, <1>9, Zenon
<1>11. PICK key : key = Index_Key(n, t)
    OBVIOUS
<1>12. g[p].op = "Create" /\ g[p].key = key /\ key.node = n /\ g[p].call = call
    BY <1>4, <1>6, <1>9, <1>11 DEF Index_Key
<1>13. /\ IndexTyped(index') /\ \A m : IndexKept(m, index, index')
       /\ CanCreate(n, t) => key \in DOMAIN y /\ y[key].type = as.type /\ y[key].parent = as.parent
    BY <1>3, <1>8, <1>9, <1>11, CreateIndex
<1>14. CASE type = BranchHead /\ n \in DOMAIN check
    <2>1. Meet(n)
        BY <1>14 DEF HandleCreate
    <2>2. late' = late /\ \A m : m # n => CheckKept(m, check, check', late')
        BY <1>14, <2>1, MeetChecks
    <2>3. as.type = c[n].type /\ as.parent = c[n].parent
        BY <1>1, <1>9, <1>14 DEF CreatedAs
    <2>4. NodePaired(n, H \cup {p}, g, y, d, L)
        <3>1. n \in DOMAIN c /\ (g[p].op = "Create" => g[p].key.node = n)
            BY <1>9, <1>12, <1>14
        <3>2. CreationTells(n, H, h, c, g, y, p) /\ RegistrationTells(n, H, h, x, c, g, y, p)
            BY <1>3, <1>12, <1>13, <2>3 DEF CreationTells, RegistrationTells
        <3> QED BY <1>10, <3>1, <3>2, SecondHalf
    <2>5. Halves(n)' = H \cup {p}
        BY <1>6, <1>7, <1>9, <1>14
    <2>6. NodePaired(n, Halves(n), handled, index, check, late)'
        BY <1>9, <2>2, <2>4, <2>5, Zenon
    <2>7. ASSUME NEW m \in Node, m # n PROVE NodePaired(m, Halves(m), handled, index, check, late)'
        BY <1>3, <1>7, <1>13, <2>2, <2>7, RecordKept
    <2> QED BY <1>6, <1>13, <2>6, <2>7, Zenon DEF PairInv
<1>15. CASE type = BranchHead /\ n \notin DOMAIN check
    <2>1. Arm(n, [type |-> type, parent |-> NoParent, itime |-> t, ptime |-> 0, cell |-> 0])
        BY <1>15, Zenon DEF HandleCreate
    <2>2. /\ n \in DOMAIN check' /\ check'[n].itime = t
          /\ late' = late /\ \A m : m # n => CheckKept(m, check, check', late')
        BY <1>15, <2>1, ArmChecks
    <2>3. NodePaired(n, H \cup {p}, g, y, d, L)
        <3>1. n \notin DOMAIN c /\ n \in DOMAIN d /\ key = Index_Key(n, d[n].itime)
            BY <1>9, <1>11, <1>15, <2>2
        <3>2. g[p].op # "Register"
            BY <1>12
        <3>3. g[p].call # "handling_error" => g[p].key \in DOMAIN y
            BY <1>3, <1>12, <1>13
        <3> QED BY <1>10, <1>12, <3>1, <3>2, <3>3, FirstHalf
    <2>4. Halves(n)' = H \cup {p}
        BY <1>6, <1>7, <1>9, <1>15
    <2>5. NodePaired(n, Halves(n), handled, index, check, late)'
        BY <1>9, <2>2, <2>3, <2>4, Zenon
    <2>6. ASSUME NEW m \in Node, m # n PROVE NodePaired(m, Halves(m), handled, index, check, late)'
        BY <1>3, <1>7, <1>13, <2>2, <2>6, RecordKept
    <2> QED BY <1>6, <1>13, <2>5, <2>6, Zenon DEF PairInv
<1>16. CASE type # BranchHead
    <2>1. check' = check /\ late' = late
        <3>1. UNCHANGED checkVars
            BY <1>16, Zenon DEF HandleCreate
        <3> QED BY <3>1 DEF checkVars
    <2>2. \A m : CheckKept(m, check, check', late')
        BY <2>1 DEF CheckKept
    <2>3. ASSUME NEW m \in Node PROVE NodePaired(m, Halves(m), handled, index, check, late)'
        BY <1>3, <1>7, <1>13, <1>16, <2>1, <2>2, RecordKept
    <2> QED BY <1>6, <1>13, <2>3, Zenon DEF PairInv
<1> QED BY <1>14, <1>15, <1>16

\* The records that are no halves
LEMMA OtherRecords ==
    ASSUME PairInv, NEW r, Handled(r), r.op \notin {"Register", "Create"},
           IndexTyped(index'), \A m : IndexKept(m, index, index'), UNCHANGED checkVars
    PROVE  PairInv'
<1>1. \A m : ~IsHalf(r, m)
    BY DEF IsHalf
<1>2. check' = check /\ late' = late
    BY DEF checkVars
<1>3. \A m : CheckKept(m, check, check', late')
    BY <1>2 DEF CheckKept
<1>4. ASSUME NEW m \in Node PROVE NodePaired(m, Halves(m), handled, index, check, late)'
    BY <1>1, <1>2, <1>3, RecordKept
<1>5. \E S : handled' \in Seq(S)
    <2>1. \E S : handled \in Seq(S)
        BY Zenon DEF PairInv
    <2>2. handled' = Append(handled, r)
        BY DEF Handled
    <2> QED BY <2>1, <2>2, HistoryGrows
<1> QED BY <1>4, <1>5, Zenon DEF PairInv

\* Timeouts and restarts, which handle no record: what they take out of _check is late.
LEMMA NoRecord ==
    ASSUME PairInv, UNCHANGED <<handled, index>>, late \subseteq late',
           \A m : CheckKept(m, check, check', late')
    PROVE  PairInv'
<1>1. ASSUME NEW n \in Node PROVE NodePaired(n, Halves(n), handled, index, check, late)'
    <2>1. PICK H, h, x, c, d, L, M : /\ H = Halves(n) /\ h = handled /\ x = index
                                     /\ c = check /\ d = check' /\ L = late /\ M = late'
        OBVIOUS
    <2>2. NodePaired(n, H, h, x, c, L) /\ Halves(n)' = H
        BY <2>1, Zenon DEF PairInv, Halves
    <2>3. IndexKept(n, x, x) /\ CheckKept(n, c, d, M) /\ L \subseteq M
        BY <2>1 DEF IndexKept
    <2>4. NodePaired(n, H, h, x, d, M)
        BY <2>2, <2>3, PairKept
    <2> QED BY <2>1, <2>2, <2>4, Zenon
<1> QED BY <1>1, Zenon DEF PairInv

\* What is known of every node's halves holds in every reachable state.
THEOREM PairInvariant == CenterSpec => []PairInv
<1>1. ASSUME CenterInit PROVE PairInv
    <2>1. handled = <<>> /\ index = <<>> /\ check = <<>>
        BY <1>1 DEF CenterInit, StorageInit
    <2>2. PICK h, x, c, L : h = handled /\ x = index /\ c = check /\ L = late
        OBVIOUS
    <2>3. h \in Seq({}) /\ DOMAIN h = {} /\ DOMAIN x = {} /\ DOMAIN c = {}
        BY <2>1, <2>2
    <2>4. \A n : Halves(n) = {}
        BY <2>2, <2>3 DEF Halves
    <2>5. \A n : NodePaired(n, {}, h, x, c, L)
        BY <2>3 DEF NodePaired
    <2>6. IndexTyped(x)
        BY <2>3 DEF IndexTyped
    <2> QED BY <2>2, <2>3, <2>4, <2>5, <2>6, Zenon DEF PairInv
<1>2. ASSUME PairInv, [CenterNext]_centerVars PROVE PairInv'
    <2> DEFINE Same == UNCHANGED <<handled, index, checkVars>>
    <2>1. ASSUME Same PROVE PairInv'
        <3>1. late' = late /\ check' = check
            BY <2>1 DEF checkVars
        <3>2. \A m : CheckKept(m, check, check', late')
            BY <3>1 DEF CheckKept
        <3> QED BY <1>2, <2>1, <3>1, <3>2, NoRecord
    <2>2. IndexTyped(index)
        BY <1>2, Zenon DEF PairInv
    <2>3. ASSUME NEW s \in Server, HandleRecord(s) PROVE PairInv'
        <3>1. ASSUME NEW n \in Node, NEW type \in {Fork, RpcFork, RpcDecision}, HandleRegister(s, n, type)
              PROVE  PairInv'
            BY <1>2, <3>1, RegisterPairs
        <3>2. ASSUME NEW n \in Node, NEW t \in Time, NEW type \in {Head_, BranchHead, Fork},
                     HandleCreate(s, n, t, type)
              PROVE  PairInv'
            BY <1>2, <3>2, CreatePairs
        <3>3. ASSUME index' = index PROVE IndexTyped(index') /\ \A m : IndexKept(m, index, index')
            BY <2>2, <3>3 DEF IndexKept
        <3>4. ASSUME NEW k \in DOMAIN index, HandleLog(s, k) PROVE PairInv'
            <4>1. PICK r : r = LogRecord(k, index[k].at)
                OBVIOUS
            <4>2. r.op = "Log" /\ Handled(r) /\ PlaceLog(k) /\ UNCHANGED checkVars
                BY <3>4, <4>1, RecordFields DEF HandleLog
            <4> QED BY <1>2, <2>2, <4>2, PlaceIndex, OtherRecords
        <3>5. ASSUME NEW k \in DOMAIN index, HandleEnd(s, k) PROVE PairInv'
            <4>1. PICK r : r = EndRecord(k)
                OBVIOUS
            <4>2. r.op = "End" /\ Handled(r) /\ UNCHANGED <<checkVars, index>>
                BY <3>5, <4>1, RecordFields DEF HandleEnd
            <4> QED BY <1>2, <3>3, <4>2, OtherRecords
        <3>6. ASSUME NEW n \in Node, HandleError(s, n) PROVE PairInv'
            <4>1. PICK r : r = ErrorRecord(n)
                OBVIOUS
            <4>2. r.op = "Error" /\ Handled(r) /\ UNCHANGED <<checkVars, index>>
                BY <3>6, <4>1, RecordFields DEF HandleError
            <4> QED BY <1>2, <3>3, <4>2, OtherRecords
        <3>7. CASE HandleOffline(s)
            <4>1. PICK r : r = OfflineRecord(s)
                OBVIOUS
            <4>2. r.op = "Offline" /\ Handled(r) /\ UNCHANGED <<checkVars, index>>
                BY <3>7, <4>1, RecordFields DEF HandleOffline
            <4> QED BY <1>2, <3>3, <4>2, OtherRecords
        <3> QED BY <2>3, <3>1, <3>2, <3>4, <3>5, <3>6, <3>7, Zenon DEF HandleRecord
    <2>4. ASSUME NEW s \in Server, AddServer(s) \/ RemoveServer(s) \/ LoseServer(s) PROVE Same
        BY <2>4 DEF AddServer, RemoveServer, LoseServer, storageVars, checkVars
    <2>5. ASSUME EndBatch PROVE Same
        BY <2>5 DEF EndBatch, checkVars
    <2>6. CASE Restart
        <3>1. check' = <<>> /\ late' = late \cup DOMAIN check /\ UNCHANGED <<handled, index>>
            BY <2>6 DEF Restart, Reopen
        <3>2. \A m : CheckKept(m, check, check', late')
            BY <3>1 DEF CheckKept
        <3> QED BY <1>2, <3>1, <3>2, NoRecord
    <2>7. ASSUME Users PROVE Same
        BY <2>7 DEF Users, GetQuerySet, QueryLog, SearchEnds, DeleteOldestFiles, checkVars
    <2>8. ASSUME NEW t \in timers, CheckTimeout(t) PROVE PairInv'
        <3>1. UNCHANGED <<handled, index>> /\ late \subseteq late'
            BY <2>8 DEF CheckTimeout, storageVars
        <3>2. \A m : CheckKept(m, check, check', late')
            BY <2>8 DEF CheckTimeout, ExpireEntry, CheckKept
        <3> QED BY <1>2, <3>1, <3>2, NoRecord
    <2>9. ASSUME UNCHANGED centerVars PROVE Same
        BY <2>9 DEF centerVars, storageVars
    <2> HIDE DEF Same
    <2> QED BY <1>2, <2>1, <2>3, <2>4, <2>5, <2>6, <2>7, <2>8, <2>9, Zenon DEF CenterNext
<1> QED BY <1>1, <1>2, PTL DEF CenterSpec

\* Whichever half of a node comes first, and whatever other nodes do, a registration and
\* a creation that met in time leave the registration's type and parent in the index.
THEOREM PairsAlwaysAgree == CenterSpec => []PairsAgree
<1>1. ASSUME PairInv PROVE PairsAgree
    <2>1. ASSUME NEW n \in Node PROVE NodePaired(n, Halves(n), handled, index, check, late)
        BY <1>1, Zenon DEF PairInv
    <2> QED BY <2>1, Zenon DEF PairsAgree, NodePaired
<1> QED BY <1>1, PairInvariant, PTL

=============================================================================
