----------------------------- MODULE OrderedMap -----------------------------
(***************************************************************************)
(* What Base::BPTree promises (the comments of its public functions): a    *)
(* map from keys to values, whose changing functions say whether they did  *)
(* something.                                                              *)
(***************************************************************************)
EXTENDS Integers

VARIABLES
    map,         \* the pairs <<key, value>> present
    call         \* the last call: its name, its arguments and what it returned

vars == <<map, call>>

Present == {p[1] : p \in map}

Keep(S) == map' = {p \in map : p[1] \in S}

Init == map = {} /\ call.op = "init"

\* insert fails if the key is there, update and erase if it is not.
Insert(k, v) ==
    /\ call'.op = "insert"
    /\ call'.ok = (k \notin Present)
    /\ IF k \in Present THEN UNCHANGED map ELSE map' = map \cup {<<k, v>>}

Update(k, v) ==
    /\ call'.op = "update"
    /\ call'.ok = (k \in Present)
    /\ map' = {IF p[1] = k THEN <<k, v>> ELSE p : p \in map}

Erase(k) ==
    /\ call'.op = "erase"
    /\ call'.ok = (k \in Present)
    /\ Keep(Present \ {k})

\* The keys in [b, e) go.  The comment has it fail if there are none; the code
\* may say that it succeeded.
InRange(k, b, e) == b <= k /\ k < e

EraseRange(b, e) ==
    /\ call'.op = "erase_range"
    /\ (\E k \in Present : InRange(k, b, e)) => call'.ok
    /\ Keep({k \in Present : ~InRange(k, b, e)})

\* The keys next to the range go as well, some on each side of it.
EraseAround(b, e) ==
    /\ call'.op = "erase_range"
    /\ b < e /\ call'.ok
    /\ \E lo, hi \in Present :
          /\ lo < b /\ e <= hi
          /\ Keep({k \in Present : k < lo \/ k > hi})

\* Of the keys from some below the range to some above it, only some remain.
EraseSome(b, e) ==
    /\ call'.op = "erase_range"
    /\ b < e /\ call'.ok
    /\ map' \subseteq map
    /\ \E lo, hi \in Present :
          /\ lo < b /\ e <= hi
          /\ {p \in map : p[1] < lo \/ p[1] > hi} \subseteq map'

\* The call that call names, with its arguments.
Next ==
    LET k == call'.key
        x == call'.arg
    IN  Insert(k, x) \/ Update(k, x) \/ Erase(k) \/ EraseRange(k, x)

Spec == Init /\ [][Next]_vars

=============================================================================
