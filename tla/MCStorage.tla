----------------------------- MODULE MCStorage -----------------------------
(***************************************************************************)
(* The parts of Base that keep bytes, the lists they are queued in, and    *)
(* the monitors that keep descriptors.  They share nothing here: a         *)
(* behaviour works on one of them, chosen at its beginning.  It ends with a *)
(* torn tree: of what is done with one afterwards nothing is claimed.       *)
(***************************************************************************)
EXTENDS RingBuffer, BufferPool, BlockCache, MCBPTree, Monitors, Lists

VARIABLE part

partVars == <<part, ringVars, poolVars, cacheVars, treeVars, monitorVars, listVars>>

PartInit ==
    /\ part \in {"ring", "pool", "cache", "tree", "monitors", "lists"}
    /\ RingInit /\ (part # "ring" => size = 0)
    /\ PoolInit /\ CacheInit /\ TreeInit /\ MonitorInit /\ ListInit

PartNext ==
    /\ UNCHANGED part
    /\ \/ /\ part = "ring" /\ RingNext
          /\ UNCHANGED <<poolVars, cacheVars, treeVars, monitorVars, listVars>>
       \/ /\ part = "pool" /\ PoolNext
          /\ UNCHANGED <<ringVars, cacheVars, treeVars, monitorVars, listVars>>
       \/ /\ part = "cache" /\ CacheNext
          /\ UNCHANGED <<ringVars, poolVars, treeVars, monitorVars, listVars>>
       \/ /\ part = "tree" /\ ~torn /\ TreeNext
          /\ UNCHANGED <<ringVars, poolVars, cacheVars, monitorVars, listVars>>
       \/ /\ part = "monitors" /\ MonitorNext
          /\ UNCHANGED <<ringVars, poolVars, cacheVars, treeVars, listVars>>
       \/ /\ part = "lists" /\ ListNext
          /\ UNCHANGED <<ringVars, poolVars, cacheVars, treeVars, monitorVars>>

PartSpec == PartInit /\ [][PartNext]_partVars

\* No action reads done; once an interest was changed or empty, nothing is asked
\* of the EPoller any more, and the other monitors do not read its state.
View ==
    CASE part = "tree" -> <<part, Shape>>
      [] part = "ring" -> <<part, buffer, size, read, write, readable>>
      [] part = "pool" -> <<part, poolVars>>
      [] part = "cache" -> <<part, cacheVars>>
      [] part = "monitors" -> <<part, IF plain THEN monitorVars ELSE <<asked, selector, poller, answers>>>>
      [] part = "lists" -> <<part, listVars>>

=============================================================================
