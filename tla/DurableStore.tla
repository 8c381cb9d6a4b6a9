------------------------------ MODULE DurableStore ------------------------------
(***************************************************************************)
(* What the storage engine promises the code that writes to it, as db.h    *)
(* and options.h describe it: writes become visible in groups, a write     *)
(* never disappears while the database is open, and a crash may take back  *)
(* only what was not promised.  A write whose call failed, or whose caller *)
(* died with it, may turn up after a crash or not at all.                  *)
(***************************************************************************)
EXTENDS Naturals

CONSTANT Calls          \* the write calls, each made at most once

VARIABLES issued,       \* the calls made
          visible,      \* the calls whose write a read finds
          promised,     \* the synchronous calls answered without an error
          restarts      \* how often the database stopped, closed or crashed

store == <<issued, visible, promised, restarts>>

Init == /\ issued = {}
        /\ visible = {}
        /\ promised = {}
        /\ restarts = 0

Issue(c) ==
  /\ c \notin issued
  /\ issued' = issued \cup {c}
  /\ UNCHANGED <<visible, promised, restarts>>

\* A group of writes appears as a whole; some of them were synchronous.
Commit(group, synced) ==
  /\ group # {}
  /\ group \subseteq issued \ visible
  /\ synced \subseteq group
  /\ visible' = visible \cup group
  /\ promised' = promised \cup synced
  /\ UNCHANGED <<issued, restarts>>

\* A stop or a crash: any writes made so far may be found afterwards, but no promised
\* one is missing.
Crash(survivors) ==
  /\ promised \subseteq survivors
  /\ survivors \subseteq issued
  /\ visible' = survivors
  /\ restarts' = restarts + 1
  /\ UNCHANGED <<issued, promised>>

Next == \/ \E c \in Calls: Issue(c)
        \/ \E group, synced \in SUBSET Calls: Commit(group, synced)
        \/ \E survivors \in SUBSET Calls: Crash(survivors)

Spec == Init /\ [][Next]_store
=================================================================================
