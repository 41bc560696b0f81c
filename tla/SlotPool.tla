------------------------------ MODULE SlotPool ------------------------------
(***************************************************************************)
(* What the slot arena of the shared segment promises its clients          *)
(* (ShmManager::alloc_slot and ShmManager::free_slot), whatever structure  *)
(* keeps the free slots: a slot is in one place at a time, a process is    *)
(* given only a slot nobody holds, "exhausted" is answered only when there *)
(* is none, and a slot can be lost only with the process that had it.      *)
(***************************************************************************)
EXTENDS Integers

CONSTANTS Procs,    \* receiver processes attached to the segment
          Slots,    \* slot indices of the arena
          Refused,  \* the answer "arena exhausted"
          None      \* no answer, no slot

VARIABLES avail,  \* slots nobody holds
          out,    \* slots in the hands of the segment's clients
          grant,  \* grant[p]: the answer to p's alloc_slot() on its way back
          back    \* back[p]: the slot p is giving back in free_slot()

poolVars == <<avail, out, grant, back>>

PoolInit == /\ avail = Slots
            /\ out = {}
            /\ grant = [p \in Procs |-> None]
            /\ back = [p \in Procs |-> None]

Quiet(p) == grant[p] = None /\ back[p] = None

\* alloc_slot() decides: a slot leaves the pool for p.
Grant(p) == /\ Quiet(p)
            /\ \E s \in avail :
                 /\ avail' = avail \ {s}
                 /\ grant' = [grant EXCEPT ![p] = s]
            /\ UNCHANGED <<out, back>>

\* alloc_slot() decides that there is no slot to give.
Refuse(p) == /\ Quiet(p)
             /\ avail = {}
             /\ grant' = [grant EXCEPT ![p] = Refused]
             /\ UNCHANGED <<avail, out, back>>

\* alloc_slot() returns.
Deliver(p) == /\ grant[p] # None
              /\ out' = out \cup ({grant[p]} \ {Refused})
              /\ grant' = [grant EXCEPT ![p] = None]
              /\ UNCHANGED <<avail, back>>

\* free_slot(s) is called.
Reclaim(p) == /\ Quiet(p)
              /\ \E s \in out :
                   /\ out' = out \ {s}
                   /\ back' = [back EXCEPT ![p] = s]
              /\ UNCHANGED <<avail, grant>>

\* free_slot() puts the slot back into the pool.
Restore(p) == /\ back[p] # None
              /\ avail' = avail \cup {back[p]}
              /\ back' = [back EXCEPT ![p] = None]
              /\ UNCHANGED <<out, grant>>

\* p dies: what it was being given or giving back is lost.
Lose(p) == /\ grant' = [grant EXCEPT ![p] = None]
           /\ back' = [back EXCEPT ![p] = None]
           /\ UNCHANGED <<avail, out>>

PoolNext == \E p \in Procs : \/ Grant(p) \/ Refuse(p) \/ Deliver(p)
                             \/ Reclaim(p) \/ Restore(p) \/ Lose(p)

PoolSpec == PoolInit /\ [][PoolNext]_poolVars
=============================================================================
