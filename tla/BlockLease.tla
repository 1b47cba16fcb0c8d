------------------------------ MODULE BlockLease ------------------------------
(***************************************************************************)
(* What the engine and LMCache together promise about the GPU blocks of a  *)
(* request: the blocks are leased while the request lives, asynchronous    *)
(* copies read them, and the lease ends only when no copy is reading.      *)
(***************************************************************************)
CONSTANTS Requests, Transfers

VARIABLES held, \* requests whose blocks the scheduler has not returned
          used, \* requests that have ever held blocks
          reads \* copies in progress, as <<request, transfer>> pairs

leaseVars == <<held, used, reads>>

LeaseInit ==
    /\ held = {}
    /\ used = {}
    /\ reads = {}

\* A request is given blocks once in its life.
Acquire(r) ==
    /\ r \notin used
    /\ held' = held \cup {r}
    /\ used' = used \cup {r}
    /\ UNCHANGED reads

\* A copy may start only on blocks that are still leased.
StartRead(r, t) ==
    /\ r \in held
    /\ reads' = reads \cup {<<r, t>>}
    /\ UNCHANGED <<held, used>>

EndRead(r, t) ==
    /\ <<r, t>> \in reads
    /\ reads' = reads \ {<<r, t>>}
    /\ UNCHANGED <<held, used>>

\* The blocks go back to the pool only when nothing reads them.
Release(r) ==
    /\ r \in held
    /\ \A t \in Transfers : <<r, t>> \notin reads
    /\ held' = held \ {r}
    /\ UNCHANGED <<used, reads>>

LeaseNext ==
    \E r \in Requests :
        \/ Acquire(r)
        \/ Release(r)
        \/ \E t \in Transfers : StartRead(r, t) \/ EndRead(r, t)

LeaseSpec == LeaseInit /\ [][LeaseNext]_leaseVars
================================================================================
