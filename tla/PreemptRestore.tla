---------------------------- MODULE PreemptRestore ----------------------------
(***************************************************************************)
(* Restoring a preempted request from LMCache.  The scheduler asks the     *)
(* connector how much of a preempted request is cached; the connector      *)
(* submits one asynchronous lookup, answers "wait" while it is pending and *)
(* lets the scheduler load or recompute when it is over.  One lookup may   *)
(* be active at a time, and a request is tried once in its life.           *)
(***************************************************************************)
EXTENDS Naturals, FiniteSets

CONSTANTS Requests,
          MaxPreempts   \* bound: preemptions of a request

ASSUME PreemptsAssumption == MaxPreempts \in Nat

VARIABLES status,    \* scheduler: running, preempted or gone
          preempts,  \* preemptions of each request so far
          submitted, \* _safe_preempt_submitted
          active,    \* _safe_preempt_active
          finished,  \* _safe_preempt_finished
          lookup,    \* LMCache: the lookup of each request
          tried      \* how often a lookup was submitted for each request

connectorVars == <<submitted, active, finished>>
vars == <<status, preempts, connectorVars, lookup, tried>>

TypeOK ==
    /\ status \in [Requests -> {"running", "preempted", "gone"}]
    /\ preempts \in [Requests -> 0..MaxPreempts]
    /\ submitted \subseteq Requests
    /\ active \subseteq Requests
    /\ finished \subseteq Requests
    /\ lookup \in [Requests -> {"none", "pending", "answered"}]
    /\ tried \in [Requests -> 0..1]

Init ==
    /\ status = [r \in Requests |-> "running"]
    /\ preempts = [r \in Requests |-> 0]
    /\ submitted = {} /\ active = {} /\ finished = {}
    /\ lookup = [r \in Requests |-> "none"]
    /\ tried = [r \in Requests |-> 0]

\* The scheduler takes the blocks of a running request away.
Preempt(r) ==
    /\ status[r] = "running"
    /\ preempts[r] < MaxPreempts
    /\ status' = [status EXCEPT ![r] = "preempted"]
    /\ preempts' = [preempts EXCEPT ![r] = @ + 1]
    /\ UNCHANGED <<connectorVars, lookup, tried>>

\* The request ends.  A running request may stop; a preempted one leaves only
\* when its client aborts it.  The connector's three sets are not told.
Leave(r) ==
    /\ status[r] # "gone"
    /\ status' = [status EXCEPT ![r] = "gone"]
    /\ UNCHANGED <<preempts, connectorVars, lookup, tried>>

\* LMCache answers a pending lookup, or asking for the answer raises.
Answer(r) ==
    /\ lookup[r] = "pending"
    /\ lookup' = [lookup EXCEPT ![r] = "answered"]
    /\ UNCHANGED <<status, preempts, connectorVars, tried>>

-------------------------------------------------------------------------------
(* get_num_new_matched_tokens for a preempted request. *)

\* The request was tried before: recompute.
SkipFinished(r) ==
    /\ status[r] = "preempted"
    /\ r \in finished
    /\ status' = [status EXCEPT ![r] = "running"]
    /\ UNCHANGED <<preempts, connectorVars, lookup, tried>>

Busy(r) == active # {}

\* Mutant: wait for the other restore instead of recomputing.
SkipBusyWaits(r) == UNCHANGED vars

\* Another restore is active: recompute, and stay eligible.
SkipBusy(r) ==
    /\ status[r] = "preempted"
    /\ r \notin finished \cup submitted
    /\ Busy(r)
    /\ status' = [status EXCEPT ![r] = "running"]
    /\ UNCHANGED <<preempts, connectorVars, lookup, tried>>

\* The lookup is submitted; the check in the same call finds it pending.
SubmitLookup(r) ==
    /\ status[r] = "preempted"
    /\ r \notin finished \cup submitted
    /\ ~Busy(r)
    /\ lookup' = [lookup EXCEPT ![r] = "pending"]
    /\ tried' = [tried EXCEPT ![r] = @ + 1]
    /\ submitted' = submitted \cup {r}
    /\ active' = active \cup {r}
    /\ UNCHANGED <<status, preempts, finished>>

\* Submitting raises: nothing was added yet, and the request is never tried.
SubmitFails(r) ==
    /\ status[r] = "preempted"
    /\ r \notin finished \cup submitted
    /\ ~Busy(r)
    /\ finished' = finished \cup {r}
    /\ status' = [status EXCEPT ![r] = "running"]
    /\ UNCHANGED <<preempts, submitted, active, lookup, tried>>

\* Mutants: a pending lookup counts as over (the v2 bug); the request is not
\* recorded as finished; the active entry is kept.
OverWhilePending(r) == lookup[r] # "none"
FinishForgotten(r) == finished
ReleaseKept(r) == active

\* The lookup has a final result.
Over(r) == lookup[r] = "answered"

\* The sets after a final result or an exception.
Finish(r) == finished \cup {r}
Release(r) == active \ {r}

\* A submitted request is asked again and its lookup is over.  A hit of whole
\* chunks is loaded; a miss, a misaligned hit and an exception mean recompute;
\* either way the request is resumed.
TakeResult(r) ==
    /\ status[r] = "preempted"
    /\ r \in submitted \ finished
    /\ Over(r)
    /\ submitted' = submitted \ {r}
    /\ active' = Release(r)
    /\ finished' = Finish(r)
    /\ status' = [status EXCEPT ![r] = "running"]
    /\ UNCHANGED <<preempts, lookup, tried>>

Ask(r) ==
    \/ SkipFinished(r)
    \/ SkipBusy(r)
    \/ SubmitLookup(r)
    \/ SubmitFails(r)
    \/ TakeResult(r)

Next ==
    \E r \in Requests :
        \/ Preempt(r)
        \/ Leave(r)
        \/ Ask(r)
        \/ Answer(r)

Spec == Init /\ [][Next]_vars

(* The scheduler asks again at every step for a request it keeps waiting, and *)
(* LMCache answers every lookup.  No request is obliged to leave.             *)
FairSpec ==
    /\ Spec
    /\ \A r \in Requests :
        /\ WF_vars(Ask(r))
        /\ WF_vars(Answer(r))

-------------------------------------------------------------------------------
(* Properties. *)

\* "never try this request again": a request that was looked up is waited for
\* or finished for the rest of its life, and a finished one is in neither of
\* the other sets.
OneShot ==
    \A r \in Requests :
        /\ tried[r] > 0 => r \in submitted \cup finished
        /\ r \in finished => r \notin submitted \cup active

\* A lookup is waited for, never taken for a miss: a preempted request runs
\* again only when its lookup was answered.
WaitsForAnswer ==
    \A r \in Requests : lookup[r] = "pending" => status[r] # "running"

\* A preempted request is eventually resumed or leaves.
Resumes ==
    \A r \in Requests : status[r] = "preempted" ~> status[r] # "preempted"

\* The active restore is eventually over, so that others may be restored.
GuardReopens == active # {} ~> active = {}

\* It is, unless the client aborts the request in the meantime: an aborted
\* request is never asked for again and stays in the active set.
GuardReopensUnlessAborted ==
    active # {} ~> active = {} \/ \E r \in active : status[r] = "gone"
================================================================================
