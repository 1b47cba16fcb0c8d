------------------------- MODULE PreemptRestoreProofs -------------------------
(***************************************************************************)
(* Proofs about PreemptRestore for every set of requests and every number  *)
(* of preemptions.                                                         *)
(***************************************************************************)
EXTENDS PreemptRestore, TLAPS

\* A request that is waited for has a lookup and does not run; a lookup that
\* was not answered is waited for; a request without a lookup was not tried.
WaitedFor ==
    \A r \in Requests :
        /\ r \in submitted => status[r] # "running" /\ lookup[r] # "none"
        /\ lookup[r] = "pending" => r \in submitted
        /\ r \in submitted \cup active => tried[r] = 1

\* The active set is the set of the requests that are waited for, and it holds
\* one request at most: the guard of the other restores.
OneActive ==
    /\ active = submitted
    /\ \A r, s \in active : r = s

IInv ==
    /\ TypeOK
    /\ WaitedFor
    /\ OneActive
    /\ OneShot

-------------------------------------------------------------------------------
LEMMA InitIInv == Init => IInv
BY PreemptsAssumption
   DEF Init, IInv, TypeOK, WaitedFor, OneActive, OneShot

\* The scheduler and LMCache touch none of the connector's sets.
LEMMA OutsideIInv ==
    ASSUME IInv, NEW r \in Requests, Preempt(r) \/ Leave(r) \/ Answer(r)
    PROVE  IInv'
<1> USE DEF IInv, connectorVars
<1>1. CASE Preempt(r)
  <2>1. TypeOK' BY <1>1, PreemptsAssumption DEF Preempt, TypeOK
  <2>2. QED BY <1>1, <2>1
            DEF Preempt, TypeOK, WaitedFor, OneActive, OneShot
<1>2. CASE Leave(r)
  <2>1. TypeOK' BY <1>2 DEF Leave, TypeOK
  <2>2. QED BY <1>2, <2>1 DEF Leave, TypeOK, WaitedFor, OneActive, OneShot
<1>3. CASE Answer(r)
  <2>1. TypeOK' BY <1>3 DEF Answer, TypeOK
  <2>2. QED BY <1>3, <2>1 DEF Answer, TypeOK, WaitedFor, OneActive, OneShot
<1>4. QED BY <1>1, <1>2, <1>3

\* A request is resumed at once when it was tried before or when another
\* restore is active: in neither case has it a lookup that is pending.
LEMMA SkipIInv ==
    ASSUME IInv, NEW r \in Requests, SkipFinished(r) \/ SkipBusy(r)
    PROVE  IInv'
<1> USE DEF IInv, connectorVars
<1>1. r \notin submitted
  BY DEF SkipFinished, SkipBusy, OneShot
<1>2. TypeOK'
  BY DEF SkipFinished, SkipBusy, TypeOK
<1>3. WaitedFor'
  BY <1>1 DEF SkipFinished, SkipBusy, TypeOK, WaitedFor
<1>4. OneActive' /\ OneShot'
  BY DEF SkipFinished, SkipBusy, OneActive, OneShot
<1>5. QED BY <1>2, <1>3, <1>4

LEMMA SubmitIInv ==
    ASSUME IInv, NEW r \in Requests, SubmitLookup(r)
    PROVE  IInv'
<1> USE DEF IInv, SubmitLookup
<1>1. tried[r] = 0 /\ active = {} /\ submitted = {}
  BY DEF TypeOK, OneShot, OneActive, Busy
<1>2. TypeOK' BY <1>1 DEF TypeOK
<1>3. WaitedFor' BY <1>1 DEF TypeOK, WaitedFor
<1>4. OneActive' BY <1>1 DEF OneActive
<1>5. OneShot' BY <1>1 DEF TypeOK, OneShot
<1>6. QED BY <1>2, <1>3, <1>4, <1>5

LEMMA SubmitFailsIInv ==
    ASSUME IInv, NEW r \in Requests, SubmitFails(r)
    PROVE  IInv'
<1> USE DEF IInv, SubmitFails
<1>1. TypeOK' BY DEF TypeOK
<1>2. WaitedFor' BY DEF TypeOK, WaitedFor
<1>3. OneActive' BY DEF OneActive
<1>4. OneShot' BY DEF OneShot, OneActive
<1>5. QED BY <1>1, <1>2, <1>3, <1>4

\* The request moves from the waited-for set to the finished one in one step.
LEMMA TakeIInv ==
    ASSUME IInv, NEW r \in Requests, TakeResult(r)
    PROVE  IInv'
<1> USE DEF IInv, TakeResult, Release, Finish, Over
<1>1. TypeOK' BY DEF TypeOK
<1>2. WaitedFor' BY DEF TypeOK, WaitedFor
<1>3. OneActive' BY DEF OneActive
<1>4. OneShot' BY DEF OneShot, OneActive
<1>5. QED BY <1>1, <1>2, <1>3, <1>4

LEMMA StutterIInv == ASSUME IInv, UNCHANGED vars PROVE IInv'
BY DEF IInv, vars, connectorVars, TypeOK, WaitedFor, OneActive, OneShot

LEMMA StepIInv == ASSUME IInv, [Next]_vars PROVE IInv'
<1>1. CASE Next
  <2>1. PICK r \in Requests :
           Preempt(r) \/ Leave(r) \/ Ask(r) \/ Answer(r)
    BY <1>1 DEF Next
  <2>2. QED
    BY <2>1, OutsideIInv, SkipIInv, SubmitIInv, SubmitFailsIInv, TakeIInv
       DEF Ask
<1>2. CASE UNCHANGED vars BY <1>2, StutterIInv
<1>3. QED BY <1>1, <1>2

\* The invariant holds in every reachable state.
LEMMA Inductive == Spec => []IInv
<1>1. Init => IInv BY InitIInv
<1>2. IInv /\ [Next]_vars => IInv' BY StepIInv
<1>3. QED BY <1>1, <1>2, PTL DEF Spec

-------------------------------------------------------------------------------
\* Every request's place in the connector's sets is one it can have, and no
\* lookup is submitted a second time.
THEOREM RestoreTypes == Spec => []TypeOK
<1>1. IInv => TypeOK BY DEF IInv
<1>2. QED BY <1>1, Inductive, PTL

\* A request that was looked up once is waited for or finished for the rest of
\* its life, and the sets stay disjoint.
THEOREM NeverTriedAgain == Spec => []OneShot
<1>1. IInv => OneShot BY DEF IInv
<1>2. QED BY <1>1, Inductive, PTL

\* A pending lookup is never taken for a miss.
THEOREM PendingIsNoMiss == Spec => []WaitsForAnswer
<1>1. IInv => WaitsForAnswer
  BY DEF IInv, WaitedFor, WaitsForAnswer
<1>2. QED BY <1>1, Inductive, PTL

\* One restore is active at a time, and the active set is the set of the
\* requests the connector waits for.
THEOREM OneRestoreAtATime == Spec => []OneActive
<1>1. IInv => OneActive BY DEF IInv
<1>2. QED BY <1>1, Inductive, PTL

\* A finished request stays finished, is never the active one again, and its
\* lookup is over for good.
FinishedForGood ==
    [][\A r \in finished :
          /\ r \in finished' \ active'
          /\ lookup'[r] = lookup[r] /\ tried'[r] = tried[r]]_vars

\* A request recorded as finished is never eligible again, whatever the
\* scheduler and LMCache do with it afterwards.
THEOREM FinishedStays == Spec => FinishedForGood
<1>1. ASSUME IInv, IInv', [Next]_vars
      PROVE  [\A r \in finished :
                 /\ r \in finished' \ active'
                 /\ lookup'[r] = lookup[r] /\ tried'[r] = tried[r]]_vars
  <2>1. SUFFICES ASSUME Next, NEW r \in finished
                 PROVE  /\ r \in finished' \ active'
                        /\ lookup'[r] = lookup[r] /\ tried'[r] = tried[r]
    BY <1>1
  <2>2. r \in Requests /\ r \notin submitted /\ lookup[r] # "pending"
    BY <1>1 DEF IInv, TypeOK, OneShot, WaitedFor
  <2>3. r \in finished'
    BY <2>1 DEF Next, connectorVars, Preempt, Leave, Ask, Answer,
                SkipFinished, SkipBusy, SubmitLookup, SubmitFails, TakeResult,
                Finish
  <2>4. r \notin active'
    BY <1>1, <2>2, <2>3 DEF IInv, OneShot
  <2>5. PICK s \in Requests : Preempt(s) \/ Leave(s) \/ Ask(s) \/ Answer(s)
    BY <2>1 DEF Next
  <2>6. lookup'[r] = lookup[r] /\ tried'[r] = tried[r]
    BY <1>1, <2>2, <2>5
       DEF IInv, TypeOK, connectorVars, Preempt, Leave, Ask, Answer,
           SkipFinished, SkipBusy, SubmitLookup, SubmitFails, TakeResult
  <2>7. QED BY <2>3, <2>4, <2>6
<1>2. QED BY <1>1, Inductive, PTL DEF Spec, FinishedForGood
================================================================================
