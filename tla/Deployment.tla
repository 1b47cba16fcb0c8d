----------------------------- MODULE Deployment -----------------------------
(***************************************************************************)
(* From base image to judged server: the build, the start of the container *)
(* with the loading of the weights, and one of the tools on what serves.   *)
(* What a build left out comes to light, or does not, two parts later.     *)
(***************************************************************************)
EXTENDS ImageBuild, WeightLoad, ServerStart, CacheReuse

CONSTANT Cases   \* deployments and tools

\* A group of ranks is made of whole copies of the cache, and the arguments of
\* a tool are within the bounds.
ASSUME CasesAssumption ==
  /\ Cases # {}
  /\ \A c \in Cases :
       /\ c \in [tp : Nat \ {0}, dcp : 1..FourContexts,
                 tool : {"matrix", "verify", "boundary"}, fills : 0..MaxFills,
                 countsWriting : BOOLEAN, requireHit : BOOLEAN,
                 mlaStore : BOOLEAN, extraCount : BOOLEAN]
       /\ c.tp % c.dcp = 0

deployVars == <<buildVars, loadVars, startVars, reuseVars>>

DeployTypeOK ==
  /\ BuildTypeOK /\ LoadTypeOK /\ StartTypeOK
  /\ \E c \in Cases :
       \/ case = c
       \/ \E m, e \in BOOLEAN : case = [c EXCEPT !.mlaStore = m, !.extraCount = e]
  /\ ReuseTypeOK

DeployInit ==
  /\ BuildInit /\ LoadInit /\ StartInit
  /\ case = (CHOOSE c \in Cases : TRUE) /\ ReuseInit

Built == image # NoImage
Serving == vllm = "running" /\ load = "loaded"

\* A step of one part leaves the others alone.
BuildStep == BuildNext /\ UNCHANGED <<loadVars, startVars, reuseVars>>

\* A container of the image; the tool's deployment has what the image has.
ShellRuns ==
  /\ Built
  /\ ShellStep
  /\ IF shell = "begin"
     THEN \E c \in Cases :
            case' = [c EXCEPT !.mlaStore = "mla_store" \in image,
                              !.extraCount = "extra_count" \in image]
     ELSE UNCHANGED case
  /\ UNCHANGED <<buildVars, loadVars, at, doing, expected, results, verdict, cacheVars>>

DaemonRuns ==
  /\ Announce \/ DaemonDies
  /\ UNCHANGED <<buildVars, loadVars, reuseVars>>

\* Bound: a signal comes before the tool begins.
SignalSent ==
  /\ Built /\ Signal /\ doing = "start"
  /\ UNCHANGED <<buildVars, loadVars, reuseVars>>

WeightsRead ==
  /\ vllm = "running" /\ LoadNext
  /\ UNCHANGED <<buildVars, startVars, reuseVars>>

\* vLLM ends when its weights could not be loaded.
LoadFails ==
  /\ load \in {"raised", "aborted"} /\ VllmExits
  /\ UNCHANGED <<buildVars, loadVars, reuseVars>>

ToolBegins ==
  /\ Serving /\ Begun(daemon = "running")
  /\ UNCHANGED <<buildVars, loadVars, startVars>>

ToolRuns ==
  /\ Serving /\ ReuseStep
  /\ UNCHANGED <<buildVars, loadVars, startVars>>

DeployNext ==
  \/ BuildStep \/ ShellRuns \/ DaemonRuns \/ SignalSent
  \/ WeightsRead \/ LoadFails \/ ToolBegins \/ ToolRuns

\* Some step is taken while one can be: nothing is assumed of which.
DeploySpec == DeployInit /\ [][DeployNext]_deployVars /\ WF_deployVars(DeployNext)

-----------------------------------------------------------------------------
\* Every attempt comes to an end: the build stops, the shell exits, or the tool
\* has its verdict -- an image with something missing, a daemon that never gets
\* ready and a count that is never reached included.
Ended == line = "failed" \/ shell \in {"exited", "killed"} \/ verdict # "none"

Finishes == <>Ended
=============================================================================
