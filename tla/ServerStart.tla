----------------------------- MODULE ServerStart ----------------------------
(***************************************************************************)
(* start-v17-lmcache.sh: one shell starts the cache daemon, polls for its  *)
(* readiness line, starts vLLM and waits for it.  Its trap signals the     *)
(* daemon; by itself the trap does not end the shell.  The compose file    *)
(* puts an init in front of the shell, so a signal that comes before the   *)
(* trap is set kills it; a daemon it leaves ends with the container.       *)
(***************************************************************************)
EXTENDS Naturals

CONSTANTS ModelLengths,  \* values of MAX_MODEL_LEN to start with
          LmcacheChunk,  \* LMCACHE_CHUNK_SIZE
          MaxPolls       \* turns of the polling loop

ASSUME StartAssumption ==
  ModelLengths \subseteq Nat /\ LmcacheChunk \in Nat \ {0} /\ MaxPolls \in Nat \ {0}

VARIABLES shell,      \* where the shell is
          polls,      \* turns left, 0 when the loop is over
          daemon,     \* the cache daemon
          announced,  \* its readiness line is in the log
          vllm        \* the server the shell waits for

startVars == <<shell, polls, daemon, announced, vllm>>

StartTypeOK ==
  /\ shell \in {"begin", "untrapped", "alive", "ready", "sleep", "announce", "wait",
                "exited", "killed"}
  /\ polls \in 0..MaxPolls
  /\ daemon \in {"none", "running", "gone"}
  /\ announced \in BOOLEAN
  /\ vllm \in {"none", "running", "exited"}

StartInit ==
  /\ shell = "begin" /\ polls = MaxPolls
  /\ daemon = "none" /\ announced = FALSE
  /\ vllm = "none"

\* A variant with a trap that only signals arm.
CleanupOnSignal(d) == d

\* The trap on EXIT.
Cleanup(d) == IF d = "running" THEN "gone" ELSE d

Exit == shell' = "exited" /\ daemon' = Cleanup(daemon)

Begin(length) ==
  /\ shell = "begin"
  /\ IF length % LmcacheChunk # 0
     THEN shell' = "exited" /\ UNCHANGED daemon
     ELSE shell' = "untrapped" /\ daemon' = "running"
  /\ UNCHANGED <<polls, announced, vllm>>

SetTrap ==
  /\ shell = "untrapped"
  /\ shell' = "alive"
  /\ UNCHANGED <<polls, daemon, announced, vllm>>

\* kill -0
CheckAlive ==
  /\ shell = "alive"
  /\ IF daemon = "gone" THEN Exit ELSE shell' = "ready" /\ UNCHANGED daemon
  /\ UNCHANGED <<polls, announced, vllm>>

CheckReady ==
  /\ shell = "ready"
  /\ IF announced
     THEN shell' = "announce" /\ polls' = 0
     ELSE shell' = "sleep" /\ UNCHANGED polls
  /\ UNCHANGED <<daemon, announced, vllm>>

Sleep ==
  /\ shell = "sleep"
  /\ polls' = polls - 1
  /\ shell' = IF polls = 1 THEN "announce" ELSE "alive"
  /\ UNCHANGED <<daemon, announced, vllm>>

\* The loop may have run out: the log is asked once more.
BecameReady == announced

Launch ==
  /\ shell = "announce"
  /\ IF BecameReady
     THEN shell' = "wait" /\ vllm' = "running" /\ UNCHANGED daemon
     ELSE Exit /\ UNCHANGED vllm
  /\ UNCHANGED <<polls, announced>>

WaitEnds ==
  /\ shell = "wait" /\ vllm = "exited"
  /\ Exit
  /\ UNCHANGED <<polls, announced, vllm>>

\* SIGTERM or SIGINT, any number of them.  Without the trap the shell is killed;
\* with it the trap runs, and only a wait is cut short.
Untrapped == {"begin", "untrapped"}

Signal ==
  /\ shell \notin {"exited", "killed"}
  /\ shell' = IF shell \in Untrapped THEN "killed"
              ELSE IF shell = "wait" THEN "exited" ELSE shell
  /\ daemon' = IF shell \in Untrapped THEN daemon ELSE Cleanup(daemon)
  /\ vllm' = IF shell = "wait" THEN "exited" ELSE vllm
  /\ UNCHANGED <<polls, announced>>

\* The daemon, while the shell polls.
Announce ==
  /\ daemon = "running" /\ ~announced
  /\ announced' = TRUE
  /\ UNCHANGED <<shell, polls, daemon, vllm>>

DaemonDies ==
  /\ daemon = "running" /\ ~announced
  /\ daemon' = "gone"
  /\ UNCHANGED <<shell, polls, announced, vllm>>

VllmExits ==
  /\ vllm = "running"
  /\ vllm' = "exited"
  /\ UNCHANGED <<shell, polls, daemon, announced>>

ShellStep ==
  \/ (\E length \in ModelLengths : Begin(length))
  \/ SetTrap \/ CheckAlive \/ CheckReady \/ Sleep \/ Launch \/ WaitEnds

-----------------------------------------------------------------------------
\* Once the shell has its trap, it leaves no daemon behind however it ends -- a
\* daemon that dies or never gets ready, vLLM's exit, signals at any time and any
\* number of them -- nor does it with a bad length: the one way to leave a daemon
\* is a signal between the daemon's start and the trap.  And vLLM was not started
\* before the daemon had said it serves, whatever the polls and the signals did
\* to each other; nor by a shell that was killed.
StartIsSafe ==
  /\ shell = "exited" => daemon # "running"
  /\ vllm # "none" => announced
  /\ shell = "killed" => vllm = "none"
=============================================================================
