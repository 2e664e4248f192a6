---------------------------- MODULE JobLifecycle ----------------------------
(***************************************************************************)
(* What the durable queue promises about one job, whatever the workers,    *)
(* sessions, leases and clocks do: it waits, it is run at most Budget      *)
(* times, it settles once, and a settled job never changes again until it  *)
(* is forgotten.  A job that waits always has a run left.                  *)
(***************************************************************************)
EXTENDS Naturals

CONSTANTS Jobs,      \* identifiers a producer may submit
          Budget     \* Budget[j]: how often j may be handed to a worker

VARIABLES state,     \* state[j]: where job j is in its life
          runs       \* runs[j]: how often j was handed to a worker

lifeVars == <<state, runs>>

Live == {"waiting", "running"}
Settled == {"completed", "failed"}

LifeInit ==
    /\ state = [j \in Jobs |-> "absent"]
    /\ runs = [j \in Jobs |-> 0]

Submit(j) ==
    /\ state[j] = "absent"
    /\ state' = [state EXCEPT ![j] = "waiting"]
    /\ UNCHANGED runs

\* A newer request takes the place of a waiting job.
Supersede(j, old) ==
    /\ state[j] = "absent"
    /\ state[old] = "waiting"
    /\ state' = [state EXCEPT ![j] = "waiting", ![old] = "failed"]
    /\ UNCHANGED runs

\* A worker gets a waiting job, or takes over one whose worker was lost.
Run(j) ==
    /\ state[j] \in Live
    /\ runs[j] < Budget[j]
    /\ state' = [state EXCEPT ![j] = "running"]
    /\ runs' = [runs EXCEPT ![j] = @ + 1]

GiveBack(j) ==
    /\ state[j] = "running"
    /\ runs[j] < Budget[j]
    /\ state' = [state EXCEPT ![j] = "waiting"]
    /\ UNCHANGED runs

Settle(j) ==
    /\ state[j] \in Live
    /\ \E outcome \in Settled : state' = [state EXCEPT ![j] = outcome]
    /\ UNCHANGED runs

Forget ==
    /\ \E S \in SUBSET {j \in Jobs : state[j] \in Settled} :
         state' = [j \in Jobs |-> IF j \in S THEN "forgotten" ELSE state[j]]
    /\ UNCHANGED runs

LifeNext ==
    \/ \E j \in Jobs : Submit(j) \/ Run(j) \/ GiveBack(j) \/ Settle(j)
    \/ \E j, old \in Jobs : Supersede(j, old)
    \/ Forget

LifeSpec == LifeInit /\ [][LifeNext]_lifeVars

=============================================================================
