---------------------------- MODULE JobLifecycle ----------------------------
(***************************************************************************)
(* What the job registry promises about one job, whatever the interleaving *)
(* of its task, job_cancel, job_get and eviction: it resolves once, every  *)
(* report is its state at one instant, and a completion ping is emitted at *)
(* most once and only for a job that landed its own outcome.               *)
(***************************************************************************)
EXTENDS Naturals

CONSTANT Ids

VARIABLES state,   \* the job's state, "absent" before its submit
          told,    \* the last state a caller was shown, "nothing" before
          pings    \* completion pings emitted so far

lcVars == <<state, told, pings>>

Landed == {"Done", "Failed"}
Terminal == Landed \cup {"Canceled"}

Init == /\ state = [j \in Ids |-> "absent"]
        /\ told = [j \in Ids |-> "nothing"]
        /\ pings = [j \in Ids |-> 0]

Submit(j) == /\ state[j] = "absent"
             /\ state' = [state EXCEPT ![j] = "Running"]
             /\ UNCHANGED <<told, pings>>

Resolve(j, s) == /\ state[j] = "Running"
                 /\ state' = [state EXCEPT ![j] = s]
                 /\ UNCHANGED <<told, pings>>

\* A report shows the state the job has at that instant.
Report(j) == /\ state[j] # "absent"
             /\ told' = [told EXCEPT ![j] = state[j]]
             /\ UNCHANGED <<state, pings>>

\* job_cancel resolves the job and reports it in one step.
CancelAndReport(j) == /\ state[j] = "Running"
                      /\ state' = [state EXCEPT ![j] = "Canceled"]
                      /\ told' = [told EXCEPT ![j] = "Canceled"]
                      /\ UNCHANGED pings

Ping(j) == /\ state[j] \in Landed
           /\ pings[j] = 0
           /\ pings' = [pings EXCEPT ![j] = 1]
           /\ UNCHANGED <<state, told>>

Next == \E j \in Ids :
          \/ Submit(j)
          \/ \E s \in Landed : Resolve(j, s)
          \/ Report(j)
          \/ CancelAndReport(j)
          \/ Ping(j)

Spec == Init /\ [][Next]_lcVars
=============================================================================
