----------------------------- MODULE JobPromise -----------------------------
(***************************************************************************)
(* What the job API promises its clients, without worker rows, heartbeats, *)
(* sweeps or sentinels: a job is submitted once, is held by at most one    *)
(* process, and settles.  A process that holds a job may hand it back to   *)
(* the queue or drop it; the queue may expire a job over its holder's head,*)
(* and then only that holder can bring it back.                            *)
(***************************************************************************)
CONSTANTS Jobs, Procs, NoProc

VARIABLES
    state,   \* the status field of the job API, "absent" before submission
    holder   \* the process executing the job, or NoProc

vars == <<state, holder>>

Init ==
    /\ state = [j \in Jobs |-> "absent"]
    /\ holder = [j \in Jobs |-> NoProc]

Become(j, s, h) ==
    /\ state' = [state EXCEPT ![j] = s]
    /\ holder' = [holder EXCEPT ![j] = h]

Submit(j) == state[j] = "absent" /\ Become(j, "queued", holder[j])

Withdraw(j) == state[j] = "queued" /\ Become(j, "cancelled", holder[j])

Take(j, p) == state[j] = "queued" /\ holder[j] = NoProc /\ Become(j, "running", p)

Settle(j) ==
    /\ state[j] = "running" /\ holder[j] # NoProc
    /\ \E s \in {"succeeded", "failed", "cancelled"} : Become(j, s, NoProc)

HandBack(j) ==
    /\ state[j] \in {"running", "failed"} /\ holder[j] # NoProc
    /\ Become(j, "queued", NoProc)

Drop(j) == holder[j] # NoProc /\ Become(j, state[j], NoProc)

Expire(j) == state[j] \in {"queued", "running"} /\ Become(j, "failed", holder[j])

Next ==
    \E j \in Jobs :
        \/ Submit(j) \/ Withdraw(j) \/ Settle(j) \/ HandBack(j) \/ Drop(j) \/ Expire(j)
        \/ \E p \in Procs : Take(j, p)

Spec == Init /\ [][Next]_vars
=============================================================================
