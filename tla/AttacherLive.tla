---------------------------- MODULE AttacherLive ----------------------------
(***************************************************************************)
(* What must eventually happen in module Attacher.  Requests fail, answers *)
(* are lost, deadlines pass, actions end in errors or not at all, droplets *)
(* are destroyed and the controller restarts, until the system becomes     *)
(* stable; whatever calls and actions that time left behind are still      *)
(* there, and the repetitions have to get past them.                       *)
(***************************************************************************)
EXTENDS Attacher

VARIABLE stable      \* the time of faults is over

liveVars == <<allVars, stable>>

LiveInit == COInit /\ stable = FALSE

\* What still happens when the system is stable: a deadline passes only for a
\* call that polls an action that has ended in an error.
Calm(c) ==
    /\ \/ HandlerProgress(c)
       \/ expired[c] /\ ApiError(c)
       \/ action[c] = "errored" /\ Expire(c)
    /\ UNCHANGED <<coVars, stable>>

Fault ==
    /\ \/ \E c \in Calls : ~expired[c] /\ ApiError(c)
       \/ \E c \in Calls : action[c] # "errored" /\ Expire(c)
       \/ Restart
       \/ \E d \in Droplets : FailEvent(d) \/ DestroyDroplet(d)
    /\ UNCHANGED <<coVars, stable>>

Finish(d) == FinishEvent(d) /\ UNCHANGED <<coVars, stable>>

Settle == ~stable /\ stable' = TRUE /\ UNCHANGED allVars

\* The orchestrator takes the answer, or repeats what it has begun.
Take(c) == COCollect(c) /\ UNCHANGED stable
Repeat(v) ==
    /\ \E c \in Calls :
        \/ phase[v] = "attaching" /\ COPublish(c, v, node[v])
        \/ phase[v] = "detaching" /\ COUnpublish(c, v)
        \/ phase[v] = "deleting" /\ CODelete(c, v)
    /\ UNCHANGED stable

LiveNext ==
    \/ \E c \in Calls : Calm(c) \/ (COStep(c) /\ UNCHANGED stable)
    \/ \E d \in Droplets : Finish(d)
    \/ ~stable /\ Fault
    \/ Settle
    \/ Finished /\ UNCHANGED stable

\* Handlers run and answers are taken.  A call has a deadline that passes (all
\* sidecars are deployed with --timeout); in the stable system actions end in
\* time.  The orchestrator repeats what it has begun.
Fairness ==
    /\ \A c \in Calls :
        /\ WF_liveVars(Calm(c)) /\ WF_liveVars(Take(c))
        /\ WF_liveVars(~stable /\ Expire(c) /\ UNCHANGED <<coVars, stable>>)
    /\ \A d \in Droplets : WF_liveVars(stable /\ Finish(d))
    /\ \A v \in Volumes : WF_liveVars(Repeat(v))

LiveSpec == LiveInit /\ [][LiveNext]_liveVars /\ Fairness

-----------------------------------------------------------------------------
(* Properties *)

\* Every call returns, also one that polls an action that ended in an error
\* or that never ends: waitAction stops at the deadline at the latest.
EveryCallReturns ==
    \A c \in Calls : Active(c) ~> pc[c] = "done"

\* In the stable system repeated calls reach their goal, whatever abandoned
\* calls and pending actions they start from: a volume that is wanted on a
\* droplet that exists is attached (or no longer wanted), one that is to be
\* detached is detached, one that is to be deleted is deleted.
VolumeSettles ==
    \A v \in Volumes :
        /\ stable /\ phase[v] = "attaching" /\ node[v] \in live
              ~> phase[v] \in {"attached", "detaching"}
        /\ stable /\ phase[v] = "detaching" ~> phase[v] = "detached"
        /\ stable /\ phase[v] = "deleting" ~> phase[v] = "deleted"

=============================================================================
