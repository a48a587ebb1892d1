------------------------- MODULE AttacherRefinement -------------------------
(***************************************************************************)
(* Attacher implements VolumeLifecycle, for any sets of volumes, droplets  *)
(* and call slots: every step of a handler, of the API or of the           *)
(* orchestrator is a step of the abstract specification or changes nothing *)
(* that it speaks of.  The inductive invariant of AttacherProofs says why  *)
(* an attach, detach or deletion only ever takes effect in the phase that  *)
(* allows it.                                                              *)
(***************************************************************************)
EXTENDS AttacherProofs

USE DEF Active, Waiting, Goto, Return, At

\* A step of the abstract specification, or none.
AbstractStep == [Abstract!Next]_Abstract!vars

-----------------------------------------------------------------------------
\* The initial states are initial states of the abstract specification.
LEMMA InitRefines == COInit => Abstract!Init
BY DEF COInit, Init, Abstract!Init

\* A step that changes no volume, no droplet and no belief.
LEMMA Stutters ==
    ASSUME UNCHANGED <<exists, live, attached, coVars>>
    PROVE  AbstractStep
BY DEF AbstractStep, Abstract!vars, coVars

\* A publish that is asked for, for the first time or again.
LEMMA COPublishRefines ==
    ASSUME Inv, NEW c \in Calls, NEW v \in Volumes, NEW d \in Droplets, COPublish(c, v, d)
    PROVE  AbstractStep
<1> USE DEF COPublish, Believe, Begin, apiVars
<1>1. CASE phase[v] = "detached"
    <2>1. Abstract!AskPublish(v, d)
        BY <1>1 DEF Abstract!AskPublish, Abstract!Believe
    <2>2. QED
        BY <2>1 DEF AbstractStep, Abstract!Next
<1>2. CASE phase[v] = "attaching" /\ node[v] = d
    <2>1. UNCHANGED <<exists, live, attached, coVars>>
        BY <1>2 DEF Inv, COTypeOK, TypeOK, coVars
    <2>2. QED
        BY <2>1, Stutters
<1>3. QED
    BY <1>1, <1>2

\* An unpublish that is asked for, for the first time or again.
LEMMA COUnpublishRefines ==
    ASSUME Inv, NEW c \in Calls, NEW v \in Volumes, COUnpublish(c, v)
    PROVE  AbstractStep
<1> USE DEF COUnpublish, Believe, Begin, apiVars
<1>1. CASE phase[v] \in {"attaching", "attached"}
    <2>1. Abstract!AskUnpublish(v)
        BY <1>1 DEF Abstract!AskUnpublish, Abstract!Believe
    <2>2. QED
        BY <2>1 DEF AbstractStep, Abstract!Next
<1>2. CASE phase[v] = "detaching"
    <2>1. UNCHANGED <<exists, live, attached, coVars>>
        BY <1>2 DEF Inv, COTypeOK, TypeOK, coVars
    <2>2. QED
        BY <2>1, Stutters
<1>3. QED
    BY <1>1, <1>2

\* A deletion that is asked for, for the first time or again.
LEMMA CODeleteRefines ==
    ASSUME Inv, NEW c \in Calls, NEW v \in Volumes, CODelete(c, v)
    PROVE  AbstractStep
<1>1. Abstract!AskDelete(v)
    BY DEF CODelete, Believe, Begin, apiVars, Abstract!AskDelete, Abstract!Believe
<1>2. QED
    BY <1>1 DEF AbstractStep, Abstract!Next

\* The orchestrator is told what is true: KnowledgeInv for the call it waits for.
LEMMA COCollectRefines ==
    ASSUME Inv, NEW c \in Calls, COCollect(c)
    PROVE  AbstractStep
<1> DEFINE v == req[c].vol
<1> USE DEF COCollect, Collect, Believe, apiVars
<1>1. v \in Volumes /\ req[c].op \in {"publish", "unpublish", "delete"}
    BY WaitedRequest
<1>2. CASE result[c] # "OK" \/ expired[c]
    BY <1>2, Stutters
<1>3. CASE result[c] = "OK" /\ ~expired[c]
    <2>1. Knows(c) /\ Waiting(c)
        BY <1>3 DEF Inv, KnowledgeInv
    <2>2. /\ req[c].op = "publish" => phase[v] = "attaching" /\ node[v] = req[c].node
          /\ req[c].op = "unpublish" => phase[v] = "detaching"
          /\ req[c].op = "delete" => phase[v] = "deleting"
        BY <2>1 DEF Inv, DisciplineInv
    <2>3. CASE req[c].op = "publish"
        <3>1. Abstract!ConfirmPublish(v)
            BY <1>3, <2>1, <2>2, <2>3 DEF Abstract!ConfirmPublish, Abstract!Believe, Knows
        <3>2. QED
            BY <1>1, <3>1 DEF AbstractStep, Abstract!Next
    <2>4. CASE req[c].op = "unpublish"
        <3>1. Abstract!ConfirmUnpublish(v)
            BY <1>3, <2>1, <2>2, <2>4 DEF Abstract!ConfirmUnpublish, Abstract!Believe, Knows, Clear
        <3>2. QED
            BY <1>1, <3>1 DEF AbstractStep, Abstract!Next
    <2>5. CASE req[c].op = "delete"
        <3>1. Abstract!ConfirmDelete(v)
            BY <1>3, <2>1, <2>2, <2>5 DEF Abstract!ConfirmDelete, Abstract!Believe, Knows
        <3>2. QED
            BY <1>1, <3>1 DEF AbstractStep, Abstract!Next
    <2>6. QED
        BY <1>1, <2>3, <2>4, <2>5
<1>4. QED
    BY <1>2, <1>3

-----------------------------------------------------------------------------
(* Steps of the handlers and of the API *)

\* A volume that the API attaches at once is free, wanted, and its node lives.
LEMMA PublishAttachRefines ==
    ASSUME Inv, NEW c \in Calls, PublishAttach(c), UNCHANGED coVars
    PROVE  AbstractStep
<1> DEFINE v == req[c].vol
           d == req[c].node
<1>1. /\ v \in Volumes /\ d \in Droplets /\ node[v] = d
      /\ Waiting(c) /\ req[c].op = "publish" /\ phase[v] = "attaching"
    BY WaitedRequest DEF PublishAttach, Inv, HandlerInv, DisciplineInv, PublishSteps
<1>2. CASE UNCHANGED attached
    BY <1>2, Stutters DEF PublishAttach
<1>3. CASE AttachAnswer(v, d) = "accepted" /\ attached' = [attached EXCEPT ![v] = d]
    <2>1. v \in exists /\ d \in live /\ attached[v] = None
        BY <1>1, <1>3, AttachAnswers
    <2>2. Abstract!Take(v)
        BY <1>1, <1>3, <2>1 DEF Abstract!Take, PublishAttach, coVars
    <2>3. QED
        BY <1>1, <2>2 DEF AbstractStep, Abstract!Next
<1>4. QED
    BY <1>2, <1>3 DEF PublishAttach, Accepted

\* A volume that the API detaches at once is attached to its node, and unwanted.
LEMMA UnpublishDetachRefines ==
    ASSUME Inv, NEW c \in Calls, UnpublishDetach(c), UNCHANGED coVars
    PROVE  AbstractStep
<1> DEFINE v == req[c].vol
           d == req[c].node
<1>1. /\ v \in Volumes /\ d \in Droplets /\ node[v] = d
      /\ Waiting(c) /\ req[c].op = "unpublish" /\ phase[v] = "detaching"
    BY WaitedRequest DEF UnpublishDetach, Inv, HandlerInv, DisciplineInv, UnpublishSteps
<1>2. CASE UNCHANGED attached
    BY <1>2, Stutters DEF UnpublishDetach
<1>3. CASE DetachAnswer(v, d) = "accepted" /\ attached' = [attached EXCEPT ![v] = None]
    <2>1. attached[v] = d
        BY <1>1, <1>3, DetachAnswers
    <2>2. Abstract!Drop(v)
        BY <1>1, <1>3, <2>1 DEF Abstract!Drop, UnpublishDetach, coVars
    <2>3. QED
        BY <1>1, <2>2 DEF AbstractStep, Abstract!Next
<1>4. QED
    BY <1>2, <1>3 DEF UnpublishDetach, Accepted

\* A volume is deleted while that is asked for, and when it is clear.
LEMMA DeleteVolumeRefines ==
    ASSUME Inv, NEW c \in Calls, DeleteVolume(c), UNCHANGED coVars
    PROVE  AbstractStep
<1> DEFINE v == req[c].vol
<1>1. v \in Volumes /\ Waiting(c) /\ req[c].op = "delete" /\ phase[v] = "deleting"
    BY WaitedRequest DEF DeleteVolume, Inv, HandlerInv, DisciplineInv
<1>2. CASE UNCHANGED exists
    BY <1>2, Stutters DEF DeleteVolume
<1>3. CASE exists' = exists \ {v}
    <2>1. attached[v] = None
        BY <1>1 DEF Inv, CleanWhenDetached, Clear
    <2>2. Abstract!Delete(v)
        BY <1>1, <1>3, <2>1 DEF Abstract!Delete, DeleteVolume, coVars
    <2>3. QED
        BY <1>1, <2>2 DEF AbstractStep, Abstract!Next
<1>4. QED
    BY <1>2, <1>3 DEF DeleteVolume

\* An action that completes, perhaps one that an abandoned call had started,
\* is for the node that is named, and in a phase that allows it.
LEMMA FinishEventRefines ==
    ASSUME Inv, NEW d \in Droplets, FinishEvent(d), UNCHANGED coVars
    PROVE  AbstractStep
<1> DEFINE v == event[d].vol
<1>1. /\ event[d] # NoEvent /\ v \in Volumes /\ d = node[v] /\ d \in live /\ v \in exists
    BY DEF FinishEvent, Inv, COTypeOK, TypeOK, ApiInv, OneNodeAtATime, Events
<1>2. CASE event[d].kind = "attach"
    <2>1. phase[v] \in {"attaching", "detaching"}
        BY <1>1 DEF Inv, COTypeOK, TypeOK, Phases, CleanWhenDetached, AttachedWhenPublished, Clear
    <2>2. Abstract!Take(v)
        BY <1>1, <1>2, <2>1 DEF Abstract!Take, FinishEvent, coVars
    <2>3. QED
        BY <1>1, <2>2 DEF AbstractStep, Abstract!Next
<1>3. CASE event[d].kind = "detach"
    <2>1. Abstract!Drop(v)
        BY <1>1, <1>3 DEF Abstract!Drop, FinishEvent, coVars, Inv, ApiInv
    <2>2. QED
        BY <1>1, <2>1 DEF AbstractStep, Abstract!Next
<1>4. QED
    BY <1>2, <1>3 DEF FinishEvent

\* A destroyed droplet takes its attachments along.
LEMMA DestroyDropletRefines ==
    ASSUME NEW d \in Droplets, DestroyDroplet(d), UNCHANGED coVars
    PROVE  AbstractStep
<1>1. Abstract!Destroy(d)
    BY DEF DestroyDroplet, Abstract!Destroy, coVars
<1>2. QED
    BY <1>1 DEF AbstractStep, Abstract!Next

-----------------------------------------------------------------------------
\* Every step implements an abstract step.
LEMMA NextRefines == Inv /\ [CONext]_allVars => AbstractStep
<1> SUFFICES ASSUME Inv, [CONext]_allVars PROVE AbstractStep
    OBVIOUS
<1>1. CASE \E c \in Calls : COStep(c)
    BY <1>1, COPublishRefines, COUnpublishRefines, CODeleteRefines, COCollectRefines DEF COStep
<1>2. ASSUME NEW c \in Calls, HandlerStep(c), UNCHANGED coVars PROVE AbstractStep
    <2>1. CASE PublishGetVolume(c) \/ TagResources(c) \/ CreateTag(c) \/ RetryTagResources(c)
                \/ PublishGetDroplet(c)
        BY <1>2, <2>1, Stutters DEF PublishGetVolume, TagResources, CreateTag,
            RetryTagResources, PublishGetDroplet, apiVars
    <2>2. CASE UnpublishGetVolume(c) \/ UnpublishGetDroplet(c) \/ WaitAction(c) \/ ApiError(c)
        BY <1>2, <2>2, Stutters DEF UnpublishGetVolume, UnpublishGetDroplet, WaitAction,
            ApiError, apiVars
    <2>3. QED
        BY <1>2, <2>1, <2>2, PublishAttachRefines, UnpublishDetachRefines, DeleteVolumeRefines
        DEF HandlerStep, HandlerProgress
<1>3. ASSUME NEW d \in Droplets, ApiStep(d), UNCHANGED coVars PROVE AbstractStep
    <2>1. CASE FailEvent(d)
        BY <1>3, <2>1, Stutters DEF FailEvent
    <2>2. QED
        BY <1>3, <2>1, FinishEventRefines, DestroyDropletRefines DEF ApiStep
<1>4. CASE Silent
    <2>1. CASE Restart /\ UNCHANGED coVars
        BY <2>1, Stutters DEF Restart, apiVars
    <2>2. ASSUME NEW c \in Calls, Expire(c), UNCHANGED coVars PROVE AbstractStep
        BY <2>2, Stutters DEF Expire, apiVars
    <2>3. QED
        BY <1>2, <1>3, <1>4, <2>1, <2>2 DEF Silent
<1>5. CASE UNCHANGED allVars
    BY <1>5, Stutters DEF allVars, vars, apiVars
<1>6. QED
    BY <1>1, <1>4, <1>5 DEF CONext, Finished

\* The controller, with all its requests, retries, abandoned calls and late
\* actions, implements the abstract life of a volume.
THEOREM RefinesLifecycle == COSpec => ImplementsLifecycle
<1>1. Inv /\ [CONext]_allVars => [Abstract!Next]_Abstract!vars
    BY NextRefines DEF AbstractStep
<1>2. QED
    BY <1>1, InitRefines, InvHolds, PTL DEF COSpec, ImplementsLifecycle, Abstract!Spec

=============================================================================
