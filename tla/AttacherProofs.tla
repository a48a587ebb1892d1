--------------------------- MODULE AttacherProofs ---------------------------
(***************************************************************************)
(* Proofs about Attachment and Attacher for any sets of volumes, droplets  *)
(* and call slots.  The first part is about the handlers under any caller: *)
(* RaceInv is inductive because only a goal that is reached, and so        *)
(* remembered in held, leads to an OK (Justified).  The rest is about the  *)
(* handlers driven by a disciplined orchestrator.                          *)
(* Inv is inductive: one lemma for every action shows that the action      *)
(* preserves it, with one step per conjunct the action can disturb.        *)
(* Attachments, events and beliefs change in few actions; the others only  *)
(* read the API, and what they read has to stay true until it is used      *)
(* (KnowledgeInv).                                                         *)
(***************************************************************************)
EXTENDS Attacher, TLAPS

USE DEF Active, Waiting, Goto, Return, At

-----------------------------------------------------------------------------
(* The handlers under any caller: RaceInv is an invariant of Spec *)

\* What the API's answers tell.
LEMMA AttachAnswers ==
    ASSUME NEW v, NEW d
    PROVE  LET answer == AttachAnswer(v, d) IN
           /\ answer = "accepted" => /\ v \in exists /\ d \in live
                                     /\ event[d] = NoEvent /\ attached[v] = None
           /\ AttachCode(answer) = "OK" =>
                /\ v \in exists /\ d \in live
                /\ event[d] = NoEvent /\ attached[v] # None
           /\ AttachCode(answer) \in {"OK", "Aborted", "ResourceExhausted", "Unknown"}
BY DEF AttachAnswer, AttachCode

LEMMA DetachAnswers ==
    ASSUME NEW v, NEW d
    PROVE  LET answer == DetachAnswer(v, d) IN
           /\ answer = "accepted" => /\ v \in exists /\ d \in live
                                     /\ event[d] = NoEvent /\ attached[v] = d
           /\ answer # "accepted" /\ DetachCode(answer) = "OK" =>
                v \notin exists \/ d \notin live \/ (event[d] = NoEvent /\ attached[v] # d)
           /\ answer # "accepted" => DetachCode(answer) \in {"OK", "Aborted"}
BY DEF DetachAnswer, DetachCode

\* The request of a running call.
LEMMA RunningRequest ==
    ASSUME HandlerInv, NEW c \in Calls, Active(c)
    PROVE  /\ req[c] \in Requests /\ req[c].vol \in Volumes
           /\ req[c].op # "delete" => req[c].node \in Droplets
           /\ req[c].op \in {"publish", "unpublish", "delete"}
BY DEF HandlerInv, Requests

\* An accepted action leaves the handler waiting for it or with its answer.
LEMMA AcceptedTypes ==
    ASSUME TypeOK, NEW c \in Calls, req[c].vol \in Volumes, req[c].node \in Droplets,
           NEW kind \in {"attach", "detach"}, NEW droplet \in Droplets \union {None},
           Accepted(c, kind, droplet)
    PROVE  /\ attached' \in [Volumes -> Droplets \union {None}]
           /\ event' \in [Droplets -> Events \union {NoEvent}]
           /\ action' \in [Calls -> {"none", "in-progress", "completed", "errored"}]
           /\ pc' \in [Calls -> Labels] /\ result' \in [Calls -> Codes \union {"none"}]
BY DEF Accepted, TypeOK, Events, Labels, Codes

\* Every step of a handler keeps types, and labels that fit the request.
LEMMA HandlerStepTypes ==
    ASSUME TypeOK, HandlerInv, NEW c \in Calls, HandlerStep(c)
    PROVE  TypeOK' /\ HandlerInv'
<1> USE DEF apiVars, HandlerInv, ApiSteps, TagSteps, PublishSteps, UnpublishSteps
<1>0. Track /\ Active(c)
    BY DEF HandlerStep, HandlerProgress, PublishGetVolume, TagResources, CreateTag,
       RetryTagResources, PublishGetDroplet, PublishAttach, UnpublishGetVolume,
       UnpublishGetDroplet, UnpublishDetach, DeleteVolume, WaitAction, ApiError
<1>r. /\ req[c].vol \in Volumes /\ (req[c].op # "delete" => req[c].node \in Droplets)
    BY <1>0, RunningRequest
<1>h. held' \in [Calls -> BOOLEAN]
    BY <1>0 DEF Track
<1>1. CASE PublishGetVolume(c)
    BY <1>1, <1>r, <1>h DEF PublishGetVolume, Seen, TypeOK, Labels, Codes
<1>2. CASE TagResources(c)
    BY <1>2, <1>r, <1>h DEF TagResources, TypeOK, Labels, Codes
<1>3. CASE CreateTag(c)
    BY <1>3, <1>h DEF CreateTag, AfterCreateTag, TypeOK, Labels, Codes
<1>4. CASE RetryTagResources(c)
    BY <1>4, <1>r, <1>h DEF RetryTagResources, TypeOK, Labels, Codes
<1>5. CASE PublishGetDroplet(c)
    BY <1>5, <1>h DEF PublishGetDroplet, TypeOK, Labels, Codes
<1>6. CASE PublishAttach(c)
    <2>1. /\ req[c].op = "publish" /\ action[c] = "none" /\ result[c] = "none"
          /\ UNCHANGED <<exists, live, tagExists, tagged, req, seen, expired>>
        BY <1>6 DEF PublishAttach, TypeOK
    <2>2. CASE Accepted(c, "attach", req[c].node)
        <3>1. TypeOK'
            BY <1>r, <1>h, <2>1, <2>2, AcceptedTypes DEF TypeOK
        <3>2. HandlerInv'
            BY <1>0, <2>1, <2>2 DEF Accepted, TypeOK
        <3>3. QED
            BY <3>1, <3>2
    <2>3. CASE /\ Return(c, AttachCode(AttachAnswer(req[c].vol, req[c].node)))
               /\ UNCHANGED <<attached, event, action>>
        BY <1>0, <1>h, <2>1, <2>3, AttachAnswers DEF TypeOK, Labels, Codes
    <2>4. QED
        BY <1>6, <2>2, <2>3 DEF PublishAttach
<1>7. CASE UnpublishGetVolume(c)
    BY <1>7, <1>h DEF UnpublishGetVolume, TypeOK, Labels, Codes
<1>8. CASE UnpublishGetDroplet(c)
    BY <1>8, <1>h DEF UnpublishGetDroplet, TypeOK, Labels, Codes
<1>9. CASE UnpublishDetach(c)
    <2>1. /\ req[c].op = "unpublish" /\ action[c] = "none" /\ result[c] = "none"
          /\ UNCHANGED <<exists, live, tagExists, tagged, req, seen, expired>>
        BY <1>9 DEF UnpublishDetach, TypeOK
    <2>2. CASE Accepted(c, "detach", None)
        <3>1. TypeOK'
            BY <1>r, <1>h, <2>1, <2>2, AcceptedTypes DEF TypeOK
        <3>2. HandlerInv'
            BY <1>0, <2>1, <2>2 DEF Accepted, TypeOK
        <3>3. QED
            BY <3>1, <3>2
    <2>3. CASE /\ DetachAnswer(req[c].vol, req[c].node) # "accepted"
               /\ Return(c, DetachCode(DetachAnswer(req[c].vol, req[c].node)))
               /\ UNCHANGED <<attached, event, action>>
        BY <1>0, <1>h, <2>1, <2>3, DetachAnswers DEF TypeOK, Labels, Codes
    <2>4. QED
        BY <1>9, <2>2, <2>3 DEF UnpublishDetach
<1>10. CASE DeleteVolume(c)
    <2>1. /\ exists' \subseteq exists /\ pc[c] = "DeleteVolume"
          /\ \E code \in {"OK", "Unknown"} : Return(c, code)
          /\ UNCHANGED <<live, attached, event, tagExists, tagged, req, seen, action, expired>>
        BY <1>10 DEF DeleteVolume
    <2>2. QED
        BY <1>h, <2>1 DEF TypeOK, Labels, Codes
<1>11. CASE WaitAction(c)
    BY <1>11, <1>h DEF WaitAction, TypeOK, Labels, Codes
<1>12. CASE ApiError(c)
    BY <1>12, <1>h DEF ApiError, ErrorCode, TypeOK, Labels, Codes
<1>13. QED
    BY <1>1, <1>2, <1>3, <1>4, <1>5, <1>6, <1>7, <1>8, <1>9, <1>10, <1>11, <1>12
    DEF HandlerStep, HandlerProgress

\* So does every step of the environment.
LEMMA EnvironmentTypes ==
    ASSUME TypeOK, HandlerInv,
           \/ \E c \in Calls, r \in Requests : Begin(c, r) \/ Refuse(c, r)
           \/ \E c \in Calls : Expire(c) \/ Collect(c)
           \/ Restart
           \/ \E d \in Droplets : ApiStep(d)
    PROVE  TypeOK' /\ HandlerInv'
<1> USE DEF apiVars, HandlerInv, ApiSteps, TagSteps, PublishSteps, UnpublishSteps
<1>1. ASSUME NEW c \in Calls, NEW r \in Requests, Begin(c, r)
      PROVE  TypeOK' /\ HandlerInv'
    <2>1. FirstStep(r.op) \in {"PublishGetVolume", "UnpublishGetVolume", "DeleteVolume"}
          /\ (FirstStep(r.op) = "PublishGetVolume" => r.op = "publish")
          /\ (FirstStep(r.op) = "UnpublishGetVolume" => r.op = "unpublish")
          /\ (FirstStep(r.op) = "DeleteVolume" => r.op = "delete")
        BY DEF FirstStep, Requests
    <2> HIDE DEF HandlerInv
    <2>2. TypeOK'
        BY <1>1, <2>1 DEF Begin, TypeOK, Track, Labels
    <2>3. HandlerInv'
        BY <1>1, <2>1 DEF Begin, TypeOK, HandlerInv
    <2>4. QED
        BY <2>2, <2>3
<1>2. ASSUME NEW c \in Calls, NEW r \in Requests, Refuse(c, r)
      PROVE  TypeOK' /\ HandlerInv'
    <2>2. TypeOK'
        BY <1>2 DEF Refuse, TypeOK, Track, Labels, Codes
    <2>3. HandlerInv'
        BY <1>2 DEF Refuse, TypeOK
    <2>4. QED
        BY <2>2, <2>3
<1>3. ASSUME NEW c \in Calls, Expire(c)
      PROVE  TypeOK' /\ HandlerInv'
    BY <1>3 DEF Expire, TypeOK, Track
<1>4. ASSUME NEW c \in Calls, Collect(c)
      PROVE  TypeOK' /\ HandlerInv'
    <2>2. TypeOK'
        BY <1>4 DEF Collect, TypeOK, Track, Labels
    <2>3. HandlerInv'
        BY <1>4 DEF Collect, TypeOK
    <2>4. QED
        BY <2>2, <2>3
<1>5. CASE Restart
    BY <1>5 DEF Restart, TypeOK, Track, Labels, Codes
<1>6. ASSUME NEW d \in Droplets, ApiStep(d)
      PROVE  TypeOK' /\ HandlerInv'
    <2>1. PICK status \in {"completed", "errored"} : EndEvent(d, status)
        BY <1>6 DEF ApiStep, FinishEvent, FailEvent, DestroyDroplet
    <2>2. /\ UNCHANGED <<exists, tagExists, tagged, pc, req, seen, expired, result>>
          /\ live' \subseteq live /\ Track
        BY <1>6 DEF ApiStep, FinishEvent, FailEvent, DestroyDroplet
    <2>3. attached' \in [Volumes -> Droplets \union {None}]
        BY <1>6 DEF ApiStep, FinishEvent, FailEvent, DestroyDroplet, TypeOK
    <2>4. TypeOK'
        BY <2>1, <2>2, <2>3 DEF EndEvent, TypeOK, Track
    <2>5. HandlerInv'
        BY <2>1, <2>2 DEF EndEvent, TypeOK
    <2>6. QED
        BY <2>4, <2>5
<1>7. QED
    BY <1>1, <1>2, <1>3, <1>4, <1>5, <1>6

\* What a step must not do to call c unless the goal of c is reached: a
\* completed action, an OK, and a publish past its tagging come from nowhere.
Justified(c) ==
    /\ req'[c].op = "unpublish" /\ action'[c] = "completed" =>
        Goal(c)' \/ (req'[c] = req[c] /\ action[c] = "completed")
    /\ req'[c].op \in {"unpublish", "delete"} /\ result'[c] = "OK" =>
        \/ Goal(c)'
        \/ /\ req'[c] = req[c]
           /\ result[c] = "OK" \/ (req[c].op = "unpublish" /\ action[c] = "completed")
    /\ DoTag /\ req'[c].op = "publish" /\ (pc'[c] \in PastTagging \/ result'[c] = "OK") =>
        \/ req'[c].vol \in tagged'
        \/ req'[c] = req[c] /\ (pc[c] \in PastTagging \/ result[c] = "OK")

\* A step that gives call c no unjustified success leaves it honest.
LEMMA HonestStep ==
    ASSUME RaceInv, HandlerInv', Track, tagged \subseteq tagged',
           NEW c \in Calls, Justified(c)
    PROVE  Honest(c)'
<1>1. held'[c] = (/\ pc'[c] # "idle"
                  /\ (pc[c] # "idle" /\ held[c]) \/ Goal(c)')
    BY DEF Track
<1>2. /\ action[c] # "none" => pc[c] # "idle"
      /\ result[c] # "none" => pc[c] # "idle"
      /\ action'[c] # "none" => pc'[c] # "idle"
      /\ result'[c] # "none" => pc'[c] # "idle"
    BY DEF RaceInv, HandlerInv
<1>3. Honest(c)
    BY DEF RaceInv
<1>4. Active(c)' /\ Goal(c)' => held'[c]
    BY <1>1
<1>5. req'[c].op = "unpublish" /\ action'[c] = "completed" => held'[c]
    BY <1>1, <1>2, <1>3 DEF Justified, Honest
<1>6. req'[c].op \in {"unpublish", "delete"} /\ result'[c] = "OK" => held'[c]
    BY <1>1, <1>2, <1>3 DEF Justified, Honest
<1>7. DoTag /\ req'[c].op = "publish" /\ (pc'[c] \in PastTagging \/ result'[c] = "OK")
        => req'[c].vol \in tagged'
    BY <1>3 DEF Justified, Honest
<1>8. QED
    BY <1>4, <1>5, <1>6, <1>7 DEF Honest

\* A call whose request, label, action and result stay is justified.
LEMMA StillJustified ==
    ASSUME NEW c \in Calls, pc'[c] = pc[c], req'[c] = req[c], action'[c] = action[c],
           result'[c] = result[c]
    PROVE  Justified(c)
BY DEF Justified

\* A step of one call that leaves the API's volumes, droplets and events alone.
LEMMA ReadingStep ==
    ASSUME RaceInv, NEW c \in Calls, NEW l, pc' = [pc EXCEPT ![c] = l],
           \/ UNCHANGED result
           \/ \E code : result' = [result EXCEPT ![c] = code],
           UNCHANGED <<exists, live, attached, event, req, action>>,
           TypeOK', HandlerInv', Track, tagged \subseteq tagged', Justified(c)
    PROVE  RaceInv'
<1>1. ExistenceInv'
    BY DEF RaceInv, ExistenceInv
<1>2. ASSUME NEW d \in Calls, d # c
      PROVE  Justified(d)
    <2>1. pc'[d] = pc[d] /\ result'[d] = result[d]
        BY <1>2 DEF RaceInv, TypeOK
    <2>2. QED
        BY <2>1, StillJustified
<1>3. \A d \in Calls : Honest(d)'
    BY <1>2, HonestStep
<1>4. QED
    BY <1>1, <1>3 DEF RaceInv

\* A volume that does not exist, or a droplet that does not: not attached.
LEMMA GoneIsDetached ==
    ASSUME RaceInv, NEW v \in Volumes, NEW d \in Droplets, v \notin exists \/ d \notin live
    PROVE  attached[v] # d
BY AttachmentAssumption DEF RaceInv, ExistenceInv

\* The steps that read, and those that tag: an OK of an unpublish is given for
\* a volume or a droplet that does not exist or for a completed detach, a
\* publish gets past its tagging only with a tagged volume.
LEMMA ReadingSteps ==
    ASSUME RaceInv, NEW c \in Calls,
           \/ PublishGetVolume(c) \/ TagResources(c) \/ CreateTag(c) \/ RetryTagResources(c)
           \/ PublishGetDroplet(c) \/ UnpublishGetVolume(c) \/ UnpublishGetDroplet(c)
           \/ WaitAction(c) \/ ApiError(c)
    PROVE  RaceInv'
<1> USE DEF apiVars
<1>1. TypeOK' /\ HandlerInv'
    BY HandlerStepTypes DEF RaceInv, HandlerStep, HandlerProgress
<1>2. /\ UNCHANGED <<exists, live, attached, event, req, action>> /\ tagged \subseteq tagged'
      /\ Track /\ Active(c)
      /\ \E l : pc' = [pc EXCEPT ![c] = l]
      /\ UNCHANGED result \/ \E code : result' = [result EXCEPT ![c] = code]
    BY DEF PublishGetVolume, TagResources, CreateTag, RetryTagResources, PublishGetDroplet,
       UnpublishGetVolume, UnpublishGetDroplet, WaitAction, ApiError, ApiSteps, TagSteps,
       PublishSteps, UnpublishSteps
<1>3. req'[c] = req[c] /\ action'[c] = action[c]
    BY <1>2
<1>4. /\ req[c].vol \in Volumes /\ (req[c].op # "delete" => req[c].node \in Droplets)
      /\ req[c].op \in {"publish", "unpublish", "delete"}
    BY <1>2, RunningRequest DEF RaceInv
<1>5. (req[c].op = "unpublish" /\ attached[req[c].vol] # req[c].node) => Goal(c)'
    BY <1>2 DEF Goal
<1> USE DEF RaceInv, TypeOK, HandlerInv, TagSteps, PublishSteps, UnpublishSteps, PastTagging
<1>6. Justified(c)
    <2>1. CASE PublishGetVolume(c)
        BY <1>3, <2>1 DEF Justified, PublishGetVolume
    <2>2. CASE TagResources(c)
        BY <1>3, <2>2 DEF Justified, TagResources
    <2>3. CASE CreateTag(c)
        BY <1>3, <2>3 DEF Justified, CreateTag, AfterCreateTag
    <2>4. CASE RetryTagResources(c)
        BY <1>3, <2>4 DEF Justified, RetryTagResources
    <2>5. CASE PublishGetDroplet(c)
        BY <1>3, <2>5 DEF Justified, PublishGetDroplet
    <2>6. CASE UnpublishGetVolume(c)
        <3>1. /\ req[c].op = "unpublish" /\ pc[c] = "UnpublishGetVolume" /\ result[c] = "none"
            BY <2>6 DEF UnpublishGetVolume
        <3>2. result'[c] = "OK" => Goal(c)'
            BY <1>4, <1>5, <2>6, <3>1, GoneIsDetached DEF UnpublishGetVolume
        <3>3. QED
            BY <1>3, <3>1, <3>2 DEF Justified
    <2>7. CASE UnpublishGetDroplet(c)
        <3>1. /\ req[c].op = "unpublish" /\ pc[c] = "UnpublishGetDroplet" /\ result[c] = "none"
            BY <2>7 DEF UnpublishGetDroplet
        <3>2. result'[c] = "OK" => Goal(c)'
            BY <1>4, <1>5, <2>7, <3>1, GoneIsDetached DEF UnpublishGetDroplet
        <3>3. QED
            BY <1>3, <3>1, <3>2 DEF Justified
    <2>8. CASE WaitAction(c)
        BY <1>3, <1>4, <2>8 DEF Justified, WaitAction, ActionDone, GivesUp
    <2>9. CASE ApiError(c)
        BY <1>3, <2>9 DEF Justified, ApiError, ErrorCode, ApiSteps
    <2>10. QED
        BY <2>1, <2>2, <2>3, <2>4, <2>5, <2>6, <2>7, <2>8, <2>9
<1> HIDE DEF RaceInv, TypeOK, HandlerInv, TagSteps, PublishSteps, UnpublishSteps, PastTagging
<1>7. QED
    BY <1>1, <1>2, <1>6, ReadingStep

\* The event of an action in progress.
LEMMA RunningEvent ==
    ASSUME RaceInv, NEW c \in Calls, action[c] = "in-progress"
    PROVE  /\ Active(c) /\ req[c].vol \in Volumes /\ req[c].node \in Droplets
           /\ req[c].op \in {"publish", "unpublish"}
           /\ event[req[c].node] # NoEvent /\ event[req[c].node].vol = req[c].vol
           /\ event[req[c].node].kind = IF req[c].op = "publish" THEN "attach" ELSE "detach"
<1>1. Active(c) /\ req[c].op # "delete"
    BY DEF RaceInv, HandlerInv
<1>2. /\ req[c].vol \in Volumes /\ req[c].node \in Droplets
      /\ req[c].op \in {"publish", "unpublish"}
    BY <1>1, RunningRequest DEF RaceInv
<1>3. event[req[c].node] = [kind |-> IF req[c].op = "publish" THEN "attach" ELSE "detach",
                            vol |-> req[c].vol]
    BY DEF RaceInv, ExistenceInv
<1>4. /\ event[req[c].node].vol = req[c].vol
      /\ event[req[c].node].kind = IF req[c].op = "publish" THEN "attach" ELSE "detach"
    BY <1>3
<1>5. NoEvent.vol \notin Volumes
    BY AttachmentAssumption DEF NoEvent
<1>6. QED
    BY <1>1, <1>2, <1>4, <1>5

\* An action of call c is accepted: it is its droplet's event, or done at once.
LEMMA AcceptedStep ==
    ASSUME RaceInv, NEW c \in Calls, NEW kind, NEW droplet,
           req[c].vol \in exists, req[c].vol \in Volumes, req[c].node \in live,
           req[c].node \in Droplets, event[req[c].node] = NoEvent,
           \/ req[c].op = "publish" /\ kind = "attach" /\ droplet = req[c].node
           \/ req[c].op = "unpublish" /\ kind = "detach" /\ droplet = None,
           Active(c), Accepted(c, kind, droplet),
           UNCHANGED <<exists, live, tagExists, tagged, req, seen, expired>>, Track,
           TypeOK', HandlerInv',
           DoTag /\ req[c].op = "publish" => req[c].vol \in tagged
    PROVE  RaceInv'
<1> DEFINE v == req[c].vol
           d == req[c].node
           e == [kind |-> kind, vol |-> v]
<1>1. /\ None \notin Droplets
      /\ \A x \in Calls : action[x] = "in-progress" => req[x].node \in Droplets \ {d}
    BY AttachmentAssumption, RunningEvent
<1>2. CASE /\ event' = [event EXCEPT ![d] = e] /\ UNCHANGED attached
           /\ action' = [action EXCEPT ![c] = "in-progress"] /\ Goto(c, "waitAction")
    <2>1. /\ event'[d] = e /\ \A x \in Droplets : x # d => event'[x] = event[x]
          /\ action'[c] = "in-progress" /\ \A x \in Calls : x # c => action'[x] = action[x]
          /\ pc'[c] = "waitAction" /\ \A x \in Calls : x # c => pc'[x] = pc[x]
          /\ result' = result
        BY <1>2 DEF RaceInv, TypeOK
    <2>2. \A x \in Calls : action[x] = "in-progress" => event'[req[x].node] = event[req[x].node]
        BY <1>1, <2>1
    <2>3. ExistenceInv'
        <3>1. \A x \in Calls : action'[x] = "in-progress" =>
                event'[req'[x].node] =
                    [kind |-> IF req'[x].op = "publish" THEN "attach" ELSE "detach",
                     vol |-> req'[x].vol]
            BY <2>1, <2>2 DEF RaceInv, ExistenceInv
        <3>2. /\ \A w \in Volumes : attached'[w] # None => w \in exists' /\ attached'[w] \in live'
              /\ \A x \in Droplets : event'[x] # NoEvent => x \in live'
            BY <1>2, <2>1 DEF RaceInv, ExistenceInv
        <3>3. QED
            BY <3>1, <3>2 DEF ExistenceInv
    <2>4. Justified(c)
        BY <2>1 DEF Justified, RaceInv, Honest
    <2>5. \A x \in Calls : Honest(x)'
        BY <2>1, <2>4, StillJustified, HonestStep
    <2>6. QED
        BY <2>3, <2>5 DEF RaceInv
<1>3. CASE /\ event' = [event EXCEPT ![d] = e] /\ UNCHANGED attached
           /\ Return(c, "Unknown") /\ UNCHANGED action
    <2>1. /\ event'[d] = e /\ \A x \in Droplets : x # d => event'[x] = event[x]
          /\ result'[c] = "Unknown" /\ \A x \in Calls : x # c => result'[x] = result[x]
          /\ pc'[c] = "done" /\ \A x \in Calls : x # c => pc'[x] = pc[x]
        BY <1>3 DEF RaceInv, TypeOK
    <2>2. \A x \in Calls : action[x] = "in-progress" => event'[req[x].node] = event[req[x].node]
        BY <1>1, <2>1
    <2>3. ExistenceInv'
        BY <1>3, <2>1, <2>2 DEF RaceInv, ExistenceInv
    <2>4. Justified(c)
        BY <1>3, <2>1 DEF Justified, PastTagging
    <2>5. \A x \in Calls : Honest(x)'
        BY <1>3, <2>1, <2>4, StillJustified, HonestStep
    <2>6. QED
        BY <2>3, <2>5 DEF RaceInv
<1>4. CASE /\ attached' = [attached EXCEPT ![v] = droplet] /\ Return(c, "OK")
           /\ UNCHANGED <<event, action>>
    <2>1. /\ attached'[v] = droplet /\ \A w \in Volumes : w # v => attached'[w] = attached[w]
          /\ result'[c] = "OK" /\ \A x \in Calls : x # c => result'[x] = result[x]
          /\ pc'[c] = "done" /\ \A x \in Calls : x # c => pc'[x] = pc[x]
        BY <1>4 DEF RaceInv, TypeOK
    <2>2. ExistenceInv'
        BY <1>4, <2>1 DEF RaceInv, ExistenceInv
    <2>3. req[c].op = "unpublish" => Goal(c)'
        BY <1>1, <2>1 DEF Goal
    <2>4. Justified(c)
        BY <2>1, <2>3 DEF Justified
    <2>5. \A x \in Calls : Honest(x)'
        BY <1>4, <2>1, <2>4, StillJustified, HonestStep
    <2>6. QED
        BY <2>2, <2>5 DEF RaceInv
<1>5. QED
    BY <1>2, <1>3, <1>4 DEF Accepted

\* Attach.
LEMMA PublishAttachStep ==
    ASSUME RaceInv, NEW c \in Calls, PublishAttach(c)
    PROVE  RaceInv'
<1> DEFINE answer == AttachAnswer(req[c].vol, req[c].node)
<1>1. TypeOK' /\ HandlerInv'
    BY HandlerStepTypes DEF RaceInv, HandlerStep, HandlerProgress
<1>2. /\ pc[c] = "Attach" /\ Active(c) /\ Track
      /\ UNCHANGED <<exists, live, tagExists, tagged, req, seen, expired>>
    BY DEF PublishAttach
<1>3. /\ req[c].op = "publish" /\ req[c].vol \in Volumes /\ req[c].node \in Droplets
      /\ DoTag => req[c].vol \in tagged
    <2>1. req[c].op = "publish"
        BY <1>2 DEF RaceInv, HandlerInv, PublishSteps
    <2>2. QED
        BY <1>2, <2>1, RunningRequest DEF RaceInv, Honest, PastTagging
<1>4. CASE answer = "accepted"
    BY <1>1, <1>2, <1>3, <1>4, AttachAnswers, AcceptedStep DEF PublishAttach
<1>5. CASE answer # "accepted"
    <2>1. /\ pc' = [pc EXCEPT ![c] = "done"]
          /\ result' = [result EXCEPT ![c] = AttachCode(answer)]
          /\ UNCHANGED <<attached, event, action>>
        BY <1>5 DEF PublishAttach
    <2>2. Justified(c)
        BY <1>2, <1>3 DEF Justified
    <2>3. QED
        BY <1>1, <1>2, <2>1, <2>2, ReadingStep
<1>6. QED
    BY <1>4, <1>5

\* Detach: each of the answers that are read as "already done" is true.
LEMMA UnpublishDetachStep ==
    ASSUME RaceInv, NEW c \in Calls, UnpublishDetach(c)
    PROVE  RaceInv'
<1> DEFINE answer == DetachAnswer(req[c].vol, req[c].node)
<1>1. TypeOK' /\ HandlerInv'
    BY HandlerStepTypes DEF RaceInv, HandlerStep, HandlerProgress
<1>2. /\ pc[c] = "Detach" /\ Active(c) /\ Track
      /\ UNCHANGED <<exists, live, tagExists, tagged, req, seen, expired>>
    BY DEF UnpublishDetach
<1>3. /\ req[c].op = "unpublish" /\ req[c].vol \in Volumes /\ req[c].node \in Droplets
      /\ action[c] = "none"
    <2>1. req[c].op = "unpublish" /\ action[c] = "none"
        BY <1>2 DEF RaceInv, HandlerInv, UnpublishSteps
    <2>2. QED
        BY <1>2, <2>1, RunningRequest DEF RaceInv
<1>4. CASE answer = "accepted"
    BY <1>1, <1>2, <1>3, <1>4, DetachAnswers, AcceptedStep DEF UnpublishDetach
<1>5. CASE answer # "accepted"
    <2>1. /\ pc' = [pc EXCEPT ![c] = "done"]
          /\ result' = [result EXCEPT ![c] = DetachCode(answer)]
          /\ UNCHANGED <<attached, event, action>>
        BY <1>5 DEF UnpublishDetach
    <2>2. DetachCode(answer) = "OK" => attached[req[c].vol] # req[c].node
        BY <1>3, <1>5, DetachAnswers, GoneIsDetached
    <2>3. result'[c] = "OK" => Goal(c)'
        BY <1>2, <1>3, <2>1, <2>2 DEF Goal, RaceInv, TypeOK
    <2>4. Justified(c)
        BY <1>2, <1>3, <2>1, <2>3 DEF Justified
    <2>5. QED
        BY <1>1, <1>2, <2>1, <2>4, ReadingStep
<1>6. QED
    BY <1>4, <1>5

\* DeleteVolume: only a volume that is free is deleted.
LEMMA DeleteVolumeStep ==
    ASSUME RaceInv, NEW c \in Calls, DeleteVolume(c)
    PROVE  RaceInv'
<1>1. TypeOK' /\ HandlerInv'
    BY HandlerStepTypes DEF RaceInv, HandlerStep, HandlerProgress
<1>2. /\ pc[c] = "DeleteVolume" /\ Active(c) /\ Track
      /\ UNCHANGED <<live, attached, event, tagExists, tagged, req, seen, action, expired>>
      /\ \E code : result' = [result EXCEPT ![c] = code]
      /\ pc' = [pc EXCEPT ![c] = "done"]
    BY DEF DeleteVolume
<1>3. /\ req[c].op = "delete" /\ action[c] = "none"
    BY <1>2 DEF RaceInv, HandlerInv
<1>4. /\ exists' = exists \/ (attached[req[c].vol] = None /\ exists' = exists \ {req[c].vol})
      /\ result'[c] = "OK" => req[c].vol \notin exists'
    BY <1>2 DEF DeleteVolume, DeleteAnswer, RaceInv, TypeOK
<1>5. ExistenceInv'
    BY <1>2, <1>4 DEF RaceInv, ExistenceInv
<1>6. Justified(c)
    BY <1>2, <1>3, <1>4 DEF Justified, Goal
<1>7. \A d \in Calls : d # c => pc'[d] = pc[d] /\ result'[d] = result[d]
    BY <1>2 DEF RaceInv, TypeOK
<1>8. \A d \in Calls : Honest(d)'
    BY <1>1, <1>2, <1>6, <1>7, StillJustified, HonestStep
<1>9. QED
    BY <1>1, <1>5, <1>8 DEF RaceInv

\* An action that ends: who polled it asked for it.
LEMMA EndEventStep ==
    ASSUME RaceInv, NEW d \in Droplets, NEW status \in {"completed", "errored"},
           EndEvent(d, status), live' \in {live, live \ {d}},
           UNCHANGED <<exists, tagged, pc, req, result>>, Track, TypeOK', HandlerInv',
           \A v \in Volumes : attached'[v] # None => v \in exists /\ attached'[v] \in live',
           \A c \in Calls : /\ action[c] = "in-progress" /\ req[c].node = d
                            /\ req[c].op = "unpublish" /\ status = "completed"
                            => Goal(c)'
    PROVE  RaceInv'
<1>1. /\ event'[d] = NoEvent /\ \A e \in Droplets : e # d => event'[e] = event[e]
      /\ \A c \in Calls : action'[c] = IF action[c] = "in-progress" /\ req[c].node = d
                                       THEN status ELSE action[c]
    BY DEF EndEvent, RaceInv, TypeOK
<1>2. \A e \in Droplets : event'[e] # NoEvent => e \in live'
    BY <1>1 DEF RaceInv, ExistenceInv
<1>3. ASSUME NEW c \in Calls, action'[c] = "in-progress"
      PROVE  action[c] = "in-progress" /\ event'[req'[c].node] = event[req[c].node]
    <2>1. action[c] = "in-progress" /\ req[c].node # d
        BY <1>1, <1>3
    <2>2. QED
        BY <1>1, <2>1, RunningEvent
<1>4. ExistenceInv'
    BY <1>2, <1>3 DEF RaceInv, ExistenceInv
<1>5. ASSUME NEW c \in Calls
      PROVE  Justified(c)
    <2>1. req'[c].op = "unpublish" /\ action'[c] = "completed" =>
            Goal(c)' \/ action[c] = "completed"
        BY <1>1, <1>5
    <2>2. QED
        BY <2>1 DEF Justified
<1>6. \A c \in Calls : Honest(c)'
    BY <1>5, HonestStep
<1>7. QED
    BY <1>4, <1>6 DEF RaceInv

\* The API's own steps.
LEMMA ApiStepRace ==
    ASSUME RaceInv, NEW d \in Droplets, ApiStep(d)
    PROVE  RaceInv'
<1>1. TypeOK' /\ HandlerInv'
    BY EnvironmentTypes DEF RaceInv
<1>2. CASE FinishEvent(d)
    <2> DEFINE v == event[d].vol
    <2>1. /\ event[d] \in Events /\ v \in Volumes /\ d \in live /\ None \notin Droplets
          /\ UNCHANGED <<exists, live, tagged, pc, req, result>> /\ Track
          /\ EndEvent(d, "completed")
        BY <1>2, AttachmentAssumption DEF FinishEvent, RaceInv, TypeOK, ExistenceInv, Events
    <2>2. \/ /\ event[d].kind = "attach" /\ v \in exists
             /\ attached' = [attached EXCEPT ![v] = d]
          \/ event[d].kind = "detach" /\ attached' = [attached EXCEPT ![v] = None]
        BY <1>2 DEF FinishEvent
    <2> HIDE DEF v
    <2>3. \A w \in Volumes : attached'[w] # None => w \in exists /\ attached'[w] \in live'
        BY <2>1, <2>2 DEF RaceInv, TypeOK, ExistenceInv
    <2>4. ASSUME NEW c \in Calls, action[c] = "in-progress", req[c].node = d,
                 req[c].op = "unpublish"
          PROVE  Goal(c)'
        <3>1. event[d].kind = "detach" /\ req[c].vol = v
            BY <2>4, RunningEvent DEF v
        <3>2. attached'[v] = None
            BY <2>1, <2>2, <3>1 DEF RaceInv, TypeOK
        <3>3. QED
            BY <2>1, <2>4, <3>1, <3>2 DEF Goal
    <2>5. QED
        BY <1>1, <2>1, <2>3, <2>4, EndEventStep
<1>3. CASE FailEvent(d)
    <2>1. /\ UNCHANGED <<exists, live, attached, tagged, pc, req, result>> /\ Track
          /\ EndEvent(d, "errored")
        BY <1>3 DEF FailEvent
    <2>2. \A v \in Volumes : attached'[v] # None => v \in exists /\ attached'[v] \in live'
        BY <2>1 DEF RaceInv, ExistenceInv
    <2>3. QED
        BY <1>1, <2>1, <2>2, EndEventStep
<1>4. CASE DestroyDroplet(d)
    <2>1. /\ UNCHANGED <<exists, tagged, pc, req, result>> /\ Track
          /\ EndEvent(d, "errored") /\ live' = live \ {d}
          /\ attached' = [v \in Volumes |-> IF attached[v] = d THEN None ELSE attached[v]]
        BY <1>4 DEF DestroyDroplet
    <2>2. \A v \in Volumes : attached'[v] # None => v \in exists /\ attached'[v] \in live'
        BY <2>1 DEF RaceInv, ExistenceInv
    <2>3. QED
        BY <1>1, <2>1, <2>2, EndEventStep
<1>5. QED
    BY <1>2, <1>3, <1>4 DEF ApiStep

\* Calls that start, end, expire or are lost: a new call knows nothing, and
\* nobody is told OK.
LEMMA CallerStep ==
    ASSUME RaceInv,
           \/ \E c \in Calls, r \in Requests : Begin(c, r) \/ Refuse(c, r)
           \/ \E c \in Calls : Expire(c) \/ Collect(c)
           \/ Restart
    PROVE  RaceInv'
<1> USE DEF apiVars
<1>1. TypeOK' /\ HandlerInv'
    BY EnvironmentTypes DEF RaceInv
<1>2. /\ UNCHANGED <<exists, live, attached, event, tagged>> /\ Track
    BY DEF Begin, Refuse, Expire, Collect, Restart
<1>3. \A c \in Calls :
        \/ /\ pc'[c] = pc[c] /\ req'[c] = req[c]
           /\ action'[c] = action[c] /\ result'[c] = result[c]
        \/ /\ action'[c] = "none" /\ result'[c] # "OK" /\ pc'[c] \notin PastTagging
        \/ /\ req'[c] = req[c] /\ action'[c] = action[c]
           /\ pc'[c] = "done" /\ result'[c] = "Unavailable"
    <2>1. ASSUME NEW c \in Calls, NEW r \in Requests, Begin(c, r)
          PROVE  /\ \A d \in Calls : d # c => /\ pc'[d] = pc[d] /\ req'[d] = req[d]
                                             /\ action'[d] = action[d] /\ result'[d] = result[d]
                 /\ action'[c] = "none" /\ result'[c] # "OK" /\ pc'[c] \notin PastTagging
        <3>1. FirstStep(r.op) \notin PastTagging
            BY DEF FirstStep, Requests, PastTagging
        <3>2. action[c] = "none" /\ result[c] = "none"
            BY <2>1 DEF Begin, RaceInv, TypeOK, HandlerInv
        <3>3. QED
            BY <2>1, <3>1, <3>2 DEF Begin, RaceInv, TypeOK
    <2>2. ASSUME NEW c \in Calls, NEW r \in Requests, Refuse(c, r)
          PROVE  /\ \A d \in Calls : d # c => /\ pc'[d] = pc[d] /\ req'[d] = req[d]
                                             /\ action'[d] = action[d] /\ result'[d] = result[d]
                 /\ action'[c] = "none" /\ result'[c] # "OK" /\ pc'[c] \notin PastTagging
        <3>1. action[c] = "none"
            BY <2>2 DEF Refuse, RaceInv, TypeOK, HandlerInv
        <3>2. QED
            BY <2>2, <3>1 DEF Refuse, RaceInv, TypeOK, PastTagging
    <2>3. ASSUME NEW c \in Calls, Collect(c)
          PROVE  /\ \A d \in Calls : d # c => /\ pc'[d] = pc[d] /\ req'[d] = req[d]
                                             /\ action'[d] = action[d] /\ result'[d] = result[d]
                 /\ action'[c] = "none" /\ result'[c] # "OK" /\ pc'[c] \notin PastTagging
        BY <2>3 DEF Collect, RaceInv, TypeOK, PastTagging
    <2>4. ASSUME NEW c \in Calls, Expire(c)
          PROVE  UNCHANGED <<pc, req, action, result>>
        BY <2>4 DEF Expire
    <2>5. CASE Restart
        <3>1. \A c \in Calls : pc[c] = "idle" => result[c] = "none"
            BY DEF RaceInv, TypeOK, HandlerInv
        <3>2. QED
            BY <2>5, <3>1 DEF Restart
    <2>6. QED
        BY <2>1, <2>2, <2>3, <2>4, <2>5
<1>4. ASSUME NEW c \in Calls
      PROVE  Justified(c)
    BY <1>3 DEF Justified, PastTagging
<1>5. \A c \in Calls : action'[c] = "in-progress" => action[c] = "in-progress" /\ req'[c] = req[c]
    BY <1>3
<1>6. ExistenceInv'
    BY <1>2, <1>5 DEF RaceInv, ExistenceInv
<1>7. \A c \in Calls : Honest(c)'
    BY <1>1, <1>2, <1>4, HonestStep
<1>8. QED
    BY <1>1, <1>6, <1>7 DEF RaceInv

\* Whoever calls the controller and however its calls overlap, the handlers'
\* labels, actions and events fit together and held tells the truth.
THEOREM RaceInvHolds == Spec => []RaceInv
<1>1. Init => RaceInv
    <2> SUFFICES ASSUME Init PROVE RaceInv
        OBVIOUS
    <2> USE DEF Init
    <2>1. TypeOK
        BY DEF TypeOK, Labels
    <2>2. HandlerInv /\ ExistenceInv
        BY DEF HandlerInv, ExistenceInv, TagSteps, PublishSteps, UnpublishSteps
    <2>3. \A c \in Calls : Honest(c)
        BY DEF Honest, NoRequest
    <2>4. QED
        BY <2>1, <2>2, <2>3 DEF RaceInv
<1>2. RaceInv /\ [Next]_vars => RaceInv'
    <2> SUFFICES ASSUME RaceInv, [Next]_vars PROVE RaceInv'
        OBVIOUS
    <2>1. ASSUME NEW c \in Calls, HandlerStep(c) PROVE RaceInv'
        BY <2>1, ReadingSteps, PublishAttachStep, UnpublishDetachStep, DeleteVolumeStep
        DEF HandlerStep, HandlerProgress
    <2>2. CASE Next
        BY <2>1, <2>2, ApiStepRace, CallerStep DEF Next
    <2>3. CASE UNCHANGED vars
        BY <2>3 DEF vars, apiVars, callVars, RaceInv, TypeOK, HandlerInv, ExistenceInv, Honest, Goal
    <2>4. QED
        BY <2>2, <2>3
<1>3. QED
    BY <1>1, <1>2, PTL DEF Spec

\* No unpublish and no delete is told of a success that was none, although
\* six answers of the API lead to that OK and nothing restrains the caller.
THEOREM SuccessIsHonest == Spec => []OKMeansDone
<1>1. RaceInv => OKMeansDone
    BY DEF RaceInv, Honest, OKMeansDone
<1>2. QED
    BY <1>1, RaceInvHolds, PTL

\* With --do-tag no publish succeeds with a volume that carries no tag,
\* whoever created the tag, and whenever.
THEOREM PublishedIsTagged == Spec => []TaggedBeforePublished
<1>1. RaceInv => TaggedBeforePublished
    BY DEF RaceInv, Honest, TaggedBeforePublished
<1>2. QED
    BY <1>1, RaceInvHolds, PTL

-----------------------------------------------------------------------------
(* What a step that changes neither the API's volumes and droplets nor the *)
(* orchestrator's beliefs cannot disturb *)

\* The properties that relate the orchestrator's beliefs to the API only look
\* at volumes, droplets, attachments, events and beliefs.
LEMMA BeliefsUndisturbed ==
    ASSUME Inv, UNCHANGED <<exists, live, attached, event, coVars>>
    PROVE  /\ OneNodeAtATime' /\ CleanWhenDetached'
           /\ AttachedWhenPublished' /\ DeletedMeansGone'
BY DEF Inv, coVars, OneNodeAtATime, CleanWhenDetached, AttachedWhenPublished,
       DeletedMeansGone, Clear

\* ApiInv looks at the handlers' requests and actions as well.
LEMMA ApiUndisturbed ==
    ASSUME Inv, UNCHANGED <<exists, live, attached, event, coVars, req, action>>
    PROVE  ApiInv'
BY DEF Inv, coVars, ApiInv

\* A step of one running call that keeps requests, contexts and beliefs.
LEMMA DisciplineUndisturbed ==
    ASSUME Inv, NEW c \in Calls, Active(c), NEW l, pc' = [pc EXCEPT ![c] = l],
           UNCHANGED <<req, expired, coVars>>
    PROVE  DisciplineInv'
BY DEF Inv, COTypeOK, TypeOK, coVars, DisciplineInv

\* The API holds nothing of a volume that does not exist, ...
LEMMA GoneIsClear ==
    ASSUME Inv, NEW v \in Volumes, v \notin exists
    PROVE  Clear(v)
BY AttachmentAssumption DEF Inv, COTypeOK, TypeOK, ApiInv, Clear, NoEvent, Events

\* ... and of a volume that is neither attached to the node the orchestrator
\* last named nor about to be, as of one whose node does not exist.
LEMMA NotOnNodeIsClear ==
    ASSUME Inv, NEW v \in Volumes, node[v] \in Droplets,
           (attached[v] # node[v] /\ event[node[v]] = NoEvent) \/ node[v] \notin live
    PROVE  Clear(v)
BY AttachmentAssumption DEF Inv, COTypeOK, TypeOK, ApiInv, OneNodeAtATime, Clear, NoEvent, Events

\* The request of a call that is waited for.
LEMMA WaitedRequest ==
    ASSUME Inv, NEW c \in Calls, Active(c)
    PROVE  /\ req[c].vol \in Volumes
           /\ req[c].op # "delete" => req[c].node \in Droplets
           /\ req[c].op \in {"publish", "unpublish", "delete"}
           /\ ~expired[c] /\ req[c].op # "delete" => node[req[c].vol] = req[c].node
BY DEF Inv, HandlerInv, DisciplineInv, Requests

\* The event of an action in progress.
LEMMA InProgressEvent ==
    ASSUME Inv, NEW c \in Calls, action[c] = "in-progress"
    PROVE  /\ req[c].node \in Droplets /\ req[c].vol \in Volumes
           /\ event[req[c].node] # NoEvent /\ event[req[c].node].vol = req[c].vol
           /\ req[c].op \in {"publish", "unpublish"}
           /\ req[c].op = "publish" => event[req[c].node].kind = "attach"
           /\ req[c].op = "unpublish" => event[req[c].node].kind = "detach"
BY WaitedRequest, AttachmentAssumption DEF Inv, HandlerInv, ApiInv, NoEvent

-----------------------------------------------------------------------------
(* Steps of a handler that only read the API, or only touch tags *)

\* GetVolume of a publish: the droplet it reports is the requested one or none.
LEMMA PublishGetVolumeInv ==
    ASSUME Inv, NEW c \in Calls, PublishGetVolume(c), UNCHANGED coVars
    PROVE  Inv'
<1>1. COTypeOK'
    BY HandlerStepTypes DEF HandlerStep, HandlerProgress, Inv, COTypeOK, coVars
<1>2. HandlerInv'
    BY HandlerStepTypes DEF HandlerStep, HandlerProgress, Inv, COTypeOK
<1> USE DEF PublishGetVolume, Seen, apiVars, coVars
<1>3. DisciplineInv'
    BY DisciplineUndisturbed DEF ApiSteps, TagSteps, PublishSteps, UnpublishSteps
<1>4. ApiInv'
    BY ApiUndisturbed
<1>5. KnowledgeInv'
    BY DEF Inv, COTypeOK, TypeOK, HandlerInv, DisciplineInv, ApiInv, KnowledgeInv, Knows,
           OneNodeAtATime, Clear, ApiSteps, TagSteps, PublishSteps, UnpublishSteps,
           Requests, NoEvent
<1>6. QED
    BY <1>1, <1>2, <1>3, <1>4, <1>5, BeliefsUndisturbed DEF Inv

\* Tagging a volume changes tags only.
LEMMA TagResourcesInv ==
    ASSUME Inv, NEW c \in Calls, TagResources(c), UNCHANGED coVars
    PROVE  Inv'
<1>1. COTypeOK'
    BY HandlerStepTypes DEF HandlerStep, HandlerProgress, Inv, COTypeOK, coVars
<1>2. HandlerInv'
    BY HandlerStepTypes DEF HandlerStep, HandlerProgress, Inv, COTypeOK
<1> USE DEF TagResources, apiVars, coVars
<1>3. DisciplineInv'
    BY DisciplineUndisturbed DEF ApiSteps, TagSteps, PublishSteps, UnpublishSteps
<1>4. ApiInv'
    BY ApiUndisturbed
<1>5. KnowledgeInv'
    BY DEF Inv, COTypeOK, TypeOK, HandlerInv, DisciplineInv, ApiInv, KnowledgeInv, Knows,
           OneNodeAtATime, Clear, ApiSteps, TagSteps, PublishSteps, UnpublishSteps,
           Requests, NoEvent
<1>6. QED
    BY <1>1, <1>2, <1>3, <1>4, <1>5, BeliefsUndisturbed DEF Inv

\* Creating the tag changes tags only.
LEMMA CreateTagInv ==
    ASSUME Inv, NEW c \in Calls, CreateTag(c), UNCHANGED coVars
    PROVE  Inv'
<1>1. COTypeOK'
    BY HandlerStepTypes DEF HandlerStep, HandlerProgress, Inv, COTypeOK, coVars
<1>2. HandlerInv'
    BY HandlerStepTypes DEF HandlerStep, HandlerProgress, Inv, COTypeOK
<1> USE DEF CreateTag, AfterCreateTag, apiVars, coVars
<1>3. DisciplineInv'
    BY DisciplineUndisturbed DEF ApiSteps, TagSteps, PublishSteps, UnpublishSteps
<1>4. ApiInv'
    BY ApiUndisturbed
<1>5. KnowledgeInv'
    BY DEF Inv, COTypeOK, TypeOK, HandlerInv, DisciplineInv, ApiInv, KnowledgeInv, Knows,
           OneNodeAtATime, Clear, ApiSteps, TagSteps, PublishSteps, UnpublishSteps,
           Requests, NoEvent
<1>6. QED
    BY <1>1, <1>2, <1>3, <1>4, <1>5, BeliefsUndisturbed DEF Inv

\* Tagging again changes tags only.
LEMMA RetryTagResourcesInv ==
    ASSUME Inv, NEW c \in Calls, RetryTagResources(c), UNCHANGED coVars
    PROVE  Inv'
<1>1. COTypeOK'
    BY HandlerStepTypes DEF HandlerStep, HandlerProgress, Inv, COTypeOK, coVars
<1>2. HandlerInv'
    BY HandlerStepTypes DEF HandlerStep, HandlerProgress, Inv, COTypeOK
<1> USE DEF RetryTagResources, apiVars, coVars
<1>3. DisciplineInv'
    BY DisciplineUndisturbed DEF ApiSteps, TagSteps, PublishSteps, UnpublishSteps
<1>4. ApiInv'
    BY ApiUndisturbed
<1>5. KnowledgeInv'
    BY DEF Inv, COTypeOK, TypeOK, HandlerInv, DisciplineInv, ApiInv, KnowledgeInv, Knows,
           OneNodeAtATime, Clear, ApiSteps, TagSteps, PublishSteps, UnpublishSteps,
           Requests, NoEvent
<1>6. QED
    BY <1>1, <1>2, <1>3, <1>4, <1>5, BeliefsUndisturbed DEF Inv

\* droplets.Get of a publish, and the test of the droplet IDs read before.
LEMMA PublishGetDropletInv ==
    ASSUME Inv, NEW c \in Calls, PublishGetDroplet(c), UNCHANGED coVars
    PROVE  Inv'
<1>1. COTypeOK'
    BY HandlerStepTypes DEF HandlerStep, HandlerProgress, Inv, COTypeOK, coVars
<1>2. HandlerInv'
    BY HandlerStepTypes DEF HandlerStep, HandlerProgress, Inv, COTypeOK
<1> USE DEF PublishGetDroplet, apiVars, coVars
<1>3. DisciplineInv'
    BY DisciplineUndisturbed DEF ApiSteps, TagSteps, PublishSteps, UnpublishSteps
<1>4. ApiInv'
    BY ApiUndisturbed
<1>5. KnowledgeInv'
    BY DEF Inv, COTypeOK, TypeOK, HandlerInv, DisciplineInv, ApiInv, KnowledgeInv, Knows,
           OneNodeAtATime, Clear, ApiSteps, TagSteps, PublishSteps, UnpublishSteps,
           Requests, NoEvent
<1>6. QED
    BY <1>1, <1>2, <1>3, <1>4, <1>5, BeliefsUndisturbed DEF Inv

\* GetVolume of an unpublish: a volume that does not exist is clear.
LEMMA UnpublishGetVolumeInv ==
    ASSUME Inv, NEW c \in Calls, UnpublishGetVolume(c), UNCHANGED coVars
    PROVE  Inv'
<1>1. COTypeOK'
    BY HandlerStepTypes DEF HandlerStep, HandlerProgress, Inv, COTypeOK, coVars
<1>2. HandlerInv'
    BY HandlerStepTypes DEF HandlerStep, HandlerProgress, Inv, COTypeOK
<1> USE DEF UnpublishGetVolume, apiVars, coVars
<1>3. DisciplineInv'
    BY DisciplineUndisturbed DEF ApiSteps, TagSteps, PublishSteps, UnpublishSteps
<1>4. ApiInv'
    BY ApiUndisturbed
<1>5. KnowledgeInv'
    <2>1. req[c].op = "unpublish"
        BY DEF Inv, HandlerInv, UnpublishSteps
    <2>2. result'[c] = "OK" => Clear(req[c].vol)
        BY GoneIsClear, WaitedRequest DEF Inv, COTypeOK, TypeOK, HandlerInv, UnpublishSteps
    <2>3. QED
        BY <2>1, <2>2 DEF Inv, COTypeOK, TypeOK, HandlerInv, KnowledgeInv, Knows, Clear
<1>6. QED
    BY <1>1, <1>2, <1>3, <1>4, <1>5, BeliefsUndisturbed DEF Inv

\* droplets.Get of an unpublish: a droplet that does not exist has no volumes.
LEMMA UnpublishGetDropletInv ==
    ASSUME Inv, NEW c \in Calls, UnpublishGetDroplet(c), UNCHANGED coVars
    PROVE  Inv'
<1>1. COTypeOK'
    BY HandlerStepTypes DEF HandlerStep, HandlerProgress, Inv, COTypeOK, coVars
<1>2. HandlerInv'
    BY HandlerStepTypes DEF HandlerStep, HandlerProgress, Inv, COTypeOK
<1> USE DEF UnpublishGetDroplet, apiVars, coVars
<1>3. DisciplineInv'
    BY DisciplineUndisturbed DEF ApiSteps, TagSteps, PublishSteps, UnpublishSteps
<1>4. ApiInv'
    BY ApiUndisturbed
<1>5. KnowledgeInv'
    <2>1. req[c].op = "unpublish"
        BY DEF Inv, HandlerInv, UnpublishSteps
    <2>2. result'[c] = "OK" => Clear(req[c].vol)
        BY NotOnNodeIsClear, WaitedRequest DEF Inv, COTypeOK, TypeOK, HandlerInv, UnpublishSteps
    <2>3. QED
        BY <2>1, <2>2 DEF Inv, COTypeOK, TypeOK, HandlerInv, KnowledgeInv, Knows, Clear
<1>6. QED
    BY <1>1, <1>2, <1>3, <1>4, <1>5, BeliefsUndisturbed DEF Inv

\* waitAction: a completed action is what the call asked for.
LEMMA WaitActionInv ==
    ASSUME Inv, NEW c \in Calls, WaitAction(c), UNCHANGED coVars
    PROVE  Inv'
<1>1. COTypeOK'
    BY HandlerStepTypes DEF HandlerStep, HandlerProgress, Inv, COTypeOK, coVars
<1>2. HandlerInv'
    BY HandlerStepTypes DEF HandlerStep, HandlerProgress, Inv, COTypeOK
<1> USE DEF WaitAction, ActionDone, GivesUp, apiVars, coVars
<1>3. DisciplineInv'
    BY DisciplineUndisturbed DEF ApiSteps, TagSteps, PublishSteps, UnpublishSteps
<1>4. ApiInv'
    BY ApiUndisturbed
<1>5. KnowledgeInv'
    BY DEF Inv, COTypeOK, TypeOK, HandlerInv, DisciplineInv, ApiInv, KnowledgeInv, Knows,
           OneNodeAtATime, Clear, ApiSteps, TagSteps, PublishSteps, UnpublishSteps,
           Requests, NoEvent
<1>6. QED
    BY <1>1, <1>2, <1>3, <1>4, <1>5, BeliefsUndisturbed DEF Inv

\* A request that fails: the call returns an error.
LEMMA ApiErrorInv ==
    ASSUME Inv, NEW c \in Calls, ApiError(c), UNCHANGED coVars
    PROVE  Inv'
<1>1. COTypeOK'
    BY HandlerStepTypes DEF HandlerStep, HandlerProgress, Inv, COTypeOK, coVars
<1>2. HandlerInv'
    BY HandlerStepTypes DEF HandlerStep, HandlerProgress, Inv, COTypeOK
<1> USE DEF ApiError, ErrorCode, apiVars, coVars
<1>3. DisciplineInv'
    BY DisciplineUndisturbed DEF ApiSteps, TagSteps, PublishSteps, UnpublishSteps
<1>4. ApiInv'
    BY ApiUndisturbed
<1>5. KnowledgeInv'
    BY DEF Inv, COTypeOK, TypeOK, HandlerInv, DisciplineInv, ApiInv, KnowledgeInv, Knows,
           OneNodeAtATime, Clear, ApiSteps, TagSteps, PublishSteps, UnpublishSteps,
           Requests, NoEvent
<1>6. QED
    BY <1>1, <1>2, <1>3, <1>4, <1>5, BeliefsUndisturbed DEF Inv

-----------------------------------------------------------------------------
(* Steps that change the API's state *)

\* Attach: accepted only for a volume that is free on a droplet without
\* event; refused as "already attached" only if attached where it should be.
LEMMA PublishAttachInv ==
    ASSUME Inv, NEW c \in Calls, PublishAttach(c), UNCHANGED coVars
    PROVE  Inv'
<1> DEFINE v == req[c].vol
           d == req[c].node
           answer == AttachAnswer(v, d)
<1> USE DEF coVars
<1>1. /\ req[c].op = "publish" /\ Active(c) /\ ~expired[c] /\ action[c] = "none"
      /\ pc[c] = "Attach" /\ result[c] = "none"
      /\ v \in Volumes /\ d \in Droplets /\ node[v] = d /\ phase[v] = "attaching"
    BY WaitedRequest DEF PublishAttach, Inv, COTypeOK, TypeOK, HandlerInv, DisciplineInv, PublishSteps
<1>2. CASE answer # "accepted"
    <2>1. /\ pc' = [pc EXCEPT ![c] = "done"]
          /\ result' = [result EXCEPT ![c] = AttachCode(answer)]
          /\ UNCHANGED <<exists, live, attached, event, tagExists, tagged>>
          /\ UNCHANGED <<req, seen, action, expired>>
          /\ Track
        BY <1>2 DEF PublishAttach
    <2>2. COTypeOK'
        BY <2>1, AttachAnswers DEF Inv, COTypeOK, TypeOK, Track, Labels, Codes
    <2>3. HandlerInv'
        BY <1>1, <2>1 DEF Inv, COTypeOK, TypeOK, HandlerInv, TagSteps, PublishSteps, UnpublishSteps
    <2>4. AttachCode(answer) = "OK" => attached[v] = d
        BY <1>1, AttachAnswers DEF Inv, OneNodeAtATime
    <2>5. KnowledgeInv'
        BY <1>1, <2>1, <2>4, AttachAnswers DEF Inv, COTypeOK, TypeOK, HandlerInv, KnowledgeInv, Knows, Clear
    <2>6. QED
        BY <1>1, <2>1, <2>2, <2>3, <2>5, DisciplineUndisturbed, ApiUndisturbed,
           BeliefsUndisturbed DEF Inv
<1>3. CASE answer = "accepted"
    <2>1. /\ v \in exists /\ d \in live /\ event[d] = NoEvent /\ attached[v] = None
        BY <1>3, AttachAnswers
    <2>2. /\ Accepted(c, "attach", d)
          /\ UNCHANGED <<exists, live, tagExists, tagged, req, seen, expired>>
          /\ Track
        BY <1>3 DEF PublishAttach
    <2>3. COTypeOK'
        BY <1>1, <2>2 DEF Accepted, Events, Inv, COTypeOK, TypeOK, Track, HandlerInv, Labels, ApiSteps, TagSteps,
            PublishSteps, UnpublishSteps, Codes
    <2>4. HandlerInv'
        BY <1>1, <2>2 DEF Accepted, Inv, COTypeOK, TypeOK, HandlerInv, TagSteps, PublishSteps, UnpublishSteps
    <2>5. DisciplineInv'
        BY <1>1, <2>2, DisciplineUndisturbed DEF Accepted
    <2>6. \A e \in Droplets : event[e].vol # v
        BY <1>1, <2>1, AttachmentAssumption DEF Inv, OneNodeAtATime, NoEvent
    <2>7. CASE UNCHANGED attached
        <3>1. /\ event' = [event EXCEPT ![d] = [kind |-> "attach", vol |-> v]]
              /\ \/ /\ action' = [action EXCEPT ![c] = "in-progress"]
                    /\ pc' = [pc EXCEPT ![c] = "waitAction"]
                    /\ result' = result
                 \/ /\ action' = action
                    /\ pc' = [pc EXCEPT ![c] = "done"]
                    /\ result' = [result EXCEPT ![c] = "Unknown"]
            BY <1>1, <2>1, <2>2, <2>7, AttachmentAssumption DEF Accepted, Inv, COTypeOK, TypeOK
        <3>2. /\ event'[d].vol = v /\ event'[d].kind = "attach" /\ event'[d] # NoEvent
              /\ \A e \in Droplets \ {d} : event'[e] = event[e]
            BY <1>1, <3>1 DEF Inv, COTypeOK, TypeOK, NoEvent
        <3>3. ApiInv'
            BY <1>1, <2>1, <2>2, <2>6, <2>7, <3>1, <3>2, InProgressEvent
            DEF Inv, COTypeOK, TypeOK, ApiInv, HandlerInv
        <3>4. KnowledgeInv'
            BY <1>1, <2>1, <2>2, <2>6, <2>7, <3>1, <3>2
            DEF Inv, COTypeOK, TypeOK, HandlerInv, DisciplineInv, KnowledgeInv, Knows, Clear
        <3>5. /\ OneNodeAtATime' /\ CleanWhenDetached'
              /\ AttachedWhenPublished' /\ DeletedMeansGone'
            BY <1>1, <2>2, <2>7, <3>2 DEF Inv, OneNodeAtATime, CleanWhenDetached,
                AttachedWhenPublished, DeletedMeansGone, Clear
        <3>6. QED
            BY <2>3, <2>4, <2>5, <3>3, <3>4, <3>5 DEF Inv
    <2>8. CASE /\ attached' = [attached EXCEPT ![v] = d]
               /\ pc' = [pc EXCEPT ![c] = "done"]
               /\ result' = [result EXCEPT ![c] = "OK"]
               /\ UNCHANGED <<event, action>>
        <3>1. ApiInv'
            BY <1>1, <2>1, <2>2, <2>6, <2>8
            DEF Inv, COTypeOK, TypeOK, ApiInv
        <3>2. KnowledgeInv'
            BY <1>1, <2>1, <2>2, <2>6, <2>8
            DEF Inv, COTypeOK, TypeOK, HandlerInv, DisciplineInv, KnowledgeInv, Knows, Clear
        <3>3. /\ OneNodeAtATime' /\ CleanWhenDetached'
              /\ AttachedWhenPublished' /\ DeletedMeansGone'
            BY <1>1, <2>2, <2>8 DEF Inv, COTypeOK, TypeOK, OneNodeAtATime, CleanWhenDetached,
                AttachedWhenPublished, DeletedMeansGone, Clear
        <3>4. QED
            BY <2>3, <2>4, <2>5, <3>1, <3>2, <3>3 DEF Inv
    <2>9. QED
        BY <2>2, <2>7, <2>8 DEF Accepted
<1>4. QED
    BY <1>2, <1>3

\* Detach: accepted only for an attached volume; every refusal that counts as
\* success means that the volume is clear.
LEMMA UnpublishDetachInv ==
    ASSUME Inv, NEW c \in Calls, UnpublishDetach(c), UNCHANGED coVars
    PROVE  Inv'
<1> DEFINE v == req[c].vol
           d == req[c].node
           answer == DetachAnswer(v, d)
<1> USE DEF coVars
<1>1. /\ req[c].op = "unpublish" /\ Active(c) /\ ~expired[c] /\ action[c] = "none"
      /\ pc[c] = "Detach" /\ result[c] = "none"
      /\ v \in Volumes /\ d \in Droplets /\ node[v] = d /\ phase[v] = "detaching"
    BY WaitedRequest DEF UnpublishDetach, Inv, COTypeOK, TypeOK, HandlerInv, DisciplineInv, UnpublishSteps
<1>2. CASE answer # "accepted"
    <2>1. /\ pc' = [pc EXCEPT ![c] = "done"]
          /\ result' = [result EXCEPT ![c] = DetachCode(answer)]
          /\ UNCHANGED <<exists, live, attached, event, tagExists, tagged>>
          /\ UNCHANGED <<req, seen, action, expired>>
          /\ Track
        BY <1>2 DEF UnpublishDetach
    <2>2. COTypeOK'
        BY <1>2, <2>1, DetachAnswers DEF Inv, COTypeOK, TypeOK, Track, Labels, Codes
    <2>3. HandlerInv'
        BY <1>1, <2>1 DEF Inv, COTypeOK, TypeOK, HandlerInv, TagSteps, PublishSteps, UnpublishSteps
    <2>4. DetachCode(answer) = "OK" => Clear(v)
        BY <1>1, <1>2, DetachAnswers, GoneIsClear, NotOnNodeIsClear
    <2>5. KnowledgeInv'
        BY <1>1, <2>1, <2>4 DEF Inv, COTypeOK, TypeOK, HandlerInv, KnowledgeInv, Knows, Clear
    <2>6. QED
        BY <1>1, <2>1, <2>2, <2>3, <2>5, DisciplineUndisturbed, ApiUndisturbed,
           BeliefsUndisturbed DEF Inv
<1>3. CASE answer = "accepted"
    <2>1. /\ v \in exists /\ d \in live /\ event[d] = NoEvent /\ attached[v] = d
        BY <1>3, DetachAnswers
    <2>2. /\ Accepted(c, "detach", None)
          /\ UNCHANGED <<exists, live, tagExists, tagged, req, seen, expired>>
          /\ Track
        BY <1>3 DEF UnpublishDetach
    <2>3. COTypeOK'
        BY <1>1, <2>2 DEF Accepted, Events, Inv, COTypeOK, TypeOK, Track, HandlerInv, Labels, ApiSteps, TagSteps,
            PublishSteps, UnpublishSteps, Codes
    <2>4. HandlerInv'
        BY <1>1, <2>2 DEF Accepted, Inv, COTypeOK, TypeOK, HandlerInv, TagSteps, PublishSteps, UnpublishSteps
    <2>5. DisciplineInv'
        BY <1>1, <2>2, DisciplineUndisturbed DEF Accepted
    <2>6. \A e \in Droplets : event[e].vol # v
        BY <1>1, <2>1, AttachmentAssumption DEF Inv, OneNodeAtATime, NoEvent
    <2>7. CASE UNCHANGED attached
        <3>1. /\ event' = [event EXCEPT ![d] = [kind |-> "detach", vol |-> v]]
              /\ \/ /\ action' = [action EXCEPT ![c] = "in-progress"]
                    /\ pc' = [pc EXCEPT ![c] = "waitAction"]
                    /\ result' = result
                 \/ /\ action' = action
                    /\ pc' = [pc EXCEPT ![c] = "done"]
                    /\ result' = [result EXCEPT ![c] = "Unknown"]
            BY <1>1, <2>1, <2>2, <2>7, AttachmentAssumption DEF Accepted, Inv, COTypeOK, TypeOK
        <3>2. /\ event'[d].vol = v /\ event'[d].kind = "detach" /\ event'[d] # NoEvent
              /\ \A e \in Droplets \ {d} : event'[e] = event[e]
            BY <1>1, <3>1 DEF Inv, COTypeOK, TypeOK, NoEvent
        <3>3. ApiInv'
            BY <1>1, <2>1, <2>2, <2>6, <2>7, <3>1, <3>2, InProgressEvent
            DEF Inv, COTypeOK, TypeOK, ApiInv, HandlerInv
        <3>4. KnowledgeInv'
            BY <1>1, <2>1, <2>2, <2>6, <2>7, <3>1, <3>2
            DEF Inv, COTypeOK, TypeOK, HandlerInv, DisciplineInv, KnowledgeInv, Knows, Clear
        <3>5. /\ OneNodeAtATime' /\ CleanWhenDetached'
              /\ AttachedWhenPublished' /\ DeletedMeansGone'
            BY <1>1, <2>2, <2>7, <3>2 DEF Inv, OneNodeAtATime, CleanWhenDetached,
                AttachedWhenPublished, DeletedMeansGone, Clear
        <3>6. QED
            BY <2>3, <2>4, <2>5, <3>3, <3>4, <3>5 DEF Inv
    <2>8. CASE /\ attached' = [attached EXCEPT ![v] = None]
               /\ pc' = [pc EXCEPT ![c] = "done"]
               /\ result' = [result EXCEPT ![c] = "OK"]
               /\ UNCHANGED <<event, action>>
        <3>1. ApiInv'
            BY <1>1, <2>1, <2>2, <2>6, <2>8
            DEF Inv, COTypeOK, TypeOK, ApiInv
        <3>2. KnowledgeInv'
            BY <1>1, <2>1, <2>2, <2>6, <2>8
            DEF Inv, COTypeOK, TypeOK, HandlerInv, DisciplineInv, KnowledgeInv, Knows, Clear
        <3>3. /\ OneNodeAtATime' /\ CleanWhenDetached'
              /\ AttachedWhenPublished' /\ DeletedMeansGone'
            BY <1>1, <2>2, <2>8 DEF Inv, COTypeOK, TypeOK, OneNodeAtATime, CleanWhenDetached,
                AttachedWhenPublished, DeletedMeansGone, Clear
        <3>4. QED
            BY <2>3, <2>4, <2>5, <3>1, <3>2, <3>3 DEF Inv
    <2>9. QED
        BY <2>2, <2>7, <2>8 DEF Accepted
<1>4. QED
    BY <1>2, <1>3

\* DeleteVolume: the volume goes only if nothing of it is left.
LEMMA DeleteVolumeInv ==
    ASSUME Inv, NEW c \in Calls, DeleteVolume(c), UNCHANGED coVars
    PROVE  Inv'
<1> DEFINE v == req[c].vol
<1> USE DEF DeleteVolume, coVars
<1>1. /\ req[c].op = "delete" /\ v \in Volumes /\ Active(c) /\ ~expired[c]
      /\ pc[c] = "DeleteVolume" /\ phase[v] = "deleting"
    BY WaitedRequest DEF Inv, HandlerInv, DisciplineInv
<1>2. /\ exists' \in {exists, exists \ {v}}
      /\ exists' # exists => Clear(v)
      /\ result'[c] = "OK" => v \notin exists'
    BY <1>1 DEF DeleteAnswer, Clear, Inv, COTypeOK, TypeOK
<1>3. /\ pc' = [pc EXCEPT ![c] = "done"]
      /\ result'[c] \in {"OK", "Unknown"} /\ result' = [result EXCEPT ![c] = result'[c]]
      /\ UNCHANGED <<live, attached, event, tagExists, tagged, req, seen, action, expired>>
      /\ Track
    BY DEF Inv, COTypeOK, TypeOK
<1> HIDE DEF DeleteVolume
<1>4. COTypeOK'
    BY <1>2, <1>3 DEF Inv, COTypeOK, TypeOK, Track, Labels, Codes
<1>5. HandlerInv'
    BY <1>1, <1>3 DEF Inv, COTypeOK, TypeOK, HandlerInv, TagSteps, PublishSteps, UnpublishSteps
<1>6. DisciplineInv'
    BY <1>1, <1>3, DisciplineUndisturbed
<1>7. ApiInv'
    BY <1>1, <1>2, <1>3 DEF Inv, COTypeOK, TypeOK, ApiInv, Clear
<1>8. KnowledgeInv'
    BY <1>1, <1>2, <1>3 DEF Inv, COTypeOK, TypeOK, HandlerInv, KnowledgeInv, Knows, Clear
<1>9. /\ OneNodeAtATime' /\ CleanWhenDetached'
      /\ AttachedWhenPublished' /\ DeletedMeansGone'
    BY <1>2, <1>3 DEF Inv, OneNodeAtATime, CleanWhenDetached, AttachedWhenPublished,
        DeletedMeansGone, Clear
<1>10. QED
    BY <1>4, <1>5, <1>6, <1>7, <1>8, <1>9 DEF Inv

-----------------------------------------------------------------------------
(* The environment *)

\* A call whose deadline passes is not waited for any more.
LEMMA ExpireInv ==
    ASSUME Inv, NEW c \in Calls, Expire(c), UNCHANGED coVars
    PROVE  Inv'
<1> USE DEF Expire, apiVars, coVars
<1>1. COTypeOK'
    BY DEF Inv, COTypeOK, TypeOK, Track
<1>2. HandlerInv'
    BY DEF Inv, HandlerInv
<1>3. DisciplineInv'
    BY DEF Inv, COTypeOK, TypeOK, DisciplineInv
<1>4. KnowledgeInv'
    BY DEF Inv, COTypeOK, TypeOK, KnowledgeInv, Knows, Clear
<1>5. QED
    BY <1>1, <1>2, <1>3, <1>4, ApiUndisturbed, BeliefsUndisturbed DEF Inv

\* A restart loses handlers, which keep nothing that is needed afterwards.
LEMMA RestartInv ==
    ASSUME Inv, Restart, UNCHANGED coVars
    PROVE  Inv'
<1> USE DEF Restart, apiVars, coVars
<1>1. COTypeOK'
    BY DEF Inv, COTypeOK, TypeOK, Track, Labels, Codes
<1>2. HandlerInv'
    BY DEF Inv, COTypeOK, TypeOK, HandlerInv, TagSteps, PublishSteps, UnpublishSteps
<1>3. DisciplineInv'
    BY DEF Inv, DisciplineInv
<1>4. KnowledgeInv'
    BY DEF Inv, KnowledgeInv, Knows, Clear
<1>5. QED
    BY <1>1, <1>2, <1>3, <1>4, ApiUndisturbed, BeliefsUndisturbed DEF Inv

\* The end of an event, as the handlers see it.
LEMMA EndEventHandlers ==
    ASSUME Inv, NEW d \in Droplets, NEW s \in {"completed", "errored"}, EndEvent(d, s),
           attached' \in [Volumes -> Droplets \union {None}], live' \in SUBSET Droplets,
           Track, UNCHANGED <<exists, tagExists, tagged, pc, req, seen, expired, result, coVars>>
    PROVE  COTypeOK' /\ HandlerInv' /\ DisciplineInv'
<1> USE DEF EndEvent, coVars
<1>1. COTypeOK'
    BY DEF Inv, COTypeOK, TypeOK, Track
<1>2. HandlerInv'
    BY DEF Inv, COTypeOK, TypeOK, HandlerInv
<1>3. DisciplineInv'
    BY DEF Inv, DisciplineInv
<1>4. QED
    BY <1>1, <1>2, <1>3

\* A pending action that completes attaches or detaches what it was asked to.
LEMMA FinishEventInv ==
    ASSUME Inv, NEW d \in Droplets, FinishEvent(d), UNCHANGED coVars
    PROVE  Inv'
<1> DEFINE v == event[d].vol
<1> USE DEF coVars
<1>1. /\ event[d] # NoEvent /\ v \in Volumes /\ node[v] = d /\ d \in live /\ v \in exists
      /\ EndEvent(d, "completed") /\ Track
      /\ UNCHANGED <<exists, live, tagExists, tagged, pc, req, seen, expired, result>>
      /\ \/ event[d].kind = "attach" /\ attached[v] = None
            /\ attached' = [attached EXCEPT ![v] = d]
         \/ event[d].kind = "detach" /\ attached[v] = d
            /\ attached' = [attached EXCEPT ![v] = None]
    BY DEF FinishEvent, Inv, COTypeOK, TypeOK, Events, OneNodeAtATime, ApiInv
<1>2. /\ event'[d] = NoEvent /\ \A e \in Droplets \ {d} : event'[e] = event[e]
      /\ \A e \in Droplets \ {d} : event[e].vol # v
      /\ NoEvent.vol \notin Volumes
    BY <1>1, AttachmentAssumption DEF EndEvent, Inv, COTypeOK, TypeOK, OneNodeAtATime, NoEvent
<1>3. COTypeOK' /\ HandlerInv' /\ DisciplineInv'
    BY <1>1, EndEventHandlers DEF Inv, COTypeOK, TypeOK
<1>4. ApiInv'
    BY <1>1, <1>2 DEF EndEvent, Inv, COTypeOK, TypeOK, ApiInv
<1>5. /\ OneNodeAtATime' /\ CleanWhenDetached'
          /\ AttachedWhenPublished' /\ DeletedMeansGone'
    BY <1>1, <1>2 DEF Inv, COTypeOK, TypeOK, ApiInv, OneNodeAtATime, CleanWhenDetached,
        AttachedWhenPublished, DeletedMeansGone, Clear
<1>6. KnowledgeInv'
    <2> SUFFICES ASSUME NEW c \in Calls, Waiting(c)
                 PROVE  Knows(c)'
        BY <1>1 DEF KnowledgeInv
    <2>1. /\ Knows(c) /\ req[c].vol \in Volumes
          /\ action'[c] # action[c] => req[c].vol = v /\ req[c].node = d
        BY <1>1, WaitedRequest, InProgressEvent DEF EndEvent, Inv, COTypeOK, TypeOK, KnowledgeInv
    <2>2. CASE req[c].vol # v
        BY <1>1, <1>2, <2>1, <2>2 DEF Knows, Clear, Inv, COTypeOK, TypeOK
    <2>3. CASE req[c].vol = v /\ req[c].op = "publish"
        <3>1. node[v] = req[c].node /\ event[d].kind # "detach"
            BY <1>1, <2>3 DEF Inv, DisciplineInv, ApiInv
        <3>2. QED
            BY <1>1, <2>1, <2>3, <3>1 DEF Knows, Inv, COTypeOK, TypeOK
    <2>4. CASE req[c].vol = v /\ req[c].op = "unpublish"
        <3>1. ~Clear(v)
            BY <1>1 DEF Clear
        <3>2. action'[c] = "completed" => event[d].kind = "detach"
            BY <1>1, <2>1, <2>4, <3>1, InProgressEvent
            DEF EndEvent, Knows, Inv, COTypeOK, TypeOK
        <3>3. QED
            BY <1>1, <1>2, <2>1, <2>4, <3>1, <3>2 DEF Knows, Clear, Inv, COTypeOK, TypeOK
    <2>5. CASE req[c].op = "delete"
        BY <1>1, <2>1, <2>5 DEF Knows
    <2>6. QED
        BY <2>2, <2>3, <2>4, <2>5, WaitedRequest
<1>7. QED
    BY <1>3, <1>4, <1>5, <1>6 DEF Inv

\* A pending action that fails leaves the volume where it is; the handler
\* that polls it learns nothing.
LEMMA FailEventInv ==
    ASSUME Inv, NEW d \in Droplets, FailEvent(d), UNCHANGED coVars
    PROVE  Inv'
<1> USE DEF FailEvent, coVars
<1>1. /\ event'[d] = NoEvent /\ \A e \in Droplets \ {d} : event'[e] = event[e]
      /\ NoEvent.vol \notin Volumes
    BY AttachmentAssumption DEF EndEvent, Inv, COTypeOK, TypeOK, NoEvent
<1>2. COTypeOK' /\ HandlerInv' /\ DisciplineInv'
    BY EndEventHandlers DEF Inv, COTypeOK, TypeOK
<1>3. ApiInv'
    BY <1>1, InProgressEvent DEF EndEvent, Inv, COTypeOK, TypeOK, ApiInv
<1>4. /\ OneNodeAtATime' /\ CleanWhenDetached'
      /\ AttachedWhenPublished' /\ DeletedMeansGone'
    BY <1>1 DEF Inv, OneNodeAtATime, CleanWhenDetached, AttachedWhenPublished,
        DeletedMeansGone, Clear
<1>5. KnowledgeInv'
    BY <1>1, WaitedRequest DEF EndEvent, Inv, COTypeOK, TypeOK, KnowledgeInv, Knows, Clear
<1>6. QED
    BY <1>2, <1>3, <1>4, <1>5 DEF Inv

\* A destroyed droplet takes its event along and lets go of its volumes.
LEMMA DestroyDropletInv ==
    ASSUME Inv, NEW d \in Droplets, DestroyDroplet(d), UNCHANGED coVars
    PROVE  Inv'
<1> USE DEF DestroyDroplet, coVars
<1>1. /\ event'[d] = NoEvent /\ \A e \in Droplets \ {d} : event'[e] = event[e]
      /\ \A v \in Volumes : attached'[v] = IF attached[v] = d THEN None ELSE attached[v]
      /\ NoEvent.vol \notin Volumes /\ None \notin Droplets
    BY AttachmentAssumption DEF EndEvent, Inv, COTypeOK, TypeOK, NoEvent
<1>2. COTypeOK' /\ HandlerInv' /\ DisciplineInv'
    <2>1. attached' \in [Volumes -> Droplets \union {None}]
        BY DEF Inv, COTypeOK, TypeOK
    <2>2. QED
        BY <2>1, EndEventHandlers DEF Inv, COTypeOK, TypeOK
<1>3. ApiInv'
    BY <1>1, InProgressEvent DEF EndEvent, Inv, COTypeOK, TypeOK, ApiInv, Events
<1>4. /\ OneNodeAtATime' /\ CleanWhenDetached'
      /\ AttachedWhenPublished' /\ DeletedMeansGone'
    BY <1>1 DEF Inv, COTypeOK, TypeOK, OneNodeAtATime, CleanWhenDetached,
        AttachedWhenPublished, DeletedMeansGone, Clear
<1>5. KnowledgeInv'
    BY <1>1, WaitedRequest DEF EndEvent, Inv, COTypeOK, TypeOK, KnowledgeInv, Knows, Clear
<1>6. QED
    BY <1>2, <1>3, <1>4, <1>5 DEF Inv

-----------------------------------------------------------------------------
(* The orchestrator *)

\* A call that starts: the handlers' part of the invariant.
LEMMA BeginHandlers ==
    ASSUME Inv, NEW c \in Calls, NEW r \in Requests, Begin(c, r),
           phase' \in [Volumes -> Phases], node' \in [Volumes -> Droplets \union {None}]
    PROVE  COTypeOK' /\ HandlerInv'
<1> USE DEF Begin, apiVars
<1>1. r.op \in {"publish", "unpublish", "delete"}
    BY DEF Requests
<1>2. COTypeOK'
    BY <1>1 DEF FirstStep, Inv, COTypeOK, TypeOK, Track, Labels, ApiSteps, PublishSteps,
        UnpublishSteps
<1>3. HandlerInv'
    BY <1>1 DEF FirstStep, Inv, COTypeOK, TypeOK, HandlerInv, TagSteps, PublishSteps,
        UnpublishSteps
<1>4. QED
    BY <1>2, <1>3

\* A publish starts for a volume that is clear, or again for the same node.
LEMMA COPublishInv ==
    ASSUME Inv, NEW c \in Calls, NEW v \in Volumes, NEW d \in Droplets, COPublish(c, v, d)
    PROVE  Inv'
<1> DEFINE r == [op |-> "publish", vol |-> v, node |-> d]
<1> USE DEF COPublish, Begin, Believe, apiVars
<1>1. r \in Requests
    BY DEF Requests, Inv, DisciplineInv
<1>2. COTypeOK' /\ HandlerInv'
    BY <1>1, BeginHandlers DEF Inv, COTypeOK, TypeOK, Phases
<1>3. /\ Waiting(c)' => req'[c] = r /\ action'[c] = "none" /\ result'[c] = "none"
      /\ \A e \in Calls \ {c} : req'[e] = req[e] /\ (Waiting(e)' <=> Waiting(e))
    BY DEF Inv, COTypeOK, TypeOK, HandlerInv
<1>4. DisciplineInv'
    BY <1>1, <1>3 DEF Quiet, Inv, COTypeOK, TypeOK, HandlerInv, DisciplineInv, Requests
<1>5. ApiInv'
    BY <1>1, <1>3 DEF Inv, COTypeOK, TypeOK, HandlerInv, ApiInv, CleanWhenDetached, AttachedWhenPublished, Clear, Events, NoEvent
<1>6. KnowledgeInv'
    BY <1>1, <1>3, AttachmentAssumption
    DEF Inv, COTypeOK, TypeOK, HandlerInv, KnowledgeInv, Knows, Clear
<1>7. /\ OneNodeAtATime' /\ CleanWhenDetached'
      /\ AttachedWhenPublished' /\ DeletedMeansGone'
    BY DEF Inv, COTypeOK, TypeOK, OneNodeAtATime, CleanWhenDetached, AttachedWhenPublished,
        DeletedMeansGone, Clear
<1>8. QED
    BY <1>2, <1>4, <1>5, <1>6, <1>7 DEF Inv

\* An unpublish starts for the node the volume was published to.
LEMMA COUnpublishInv ==
    ASSUME Inv, NEW c \in Calls, NEW v \in Volumes, COUnpublish(c, v)
    PROVE  Inv'
<1> DEFINE r == [op |-> "unpublish", vol |-> v, node |-> node[v]]
<1> USE DEF COUnpublish, Begin, Believe, apiVars
<1>1. r \in Requests
    BY DEF Requests, Inv, DisciplineInv
<1>2. COTypeOK' /\ HandlerInv'
    BY <1>1, BeginHandlers DEF Inv, COTypeOK, TypeOK, Phases
<1>3. /\ Waiting(c)' => req'[c] = r /\ action'[c] = "none" /\ result'[c] = "none"
      /\ \A e \in Calls \ {c} : req'[e] = req[e] /\ (Waiting(e)' <=> Waiting(e))
    BY DEF Inv, COTypeOK, TypeOK, HandlerInv
<1>4. DisciplineInv'
    BY <1>1, <1>3 DEF Quiet, Inv, COTypeOK, TypeOK, HandlerInv, DisciplineInv, Requests
<1>5. ApiInv'
    BY <1>1, <1>3 DEF Inv, COTypeOK, TypeOK, HandlerInv, ApiInv, CleanWhenDetached, AttachedWhenPublished, Clear, Events, NoEvent
<1>6. KnowledgeInv'
    BY <1>1, <1>3 DEF Inv, COTypeOK, TypeOK, HandlerInv, KnowledgeInv, Knows, Clear
<1>7. /\ OneNodeAtATime' /\ CleanWhenDetached'
      /\ AttachedWhenPublished' /\ DeletedMeansGone'
    BY DEF Inv, COTypeOK, TypeOK, OneNodeAtATime, CleanWhenDetached, AttachedWhenPublished,
        DeletedMeansGone, Clear
<1>8. QED
    BY <1>2, <1>4, <1>5, <1>6, <1>7 DEF Inv

\* A delete starts for a volume that is clear.
LEMMA CODeleteInv ==
    ASSUME Inv, NEW c \in Calls, NEW v \in Volumes, CODelete(c, v)
    PROVE  Inv'
<1> DEFINE r == [op |-> "delete", vol |-> v, node |-> None]
<1> USE DEF CODelete, Begin, Believe, apiVars
<1>1. r \in Requests
    BY DEF Requests, Inv, DisciplineInv
<1>2. COTypeOK' /\ HandlerInv'
    BY <1>1, BeginHandlers DEF Inv, COTypeOK, TypeOK, Phases
<1>3. /\ Waiting(c)' => req'[c] = r /\ action'[c] = "none" /\ result'[c] = "none"
      /\ \A e \in Calls \ {c} : req'[e] = req[e] /\ (Waiting(e)' <=> Waiting(e))
    BY DEF Inv, COTypeOK, TypeOK, HandlerInv
<1>4. DisciplineInv'
    BY <1>1, <1>3 DEF Quiet, Inv, COTypeOK, TypeOK, HandlerInv, DisciplineInv, Requests
<1>5. ApiInv'
    BY <1>1, <1>3 DEF Inv, COTypeOK, TypeOK, HandlerInv, ApiInv, CleanWhenDetached, AttachedWhenPublished, Clear, Events, NoEvent
<1>6. KnowledgeInv'
    BY <1>1, <1>3 DEF Inv, COTypeOK, TypeOK, HandlerInv, KnowledgeInv, Knows, Clear
<1>7. /\ OneNodeAtATime' /\ CleanWhenDetached'
      /\ AttachedWhenPublished' /\ DeletedMeansGone'
    BY DEF Inv, COTypeOK, TypeOK, OneNodeAtATime, CleanWhenDetached, AttachedWhenPublished,
        DeletedMeansGone, Clear
<1>8. QED
    BY <1>2, <1>4, <1>5, <1>6, <1>7 DEF Inv

\* An OK answer the orchestrator waited for is believed, and is true.
LEMMA COCollectInv ==
    ASSUME Inv, NEW c \in Calls, COCollect(c)
    PROVE  Inv'
<1> DEFINE v == req[c].vol
<1> USE DEF COCollect, Collect, Believe, apiVars, coVars
<1>1. /\ v \in Volumes /\ Active(c) /\ pc[c] = "done"
      /\ req[c].op \in {"publish", "unpublish", "delete"}
    BY WaitedRequest
<1>2. COTypeOK'
    BY <1>1 DEF Inv, COTypeOK, TypeOK, Track, Labels, Phases
<1>3. HandlerInv'
    BY DEF Inv, COTypeOK, TypeOK, HandlerInv, TagSteps, PublishSteps, UnpublishSteps
<1>4. /\ ~Waiting(c)'
      /\ \A e \in Calls \ {c} : /\ req'[e] = req[e] /\ action'[e] = action[e]
                                /\ seen'[e] = seen[e] /\ result'[e] = result[e]
                                /\ Waiting(e)' <=> Waiting(e)
      /\ action'[c] = "none"
    BY DEF Inv, COTypeOK, TypeOK
<1>5. CASE result[c] # "OK" \/ expired[c]
    <2>1. UNCHANGED <<exists, live, attached, event, phase, node>>
        BY <1>5
    <2>2. DisciplineInv'
        BY <1>4, <2>1 DEF Inv, DisciplineInv
    <2>3. ApiInv'
        BY <1>4, <2>1 DEF Inv, ApiInv
    <2>4. KnowledgeInv'
        BY <1>4, <2>1 DEF Inv, KnowledgeInv, Knows, Clear
    <2>5. QED
        BY <1>2, <1>3, <2>1, <2>2, <2>3, <2>4, BeliefsUndisturbed DEF Inv
<1>6. CASE result[c] = "OK" /\ ~expired[c]
    <2>1. /\ UNCHANGED <<exists, live, attached, event>>
          /\ \A w \in Volumes \ {v} : phase'[w] = phase[w] /\ node'[w] = node[w]
          /\ req[c].op = "publish" => /\ phase'[v] = "attached" /\ node'[v] = node[v]
                                      /\ phase[v] = "attaching" /\ node[v] = req[c].node
                                      /\ node[v] \in Droplets
          /\ req[c].op = "unpublish" => phase'[v] = "detached" /\ node'[v] = None
          /\ req[c].op = "delete" => /\ phase'[v] = "deleted" /\ node'[v] = None
                                     /\ phase[v] = "deleting"
        BY <1>1, <1>6 DEF Inv, COTypeOK, TypeOK, DisciplineInv
    <2>2. /\ Knows(c)
          /\ \A e \in Calls \ {c} : Waiting(e) => req[e].vol # v /\ req[e].vol \in Volumes
        BY <1>1, <1>6, WaitedRequest DEF Inv, KnowledgeInv, DisciplineInv
    <2>3. DisciplineInv'
        BY <1>1, <1>4, <2>1, <2>2 DEF Inv, DisciplineInv
    <2>4. req[c].op = "publish" => \A e \in Droplets : event[e].vol # v
        BY <1>1, <1>6, <2>1, <2>2, AttachmentAssumption
        DEF Knows, Inv, COTypeOK, TypeOK, ApiInv, OneNodeAtATime, NoEvent, Events
    <2>5. req[c].op = "unpublish" => Clear(v)
        BY <1>6, <2>2 DEF Knows
    <2>6. ApiInv'
        BY <1>1, <1>4, <2>1, <2>4, <2>5 DEF Inv, COTypeOK, TypeOK, ApiInv, CleanWhenDetached,
            Clear, Events
    <2>7. KnowledgeInv'
        BY <1>4, <2>1, <2>2 DEF Inv, KnowledgeInv, Knows, Clear
    <2>8. /\ OneNodeAtATime' /\ CleanWhenDetached'
          /\ AttachedWhenPublished' /\ DeletedMeansGone'
        BY <1>1, <1>6, <2>1, <2>2, <2>4, <2>5 DEF Knows, Inv, COTypeOK, TypeOK, OneNodeAtATime,
            CleanWhenDetached, AttachedWhenPublished, DeletedMeansGone, Clear
    <2>9. QED
        BY <1>2, <1>3, <2>3, <2>6, <2>7, <2>8 DEF Inv
<1>7. QED
    BY <1>5, <1>6

-----------------------------------------------------------------------------
(* The theorems *)

\* Inv holds at the start ...
LEMMA InitInv == COInit => Inv
<1> SUFFICES ASSUME COInit PROVE Inv
    OBVIOUS
<1> USE DEF COInit, Init
<1>1. COTypeOK
    BY DEF COTypeOK, TypeOK, Labels, Phases
<1>2. HandlerInv /\ DisciplineInv
    BY DEF HandlerInv, DisciplineInv, TagSteps, PublishSteps, UnpublishSteps
<1>3. ApiInv /\ KnowledgeInv
    BY DEF ApiInv, KnowledgeInv
<1>4. OneNodeAtATime /\ CleanWhenDetached /\ AttachedWhenPublished /\ DeletedMeansGone
    BY AttachmentAssumption DEF OneNodeAtATime, CleanWhenDetached, AttachedWhenPublished,
        DeletedMeansGone, Clear, NoEvent
<1>5. QED
    BY <1>1, <1>2, <1>3, <1>4 DEF Inv

\* ... and every step preserves it.
LEMMA NextInv == Inv /\ [CONext]_allVars => Inv'
<1> SUFFICES ASSUME Inv, [CONext]_allVars PROVE Inv'
    OBVIOUS
<1>1. CASE \E c \in Calls : COStep(c)
    BY <1>1, COPublishInv, COUnpublishInv, CODeleteInv, COCollectInv DEF COStep
<1>2. ASSUME NEW c \in Calls, HandlerStep(c), UNCHANGED coVars PROVE Inv'
    BY <1>2, PublishGetVolumeInv, TagResourcesInv, CreateTagInv, RetryTagResourcesInv,
       PublishGetDropletInv, PublishAttachInv, UnpublishGetVolumeInv, UnpublishGetDropletInv,
       UnpublishDetachInv, DeleteVolumeInv, WaitActionInv, ApiErrorInv
    DEF HandlerStep, HandlerProgress
<1>3. ASSUME NEW d \in Droplets, ApiStep(d), UNCHANGED coVars PROVE Inv'
    BY <1>3, FinishEventInv, FailEventInv, DestroyDropletInv DEF ApiStep
<1>4. CASE Silent
    BY <1>2, <1>3, <1>4, ExpireInv, RestartInv DEF Silent
<1>5. CASE UNCHANGED allVars
    <2>1. UNCHANGED <<exists, live, attached, event, coVars, pc, req, seen, action>>
          /\ UNCHANGED <<expired, result, held, tagExists, tagged>>
        BY <1>5 DEF allVars, vars, apiVars, callVars
    <2>2. COTypeOK' /\ HandlerInv' /\ DisciplineInv'
        BY <2>1 DEF Inv, COTypeOK, TypeOK, HandlerInv, DisciplineInv, coVars
    <2>3. KnowledgeInv'
        BY <2>1 DEF Inv, KnowledgeInv, Knows, Clear
    <2>4. QED
        BY <2>1, <2>2, <2>3, ApiUndisturbed, BeliefsUndisturbed DEF Inv
<1>6. QED
    BY <1>1, <1>4, <1>5 DEF CONext, Finished

\* Inv is an invariant of the controller driven by a disciplined orchestrator.
THEOREM InvHolds == COSpec => []Inv
BY InitInv, NextInv, PTL DEF COSpec

\* Type correctness.
THEOREM TypeCorrect == COSpec => []COTypeOK
<1>1. Inv => COTypeOK
    BY DEF Inv
<1>2. QED
    BY <1>1, InvHolds, PTL

\* After a successful ControllerUnpublishVolume nothing of the volume is left
\* in the API, not even an attach that an abandoned publish had started.
THEOREM UnpublishIsFinal == COSpec => []CleanWhenDetached
<1>1. Inv => CleanWhenDetached
    BY DEF Inv
<1>2. QED
    BY <1>1, InvHolds, PTL

\* After a successful ControllerPublishVolume the volume is on that node.
THEOREM PublishIsReal == COSpec => []AttachedWhenPublished
<1>1. Inv => AttachedWhenPublished
    BY DEF Inv
<1>2. QED
    BY <1>1, InvHolds, PTL

\* A volume is never attached, nor about to be, to two nodes.
THEOREM SingleNodeWriter == COSpec => []OneNodeAtATime
<1>1. Inv => OneNodeAtATime
    BY DEF Inv
<1>2. QED
    BY <1>1, InvHolds, PTL

\* No publish that is waited for is confused by another droplet.
THEOREM NeverWrongDroplet == COSpec => []NoWrongDroplet
<1>1. Inv => NoWrongDroplet
    BY DEF Inv, KnowledgeInv, Knows, NoWrongDroplet
<1>2. QED
    BY <1>1, InvHolds, PTL

\* A confirmed deletion is real.
THEOREM DeleteIsReal == COSpec => []DeletedMeansGone
<1>1. Inv => DeletedMeansGone
    BY DEF Inv
<1>2. QED
    BY <1>1, InvHolds, PTL

=============================================================================
