---------------------------- MODULE SystemProofs ----------------------------
(***************************************************************************)
(* Proofs about NodeService, for any sets of target paths and call slots,  *)
(* and about System.  NodeInv is inductive under every step of a node      *)
(* whose device comes and goes as NodeService says.  System is shown to    *)
(* implement NodeService: the controller attaches and detaches the volume  *)
(* only when NodeService allows it.  So what holds of the one holds of the *)
(* other.                                                                  *)
(***************************************************************************)
EXTENDS System, SequenceTheorems, TLAPS

USE DEF Active, Waiting

-----------------------------------------------------------------------------
(* Mounts *)

\* Sequences of mounts of one entry at most.
LEMMA OneMount ==
    /\ Append(<<>>, "volume") = <<"volume">>
    /\ <<"volume">> # <<>>
    /\ Front(<<"volume">>) = <<>> /\ Last(<<"volume">>) = "volume"
    /\ ToSet(<<>>) = {} /\ ToSet(<<"volume">>) = {"volume"}
<1>1. Append(<<>>, "volume") = <<"volume">> /\ <<"volume">> # <<>>
    OBVIOUS
<1>2. Front(<<"volume">>) = <<>> /\ Last(<<"volume">>) = "volume"
    BY DEF Front, Last
<1>3. ToSet(<<>>) = {} /\ ToSet(<<"volume">>) = {"volume"}
    BY DEF ToSet
<1>4. QED
    BY <1>1, <1>2, <1>3

LEMMA FrontOfMounts ==
    ASSUME NEW m \in Seq(Sources), m # <<>>
    PROVE  Front(m) \in Seq(Sources)
BY DEF Front

-----------------------------------------------------------------------------
(* Steps of a handler *)

\* A step of one handler.  While the kubelet has given up on no call no other
\* handler is under way.
LEMMA HandlerMoves ==
    ASSUME NodeInv, TypeOK', NEW c \in Calls, pc[c] # "idle", pc'[c] # "idle",
           LeavesCall, UNCHANGED <<device, devSize>>,
           \A d \in Calls \ {c} : pc'[d] = pc[d] /\ result'[d] = result[d],
           Consistent(c)', OneByOne => MountInv' /\ Knows(c)'
    PROVE  NodeInv'
<1>1. UNCHANGED <<isBlock, noFormat, req, abandoned, phase, gaveUp>>
    BY DEF LeavesCall, attributes, kubeletVars
<1>2. HandlerInv'
    BY <1>1 DEF NodeInv, HandlerInv, Consistent
<1>3. \A d \in Calls : Waiting(d)' <=> Waiting(d)
    BY <1>1
<1>4. PhaseInv' /\ DeviceInv'
    BY <1>1, <1>3 DEF NodeInv, PhaseInv, DeviceInv, Believes, OneByOne
<1>5. ASSUME OneByOne'
      PROVE  MountInv' /\ KnowledgeInv'
    <2>1. OneByOne /\ abandoned = {}
        BY <1>1, <1>5 DEF OneByOne, NodeInv, PhaseInv
    <2>2. \A d \in Calls : pc'[d] # "idle" => d = c
        BY <2>1 DEF NodeInv, PhaseInv
    <2>3. QED
        BY <2>1, <2>2 DEF KnowledgeInv
<1>6. QED
    BY <1>2, <1>4, <1>5 DEF NodeInv

LEMMA GotoType ==
    ASSUME TypeOK, NEW c \in Calls, NEW l \in Labels, Goto(c, l)
    PROVE  /\ pc' \in [Calls -> Labels] /\ result' \in [Calls -> Codes \union {"none"}]
           /\ pc'[c] = l /\ result'[c] = result[c]
           /\ \A d \in Calls \ {c} : pc'[d] = pc[d] /\ result'[d] = result[d]
BY DEF TypeOK, Goto

LEMMA ReturnType ==
    ASSUME TypeOK, NEW c \in Calls, NEW code \in Codes, Return(c, code)
    PROVE  /\ pc' \in [Calls -> Labels] /\ result' \in [Calls -> Codes \union {"none"}]
           /\ pc'[c] = "done" /\ result'[c] = code
           /\ \A d \in Calls \ {c} : pc'[d] = pc[d] /\ result'[d] = result[d]
BY DEF TypeOK, Return, Labels

\* An error is always a consistent answer, and commits to nothing.
LEMMA ReturnError ==
    ASSUME NodeInv, NEW c \in Calls, pc[c] # "idle", LeavesCall, UNCHANGED devSize,
           NEW code \in Codes \ {"OK"}, Return(c, code)
    PROVE  Consistent(c)' /\ Knows(c)'
<1>1. UNCHANGED <<isBlock, req, abandoned>>
    BY DEF LeavesCall, attributes
<1>2. pc'[c] = "done" /\ result'[c] = code /\ code # "OK" /\ code # "none"
    BY ReturnType DEF NodeInv, Codes
<1>3. QED
    BY <1>1, <1>2 DEF NodeInv, HandlerInv, Consistent, Knows, CleanupSteps

\* A step that only looks at the node.
LEMMA OnlyLooks ==
    ASSUME NodeInv, NEW c \in Calls, pc[c] # "idle", UNCHANGED nodeVars, LeavesCall,
           unread' \in SUBSET Calls, data' \in BOOLEAN,
           \/ \E l \in Labels \ {"idle"} : Goto(c, l)
           \/ \E code \in Codes : Return(c, code),
           Consistent(c)', OneByOne => Knows(c)'
    PROVE  NodeInv'
<1>1. UNCHANGED <<isBlock, noFormat, req, abandoned, phase, gaveUp, device, devSize, fs,
                  broken, fsSize, mounts>>
    BY DEF LeavesCall, attributes, kubeletVars, nodeVars
<1>2. /\ pc' \in [Calls -> Labels] /\ result' \in [Calls -> Codes \union {"none"}]
      /\ pc'[c] # "idle"
      /\ \A d \in Calls \ {c} : pc'[d] = pc[d] /\ result'[d] = result[d]
    BY GotoType, ReturnType DEF NodeInv
<1>3. TypeOK'
    BY <1>1, <1>2 DEF NodeInv, TypeOK
<1>4. OneByOne => MountInv'
    BY <1>1 DEF NodeInv, MountInv
<1>5. QED
    BY <1>1, <1>2, <1>3, <1>4, HandlerMoves

LEMMA HistoryType ==
    ASSUME TypeOK, LeavesRest
    PROVE  LeavesCall /\ unread' \in SUBSET Calls /\ data' \in BOOLEAN
BY DEF TypeOK, LeavesRest, history

\* A command that fails.
LEMMA CommandFailsInv ==
    ASSUME NodeInv, NEW c \in Calls, CommandFails(c)
    PROVE  NodeInv'
<1>1. PICK code \in {"Internal", "Unknown"} : Return(c, code)
    BY DEF CommandFails, CommandCode
<1>2. pc[c] # "idle" /\ UNCHANGED nodeVars /\ LeavesRest /\ UNCHANGED devSize
    BY DEF CommandFails, Commands, CleanupSteps, nodeVars
<1>2a. LeavesCall /\ unread' \in SUBSET Calls /\ data' \in BOOLEAN
    BY <1>2, HistoryType DEF NodeInv
<1>3. Consistent(c)' /\ Knows(c)'
    BY <1>1, <1>2, <1>2a, ReturnError DEF Codes
<1>4. QED
    BY <1>1, <1>2, <1>2a, <1>3, OnlyLooks DEF Codes

\* The steps of a handler that look, and the way they go on.
LEMMA LooksInv ==
    ASSUME NodeInv, NEW c \in Calls,
           \/ NodeStageVolume(c) \/ IsFormatted(c) \/ StageIsMounted(c) \/ FindDevice(c)
           \/ PublishIsMounted(c) \/ UnstageIsMounted(c) \/ CleanupCheck(c)
           \/ CleanupRecheck(c) \/ NodeExpandVolume(c) \/ ExpandIsMounted(c)
    PROVE  NodeInv'
<1> DEFINE p == req[c].path
<1>1. /\ pc[c] \notin {"idle", "done"} /\ UNCHANGED nodeVars /\ LeavesCall
      /\ UNCHANGED <<isBlock, noFormat, req, abandoned, phase, gaveUp, device, devSize, fs,
                     broken, fsSize, mounts>>
      /\ unread' \in SUBSET Calls /\ data' \in BOOLEAN
    <2>1. /\ pc[c] \notin {"idle", "done"} /\ UNCHANGED nodeVars /\ LeavesCall
          /\ UNCHANGED data /\ unread' \in {unread, unread \union {c}}
        BY DEF NodeStageVolume, IsFormatted, StageIsMounted, FindDevice, PublishIsMounted,
               UnstageIsMounted, CleanupCheck, CleanupRecheck, NodeExpandVolume,
               ExpandIsMounted, LeavesRest, history
    <2>2. QED
        BY <2>1 DEF NodeInv, TypeOK, LeavesCall, attributes, kubeletVars, nodeVars
<1>2. /\ Consistent(c) /\ req[c] \in Requests /\ p \in Paths /\ result[c] = "none"
      /\ req[c].op \in {"stage", "unstage"} => p = Staging
    BY <1>1 DEF NodeInv, HandlerInv, Consistent, Requests, Paths
<1>3. OneByOne => /\ mounts[p] \in {<<>>, <<"volume">>}
                  /\ phase[p] = "in" /\ ~(isBlock /\ p = Staging) => mounts[p] = <<"volume">>
                  /\ Waiting(c) /\ Believes(c)
    BY <1>1, <1>2 DEF NodeInv, MountInv, PhaseInv
<1>4. ASSUME NEW code \in {"Internal", "Unknown", "NotFound"}, Return(c, code)
      PROVE  NodeInv'
    <2>1. Consistent(c)' /\ Knows(c)'
        BY <1>1, <1>4, ReturnError DEF Codes
    <2>2. QED
        BY <1>1, <1>4, <2>1, OnlyLooks DEF Codes
<1>5. ASSUME Return(c, "OK"),
             \/ isBlock /\ req[c].op \in {"stage", "expand"}
             \/ Mounted(p) /\ req[c].op = "publish"
             \/ ~Mounted(p) /\ req[c].op \in {"unstage", "unpublish"}
      PROVE  NodeInv'
    <2>1. pc'[c] = "done" /\ result'[c] = "OK"
        BY <1>5, ReturnType DEF NodeInv, Codes
    <2>2. Consistent(c)'
        BY <1>1, <1>2, <2>1 DEF Consistent, CleanupSteps
    <2>3. OneByOne => Knows(c)'
        BY <1>1, <1>3, <1>5, <2>1 DEF Knows, Mounted
    <2>4. QED
        BY <1>1, <1>5, <2>2, <2>3, OnlyLooks DEF Codes
<1>6. ASSUME NEW l \in Labels \ {"idle", "done"}, Goto(c, l),
             req[c].op = "stage" => /\ l \in {"isFormatted", "format", "stageIsMounted",
                                              "stageMount", "stageResize"}
                                    /\ ~isBlock,
             req[c].op = "publish" => l \in {"publishIsMounted", "bindMount"},
             req[c].op \in {"unstage", "unpublish"} => l \in {"cleanupCheck", "cleanupUnmount"},
             req[c].op = "expand" => l \in {"expandIsMounted", "resize"} /\ ~isBlock,
             l = "bindMount" => ~Mounted(p),
             l = "stageResize" => Mounted(p)
      PROVE  NodeInv'
    <2>1. pc'[c] = l /\ result'[c] = "none"
        BY <1>2, <1>6, GotoType DEF NodeInv
    <2>2. req[c].op \in {"stage", "publish", "unstage", "unpublish", "expand"}
        BY <1>2 DEF Requests
    <2>3. Consistent(c)'
        <3>1. CASE req[c].op = "stage"
            BY <1>1, <1>2, <1>6, <2>1, <3>1 DEF Consistent, CleanupSteps
        <3>2. CASE req[c].op = "publish"
            BY <1>1, <1>2, <1>6, <2>1, <3>2 DEF Consistent, CleanupSteps
        <3>3. CASE req[c].op \in {"unstage", "unpublish"}
            BY <1>1, <1>2, <1>6, <2>1, <3>3 DEF Consistent, CleanupSteps
        <3>4. CASE req[c].op = "expand"
            BY <1>1, <1>2, <1>6, <2>1, <3>4 DEF Consistent, CleanupSteps
        <3>5. QED
            BY <2>2, <3>1, <3>2, <3>3, <3>4
    <2>4. OneByOne => Knows(c)'
        BY <1>1, <1>2, <1>3, <1>6, <2>1, <2>2 DEF Knows, Mounted
    <2>5. QED
        BY <1>1, <1>6, <2>3, <2>4, OnlyLooks
<1>7. CASE NodeStageVolume(c)
    <2>1. req[c].op = "stage"
        BY <1>2, <1>7 DEF NodeStageVolume, Consistent
    <2>2. \/ isBlock /\ Return(c, "OK")
          \/ ~isBlock /\ \E l \in {"isFormatted", "stageIsMounted"} : Goto(c, l)
        BY <1>7 DEF NodeStageVolume, NewDriver
    <2>3. QED
        BY <1>5, <1>6, <2>1, <2>2 DEF Labels, Commands
<1>8. CASE IsFormatted(c)
    <2>1. req[c].op = "stage" /\ ~isBlock
        BY <1>2, <1>8 DEF IsFormatted, Consistent
    <2>2. Goto(c, "stageIsMounted") \/ Goto(c, "format")
        BY <1>8 DEF IsFormatted
    <2>3. QED
        BY <1>6, <2>1, <2>2 DEF Labels, Commands
<1>9. CASE StageIsMounted(c)
    <2>1. req[c].op = "stage" /\ p = Staging /\ ~isBlock
        BY <1>2, <1>9 DEF StageIsMounted, Consistent
    <2>2. Goto(c, "stageMount") \/ (Mounted(p) /\ Goto(c, "stageResize"))
        BY <1>9, <2>1 DEF StageIsMounted, Goto
    <2>3. QED
        BY <1>6, <2>1, <2>2 DEF Labels, Commands
<1>10. CASE FindDevice(c)
    <2>1. req[c].op = "publish"
        BY <1>2, <1>10 DEF FindDevice, Consistent
    <2>2. Return(c, "Internal") \/ Goto(c, "publishIsMounted")
        BY <1>10 DEF FindDevice
    <2>3. QED
        BY <1>4, <1>6, <2>1, <2>2 DEF Labels, Commands
<1>11. CASE PublishIsMounted(c)
    <2>1. req[c].op = "publish"
        BY <1>2, <1>11 DEF PublishIsMounted, Consistent
    <2>2. (Mounted(p) /\ Return(c, "OK")) \/ (~Mounted(p) /\ Goto(c, "bindMount"))
        BY <1>11 DEF PublishIsMounted
    <2>3. QED
        BY <1>5, <1>6, <2>1, <2>2 DEF Labels, Commands
<1>12. CASE UnstageIsMounted(c)
    <2>1. req[c].op = "unstage" /\ p = Staging
        BY <1>2, <1>12 DEF UnstageIsMounted, Consistent
    <2>2. (~Mounted(p) /\ Return(c, "OK")) \/ Goto(c, "cleanupCheck")
        BY <1>12, <2>1 DEF UnstageIsMounted
    <2>3. QED
        BY <1>5, <1>6, <2>1, <2>2 DEF Labels, Commands, CleanupSteps
<1>13. CASE CleanupCheck(c)
    <2>1. req[c].op \in {"unstage", "unpublish"}
        BY <1>2, <1>13 DEF CleanupCheck, Consistent, CleanupSteps
    <2>2. (~Mounted(p) /\ Return(c, "OK")) \/ Goto(c, "cleanupUnmount")
        BY <1>13 DEF CleanupCheck
    <2>3. QED
        BY <1>5, <1>6, <2>1, <2>2 DEF Labels, Commands, CleanupSteps
<1>14. CASE CleanupRecheck(c)
    <2>1. req[c].op \in {"unstage", "unpublish"}
        BY <1>2, <1>14 DEF CleanupRecheck, Consistent, CleanupSteps
    <2>2. (~Mounted(p) /\ Return(c, "OK")) \/ Return(c, "Unknown")
        BY <1>14 DEF CleanupRecheck
    <2>3. QED
        BY <1>4, <1>5, <2>1, <2>2
<1>15. CASE NodeExpandVolume(c)
    <2>1. req[c].op = "expand"
        BY <1>2, <1>15 DEF NodeExpandVolume, Consistent
    <2>2. (isBlock /\ Return(c, "OK")) \/ (~isBlock /\ Goto(c, "expandIsMounted"))
        BY <1>15 DEF NodeExpandVolume
    <2>3. QED
        BY <1>5, <1>6, <2>1, <2>2 DEF Labels, Commands
<1>16. CASE ExpandIsMounted(c)
    <2>1. req[c].op = "expand" /\ ~isBlock
        BY <1>2, <1>16 DEF ExpandIsMounted, Consistent
    <2>2. Goto(c, "resize") \/ Return(c, "NotFound")
        BY <1>16 DEF ExpandIsMounted
    <2>3. QED
        BY <1>4, <1>6, <2>1, <2>2 DEF Labels, Commands
<1>17. QED
    BY <1>7, <1>8, <1>9, <1>10, <1>11, <1>12, <1>13, <1>14, <1>15, <1>16

LEMMA SizeType ==
    ASSUME TypeOK
    PROVE  /\ fs \in 0..MaxFormats /\ broken \in BOOLEAN /\ fsSize \in 0..MaxSize
           /\ devSize \in 0..MaxSize /\ MaxSize \in Nat /\ MaxFormats \in Nat
           /\ devSize <= devSize
<1>1. fs \in 0..MaxFormats /\ broken \in BOOLEAN /\ fsSize \in 0..MaxSize /\ devSize \in 1..MaxSize
    BY Zenon DEF TypeOK
<1>2. MaxSize \in Nat /\ MaxFormats \in Nat
    BY NodeAssumption
<1>3. devSize \in 0..MaxSize /\ devSize <= devSize
    BY <1>1, <1>2
<1>4. QED
    BY <1>1, <1>2, <1>3, Zenon

\* mkfs, while nothing shows the volume: no mount changes.
LEMMA FormatInv ==
    ASSUME NodeInv, NEW c \in Calls, Format(c)
    PROVE  NodeInv'
<1>1. /\ pc[c] = "format" /\ req[c].op = "stage" /\ req[c] \in Requests /\ LeavesCall
      /\ UNCHANGED <<device, devSize, mounts, isBlock, noFormat, req, abandoned, phase, gaveUp>>
      /\ unread' \in SUBSET Calls /\ data' \in BOOLEAN
    <2>1. /\ pc[c] = "format" /\ LeavesCall /\ UNCHANGED <<device, devSize, mounts>>
          /\ unread' = unread \ {c} /\ data' \in {data, FALSE}
        BY DEF Format, nodeVars
    <2>2. unread' \in SUBSET Calls /\ data' \in BOOLEAN
        BY <2>1 DEF NodeInv, TypeOK
    <2>3. QED
        BY <2>1, <2>2 DEF NodeInv, HandlerInv, Consistent, LeavesCall, attributes, kubeletVars
<1>2. OneByOne => MountInv'
    BY <1>1 DEF NodeInv, MountInv
<1>3. ASSUME Return(c, "Internal"), fs' \in 0..MaxFormats, broken' \in BOOLEAN,
             fsSize' \in 0..MaxSize
      PROVE  NodeInv'
    <2>1. Consistent(c)' /\ Knows(c)'
        BY <1>1, <1>3, ReturnError DEF Codes
    <2>2. /\ pc' \in [Calls -> Labels] /\ result' \in [Calls -> Codes \union {"none"}]
          /\ pc'[c] = "done" /\ result'[c] = "Internal"
          /\ \A d \in Calls \ {c} : pc'[d] = pc[d] /\ result'[d] = result[d]
        BY <1>3, ReturnType DEF NodeInv, Codes
    <2>3. TypeOK'
        BY <1>1, <1>3, <2>2 DEF NodeInv, TypeOK
    <2>4. QED
        BY <1>1, <1>2, <2>1, <2>2, <2>3, HandlerMoves
<1>4. ASSUME Goto(c, "stageIsMounted"), fs' \in 0..MaxFormats, broken' = FALSE,
             fsSize' \in 0..MaxSize
      PROVE  NodeInv'
    <2>1. /\ pc' \in [Calls -> Labels] /\ result' \in [Calls -> Codes \union {"none"}]
          /\ pc'[c] = "stageIsMounted" /\ result'[c] = result[c]
          /\ \A d \in Calls \ {c} : pc'[d] = pc[d] /\ result'[d] = result[d]
        BY <1>4, GotoType DEF NodeInv, Labels, Commands
    <2>2. Consistent(c)' /\ Knows(c)'
        BY <1>1, <2>1 DEF NodeInv, HandlerInv, Consistent, Knows, CleanupSteps
    <2>3. TypeOK'
        BY <1>1, <1>4, <2>1 DEF NodeInv, TypeOK
    <2>4. QED
        BY <1>1, <1>2, <2>1, <2>2, <2>3, HandlerMoves
<1>5. /\ fs \in 0..MaxFormats /\ broken \in BOOLEAN /\ fsSize \in 0..MaxSize
      /\ devSize \in 0..MaxSize /\ MaxSize \in Nat /\ MaxFormats \in Nat
    BY SizeType, Zenon DEF NodeInv
<1>6. \/ Return(c, "Internal") /\ UNCHANGED <<fs, broken, fsSize>>
      \/ /\ Goto(c, "stageIsMounted") /\ fs < MaxFormats
         /\ fs' = fs + 1 /\ broken' = FALSE /\ fsSize' = devSize
      \/ /\ Return(c, "Internal") /\ fs < MaxFormats
         /\ (fs' = 0 /\ broken' = FALSE) \/ (fs' = fs + 1 /\ broken' = TRUE)
         /\ fsSize' = 0
    BY DEF Format, nodeVars
<1>7. QED
    <2>1. CASE Return(c, "Internal") /\ UNCHANGED <<fs, broken, fsSize>>
        BY <1>3, <1>5, <2>1
    <2>2. CASE /\ Goto(c, "stageIsMounted") /\ fs < MaxFormats
               /\ fs' = fs + 1 /\ broken' = FALSE /\ fsSize' = devSize
        <3>1. fs + 1 \in 0..MaxFormats
            BY <1>5, <2>2
        <3>2. QED
            BY <1>4, <1>5, <2>2, <3>1
    <2>3. CASE /\ Return(c, "Internal") /\ fs < MaxFormats
               /\ (fs' = 0 /\ broken' = FALSE) \/ (fs' = fs + 1 /\ broken' = TRUE)
               /\ fsSize' = 0
        <3>1. fs' \in 0..MaxFormats /\ fsSize' \in 0..MaxSize
            BY <1>5, <2>3
        <3>2. broken' \in BOOLEAN
            BY <2>3, Zenon
        <3>3. QED
            BY <1>3, <2>3, <3>1, <3>2
    <2>4. QED
        BY <1>6, <2>1, <2>2, <2>3

\* A step that changes the mounts of the path of a call that is waited for.
LEMMA MountsMove ==
    ASSUME NodeInv, NEW c \in Calls, pc[c] \notin {"idle", "done"}, LeavesRest,
           UNCHANGED <<device, devSize, fs, broken>>, fsSize' \in 0..MaxSize,
           NEW l \in Labels \ {"idle"}, NEW code \in Codes \union {"none"},
           pc' = [pc EXCEPT ![c] = l], result' = [result EXCEPT ![c] = code],
           NEW m \in Seq(Sources), mounts' = [mounts EXCEPT ![req[c].path] = m],
           Consistent(c)',
           OneByOne /\ Waiting(c) =>
             LET p == req[c].path IN
             /\ m \in {<<>>, <<"volume">>}
             /\ phase[p] = "out" => m = <<>>
             /\ phase[p] = "in" /\ ~(isBlock /\ p = Staging) => m = <<"volume">>
             /\ m # <<>> /\ ~isBlock => device = "running"
             /\ Knows(c)'
    PROVE  NodeInv'
<1> DEFINE p == req[c].path
<1>1. /\ p \in Paths /\ UNCHANGED <<isBlock, noFormat, req, abandoned, phase, gaveUp>>
      /\ LeavesCall /\ unread' \in SUBSET Calls /\ data' \in BOOLEAN
    <2>1. LeavesCall /\ unread' \in SUBSET Calls /\ data' \in BOOLEAN
        BY HistoryType DEF NodeInv
    <2>2. QED
        BY <2>1 DEF NodeInv, HandlerInv, Consistent, Requests, Paths, LeavesCall, attributes,
                    kubeletVars
<1>2. /\ mounts' \in [Paths -> Seq(Sources)] /\ mounts'[p] = m
      /\ \A q \in Paths \ {p} : mounts'[q] = mounts[q]
      /\ pc' \in [Calls -> Labels] /\ result' \in [Calls -> Codes \union {"none"}]
      /\ pc'[c] # "idle"
      /\ \A d \in Calls \ {c} : pc'[d] = pc[d] /\ result'[d] = result[d]
    BY <1>1 DEF NodeInv, TypeOK
<1>3. TypeOK'
    BY <1>1, <1>2 DEF NodeInv, TypeOK
<1>4. OneByOne => Waiting(c)
    BY DEF NodeInv, PhaseInv
<1>5. OneByOne => MountInv'
    <2> SUFFICES ASSUME OneByOne, NEW q \in Paths
                 PROVE  /\ mounts'[q] \in {<<>>, <<"volume">>}
                        /\ phase[q] = "out" => mounts'[q] = <<>>
                        /\ phase[q] = "in" /\ ~(isBlock /\ q = Staging) => mounts'[q] = <<"volume">>
                        /\ mounts'[q] # <<>> /\ ~isBlock => device = "running"
        BY <1>1 DEF MountInv
    <2>1. CASE q = p
        BY <1>2, <1>4, <2>1
    <2>2. CASE q # p
        BY <1>2, <2>2 DEF NodeInv, MountInv
    <2>3. QED
        BY <2>1, <2>2
<1>6. QED
    BY <1>1, <1>2, <1>3, <1>4, <1>5, HandlerMoves

LEMMA StageMountInv ==
    ASSUME NodeInv, NEW c \in Calls, StageMount(c)
    PROVE  NodeInv'
<1>1. /\ pc[c] = "stageMount" /\ req[c].op = "stage" /\ req[c] \in Requests /\ LeavesRest
      /\ req[c].path = Staging /\ result[c] = "none"
      /\ UNCHANGED <<device, devSize, fs, broken, fsSize, isBlock, noFormat, req, abandoned,
                     phase, gaveUp>>
    BY DEF StageMount, NodeInv, HandlerInv, Consistent, Requests, LeavesRest, LeavesCall,
           attributes, kubeletVars
<1>1a. LeavesCall /\ unread' \in SUBSET Calls /\ data' \in BOOLEAN
    BY <1>1, HistoryType DEF NodeInv
<1>2. CASE Return(c, "Internal") /\ UNCHANGED mounts
    <2>1. Consistent(c)' /\ Knows(c)'
        BY <1>1, <1>1a, <1>2, ReturnError DEF Codes
    <2>2. QED
        BY <1>1, <1>1a, <1>2, <2>1, OnlyLooks DEF Codes, nodeVars
<1>3. ASSUME device = "running", ~Mounted(Staging), Goto(c, "stageResize"),
             mounts' = [mounts EXCEPT ![Staging] = Append(@, "volume")]
      PROVE  NodeInv'
    <2>1. mounts[Staging] = <<>> /\ Staging \in Paths
        BY <1>3 DEF Mounted, Paths
    <2>2. mounts' = [mounts EXCEPT ![Staging] = <<"volume">>] /\ mounts'[Staging] = <<"volume">>
        BY <1>3, <2>1, OneMount DEF NodeInv, TypeOK
    <2>3. pc' = [pc EXCEPT ![c] = "stageResize"] /\ result' = [result EXCEPT ![c] = "none"]
          /\ pc'[c] = "stageResize" /\ result'[c] = "none"
        BY <1>1, <1>3 DEF Goto, NodeInv, TypeOK
    <2>4. Consistent(c)' /\ Knows(c)'
        BY <1>1, <2>2, <2>3 DEF NodeInv, HandlerInv, Consistent, Knows, CleanupSteps
    <2>5. "stageResize" \in Labels \ {"idle"} /\ <<"volume">> \in Seq(Sources)
          /\ fsSize' \in 0..MaxSize
        <3>1. "volume" \in Sources /\ "stageResize" \in Labels \ {"idle"}
            BY DEF Labels, Commands, Sources
        <3>2. <<"volume">> \in Seq(Sources)
            BY <3>1
        <3>3. QED
            BY <1>1, <3>1, <3>2 DEF NodeInv, TypeOK
    <2>6. OneByOne /\ Waiting(c) => phase[Staging] = "going in"
        BY <1>1 DEF NodeInv, PhaseInv, Believes
    <2>7. QED
        BY <1>1, <1>3, <2>2, <2>3, <2>4, <2>5, <2>6, MountsMove
<1>4. QED
    BY <1>2, <1>3 DEF StageMount

\* A bind mount shows the volume: for a filesystem, because it is staged.
LEMMA BindMountInv ==
    ASSUME NodeInv, NEW c \in Calls, BindMount(c)
    PROVE  NodeInv'
<1> DEFINE p == req[c].path
<1>1. /\ pc[c] = "bindMount" /\ req[c].op = "publish" /\ req[c] \in Requests /\ LeavesRest
      /\ p \in Targets /\ result[c] = "none"
      /\ UNCHANGED <<device, devSize, fs, broken, fsSize, isBlock, noFormat, req, abandoned,
                     phase, gaveUp>>
    BY DEF BindMount, NodeInv, HandlerInv, Consistent, Requests, LeavesRest, LeavesCall,
           attributes, kubeletVars
<1>1a. LeavesCall /\ unread' \in SUBSET Calls /\ data' \in BOOLEAN
    BY <1>1, HistoryType DEF NodeInv
<1>2. CASE Return(c, "Internal") /\ UNCHANGED mounts
    <2>1. Consistent(c)' /\ Knows(c)'
        BY <1>1, <1>1a, <1>2, ReturnError DEF Codes
    <2>2. QED
        BY <1>1, <1>1a, <1>2, <2>1, OnlyLooks DEF Codes, nodeVars
<1>3. ASSUME mounts' = [mounts EXCEPT ![p] = Append(@, BindSource)], Return(c, "OK")
      PROVE  NodeInv'
    <2> DEFINE m == Append(mounts[p], BindSource)
    <2>1. p \in Paths /\ Staging \in Paths /\ m \in Seq(Sources)
        <3>1. BindSource \in Sources
            BY DEF BindSource, Sources
        <3>2. p \in Paths /\ Staging \in Paths /\ mounts[p] \in Seq(Sources)
            BY <1>1 DEF Paths, NodeInv, TypeOK
        <3>3. QED
            BY <3>1, <3>2, AppendProperties
    <2>2. mounts' = [mounts EXCEPT ![p] = m] /\ mounts'[p] = m
        BY <1>3, <2>1 DEF NodeInv, TypeOK
    <2>3. /\ pc' = [pc EXCEPT ![c] = "done"] /\ result' = [result EXCEPT ![c] = "OK"]
          /\ pc'[c] = "done" /\ result'[c] = "OK"
        BY <1>3 DEF Return, NodeInv, TypeOK
    <2>4. ASSUME OneByOne, Waiting(c)
          PROVE  /\ m = <<"volume">> /\ phase[p] = "going in"
                 /\ ~isBlock => device = "running"
        <3>1. MountInv /\ Knows(c) /\ Believes(c)
            BY <1>1, <2>4 DEF NodeInv, PhaseInv, KnowledgeInv
        <3>2. mounts[p] = <<>> /\ phase[p] = "going in" /\ phase[Staging] = "in"
            BY <1>1, <3>1 DEF Knows, Believes
        <3>3. ~isBlock => mounts[Staging] = <<"volume">> /\ device = "running"
            BY <2>1, <3>1, <3>2, OneMount DEF MountInv
        <3>4. BindSource = "volume"
            BY <3>3, OneMount DEF BindSource, Mounted
        <3>5. QED
            BY <3>2, <3>3, <3>4, OneMount
    <2> HIDE DEF m, p
    <2>5. Consistent(c)'
        BY <1>1, <2>3 DEF NodeInv, HandlerInv, Consistent, CleanupSteps
    <2>6. OneByOne /\ Waiting(c) => Knows(c)'
        BY <1>1, <2>2, <2>3, <2>4 DEF Knows, p
    <2>7. "done" \in Labels \ {"idle"} /\ "OK" \in Codes \union {"none"} /\ fsSize' \in 0..MaxSize
        BY <1>1 DEF Labels, Codes, NodeInv, TypeOK
    <2>8. QED
        BY <1>1, <2>1, <2>2, <2>3, <2>4, <2>5, <2>6, <2>7, MountsMove DEF p
<1>4. QED
    BY <1>2, <1>3 DEF BindMount

LEMMA CleanupUnmountInv ==
    ASSUME NodeInv, NEW c \in Calls, CleanupUnmount(c)
    PROVE  NodeInv'
<1> DEFINE p == req[c].path
<1>1. /\ pc[c] = "cleanupUnmount" /\ req[c].op \in {"unstage", "unpublish"}
      /\ req[c] \in Requests /\ LeavesRest /\ p \in Paths /\ result[c] = "none"
      /\ req[c].op = "unstage" => p = Staging
      /\ UNCHANGED <<device, devSize, fs, broken, fsSize, isBlock, noFormat, req, abandoned,
                     phase, gaveUp>>
    BY DEF CleanupUnmount, NodeInv, HandlerInv, Consistent, CleanupSteps, Requests, Paths,
           LeavesRest, LeavesCall, attributes, kubeletVars
<1>1a. LeavesCall /\ unread' \in SUBSET Calls /\ data' \in BOOLEAN
    BY <1>1, HistoryType DEF NodeInv
<1>2. CASE Return(c, "Unknown") /\ UNCHANGED mounts
    <2>1. Consistent(c)' /\ Knows(c)'
        BY <1>1, <1>1a, <1>2, ReturnError DEF Codes
    <2>2. QED
        BY <1>1, <1>1a, <1>2, <2>1, OnlyLooks DEF Codes, nodeVars
<1>3. ASSUME Mounted(p), mounts' = [mounts EXCEPT ![p] = Front(@)], Goto(c, "cleanupRecheck")
      PROVE  NodeInv'
    <2> DEFINE m == Front(mounts[p])
    <2>1. m \in Seq(Sources)
        BY <1>1, <1>3, FrontOfMounts DEF Mounted, NodeInv, TypeOK
    <2>2. mounts' = [mounts EXCEPT ![p] = m]
        BY <1>1, <1>3 DEF NodeInv, TypeOK
    <2>3. /\ pc' = [pc EXCEPT ![c] = "cleanupRecheck"] /\ result' = [result EXCEPT ![c] = "none"]
          /\ pc'[c] = "cleanupRecheck" /\ result'[c] = "none"
        BY <1>1, <1>3 DEF Goto, NodeInv, TypeOK
    <2>4. OneByOne /\ Waiting(c) => m = <<>> /\ phase[p] = "going out"
        BY <1>1, <1>3, OneMount DEF NodeInv, MountInv, PhaseInv, Believes, Mounted
    <2> HIDE DEF m, p
    <2>5. Consistent(c)' /\ Knows(c)'
        BY <1>1, <2>3 DEF NodeInv, HandlerInv, Consistent, Knows, CleanupSteps
    <2>6. "cleanupRecheck" \in Labels \ {"idle"} /\ fsSize' \in 0..MaxSize
        BY <1>1 DEF Labels, Commands, CleanupSteps, NodeInv, TypeOK
    <2>7. QED
        BY <1>1, <2>1, <2>2, <2>3, <2>4, <2>5, <2>6, MountsMove DEF p
<1>4. CASE Goto(c, "cleanupRecheck") /\ UNCHANGED mounts
    <2>1. pc'[c] = "cleanupRecheck" /\ result'[c] = "none"
        BY <1>1, <1>4, GotoType DEF NodeInv, Labels, Commands, CleanupSteps
    <2>2. Consistent(c)' /\ Knows(c)'
        BY <1>1, <2>1 DEF NodeInv, HandlerInv, Consistent, Knows, CleanupSteps
    <2>3. QED
        BY <1>1, <1>1a, <1>4, <2>2, OnlyLooks DEF Labels, Commands, CleanupSteps, nodeVars
<1>5. QED
    BY <1>2, <1>3, <1>4 DEF CleanupUnmount, Unmounted

\* A resize that succeeds makes the filesystem as large as the device, which is
\* as large at least as it was when the call began.
LEMMA ResizeStepInv ==
    ASSUME NodeInv, NEW c \in Calls, StageResize(c) \/ Resize(c)
    PROVE  NodeInv'
<1> DEFINE p == req[c].path
<1>1. /\ pc[c] \in {"stageResize", "resize"} /\ LeavesRest /\ p \in Paths
      /\ pc[c] = "stageResize" => req[c].op = "stage" /\ p = Staging
      /\ pc[c] = "resize" => req[c].op = "expand"
      /\ ~isBlock /\ req[c] \in Requests /\ req[c].size <= devSize
      /\ UNCHANGED <<device, devSize, fs, broken, mounts, isBlock, noFormat, req, abandoned,
                     phase, gaveUp>>
    BY DEF StageResize, Resize, NodeInv, HandlerInv, Consistent, Requests, Paths, LeavesRest,
           LeavesCall, attributes, kubeletVars, nodeVars
<1>1a. LeavesCall /\ unread' \in SUBSET Calls /\ data' \in BOOLEAN
    BY <1>1, HistoryType DEF NodeInv
<1>2. CASE Return(c, "NotFound") /\ UNCHANGED fsSize
    <2>1. Consistent(c)' /\ Knows(c)'
        BY <1>1, <1>1a, <1>2, ReturnError DEF Codes
    <2>2. QED
        BY <1>1, <1>1a, <1>2, <2>1, OnlyLooks DEF Codes, nodeVars
<1>3. ASSUME Return(c, "OK"), fsSize' \in {fsSize, devSize},
             OneByOne => fsSize' = devSize
      PROVE  NodeInv'
    <2>1. /\ pc' \in [Calls -> Labels] /\ result' \in [Calls -> Codes \union {"none"}]
          /\ pc'[c] = "done" /\ result'[c] = "OK"
          /\ \A d \in Calls \ {c} : pc'[d] = pc[d] /\ result'[d] = result[d]
        BY <1>3, ReturnType DEF NodeInv, Codes
    <2>2. TypeOK'
        <3>1. fsSize' \in 0..MaxSize
            BY <1>3, SizeType DEF NodeInv
        <3>2. QED
            BY <1>1, <1>1a, <2>1, <3>1 DEF NodeInv, TypeOK
    <2>3. OneByOne => MountInv'
        BY <1>1 DEF NodeInv, MountInv
    <2>4. Consistent(c)'
        BY <1>1, <2>1 DEF NodeInv, HandlerInv, Consistent, CleanupSteps
    <2>5. OneByOne => Knows(c)'
        BY <1>1, <1>3, <2>1 DEF NodeInv, KnowledgeInv, Knows
    <2>6. QED
        BY <1>1, <1>1a, <2>1, <2>2, <2>3, <2>4, <2>5, HandlerMoves
<1>4. CASE StageResize(c)
    <2>1. OneByOne => device = "running"
        <3> SUFFICES ASSUME OneByOne
                     PROVE  device = "running"
            OBVIOUS
        <3>1. mounts[p] = <<"volume">> /\ Waiting(c)
            BY <1>1, <1>4 DEF StageResize, NodeInv, KnowledgeInv, Knows, PhaseInv
        <3>2. QED
            BY <1>1, <1>4, <3>1, OneMount DEF StageResize, NodeInv, MountInv, DeviceInv
    <2>2. QED
        BY <1>3, <1>4, <2>1 DEF StageResize, nodeVars
<1>5. CASE Resize(c)
    <2>1. OneByOne => mounts[p] = <<"volume">>
        BY <1>1, <1>5 DEF Resize, NodeInv, MountInv, PhaseInv, Believes
    <2>2. QED
        BY <1>2, <1>3, <1>5, <2>1, OneMount DEF Resize
<1>6. QED
    BY <1>4, <1>5

LEMMA HandlerStepInv ==
    ASSUME NodeInv, NEW c \in Calls, HandlerStep(c)
    PROVE  NodeInv'
BY LooksInv, CommandFailsInv, FormatInv, StageMountInv, BindMountInv, CleanupUnmountInv,
   ResizeStepInv DEF HandlerStep

-----------------------------------------------------------------------------
(* The kubelet *)

\* Where handlers begin.
FirstSteps == {"stage", "findDevice", "publishIsMounted", "unstageIsMounted",
               "cleanupCheck", "expand"}

\* A new call of the kubelet, which waits for none.
LEMMA CallBegins ==
    ASSUME NodeInv, NEW c \in Calls, NEW op, NEW p \in Paths, NEW l \in FirstSteps,
           Call(c, op, p, l), [op |-> op, path |-> p, size |-> devSize] \in Requests,
           op = "stage" <=> l = "stage",
           op = "publish" <=> l \in {"findDevice", "publishIsMounted"},
           op = "unstage" <=> l = "unstageIsMounted",
           op = "unpublish" <=> l = "cleanupCheck",
           op = "expand" <=> l = "expand",
           phase' \in [Paths -> {"out", "going in", "in", "going out"}],
           \A q \in Paths \ {p} : phase'[q] = phase[q],
           phase'[p] \in {phase[p], "going in", "going out"}, phase'[p] # "out",
           device # "absent",
           \A t \in Targets : phase'[t] # "out" => phase'[Staging] \in {"in", "going in"},
           op = "stage" => phase'[Staging] = "going in",
           op = "publish" => phase'[p] = "going in" /\ phase'[Staging] = "in",
           op = "unpublish" => phase'[p] = "going out",
           op = "unstage" => phase'[Staging] = "going out" /\ \A t \in Targets : phase'[t] = "out",
           op = "expand" => phase'[p] = "in"
    PROVE  NodeInv'
<1> DEFINE r == [op |-> op, path |-> p, size |-> devSize]
<1>1. /\ pc[c] = "idle" /\ Quiet /\ req' = [req EXCEPT ![c] = r]
      /\ UNCHANGED <<device, devSize, fs, broken, fsSize, mounts, isBlock, noFormat, abandoned,
                     gaveUp, unread, data>>
      /\ Goto(c, l) \/ Return(c, "InvalidArgument")
    BY DEF Call, nodeVars, attributes, history
<1>2. r \in Requests /\ r.op = op /\ r.path = p /\ r.size = devSize
    OBVIOUS
<1> HIDE DEF r
<1>3. /\ pc' \in [Calls -> Labels] /\ result' \in [Calls -> Codes \union {"none"}]
      /\ pc'[c] \in {l, "done"} /\ pc'[c] # "idle"
      /\ pc'[c] = "done" <=> result'[c] # "none"
      /\ result'[c] # "OK"
      /\ \A d \in Calls \ {c} : pc'[d] = pc[d] /\ result'[d] = result[d]
    <2>1. result[c] = "none"
        BY <1>1 DEF NodeInv, HandlerInv, Consistent
    <2>2. CASE Goto(c, l)
        <3>1. l \in Labels /\ l # "idle" /\ l # "done"
            BY DEF FirstSteps, Labels, Commands, CleanupSteps
        <3>2. QED
            BY <2>1, <2>2, <3>1, GotoType DEF NodeInv
    <2>3. CASE Return(c, "InvalidArgument")
        BY <2>3, ReturnType DEF NodeInv, Codes
    <2>4. QED
        BY <1>1, <2>2, <2>3
<1>4. /\ req' \in [Calls -> Requests \union {NoRequest}] /\ req'[c] = r
      /\ \A d \in Calls \ {c} : req'[d] = req[d]
    BY <1>1, <1>2 DEF NodeInv, TypeOK
<1>5. TypeOK'
    BY <1>1, <1>3, <1>4 DEF NodeInv, TypeOK
<1>6. c \notin abandoned /\ devSize <= devSize
    <2>1. devSize <= devSize
        BY SizeType, Zenon DEF NodeInv
    <2>2. QED
        BY <1>1, <2>1 DEF NodeInv, HandlerInv, Consistent
<1>7. Consistent(c)'
    <2>1. req'[c] \in Requests /\ req'[c].size <= devSize /\ req'[c].op = op
        BY <1>2, <1>4, <1>6
    <2>2. pc'[c] = l \/ pc'[c] = "done"
        BY <1>3
    <2>3. QED
        BY <1>1, <1>3, <1>6, <2>1, <2>2 DEF Consistent, CleanupSteps, FirstSteps
<1>8. HandlerInv'
    <2> SUFFICES ASSUME NEW d \in Calls, d # c
                 PROVE  Consistent(d)'
        BY <1>7 DEF HandlerInv
    <2>1. Consistent(d)
        BY DEF NodeInv, HandlerInv
    <2>2. QED
        BY <1>1, <1>3, <1>4, <2>1 DEF Consistent
<1>9. \A d \in Calls : Waiting(d)' => d = c
    BY <1>1, <1>3 DEF Quiet
<1>10. Believes(c)'
    BY <1>1, <1>2, <1>4 DEF Believes
<1>11. PhaseInv'
    BY <1>1, <1>9, <1>10 DEF NodeInv, PhaseInv, OneByOne
<1>12. DeviceInv'
    <2>1. \A q \in Paths : phase'[q] # "out" => device' # "absent"
        BY <1>1
    <2>2. QED
        BY <1>1, <1>2, <1>4, <1>9, <2>1 DEF DeviceInv
<1>13. ASSUME OneByOne'
       PROVE  MountInv' /\ KnowledgeInv'
    <2>1. OneByOne /\ abandoned = {} /\ MountInv
        BY <1>1, <1>13 DEF NodeInv, PhaseInv, OneByOne
    <2>2. MountInv'
        <3> SUFFICES ASSUME NEW q \in Paths
                     PROVE  /\ mounts[q] \in {<<>>, <<"volume">>}
                            /\ phase'[q] = "out" => mounts[q] = <<>>
                            /\ phase'[q] = "in" /\ ~(isBlock /\ q = Staging) => mounts[q] = <<"volume">>
                            /\ mounts[q] # <<>> /\ ~isBlock => device = "running"
            BY <1>1 DEF MountInv
        <3>1. phase'[q] \in {"out", "in"} => phase'[q] = phase[q]
            OBVIOUS
        <3>2. QED
            BY <2>1, <3>1 DEF MountInv
    <2>3. \A d \in Calls : pc'[d] # "idle" => d = c
        BY <1>1, <1>9, <2>1
    <2>4. Knows(c)'
        BY <1>2, <1>3, <1>4 DEF Knows, FirstSteps
    <2>5. QED
        BY <2>2, <2>3, <2>4 DEF KnowledgeInv
<1>14. QED
    BY <1>5, <1>8, <1>11, <1>12, <1>13 DEF NodeInv

\* Every request the kubelet sends.
LEMMA RequestTypes ==
    ASSUME TypeOK
    PROVE  /\ devSize \in 1..MaxSize
           /\ \A op \in {"stage", "unstage"} :
                [op |-> op, path |-> Staging, size |-> devSize] \in Requests
           /\ \A op \in {"publish", "unpublish"}, t \in Targets :
                [op |-> op, path |-> t, size |-> devSize] \in Requests
           /\ \A p \in Paths : [op |-> "expand", path |-> p, size |-> devSize] \in Requests
<1>1. devSize \in 1..MaxSize
    BY Zenon DEF TypeOK
<1>2. QED
    BY <1>1 DEF Requests

LEMMA StageInv ==
    ASSUME NodeInv, NEW c \in Calls, Stage(c)
    PROVE  NodeInv'
<1>1. /\ device # "absent"
      /\ phase' = [phase EXCEPT ![Staging] = "going in"] /\ Call(c, "stage", Staging, "stage")
    BY DEF Stage
<1>2. /\ Staging \in Paths /\ Targets \subseteq Paths \ {Staging}
      /\ phase \in [Paths -> {"out", "going in", "in", "going out"}]
    BY NodeAssumption DEF NodeInv, TypeOK, Paths
<1>3. "stage" \in FirstSteps
    BY DEF FirstSteps
<1>4. [op |-> "stage", path |-> Staging, size |-> devSize] \in Requests
    BY RequestTypes DEF NodeInv
<1>5. QED
    BY <1>1, <1>2, <1>3, <1>4, CallBegins

LEMMA UnstageInv ==
    ASSUME NodeInv, NEW c \in Calls, Unstage(c)
    PROVE  NodeInv'
<1>1. /\ phase[Staging] # "out" /\ \A t \in Targets : phase[t] = "out"
      /\ phase' = [phase EXCEPT ![Staging] = "going out"]
      /\ Call(c, "unstage", Staging, "unstageIsMounted")
    BY DEF Unstage
<1>2. /\ Staging \in Paths /\ Targets \subseteq Paths \ {Staging}
      /\ phase \in [Paths -> {"out", "going in", "in", "going out"}]
    BY NodeAssumption DEF NodeInv, TypeOK, Paths
<1>3. "unstageIsMounted" \in FirstSteps
    BY DEF FirstSteps
<1>4. [op |-> "unstage", path |-> Staging, size |-> devSize] \in Requests
    BY RequestTypes DEF NodeInv
<1>5. device # "absent"
    BY <1>1, <1>2 DEF NodeInv, DeviceInv
<1>6. QED
    BY <1>1, <1>2, <1>3, <1>4, <1>5, CallBegins

LEMMA PublishInv ==
    ASSUME NodeInv, NEW c \in Calls, NEW t \in Targets, Publish(c, t)
    PROVE  NodeInv'
<1>1. /\ phase[Staging] = "in" /\ phase' = [phase EXCEPT ![t] = "going in"]
    BY DEF Publish
<1>2. PICK l \in {"findDevice", "publishIsMounted"} : Call(c, "publish", t, l)
    BY DEF Publish
<1>3. /\ Staging \in Paths /\ Targets \subseteq Paths \ {Staging}
      /\ phase \in [Paths -> {"out", "going in", "in", "going out"}]
    BY NodeAssumption DEF NodeInv, TypeOK, Paths
<1>4. l \in FirstSteps
    BY DEF FirstSteps
<1>5. [op |-> "publish", path |-> t, size |-> devSize] \in Requests
    BY RequestTypes DEF NodeInv
<1>6. device # "absent"
    BY <1>1, <1>3 DEF NodeInv, DeviceInv
<1>7. /\ phase' \in [Paths -> {"out", "going in", "in", "going out"}]
      /\ phase'[t] = "going in" /\ phase'[Staging] = "in"
      /\ \A q \in Paths \ {t} : phase'[q] = phase[q]
    BY <1>1, <1>3
<1>8. QED
    BY <1>2, <1>3, <1>4, <1>5, <1>6, <1>7, CallBegins

LEMMA UnpublishInv ==
    ASSUME NodeInv, NEW c \in Calls, NEW t \in Targets, Unpublish(c, t)
    PROVE  NodeInv'
<1>1. /\ phase[t] # "out" /\ phase' = [phase EXCEPT ![t] = "going out"]
      /\ Call(c, "unpublish", t, "cleanupCheck")
    BY DEF Unpublish
<1>2. /\ Staging \in Paths /\ Targets \subseteq Paths \ {Staging}
      /\ phase \in [Paths -> {"out", "going in", "in", "going out"}]
    BY NodeAssumption DEF NodeInv, TypeOK, Paths
<1>3. "cleanupCheck" \in FirstSteps
    BY DEF FirstSteps
<1>4. [op |-> "unpublish", path |-> t, size |-> devSize] \in Requests
    BY RequestTypes DEF NodeInv
<1>5. device # "absent" /\ phase[Staging] \in {"in", "going in"}
    BY <1>1, <1>2 DEF NodeInv, DeviceInv, PhaseInv
<1>6. /\ phase' \in [Paths -> {"out", "going in", "in", "going out"}]
      /\ phase'[t] = "going out" /\ phase'[Staging] = phase[Staging]
      /\ \A q \in Paths \ {t} : phase'[q] = phase[q]
    BY <1>1, <1>2
<1>7. QED
    BY <1>1, <1>2, <1>3, <1>4, <1>5, <1>6, CallBegins

LEMMA ExpandInv ==
    ASSUME NodeInv, NEW c \in Calls, NEW p \in Paths, Expand(c, p)
    PROVE  NodeInv'
<1>1. phase[p] = "in" /\ UNCHANGED phase /\ Call(c, "expand", p, "expand")
    BY DEF Expand
<1>2. phase \in [Paths -> {"out", "going in", "in", "going out"}]
    BY DEF NodeInv, TypeOK
<1>3. "expand" \in FirstSteps
    BY DEF FirstSteps
<1>4. [op |-> "expand", path |-> p, size |-> devSize] \in Requests
    BY RequestTypes DEF NodeInv
<1>5. /\ device # "absent"
      /\ \A t \in Targets : phase[t] # "out" => phase[Staging] \in {"in", "going in"}
    BY <1>1 DEF NodeInv, DeviceInv, PhaseInv
<1>6. QED
    BY <1>1, <1>2, <1>3, <1>4, <1>5, CallBegins

\* A call the kubelet gives up on: from here on little is promised.
LEMMA GiveUpInv ==
    ASSUME NodeInv, NEW c \in Calls, GiveUp(c)
    PROVE  NodeInv'
<1>1. /\ Waiting(c) /\ abandoned' = abandoned \union {c} /\ gaveUp' = gaveUp + 1
      /\ gaveUp < MaxAbandoned
      /\ UNCHANGED <<device, devSize, fs, broken, fsSize, mounts, isBlock, noFormat, pc, req,
                     result, phase, unread, data>>
    BY DEF GiveUp, nodeVars, attributes, history
<1>2. gaveUp \in 0..MaxAbandoned /\ abandoned \in SUBSET Calls
    BY Zenon DEF NodeInv, TypeOK
<1>3. gaveUp' \in 0..MaxAbandoned /\ gaveUp' # 0
    BY <1>1, <1>2, NodeAssumption
<1>4. TypeOK'
    BY <1>1, <1>2, <1>3 DEF NodeInv, TypeOK
<1>5. HandlerInv'
    BY <1>1 DEF NodeInv, HandlerInv, Consistent
<1>6. PhaseInv' /\ DeviceInv'
    BY <1>1, <1>3 DEF NodeInv, PhaseInv, DeviceInv, Believes, OneByOne
<1>7. QED
    BY <1>3, <1>4, <1>5, <1>6 DEF NodeInv, OneByOne

\* An answer: what the kubelet believes of the path is true.
LEMMA CollectInv ==
    ASSUME NodeInv, NEW c \in Calls, Collect(c)
    PROVE  NodeInv'
<1> DEFINE believed == result[c] = "OK" /\ c \notin abandoned /\ req[c].op # "expand"
           p == req[c].path
<1>1. /\ pc[c] = "done" /\ pc' = [pc EXCEPT ![c] = "idle"]
      /\ phase' = [phase EXCEPT ![p] = IF believed THEN Settled(req[c].op) ELSE @]
      /\ req' = [req EXCEPT ![c] = NoRequest] /\ result' = [result EXCEPT ![c] = "none"]
      /\ abandoned' = abandoned \ {c}
      /\ UNCHANGED <<device, devSize, fs, broken, fsSize, mounts, isBlock, noFormat, gaveUp>>
      /\ unread' = unread \ {c}
      /\ data' = (data \/ (believed /\ req[c].op = "publish" /\ fs # 0))
    BY DEF Collect, nodeVars, attributes
<1>2. /\ req[c] \in Requests /\ p \in Paths /\ Staging \in Paths
      /\ req[c].op \in {"stage", "publish", "unstage", "unpublish", "expand"}
      /\ req[c].op \in {"stage", "unstage"} => p = Staging
      /\ req[c].op \in {"publish", "unpublish"} => p \in Targets
    BY <1>1 DEF NodeInv, HandlerInv, Consistent, Requests, Paths
<1>3. Settled(req[c].op) = IF req[c].op \in {"stage", "publish"} THEN "in" ELSE "out"
    BY DEF Settled
<1>4. believed => Waiting(c) /\ Believes(c)
    BY <1>1 DEF NodeInv, PhaseInv
<1> HIDE DEF believed, p
<1>5. /\ phase' \in [Paths -> {"out", "going in", "in", "going out"}]
      /\ \A q \in Paths \ {p} : phase'[q] = phase[q]
      /\ ~believed => phase'[p] = phase[p]
      /\ believed => phase'[p] = IF req[c].op \in {"stage", "publish"} THEN "in" ELSE "out"
    BY <1>1, <1>2, <1>3 DEF NodeInv, TypeOK
<1>6. /\ pc' \in [Calls -> Labels] /\ req' \in [Calls -> Requests \union {NoRequest}]
      /\ result' \in [Calls -> Codes \union {"none"}] /\ abandoned' \in SUBSET Calls
      /\ pc'[c] = "idle" /\ result'[c] = "none" /\ c \notin abandoned'
      /\ \A d \in Calls \ {c} : /\ pc'[d] = pc[d] /\ req'[d] = req[d] /\ result'[d] = result[d]
                                /\ d \in abandoned' <=> d \in abandoned
    BY <1>1 DEF NodeInv, TypeOK, Labels
<1>7. TypeOK'
    <2>1. unread' \in SUBSET Calls
        BY <1>1 DEF NodeInv, TypeOK
    <2>2. data' \in BOOLEAN
        BY <1>1, Zenon
    <2>3. QED
        BY <1>1, <1>5, <1>6, <2>1, <2>2 DEF NodeInv, TypeOK
<1>8. HandlerInv'
    <2> SUFFICES ASSUME NEW d \in Calls
                 PROVE  Consistent(d)'
        BY DEF HandlerInv
    <2>1. CASE d = c
        BY <1>6, <2>1 DEF Consistent, CleanupSteps
    <2>2. CASE d # c
        BY <1>1, <1>6, <2>2 DEF NodeInv, HandlerInv, Consistent
    <2>3. QED
        BY <2>1, <2>2
<1>9. \A d \in Calls : Waiting(d)' => Waiting(d) /\ d # c /\ ~believed
    BY <1>4, <1>6 DEF NodeInv, PhaseInv
<1>10. ~believed => \A q \in Paths : phase'[q] = phase[q]
    BY <1>2, <1>5
<1>11. PhaseInv'
    <2>1. \A d, e \in Calls : Waiting(d)' /\ Waiting(e)' => d = e
        BY <1>9 DEF NodeInv, PhaseInv
    <2>2. \A d \in Calls : Waiting(d)' => Believes(d)'
        <3> SUFFICES ASSUME NEW d \in Calls, Waiting(d)'
                     PROVE  Believes(d)'
            OBVIOUS
        <3>1. Waiting(d) /\ d # c /\ Believes(d) /\ req'[d] = req[d]
              /\ \A q \in Paths : phase'[q] = phase[q]
            BY <1>6, <1>9, <1>10 DEF NodeInv, PhaseInv
        <3>2. req[d].path \in Paths /\ Staging \in Paths /\ Targets \subseteq Paths
            BY <3>1 DEF NodeInv, HandlerInv, Consistent, Requests, Paths
        <3>3. QED
            BY <3>1, <3>2 DEF Believes
    <2>3. \A t \in Targets : phase'[t] # "out" => phase'[Staging] \in {"in", "going in"}
        <3>1. CASE ~believed
            BY <1>10, <3>1 DEF NodeInv, PhaseInv, Paths
        <3>2. CASE believed
            <4>1. /\ Believes(c) /\ Targets \subseteq Paths \ {Staging}
                  /\ \A t \in Targets : phase[t] # "out" => phase[Staging] \in {"in", "going in"}
                BY <1>4, <3>2, NodeAssumption DEF NodeInv, PhaseInv, Paths
            <4>2. CASE req[c].op = "stage"
                BY <1>2, <1>5, <3>2, <4>2
            <4>3. CASE req[c].op = "unstage"
                BY <1>2, <1>5, <4>1, <4>3 DEF Believes
            <4>4. CASE req[c].op \in {"publish", "unpublish"}
                BY <1>2, <1>5, <3>2, <4>1, <4>4 DEF Believes
            <4>5. QED
                BY <1>2, <3>2, <4>2, <4>3, <4>4 DEF believed
        <3>3. QED
            BY <3>1, <3>2
    <2>4. OneByOne' => abandoned' = {}
        BY <1>1 DEF NodeInv, PhaseInv, OneByOne
    <2>5. QED
        BY <2>1, <2>2, <2>3, <2>4 DEF PhaseInv
<1>12. DeviceInv'
    <2>1. \A q \in Paths : phase'[q] # "out" => device # "absent"
        BY <1>4, <1>5 DEF NodeInv, DeviceInv
    <2>2. QED
        BY <1>1, <1>6, <1>9, <2>1 DEF NodeInv, DeviceInv
<1>13. ASSUME OneByOne'
       PROVE  MountInv' /\ KnowledgeInv'
    <2>1. OneByOne /\ abandoned = {} /\ MountInv /\ Knows(c) /\ Waiting(c)
        BY <1>1, <1>13 DEF NodeInv, PhaseInv, OneByOne, KnowledgeInv
    <2>2. \A d \in Calls : pc'[d] = "idle"
        BY <1>6, <2>1 DEF NodeInv, PhaseInv
    <2>3. MountInv'
        <3> SUFFICES ASSUME NEW q \in Paths
                     PROVE  /\ mounts[q] \in {<<>>, <<"volume">>}
                            /\ phase'[q] = "out" => mounts[q] = <<>>
                            /\ phase'[q] = "in" /\ ~(isBlock /\ q = Staging) => mounts[q] = <<"volume">>
                            /\ mounts[q] # <<>> /\ ~isBlock => device = "running"
            BY <1>1 DEF MountInv
        <3>1. CASE phase'[q] = phase[q]
            BY <2>1, <3>1 DEF MountInv
        <3>2. CASE believed /\ q = p
            <4>1. result[c] = "OK" /\ req[c].op # "expand"
                BY <3>2 DEF believed
            <4>2. CASE req[c].op = "stage"
                BY <1>2, <1>5, <2>1, <3>2, <4>1, <4>2 DEF MountInv, Knows, p
            <4>3. CASE req[c].op = "publish"
                BY <1>2, <1>5, <2>1, <3>2, <4>1, <4>3 DEF MountInv, Knows, p
            <4>4. CASE req[c].op \in {"unstage", "unpublish"}
                BY <1>2, <1>5, <2>1, <3>2, <4>1, <4>4 DEF MountInv, Knows, p
            <4>5. QED
                BY <1>2, <4>1, <4>2, <4>3, <4>4
        <3>3. QED
            BY <1>5, <3>1, <3>2
    <2>4. QED
        BY <2>2, <2>3 DEF KnowledgeInv
<1>14. QED
    BY <1>7, <1>8, <1>11, <1>12, <1>13 DEF NodeInv

LEMMA RestartInv ==
    ASSUME NodeInv, Restart
    PROVE  NodeInv'
<1>1. UNCHANGED <<device, devSize, fs, broken, fsSize, mounts, isBlock, noFormat, req,
                  abandoned, phase, gaveUp, unread, data>>
    BY DEF Restart, nodeVars, attributes, kubeletVars, history
<1>2. /\ pc' \in [Calls -> {"done", "idle"}] /\ result' \in [Calls -> {"Unavailable", "none"}]
      /\ \A d \in Calls : /\ pc'[d] = "idle" <=> pc[d] = "idle"
                          /\ pc'[d] = "done" <=> result'[d] # "none"
    BY DEF Restart
<1>3. TypeOK'
    BY <1>1, <1>2 DEF NodeInv, TypeOK, Labels, Codes
<1>4. HandlerInv'
    BY <1>1, <1>2 DEF NodeInv, HandlerInv, Consistent, CleanupSteps
<1>5. PhaseInv' /\ DeviceInv'
    BY <1>1, <1>2 DEF NodeInv, PhaseInv, DeviceInv, Believes, OneByOne
<1>6. OneByOne' => MountInv' /\ KnowledgeInv'
    BY <1>1, <1>2 DEF NodeInv, MountInv, KnowledgeInv, Knows, OneByOne
<1>7. QED
    BY <1>3, <1>4, <1>5, <1>6 DEF NodeInv

-----------------------------------------------------------------------------
(* The device *)

\* The device changes while no call is waited for and nothing is staged, or in
\* the way a new device comes up.
LEMMA DeviceChanges ==
    ASSUME NodeInv, Attach \/ Detach
    PROVE  NodeInv'
<1>1. /\ UNCHANGED <<devSize, fs, broken, fsSize, mounts, isBlock, noFormat, pc, req, result,
                     abandoned, phase, gaveUp, unread, data>>
      /\ device' \in {"absent", "attaching", "running"}
      /\ \/ device # "running" /\ device' # "absent" /\ (device' = "attaching" => device = "absent")
         \/ (\A d \in Calls : ~Waiting(d)) /\ (\A p \in Paths : phase[p] = "out")
    BY DEF Attach, Detach, Quiet, attributes, callVars, kubeletVars, history
<1>2. TypeOK'
    BY <1>1 DEF NodeInv, TypeOK
<1>3. HandlerInv' /\ PhaseInv'
    BY <1>1 DEF NodeInv, HandlerInv, Consistent, PhaseInv, Believes, OneByOne
<1>4. DeviceInv'
    BY <1>1 DEF NodeInv, DeviceInv
<1>5. ASSUME OneByOne'
      PROVE  MountInv' /\ KnowledgeInv'
    <2>1. OneByOne /\ MountInv /\ KnowledgeInv
        BY <1>1, <1>5 DEF NodeInv, OneByOne
    <2>2. KnowledgeInv'
        BY <1>1, <2>1 DEF KnowledgeInv, Knows
    <2>3. MountInv'
        BY <1>1, <2>1 DEF MountInv
    <2>4. QED
        BY <2>2, <2>3
<1>6. QED
    BY <1>2, <1>3, <1>4, <1>5 DEF NodeInv

LEMMA GrowInv ==
    ASSUME NodeInv, Grow
    PROVE  NodeInv'
<1>1. /\ UNCHANGED <<device, fs, broken, fsSize, mounts, isBlock, noFormat, pc, req, result,
                     abandoned, phase, gaveUp, unread, data>>
      /\ devSize < MaxSize /\ devSize' = devSize + 1
    BY DEF Grow, attributes, callVars, kubeletVars, history
<1>2. devSize \in 1..MaxSize /\ MaxSize \in Nat
    BY NodeAssumption, RequestTypes DEF NodeInv
<1>3. devSize' \in 1..MaxSize /\ devSize <= devSize'
    BY <1>1, <1>2
<1>4. TypeOK'
    BY <1>1, <1>3 DEF NodeInv, TypeOK
<1>5. HandlerInv'
    <2> SUFFICES ASSUME NEW d \in Calls
                 PROVE  Consistent(d)'
        BY DEF HandlerInv
    <2>1. Consistent(d)
        BY DEF NodeInv, HandlerInv
    <2>2. pc[d] # "idle" => req[d].size <= devSize'
        <3> SUFFICES ASSUME pc[d] # "idle"
                     PROVE  req[d].size <= devSize'
            OBVIOUS
        <3>1. req[d].size \in 1..MaxSize /\ req[d].size <= devSize
            BY <2>1 DEF Consistent, Requests
        <3>2. QED
            BY <1>2, <1>3, <3>1
    <2>3. QED
        BY <1>1, <2>1, <2>2 DEF Consistent
<1>6. PhaseInv' /\ DeviceInv'
    BY <1>1 DEF NodeInv, PhaseInv, DeviceInv, Believes, OneByOne
<1>7. OneByOne' => MountInv' /\ KnowledgeInv'
    BY <1>1 DEF NodeInv, MountInv, KnowledgeInv, Knows, OneByOne
<1>8. QED
    BY <1>4, <1>5, <1>6, <1>7 DEF NodeInv

-----------------------------------------------------------------------------
(* The node service *)

LEMMA NodeInitInv == Init => NodeInv
<1> SUFFICES ASSUME Init
             PROVE  NodeInv
    OBVIOUS
<1>1. /\ pc = [c \in Calls |-> "idle"] /\ result = [c \in Calls |-> "none"]
      /\ req = [c \in Calls |-> NoRequest] /\ abandoned = {} /\ gaveUp = 0
      /\ phase = [p \in Paths |-> "out"] /\ mounts = [p \in Paths |-> <<>>]
      /\ device = "absent" /\ broken = FALSE /\ isBlock \in BOOLEAN
      /\ noFormat \in IF isBlock THEN {FALSE} ELSE BOOLEAN
      /\ devSize \in 1..MaxSize /\ fs \in IF isBlock THEN {0} ELSE {0, 1}
      /\ fsSize \in IF fs = 0 THEN {0} ELSE 1..devSize
      /\ unread = {} /\ data = (fs # 0)
    BY Zenon DEF Init
<1>2. fs \in 0..MaxFormats /\ fsSize \in 0..MaxSize /\ gaveUp \in 0..MaxAbandoned
    <2>1. MaxFormats \in Nat \ {0} /\ MaxSize \in Nat \ {0} /\ MaxAbandoned \in Nat
        BY NodeAssumption
    <2>2. fsSize = 0 \/ fsSize \in 1..devSize
        BY <1>1
    <2>3. fs = 0 \/ fs = 1
        BY <1>1
    <2>4. devSize \in 1..MaxSize /\ gaveUp = 0
        BY <1>1
    <2>5. QED
        BY <2>1, <2>2, <2>3, <2>4
<1>3. TypeOK
    <2>1. mounts \in [Paths -> Seq(Sources)] /\ phase \in [Paths -> {"out", "going in", "in", "going out"}]
        BY <1>1
    <2>2. /\ pc \in [Calls -> Labels] /\ req \in [Calls -> Requests \union {NoRequest}]
          /\ result \in [Calls -> Codes \union {"none"}] /\ abandoned \in SUBSET Calls
        BY <1>1 DEF Labels
    <2>3. broken \in BOOLEAN /\ isBlock \in BOOLEAN /\ noFormat \in BOOLEAN /\ data \in BOOLEAN
        BY <1>1, Zenon
    <2>4. unread \in SUBSET Calls
        BY <1>1
    <2>5. device \in {"absent", "attaching", "running"} /\ devSize \in 1..MaxSize
        BY <1>1
    <2>6. QED
        BY <1>2, <2>1, <2>2, <2>3, <2>4, <2>5, Zenon DEF TypeOK
<1>4. HandlerInv
    BY <1>1 DEF HandlerInv, Consistent, CleanupSteps
<1>5. PhaseInv /\ DeviceInv /\ MountInv /\ KnowledgeInv
    BY <1>1 DEF PhaseInv, DeviceInv, MountInv, KnowledgeInv, Paths
<1>6. QED
    BY <1>3, <1>4, <1>5 DEF NodeInv

LEMMA NodeNextInv == NodeInv /\ [Next]_vars => NodeInv'
<1> SUFFICES ASSUME NodeInv, [Next]_vars
             PROVE  NodeInv'
    OBVIOUS
<1>1. CASE UNCHANGED vars
    <2>1. UNCHANGED <<device, devSize, fs, broken, fsSize, mounts, isBlock, noFormat, pc, req,
                      result, abandoned, phase, gaveUp, unread, data>>
        BY <1>1 DEF vars, nodeVars, attributes, callVars, kubeletVars, history
    <2>2. TypeOK'
        BY <2>1 DEF NodeInv, TypeOK
    <2>3. HandlerInv' /\ PhaseInv' /\ DeviceInv'
        BY <2>1 DEF NodeInv, HandlerInv, Consistent, PhaseInv, DeviceInv, Believes, OneByOne
    <2>4. OneByOne' => MountInv' /\ KnowledgeInv'
        BY <2>1 DEF NodeInv, MountInv, KnowledgeInv, Knows, OneByOne
    <2>5. QED
        BY <2>2, <2>3, <2>4 DEF NodeInv
<1>2. QED
    BY <1>1, HandlerStepInv, GiveUpInv, CollectInv, StageInv, UnstageInv, PublishInv,
       UnpublishInv, ExpandInv, RestartInv, DeviceChanges, GrowInv DEF Next

\* The node's inductive invariant holds, whatever the kubelet gives up on.
THEOREM NodeInvHolds == Spec => []NodeInv
BY NodeInitInv, NodeNextInv, PTL DEF Spec

\* What the invariant says of the node's state.
LEMMA NodeInvImplies ==
    ASSUME NodeInv
    PROVE  InMeansVolume /\ OutMeansReleased /\ GrownToDevice
<1>1. InMeansVolume
    <2> SUFFICES ASSUME NEW p \in Paths, OneByOne, phase[p] = "in", ~(isBlock /\ p = Staging)
                 PROVE  Mounted(p) /\ ToSet(mounts[p]) = {"volume"}
        BY DEF InMeansVolume
    <2>1. mounts[p] = <<"volume">>
        BY DEF NodeInv, MountInv
    <2>2. QED
        BY <2>1, OneMount DEF Mounted
<1>2. OutMeansReleased
    <2> SUFFICES ASSUME OneByOne, \A p \in Paths : phase[p] = "out", NEW p \in Paths
                 PROVE  "volume" \notin ToSet(mounts[p])
        BY DEF OutMeansReleased, DeviceInUse
    <2>1. mounts[p] = <<>>
        BY DEF NodeInv, MountInv
    <2>2. QED
        BY <2>1, OneMount
<1>3. GrownToDevice
    <2> SUFFICES ASSUME NEW c \in Calls, OneByOne, ~isBlock, result[c] = "OK",
                        req[c].op \in {"stage", "expand"}
                 PROVE  fsSize >= req[c].size
        BY DEF GrownToDevice
    <2>1. pc[c] = "done" /\ req[c] \in Requests
        BY DEF NodeInv, HandlerInv, Consistent
    <2>2. req[c].size <= fsSize
        BY <2>1 DEF NodeInv, KnowledgeInv, Knows
    <2>3. req[c].size \in Int /\ fsSize \in Int
        <3>1. req[c].size \in 1..MaxSize
            BY <2>1 DEF Requests
        <3>2. fsSize \in 0..MaxSize
            BY SizeType, Zenon DEF NodeInv
        <3>3. QED
            BY <3>1, <3>2, NodeAssumption
    <2>4. QED
        BY <2>2, <2>3
<1>4. QED
    BY <1>1, <1>2, <1>3

\* While the kubelet waits for every call to the end: what is staged or published
\* shows the volume and nothing else.
THEOREM PodsSeeTheVolume == Spec => []InMeansVolume
<1>1. NodeInv => InMeansVolume
    BY NodeInvImplies
<1>2. QED
    BY <1>1, NodeInvHolds, PTL

\* Nothing shows the volume when nothing is staged or published.
THEOREM NodeReleases == Spec => []OutMeansReleased
<1>1. NodeInv => OutMeansReleased
    BY NodeInvImplies
<1>2. QED
    BY <1>1, NodeInvHolds, PTL

\* A stage or an expand that succeeds leaves the filesystem as large as the
\* device was when it was called.
THEOREM FilesystemGrows == Spec => []GrownToDevice
<1>1. NodeInv => GrownToDevice
    BY NodeInvImplies
<1>2. QED
    BY <1>1, NodeInvHolds, PTL

\* An unstage or an unpublish that answers OK has looked: nothing is mounted at
\* its path, even if calls the kubelet gave up on run beside it.
LEMMA UnmountStep ==
    ASSUME NodeInv, [Next]_vars, NEW c \in Calls, result[c] # "OK", result'[c] = "OK",
           req[c].op \in {"unstage", "unpublish"}
    PROVE  mounts'[req[c].path] = <<>>
<1>1. PICK d \in Calls : HandlerStep(d)
    <2> SUFFICES ASSUME \A d \in Calls : ~HandlerStep(d)
                 PROVE  FALSE
        OBVIOUS
    <2>1. result \in [Calls -> Codes \union {"none"}]
        BY DEF NodeInv, TypeOK
    <2>2. ASSUME NEW d \in Calls, NEW op, NEW p, NEW l, Call(d, op, p, l)
          PROVE  FALSE
        BY <2>1, <2>2 DEF Call, Goto, Return
    <2>3. CASE UNCHANGED result
        BY <2>3
    <2>4. CASE \E d \in Calls : Collect(d)
        BY <2>1, <2>4 DEF Collect
    <2>5. CASE Restart
        BY <2>5 DEF Restart
    <2>6. QED
        BY <2>2, <2>3, <2>4, <2>5
           DEF Next, Stage, Unstage, Publish, Unpublish, Expand, GiveUp, Attach, Detach, Grow,
               vars, callVars
<1>2. d = c /\ Return(c, "OK")
    <2>1. result \in [Calls -> Codes \union {"none"}]
        BY DEF NodeInv, TypeOK
    <2>2. (\E l : Goto(d, l)) \/ (\E code : Return(d, code))
        BY <1>1 DEF HandlerStep, NodeStageVolume, IsFormatted, Format, StageIsMounted, StageMount,
           StageResize, FindDevice, PublishIsMounted, BindMount, UnstageIsMounted, CleanupCheck,
           CleanupUnmount, Unmounted, CleanupRecheck, NodeExpandVolume, ExpandIsMounted, Resize,
           CommandFails
    <2>3. PICK code : Return(d, code)
        BY <2>2 DEF Goto
    <2>4. d = c /\ code = "OK"
        BY <2>1, <2>3 DEF Return
    <2>5. QED
        BY <2>3, <2>4
<1>3. /\ pc[c] \in CleanupSteps \union {"unstageIsMounted", "idle", "done"}
      /\ pc[c] # "idle" => req[c] \in Requests
    BY DEF NodeInv, TypeOK, HandlerInv, Consistent, CleanupSteps, Labels, Commands
<1>4. ~CommandFails(c)
    <2>1. CommandCode(pc[c]) # "OK"
        BY DEF CommandCode
    <2>2. result \in [Calls -> Codes \union {"none"}]
        BY DEF NodeInv, TypeOK
    <2>3. QED
        BY <2>1, <2>2 DEF CommandFails, Return
<1>5. \/ UnstageIsMounted(c) \/ CleanupCheck(c) \/ CleanupUnmount(c) \/ CleanupRecheck(c)
    BY <1>1, <1>2, <1>3, <1>4
       DEF HandlerStep, NodeStageVolume, IsFormatted, Format, StageIsMounted, StageMount,
           StageResize, FindDevice, PublishIsMounted, BindMount, NodeExpandVolume,
           ExpandIsMounted, Resize, CleanupSteps
<1>6. result \in [Calls -> Codes \union {"none"}] /\ pc \in [Calls -> Labels]
    BY DEF NodeInv, TypeOK
<1>7. CASE UnstageIsMounted(c)
    <2>1. req[c].path = Staging
        BY <1>7 DEF UnstageIsMounted, NodeInv, HandlerInv, Consistent, Requests
    <2>2. QED
        BY <1>6, <1>7, <2>1 DEF UnstageIsMounted, Goto, Mounted, nodeVars
<1>8. CASE CleanupCheck(c)
    BY <1>6, <1>8 DEF CleanupCheck, Goto, Mounted, nodeVars
<1>9. CASE CleanupRecheck(c)
    BY <1>6, <1>9 DEF CleanupRecheck, Return, Mounted, nodeVars
<1>10. CASE CleanupUnmount(c)
    BY <1>6, <1>10 DEF CleanupUnmount, Unmounted, Goto, Return
<1>11. QED
    BY <1>5, <1>7, <1>8, <1>9, <1>10

\* NodeUnstageVolume and NodeUnpublishVolume tell the truth, also when calls the
\* kubelet gave up on have stacked mounts.
THEOREM UnmountIsTrue == Spec => UnmountOKMeansUnmounted
<1>1. NodeInv /\ [Next]_vars =>
        [\A c \in Calls :
            result[c] # "OK" /\ result'[c] = "OK" /\ req[c].op \in {"unstage", "unpublish"}
            => mounts'[req[c].path] = <<>>]_vars
    BY UnmountStep
<1>2. QED
    BY <1>1, NodeInvHolds, PTL DEF Spec, UnmountOKMeansUnmounted

\* Data appears when the kubelet takes the answer of a publish and goes in mkfs;
\* a call is about to format only after its own blkid.
LEMMA DataStep ==
    ASSUME NodeInv, DataInv, [Next]_vars
    PROVE  /\ DataInv'
           /\ data /\ ~data' => \E c \in Calls : /\ pc[c] = "format" /\ pc'[c] # "format"
                                                 /\ c \in unread \union abandoned
<1>1. pc \in [Calls -> Labels] /\ result \in [Calls -> Codes \union {"none"}]
    BY DEF NodeInv, TypeOK
<1>2. CASE \E c \in Calls : Format(c)
    <2>1. PICK c \in Calls : Format(c)
        BY <1>2
    <2>2. /\ pc[c] = "format" /\ pc'[c] # "format" /\ \A d \in Calls \ {c} : pc'[d] = pc[d]
          /\ unread' = unread \ {c} /\ UNCHANGED abandoned
        BY <1>1, <2>1 DEF Format, Goto, Return, LeavesCall
    <2>3. (data' = data /\ fs' = fs) \/ data' = FALSE
        BY <2>1 DEF Format, nodeVars
    <2>4. DataInv'
        BY <2>2, <2>3 DEF DataInv
    <2>5. data /\ ~data' => c \in unread \union abandoned
        BY <2>2 DEF DataInv
    <2>6. QED
        BY <2>2, <2>4, <2>5
<1>3. CASE \E c \in Calls : IsFormatted(c)
    <2>1. PICK c \in Calls : IsFormatted(c)
        BY <1>3
    <2>2. /\ UNCHANGED <<fs, data, abandoned>> /\ \A d \in Calls \ {c} : pc'[d] = pc[d]
          /\ unread' = IF device = "running" THEN unread ELSE unread \union {c}
          /\ pc'[c] = IF device = "running" /\ fs # 0 THEN "stageIsMounted" ELSE "format"
        BY <1>1, <2>1 DEF IsFormatted, Goto, LeavesCall, nodeVars
    <2>3. QED
        BY <2>2 DEF DataInv
<1>4. CASE \E c \in Calls : Collect(c)
    <2>1. PICK c \in Calls : Collect(c)
        BY <1>4
    <2>2. /\ pc[c] = "done" /\ pc'[c] = "idle" /\ \A d \in Calls \ {c} : pc'[d] = pc[d]
          /\ unread' = unread \ {c} /\ abandoned' = abandoned \ {c} /\ fs' = fs
          /\ \/ UNCHANGED data
             \/ data' = TRUE /\ fs # 0 /\ c \notin abandoned
        <3>1. /\ pc[c] = "done" /\ pc'[c] = "idle" /\ \A d \in Calls \ {c} : pc'[d] = pc[d]
              /\ unread' = unread \ {c} /\ abandoned' = abandoned \ {c} /\ fs' = fs
            BY <1>1, <2>1 DEF Collect, nodeVars
        <3>2. data \in BOOLEAN
            BY Zenon DEF NodeInv, TypeOK
        <3>3. data' = (data \/ (/\ result[c] = "OK" /\ c \notin abandoned /\ req[c].op # "expand"
                                /\ req[c].op = "publish" /\ fs # 0))
            BY <2>1, Zenon DEF Collect
        <3>4. UNCHANGED data \/ (data' = TRUE /\ fs # 0 /\ c \notin abandoned)
            BY <3>2, <3>3, Zenon
        <3>5. QED
            BY <3>1, <3>4
    <2>3. CASE UNCHANGED data
        BY <2>2, <2>3 DEF DataInv
    <2>4. CASE data' = TRUE /\ fs # 0 /\ c \notin abandoned
        <3>1. \A d \in Calls : pc[d] = "format" => d \in abandoned
            BY <2>2, <2>4 DEF NodeInv, PhaseInv
        <3>2. QED
            BY <2>2, <2>4, <3>1 DEF DataInv
    <2>5. QED
        BY <2>2, <2>3, <2>4
<1>5. ASSUME UNCHANGED <<fs, data, unread>>, abandoned \subseteq abandoned',
             \A d \in Calls : pc'[d] = "format" => pc[d] = "format"
      PROVE  DataInv' /\ ~(data /\ ~data')
    BY <1>5 DEF DataInv
<1>6. ASSUME NEW c \in Calls, HandlerStep(c), ~Format(c), ~IsFormatted(c)
      PROVE  /\ UNCHANGED <<fs, data, unread, abandoned>>
             /\ \A d \in Calls : pc'[d] = "format" => pc[d] = "format"
    <2>1. /\ UNCHANGED <<fs, abandoned>> /\ UNCHANGED history
          /\ \E l \in Labels \ {"format"} : Goto(c, l) \/ \E code \in Codes : Return(c, code)
        BY <1>6 DEF HandlerStep, NodeStageVolume, StageIsMounted, StageMount,
           StageResize, FindDevice, PublishIsMounted, BindMount, UnstageIsMounted, CleanupCheck,
           CleanupUnmount, Unmounted, CleanupRecheck, NodeExpandVolume, ExpandIsMounted, Resize,
           CommandFails, CommandCode, LeavesRest, LeavesCall, nodeVars, NewDriver,
           Labels, Commands, CleanupSteps, Codes
    <2>2. QED
        BY <1>1, <2>1 DEF Goto, Return, history
<1>7. ASSUME NEW c \in Calls, NEW op, NEW p, NEW l, Call(c, op, p, l), l # "format"
      PROVE  /\ UNCHANGED <<fs, data, unread, abandoned>>
             /\ \A d \in Calls : pc'[d] = "format" => pc[d] = "format"
    BY <1>1, <1>7 DEF Call, Goto, Return, nodeVars, history
<1>8. ASSUME \/ Restart \/ Attach \/ Detach \/ Grow \/ UNCHANGED vars
             \/ \E c \in Calls : GiveUp(c)
      PROVE  /\ UNCHANGED <<fs, data, unread>> /\ abandoned \subseteq abandoned'
             /\ \A d \in Calls : pc'[d] = "format" => pc[d] = "format"
    BY <1>8 DEF Restart, Attach, Detach, Grow, GiveUp, vars, nodeVars, callVars, history
<1>9. QED
    <2>1. CASE \E c \in Calls : HandlerStep(c)
        BY <1>2, <1>3, <1>5, <1>6, <2>1
    <2>2. CASE \/ Restart \/ Attach \/ Detach \/ Grow \/ UNCHANGED vars
               \/ \E c \in Calls : GiveUp(c)
        BY <1>5, <1>8, <2>2
    <2>3. CASE \/ \E c \in Calls : Stage(c) \/ Unstage(c)
               \/ \E c \in Calls, t \in Targets : Publish(c, t) \/ Unpublish(c, t)
               \/ \E c \in Calls, p \in Paths : Expand(c, p)
        <3>1. CASE \E c \in Calls : Stage(c) \/ Unstage(c)
            BY <1>5, <1>7, <3>1 DEF Stage, Unstage
        <3>2. CASE \E c \in Calls, t \in Targets : Unpublish(c, t)
            BY <1>5, <1>7, <3>2 DEF Unpublish
        <3>3. CASE \E c \in Calls, t \in Targets : Publish(c, t)
            <4>1. PICK c \in Calls, t \in Targets : Publish(c, t)
                BY <3>3
            <4>2. PICK l \in {"findDevice", "publishIsMounted"} : Call(c, "publish", t, l)
                BY <4>1 DEF Publish
            <4>3. QED
                BY <1>5, <1>7, <4>2
        <3>4. CASE \E c \in Calls, p \in Paths : Expand(c, p)
            BY <1>5, <1>7, <3>4 DEF Expand
        <3>5. QED
            BY <2>3, <3>1, <3>2, <3>3, <3>4
    <2>4. QED
        BY <1>4, <2>1, <2>2, <2>3 DEF Next

LEMMA DataInitInv == Init => DataInv
BY DEF Init, DataInv

\* Data of a pod is lost only to a stage whose blkid could not read the device,
\* or which the kubelet gave up on, whatever fails, restarts or is repeated.
THEOREM DataLossExplained == Spec => LostOnlyUnreadOrAbandoned
<1>1. NodeInv /\ DataInv /\ [Next]_vars => DataInv'
    BY DataStep
<1>2. NodeInv /\ DataInv /\ [Next]_vars =>
        [data /\ ~data' =>
            \E c \in Calls : /\ pc[c] = "format" /\ pc'[c] # "format"
                             /\ c \in unread \union abandoned]_vars
    BY DataStep
<1>3. QED
    BY <1>1, <1>2, NodeInvHolds, DataInitInv, PTL DEF Spec, LostOnlyUnreadOrAbandoned

-----------------------------------------------------------------------------
(* The system *)

LEMMA SystemInitInv == SystemInit => Init /\ ControllerTypeOK /\ LinkInv
<1> SUFFICES ASSUME SystemInit
             PROVE  Init /\ ControllerTypeOK /\ LinkInv
    OBVIOUS
<1>1. /\ Init /\ device = "absent" /\ volPhase = [v \in {Volume} |-> "detached"]
      /\ volNode = [v \in {Volume} |-> None] /\ attached = [v \in {Volume} |-> None]
      /\ exists = {Volume} /\ live = Elsewhere \union {Self}
    BY DEF SystemInit, Init, Controller!Init
<1>2. /\ volPhase[Volume] = "detached" /\ volNode[Volume] = None /\ attached[Volume] = None
      /\ LetGo
    BY <1>1 DEF Init, LetGo, Quiet
<1>3. QED
    BY <1>1, <1>2, SystemAssumption DEF ControllerTypeOK, LinkInv, PublishedHere

\* A step of the node that leaves the controller alone: if the kubelet begins to
\* deal with the volume, it is published here.
LEMMA NodeLinks ==
    ASSUME LinkInv, ControllerTypeOK, UNCHANGED controllerVars, UNCHANGED device,
           LetGo => LetGo' \/ PublishedHere
    PROVE  LinkInv' /\ ControllerTypeOK'
BY DEF LinkInv, ControllerTypeOK, controllerVars, PublishedHere

\* The node's steps are NodeService's, and keep the link.
LEMMA NodeStepLinks ==
    ASSUME SystemInv, NodeStep
    PROVE  Next /\ LinkInv' /\ ControllerTypeOK'
<1>1. Next /\ UNCHANGED controllerVars
    BY DEF NodeStep, Next
<1>2. UNCHANGED device
    BY DEF NodeStep, HandlerStep, NodeStageVolume, IsFormatted, Format, StageIsMounted, StageMount,
           StageResize, FindDevice, PublishIsMounted, BindMount, UnstageIsMounted, CleanupCheck,
           CleanupUnmount, CleanupRecheck, NodeExpandVolume, ExpandIsMounted, Resize,
           CommandFails, Stage, Unstage, Publish, Unpublish, Expand, Call, GiveUp, Collect,
           Restart, Grow, nodeVars
<1>3. ASSUME LetGo, ~PublishedHere
      PROVE  LetGo'
    <2>1. /\ \A c \in Calls : ~Waiting(c)
          /\ \A p \in Paths : phase[p] = "out"
          /\ Staging \in Paths /\ Targets \subseteq Paths
        BY <1>3 DEF LetGo, Quiet, Paths
    <2>2. /\ phase \in [Paths -> {"out", "going in", "in", "going out"}]
          /\ pc \in [Calls -> Labels] /\ HandlerInv /\ abandoned \in SUBSET Calls
        BY DEF SystemInv, NodeInv, TypeOK
    <2>3. CASE \E c \in Calls : HandlerStep(c)
        <3>1. PICK c \in Calls : HandlerStep(c)
            BY <2>3
        <3>2. UNCHANGED <<phase, abandoned>>
            BY <3>1 DEF HandlerStep, NodeStageVolume, IsFormatted, Format, StageIsMounted,
               StageMount, StageResize, FindDevice, PublishIsMounted, BindMount, UnstageIsMounted,
               CleanupCheck, CleanupUnmount, CleanupRecheck, NodeExpandVolume, ExpandIsMounted,
               Resize, CommandFails, LeavesRest, LeavesCall, kubeletVars
        <3>3. pc[c] # "idle" /\ \A d \in Calls \ {c} : pc'[d] = pc[d]
            BY <2>2, <3>1 DEF HandlerStep, NodeStageVolume, IsFormatted, Format, StageIsMounted,
               StageMount, StageResize, FindDevice, PublishIsMounted, BindMount, UnstageIsMounted,
               CleanupCheck, CleanupUnmount, CleanupRecheck, NodeExpandVolume, ExpandIsMounted,
               Resize, CommandFails, Commands, CleanupSteps, Unmounted, Goto, Return
        <3>4. c \in abandoned
            BY <2>1, <3>3
        <3>5. \A d \in Calls : ~Waiting(d)'
            BY <2>1, <3>2, <3>3, <3>4
        <3>6. QED
            BY <2>1, <3>2, <3>5 DEF LetGo, Quiet
    <2>4. CASE \E c \in Calls : Collect(c)
        <3>1. PICK c \in Calls : Collect(c)
            BY <2>4
        <3>2. /\ pc[c] = "done" /\ pc' = [pc EXCEPT ![c] = "idle"] /\ abandoned' = abandoned \ {c}
              /\ c \in abandoned
            BY <2>1, <3>1 DEF Collect
        <3>3. phase' = phase
            <4>1. phase' = [phase EXCEPT ![req[c].path] = @]
                BY <3>1, <3>2 DEF Collect
            <4>2. QED
                BY <2>2, <4>1
        <3>4. \A d \in Calls : ~Waiting(d)'
            BY <2>1, <2>2, <3>2
        <3>5. QED
            BY <2>1, <3>3, <3>4 DEF LetGo, Quiet
    <2>5. CASE Restart
        <3>1. UNCHANGED <<phase, abandoned>> /\ \A d \in Calls : pc'[d] # "idle" => pc[d] # "idle"
            BY <2>5 DEF Restart, kubeletVars
        <3>2. QED
            BY <2>1, <3>1 DEF LetGo, Quiet
    <2>6. CASE Grow
        BY <2>1, <2>6 DEF Grow, callVars, kubeletVars, LetGo, Quiet
    <2>7. QED
        BY <1>3, <2>1, <2>3, <2>4, <2>5, <2>6
           DEF NodeStep, Unstage, Publish, Unpublish, Expand, GiveUp
<1>4. QED
    BY <1>1, <1>2, <1>3, NodeLinks DEF SystemInv

\* A step of the orchestrator or of the controller that changes no device.
LEMMA OrchestratorLinks ==
    ASSUME SystemInv, OrchestratorStep
    PROVE  UNCHANGED vars /\ LinkInv' /\ ControllerTypeOK'
<1>1. UNCHANGED vars /\ UNCHANGED device /\ (LetGo' <=> LetGo)
    <2>1. UNCHANGED vars
        BY DEF OrchestratorStep
    <2>2. UNCHANGED <<device, pc, abandoned, phase>>
        BY <2>1 DEF vars, nodeVars, callVars, kubeletVars
    <2>3. QED
        BY <2>1, <2>2 DEF LetGo, Quiet
<1>2. ControllerTypeOK /\ LinkInv
    BY DEF SystemInv
<1>3. CASE \E d \in Elsewhere \union {Self} : Controller!AskPublish(Volume, d)
    BY <1>1, <1>2, <1>3 DEF Controller!AskPublish, Controller!Believe, ControllerTypeOK, LinkInv,
       PublishedHere
<1>4. CASE (volNode[Volume] = Self => LetGo) /\ Controller!AskUnpublish(Volume)
    BY <1>1, <1>2, <1>4 DEF Controller!AskUnpublish, Controller!Believe, ControllerTypeOK, LinkInv,
       PublishedHere
<1>5. CASE Controller!AskDelete(Volume)
    BY <1>1, <1>2, <1>5 DEF Controller!AskDelete, Controller!Believe, ControllerTypeOK, LinkInv,
       PublishedHere
<1>6. CASE Controller!ConfirmPublish(Volume)
    BY <1>1, <1>2, <1>6, SystemAssumption DEF Controller!ConfirmPublish, Controller!Believe,
       ControllerTypeOK, LinkInv, PublishedHere
<1>7. CASE Controller!ConfirmUnpublish(Volume)
    BY <1>1, <1>2, <1>7, SystemAssumption DEF Controller!ConfirmUnpublish, Controller!Believe,
       ControllerTypeOK, LinkInv, PublishedHere
<1>8. CASE Controller!ConfirmDelete(Volume)
    BY <1>1, <1>2, <1>8 DEF Controller!ConfirmDelete, Controller!Believe, ControllerTypeOK, LinkInv,
       PublishedHere
<1>9. CASE Controller!Delete(Volume)
    BY <1>1, <1>2, <1>9, SystemAssumption DEF Controller!Delete, ControllerTypeOK, LinkInv,
       PublishedHere
<1>10. CASE \E d \in Elsewhere \cap live : Controller!Destroy(d)
    BY <1>1, <1>2, <1>10, SystemAssumption DEF Controller!Destroy, ControllerTypeOK, LinkInv,
       PublishedHere
<1>11. QED
    BY <1>1, <1>3, <1>4, <1>5, <1>6, <1>7, <1>8, <1>9, <1>10 DEF OrchestratorStep

\* The controller takes the device away only when the kubelet has let go of it.
LEMMA AttachmentLinks ==
    ASSUME SystemInv, AttachmentStep
    PROVE  (Attach \/ Detach \/ UNCHANGED vars) /\ LinkInv' /\ ControllerTypeOK'
<1>1. /\ UNCHANGED <<devSize, fs, broken, fsSize, mounts>>
      /\ UNCHANGED <<attributes, callVars, kubeletVars, history>>
      /\ UNCHANGED <<volPhase, volNode, exists, live>>
    BY DEF AttachmentStep, Controller!Take, Controller!Drop
<1>1a. ASSUME attached'[Volume] = Self, attached[Volume] # Self
       PROVE  device' = "attaching"
    BY <1>1a DEF AttachmentStep
<1>1b. ASSUME attached'[Volume] # Self, attached[Volume] = Self
       PROVE  device' = "absent"
    BY <1>1b DEF AttachmentStep
<1>1c. ASSUME attached'[Volume] # Self, attached[Volume] # Self
       PROVE  device' = device
    BY <1>1c DEF AttachmentStep
<1>2. ControllerTypeOK /\ LinkInv
    BY DEF SystemInv
<1>3. LetGo' <=> LetGo
    BY <1>1 DEF LetGo, Quiet, callVars, kubeletVars
<1>4. CASE Controller!Take(Volume)
    <2>1. /\ attached[Volume] = None /\ attached'[Volume] = volNode[Volume]
          /\ attached' \in [{Volume} -> Elsewhere \union {Self, None}]
          /\ volPhase[Volume] \in {"attaching", "detaching"} /\ Volume \in exists
          /\ device = "absent"
        BY <1>2, <1>4, SystemAssumption DEF Controller!Take, ControllerTypeOK, LinkInv
    <2>2. LinkInv' /\ ControllerTypeOK'
        BY <1>1, <1>1a, <1>1c, <1>2, <1>3, <2>1, SystemAssumption
           DEF LinkInv, ControllerTypeOK, PublishedHere
    <2>3. CASE attached'[Volume] = Self
        <3>1. device' = "attaching"
            BY <1>1a, <2>1, <2>3, SystemAssumption
        <3>2. Attach
            BY <1>1, <2>1, <3>1 DEF Attach
        <3>3. QED
            BY <2>2, <3>2
    <2>4. CASE attached'[Volume] # Self
        <3>1. device' = device
            BY <1>1c, <2>1, <2>4, SystemAssumption
        <3>2. UNCHANGED vars
            BY <1>1, <3>1 DEF vars, nodeVars
        <3>3. QED
            BY <2>2, <3>2
    <2>5. QED
        BY <2>3, <2>4
<1>5. CASE Controller!Drop(Volume)
    <2>1. /\ attached'[Volume] = None /\ attached' \in [{Volume} -> Elsewhere \union {Self, None}]
          /\ volPhase[Volume] = "detaching" /\ ~PublishedHere /\ LetGo
        BY <1>2, <1>5 DEF Controller!Drop, ControllerTypeOK, LinkInv, PublishedHere
    <2>2. attached'[Volume] # Self
        BY <2>1, SystemAssumption
    <2>3. CASE attached[Volume] = Self
        <3>1. device' = "absent" /\ device # "absent"
            BY <1>1b, <1>2, <2>2, <2>3 DEF LinkInv
        <3>2. Detach
            BY <1>1, <2>1, <3>1 DEF Detach, LetGo
        <3>3. LinkInv' /\ ControllerTypeOK'
            BY <1>1, <1>2, <1>3, <2>1, <2>2, <3>1 DEF LinkInv, ControllerTypeOK, PublishedHere
        <3>4. QED
            BY <3>2, <3>3
    <2>4. CASE attached[Volume] # Self
        <3>1. device' = device
            BY <1>1c, <2>2, <2>4
        <3>2. UNCHANGED vars
            BY <1>1, <3>1 DEF vars, nodeVars
        <3>3. LinkInv' /\ ControllerTypeOK'
            BY <1>1, <1>2, <1>3, <2>1, <2>2, <2>4, <3>1 DEF LinkInv, ControllerTypeOK, PublishedHere
        <3>4. QED
            BY <3>2, <3>3
    <2>5. QED
        BY <2>3, <2>4
<1>6. QED
    BY <1>4, <1>5 DEF AttachmentStep

\* Every step of the system is a step of NodeService, or none.
LEMMA SystemStep ==
    ASSUME SystemInv, [SystemNext]_systemVars
    PROVE  [Next]_vars /\ SystemInv'
<1>1. [Next]_vars /\ LinkInv' /\ ControllerTypeOK'
    <2>1. CASE NodeStep
        BY <2>1, NodeStepLinks
    <2>2. CASE OrchestratorStep
        BY <2>2, OrchestratorLinks
    <2>3. CASE AttachmentStep
        BY <2>3, AttachmentLinks DEF Next
    <2>4. CASE DeviceRuns
        <3>1. Next
            BY <2>4 DEF DeviceRuns, Next
        <3>2. /\ UNCHANGED <<controllerVars, pc, abandoned, phase>>
              /\ device = "attaching" /\ device' = "running"
            BY <2>4 DEF DeviceRuns, Attach, callVars, kubeletVars
        <3>3. LetGo' <=> LetGo
            BY <3>2 DEF LetGo, Quiet
        <3>4. LinkInv' /\ ControllerTypeOK'
            BY <3>2, <3>3 DEF SystemInv, LinkInv, ControllerTypeOK, controllerVars, PublishedHere
        <3>5. QED
            BY <3>1, <3>4
    <2>5. CASE UNCHANGED systemVars
        <3>1. UNCHANGED vars /\ UNCHANGED <<controllerVars, device, pc, abandoned, phase>>
            BY <2>5 DEF systemVars, vars, nodeVars, callVars, kubeletVars
        <3>2. LetGo' <=> LetGo
            BY <3>1 DEF LetGo, Quiet
        <3>3. QED
            BY <3>1, <3>2 DEF SystemInv, LinkInv, ControllerTypeOK, controllerVars, PublishedHere
    <2>6. QED
        BY <2>1, <2>2, <2>3, <2>4, <2>5 DEF SystemNext, Finished
<1>2. NodeInv' /\ DataInv'
    BY <1>1, NodeNextInv, DataStep DEF SystemInv
<1>3. QED
    BY <1>1, <1>2 DEF SystemInv

\* The node's invariant, and that the device is there while the kubelet deals
\* with the volume.
THEOREM SystemInvHolds == SystemSpec => []SystemInv
<1>1. SystemInit => SystemInv
    BY SystemInitInv, NodeInitInv, DataInitInv DEF SystemInv
<1>2. SystemInv /\ [SystemNext]_systemVars => SystemInv'
    BY SystemStep
<1>3. QED
    BY <1>1, <1>2, PTL DEF SystemSpec

\* The system implements NodeService: a controller that keeps to VolumeLifecycle,
\* asked in the order the orchestrator asks, attaches and detaches the volume
\* only when NodeService's kubelet expects it.
THEOREM SystemImplementsNode == SystemSpec => Spec
<1>1. SystemInit => Init
    BY SystemInitInv
<1>2. SystemInv /\ [SystemNext]_systemVars => [Next]_vars
    BY SystemStep
<1>3. QED
    BY <1>1, <1>2, SystemInvHolds, PTL DEF SystemSpec, Spec

\* So a volume is never attached to another node, or deleted, under a container
\* that uses it, as long as the kubelet waits for its calls.
THEOREM NeverDetachedInUse == SystemSpec => []InUseMeansAttached
<1>1. SystemInv => InUseMeansAttached
    <2> SUFFICES ASSUME SystemInv, OneByOne, DeviceInUse
                 PROVE  attached[Volume] = Self /\ Volume \in exists
        BY DEF InUseMeansAttached
    <2>1. PICK p \in Paths : phase[p] # "out"
        BY NodeInvImplies DEF SystemInv, OutMeansReleased
    <2>2. ~LetGo
        BY <2>1 DEF LetGo
    <2>3. QED
        BY <2>2, SystemAssumption DEF SystemInv, LinkInv, PublishedHere
<1>2. QED
    BY <1>1, SystemInvHolds, PTL

\* What was proved of the node service holds in the system.
THEOREM SystemKeepsPromises ==
    SystemSpec => /\ [](InMeansVolume /\ OutMeansReleased /\ GrownToDevice)
                  /\ UnmountOKMeansUnmounted /\ LostOnlyUnreadOrAbandoned
BY SystemImplementsNode, PodsSeeTheVolume, NodeReleases, FilesystemGrows, UnmountIsTrue,
   DataLossExplained, PTL

=============================================================================
