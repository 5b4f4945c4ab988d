------------------------ MODULE PerceptionControlProofs ------------------------
(***************************************************************************)
(* Proofs about PerceptionControl for every number of web requests and     *)
(* receipts under way.  What the entries believe lags behind the tracker   *)
(* by the receipts that are still on their way; the invariant says what    *)
(* those receipts will teach.                                              *)
(***************************************************************************)
EXTENDS PerceptionControl, TLAPS

\* Every list of stages an action may still have to begin.
Remainders ==
  { <<>>, <<"camera_on">>, <<"camera_off">>, <<"follow_off", "camera_off">>,
    <<"fusion_on">>, <<"fusion_off">>, <<"camera_on", "fusion_on", "follow_on">>,
    <<"fusion_on", "follow_on">>, <<"follow_on">>, <<"follow_off">>,
    <<"follow_off", "fusion_off">> }

Shape ==
  /\ todo \in Remainders
  /\ action = "none" => todo = <<>>
  /\ wire # "none" => todo # <<>> /\ Head(todo) \in ServiceStages
  /\ wire = "refused" => Head(todo) \in {"follow_on", "fusion_on"}

\* What the agent has been told of fusion and Follow is so.
KnowsFusion == agent_fusion # "unknown" => fusion = (agent_fusion = "on")
KnowsFollow == agent_follow # "unknown" /\ ~agent_overtaken => follow = (agent_follow = "on")

\* While the receipt of a granted request is on its way, the agent still knows
\* what that request did not change, and the receipt will tell it the rest.
AgentLags ==
  IF wire = "granted"
  THEN /\ Head(todo) \in {"follow_on", "follow_off"} =>
            KnowsFusion /\ (~agent_overtaken => follow = (Head(todo) = "follow_on"))
       /\ Head(todo) = "fusion_on" => fusion = TRUE /\ KnowsFollow
       /\ Head(todo) = "fusion_off" => fusion = FALSE /\ (~agent_overtaken => follow = FALSE)
  ELSE KnowsFusion /\ KnowsFollow

\* The camera is due to be paused only after the standby receipt.
StandbyFirst ==
  todo # <<>> /\ Head(todo) = "camera_off" => ~follow \/ agent_overtaken

Receipts == Seq(BOOLEAN \X BOOLEAN)

\* The last success among the receipts rs tells the fact; if there is none, what
\* is known already is the fact.
Tells(rs, known, fact) ==
  \/ /\ \A i \in 1..Len(rs) : rs[i][2] = FALSE
     /\ known = fact
  \/ \E i \in 1..Len(rs) :
       /\ rs[i] = <<fact, TRUE>>
       /\ \A j \in 1..Len(rs) : j > i => rs[j][2] = FALSE

\* The web node knows what the tracker does, or will learn it.
WebLags == ~web_overtaken => Tells(web_receipts, web_follow, follow)

IInv ==
  /\ TypeOK
  /\ Shape
  /\ AgentLags
  /\ StandbyFirst
  /\ WebLags

-------------------------------------------------------------------------------

\* The remaining stages after the first one are remaining stages again, and a
\* pause of the camera comes first only alone.
LEMMA RemainderFacts ==
  /\ <<>> \in Remainders
  /\ \A q \in Remainders :
       /\ q \in Seq(CameraStages \cup ServiceStages)
       /\ q # <<>> => Head(q) \in CameraStages \cup ServiceStages
       /\ q # <<>> => Tail(q) \in Remainders
       /\ q # <<>> /\ Tail(q) # <<>> /\ Head(Tail(q)) = "camera_off" => Head(q) = "follow_off"
BY DEF Remainders, CameraStages, ServiceStages

\* Every action has stages, and none begins by switching the camera off.
LEMMA ScriptFacts ==
  \A a \in DOMAIN Scripts :
    /\ a # "none" /\ Scripts[a] \in Remainders /\ Scripts[a] # <<>>
    /\ Head(Scripts[a]) # "camera_off"
BY DEF Scripts, Remainders

\* The toggled action is one of them.
LEMMA ToggleFacts == ToggleTo \in DOMAIN Scripts
BY DEF ToggleTo, Scripts

\* A success appended tells the fact, whatever was before it.
LEMMA GrantTells ==
  ASSUME NEW rs \in Receipts, NEW known, NEW fact \in BOOLEAN
  PROVE  Tells(Append(rs, <<fact, TRUE>>), known, fact)
<1>1. PICK b \in BOOLEAN \X BOOLEAN : b = <<fact, TRUE>>
  OBVIOUS
<1>2. PICK q : q = Append(rs, b)
  OBVIOUS
<1>3. /\ Len(q) = Len(rs) + 1 /\ Len(q) \in 1..Len(q) /\ q[Len(q)] = b
      /\ \A j \in 1..Len(q) : ~(j > Len(q))
  BY <1>2 DEF Receipts
<1> QED
  BY <1>1, <1>2, <1>3 DEF Tells

\* A refusal appended changes nothing.
LEMMA RefusalTells ==
  ASSUME NEW rs \in Receipts, NEW known, NEW fact, Tells(rs, known, fact),
         NEW b \in BOOLEAN \X BOOLEAN, b[2] = FALSE
  PROVE  Tells(Append(rs, b), known, fact)
<1>1. PICK q : q = Append(rs, b)
  OBVIOUS
<1>2. /\ Len(rs) \in Nat /\ Len(q) = Len(rs) + 1 /\ q[Len(rs) + 1] = b
      /\ \A i \in 1..Len(rs) : q[i] = rs[i] /\ i \in 1..Len(q)
  BY <1>1 DEF Receipts
<1>3. \A i \in 1..Len(q) : i \in 1..Len(rs) \/ q[i][2] = FALSE
  BY <1>2
<1>4. CASE \A i \in 1..Len(rs) : rs[i][2] = FALSE
  <2>0. <<fact, TRUE>>[2] = TRUE
    OBVIOUS
  <2>1. known = fact
    BY <1>4, <2>0 DEF Tells
  <2> QED
    BY <1>1, <1>2, <1>3, <1>4, <2>1 DEF Tells
<1>5. ASSUME NEW i \in 1..Len(rs), rs[i] = <<fact, TRUE>>,
             \A j \in 1..Len(rs) : j > i => rs[j][2] = FALSE
      PROVE  Tells(q, known, fact)
  <2>1. i \in 1..Len(q) /\ q[i] = <<fact, TRUE>>
    BY <1>2, <1>5
  <2>2. \A j \in 1..Len(q) : j > i => q[j][2] = FALSE
    BY <1>2, <1>3, <1>5
  <2> QED
    BY <2>1, <2>2 DEF Tells
<1> QED
  BY <1>1, <1>4, <1>5 DEF Tells

\* Adopting the first receipt keeps the rest telling.
LEMMA AdoptionTells ==
  ASSUME NEW rs \in Receipts, NEW known, NEW fact, Tells(rs, known, fact), rs # <<>>
  PROVE  Tells(Tail(rs), IF Head(rs)[2] THEN Head(rs)[1] ELSE known, fact)
<1>1. PICK q : q = Tail(rs)
  OBVIOUS
<1>2. /\ Len(rs) \in Nat \ {0} /\ Len(q) = Len(rs) - 1 /\ Head(rs) = rs[1]
      /\ \A i \in 1..Len(q) : q[i] = rs[i + 1] /\ i + 1 \in 1..Len(rs)
  BY <1>1 DEF Receipts
<1>3. PICK k : k = IF Head(rs)[2] THEN Head(rs)[1] ELSE known
  OBVIOUS
<1>4. CASE \A i \in 1..Len(rs) : rs[i][2] = FALSE
  <2>0. <<fact, TRUE>>[2] = TRUE
    OBVIOUS
  <2>1. known = fact
    BY <1>4, <2>0 DEF Tells
  <2>2. k = fact
    BY <1>2, <1>3, <1>4, <2>1
  <2>3. \A i \in 1..Len(q) : q[i][2] = FALSE
    BY <1>2, <1>4
  <2> QED
    BY <1>1, <1>3, <2>2, <2>3 DEF Tells
<1>5. ASSUME NEW i \in 1..Len(rs), rs[i] = <<fact, TRUE>>,
             \A j \in 1..Len(rs) : j > i => rs[j][2] = FALSE
      PROVE  Tells(q, k, fact)
  <2>1. CASE i = 1
    <3>0. <<fact, TRUE>>[2] = TRUE /\ <<fact, TRUE>>[1] = fact
      OBVIOUS
    <3>1. k = fact
      BY <1>2, <1>3, <1>5, <2>1, <3>0
    <3>2. \A j \in 1..Len(q) : q[j][2] = FALSE
      BY <1>2, <1>5, <2>1
    <3> QED
      BY <3>1, <3>2 DEF Tells
  <2>2. CASE i # 1
    <3>0. i - 1 \in 1..Len(q) /\ (i - 1) + 1 = i
      BY <1>2, <2>2
    <3>1. i - 1 \in 1..Len(q) /\ q[i - 1] = <<fact, TRUE>>
      BY <1>2, <1>5, <3>0
    <3>2. \A j \in 1..Len(q) : j > i - 1 => q[j][2] = FALSE
      BY <1>2, <1>5, <2>2
    <3> QED
      BY <3>1, <3>2 DEF Tells
  <2> QED
    BY <2>1, <2>2
<1> QED
  BY <1>1, <1>3, <1>4, <1>5 DEF Tells

\* Init establishes the inductive invariant.
LEMMA InitIInv == Init => IInv
<1> SUFFICES ASSUME Init PROVE IInv
  OBVIOUS
<1>1. TypeOK
  <2>1. todo \in Seq(CameraStages \cup ServiceStages) /\ web_sent \in Seq(BOOLEAN)
        /\ web_receipts \in Seq(BOOLEAN \X BOOLEAN)
    BY DEF Init
  <2>2. Len(web_sent) + Len(web_receipts) <= MaxRequests
    BY MaxRequestsAssumption DEF Init
  <2> QED
    BY <2>1, <2>2 DEF Init, TypeOK, Tracker!Init
<1>2. Shape /\ StandbyFirst
  BY RemainderFacts DEF Init, Shape, StandbyFirst
<1>3. AgentLags
  BY DEF Init, AgentLags, KnowsFusion, KnowsFollow
<1>4. WebLags
  <2>1. \A i \in 1..Len(web_receipts) : web_receipts[i][2] = FALSE
    BY DEF Init
  <2> QED
    BY <2>1 DEF Init, Tracker!Init, WebLags, Tells
<1> QED
  BY <1>1, <1>2, <1>3, <1>4 DEF IInv

\* A step of the agent alone leaves the web node's view as it was.
LEMMA WebUntouched ==
  ASSUME WebLags, UNCHANGED <<tracker, web, overtaken>>
  PROVE  WebLags'
BY DEF WebLags, tracker, web, overtaken

\* A step of the web node that the tracker does not see leaves the agent's view
\* as it was.
LEMMA AgentUntouched ==
  ASSUME Shape, AgentLags, StandbyFirst, UNCHANGED <<tracker, agent, overtaken>>
  PROVE  Shape' /\ AgentLags' /\ StandbyFirst'
BY DEF Shape, AgentLags, KnowsFusion, KnowsFollow, StandbyFirst, tracker, agent, overtaken

\* An action begins with its first stage to do.
LEMMA BeginKeeps ==
  ASSUME IInv, NEW a \in DOMAIN Scripts, Begin(a)
  PROVE  IInv'
<1> USE DEF IInv, Begin
<1>1. todo' \in Remainders /\ todo' # <<>> /\ Head(todo') # "camera_off" /\ action' # "none"
  BY ScriptFacts
<1>2. wire = "none" /\ wire' = "none"
  BY DEF Shape, TypeOK
<1>3. TypeOK'
  <2>1. action' \in {"none"} \cup DOMAIN Scripts /\ late' \in BOOLEAN
    OBVIOUS
  <2>2. todo' \in Seq(CameraStages \cup ServiceStages)
    BY <1>1, RemainderFacts
  <2> QED
    BY <1>2, <2>1, <2>2 DEF TypeOK, tracker, web, overtaken
<1>4. Shape' /\ StandbyFirst'
  BY <1>1, <1>2 DEF Shape, StandbyFirst
<1>5. AgentLags'
  BY <1>2 DEF AgentLags, KnowsFusion, KnowsFollow, tracker, overtaken
<1> QED
  BY <1>3, <1>4, <1>5, WebUntouched

\* The deadline passes while an answer may still be on its way.
LEMMA DeadlineKeeps ==
  ASSUME IInv, DeadlinePasses
  PROVE  IInv'
<1> USE DEF IInv, DeadlinePasses
<1>1. TypeOK'
  BY DEF TypeOK, tracker, web, overtaken
<1>2. Shape' /\ StandbyFirst' /\ AgentLags'
  BY DEF Shape, StandbyFirst, AgentLags, KnowsFusion, KnowsFollow, tracker, overtaken
<1> QED
  BY <1>1, <1>2, WebUntouched

\* A stage that publishes never uncovers a pause of the camera.
LEMMA PublishKeeps ==
  ASSUME IInv, PublishCamera
  PROVE  IInv'
<1> USE DEF IInv, PublishCamera, MayBeginStage
<1>1. /\ todo' \in Remainders /\ todo' \in Seq(CameraStages \cup ServiceStages)
      /\ ~(todo' # <<>> /\ Head(todo') = "camera_off")
  BY RemainderFacts DEF Shape, CameraStages
<1>2. wire = "none" /\ wire' = "none"
  OBVIOUS
<1>3. TypeOK'
  BY <1>1, <1>2 DEF TypeOK, tracker, web, overtaken
<1>4. Shape' /\ StandbyFirst'
  BY <1>1, <1>2 DEF Shape, StandbyFirst
<1>5. AgentLags'
  BY <1>2 DEF AgentLags, KnowsFusion, KnowsFollow, tracker, overtaken
<1> QED
  BY <1>3, <1>4, <1>5, WebUntouched

\* A stage sends its request to the tracker.
LEMMA SubmitKeeps ==
  ASSUME IInv, SubmitStage
  PROVE  IInv'
<1> USE DEF IInv, SubmitStage, MayBeginStage
<1>1. TypeOK'
  BY DEF TypeOK, tracker, web, overtaken
<1>2. Shape' /\ StandbyFirst'
  BY DEF Shape, StandbyFirst, tracker, overtaken
<1>3. AgentLags'
  BY DEF AgentLags, KnowsFusion, KnowsFollow, tracker, overtaken
<1> QED
  BY <1>1, <1>2, <1>3, WebUntouched

\* A failed stage may make the agent unsure, never wrong.
LEMMA FailKeeps ==
  ASSUME IInv, StageFails
  PROVE  IInv'
<1> USE DEF IInv, StageFails
<1>1. /\ todo' = <<>> /\ wire = "none" /\ wire' = "none"
      /\ UNCHANGED <<action, late, tracker, camera, web, overtaken>>
  OBVIOUS
<1>2. agent_follow' \in {agent_follow, "unknown"} /\ agent_fusion' \in {agent_fusion, "unknown"}
  BY DEF Confirms
<1>3. TypeOK'
  BY <1>1, <1>2, RemainderFacts DEF TypeOK, tracker, web, overtaken
<1>4. Shape' /\ StandbyFirst'
  BY <1>1, RemainderFacts DEF Shape, StandbyFirst
<1>5. AgentLags'
  BY <1>1, <1>2 DEF AgentLags, KnowsFusion, KnowsFollow, tracker, overtaken
<1> QED
  BY <1>1, <1>3, <1>4, <1>5, WebUntouched

\* The action returns after its last stage.
LEMMA EndKeeps ==
  ASSUME IInv, End
  PROVE  IInv'
<1> USE DEF IInv, End
<1>1. TypeOK'
  BY DEF TypeOK, tracker, web, overtaken
<1>2. Shape' /\ StandbyFirst' /\ AgentLags'
  BY DEF Shape, StandbyFirst, AgentLags, KnowsFusion, KnowsFollow, tracker, overtaken
<1> QED
  BY <1>1, <1>2, WebUntouched

\* The receipt arrives: the agent learns what the lag held back, and a pause of
\* the camera becomes due only behind a granted standby.
LEMMA ReceiveKeeps ==
  ASSUME IInv, Receive
  PROVE  IInv'
<1> USE DEF IInv
<1>1. /\ wire \in {"granted", "refused"} /\ wire' = "none"
      /\ UNCHANGED <<action, late, tracker, camera, web, overtaken>>
      /\ todo' = IF wire = "granted" THEN Tail(todo) ELSE <<>>
      /\ Confirms(wire = "granted")
  BY DEF Receive, AfterReceipt
<1>2. todo \in Remainders /\ todo # <<>> /\ Head(todo) \in ServiceStages
  BY <1>1 DEF Shape
<1>3. todo' \in Remainders /\ todo' \in Seq(CameraStages \cup ServiceStages)
  BY <1>1, <1>2, RemainderFacts
<1>4. UNCHANGED <<follow, fusion, agent_overtaken, web_overtaken>>
  BY <1>1 DEF tracker, overtaken
<1>5. /\ agent_follow' \in {"unknown", "on", "off"} /\ agent_fusion' \in {"unknown", "on", "off"}
  BY <1>1 DEF Confirms, TypeOK
<1>6. TypeOK'
  BY <1>1, <1>3, <1>5 DEF TypeOK, tracker, web, overtaken
<1>7. action # "none"
  BY <1>2 DEF Shape
<1>8. Shape'
  BY <1>1, <1>3, <1>7 DEF Shape
<1>9. StandbyFirst'
  <2> SUFFICES ASSUME todo' # <<>>, Head(todo') = "camera_off"
               PROVE  ~follow' \/ agent_overtaken'
    BY DEF StandbyFirst
  <2>1. wire = "granted" /\ Head(todo) = "follow_off"
    BY <1>1, <1>2, RemainderFacts
  <2> QED
    BY <1>4, <2>1 DEF AgentLags
<1>10. KnowsFusion' /\ KnowsFollow'
  <2>1. CASE Head(todo) \in {"follow_on", "follow_off"}
    BY <1>1, <1>4, <2>1 DEF Confirms, AgentLags, KnowsFusion, KnowsFollow
  <2>2. CASE Head(todo) = "fusion_on"
    BY <1>1, <1>4, <2>2 DEF Confirms, AgentLags, KnowsFusion, KnowsFollow
  <2>3. CASE Head(todo) = "fusion_off"
    BY <1>1, <1>4, <2>3 DEF Confirms, AgentLags, KnowsFusion, KnowsFollow, Shape
  <2> QED
    BY <1>2, <2>1, <2>2, <2>3 DEF ServiceStages
<1>11. AgentLags'
  BY <1>1, <1>10 DEF AgentLags
<1> QED
  BY <1>1, <1>6, <1>8, <1>9, <1>11, WebUntouched

-------------------------------------------------------------------------------

\* The tracker changes for the agent: the web node's view stands, or it has been
\* overtaken.
LEMMA WebOvertaken ==
  ASSUME WebLags, UNCHANGED web, web_overtaken \in BOOLEAN, web_overtaken' = (web_overtaken \/ follow' # follow)
  PROVE  WebLags'
<1>1. CASE web_overtaken' = TRUE
  BY <1>1 DEF WebLags
<1>2. CASE web_overtaken' = FALSE
  <2>1. web_overtaken = FALSE /\ follow' = follow
    BY <1>2
  <2> QED
    BY <2>1 DEF WebLags, web
<1> QED
  BY <1>1, <1>2

\* The tracker answers the agent's request.
LEMMA HandleAgentKeeps ==
  ASSUME IInv, HandleAgent
  PROVE  IInv'
<1> USE DEF IInv
<1>1. /\ wire = "sent" /\ UNCHANGED <<action, todo, late, agent_follow, agent_fusion, camera, web>>
      /\ KnowsFusion /\ KnowsFollow
  BY DEF HandleAgent, AgentLags
<1>2. todo # <<>> /\ Head(todo) \in ServiceStages /\ action # "none"
  BY <1>1 DEF Shape
<1>3. CASE /\ wire' = "refused" /\ Head(todo) \in {"follow_on", "fusion_on"}
           /\ UNCHANGED <<tracker, overtaken>>
  <2>1. UNCHANGED <<follow, fusion, agent_overtaken, web_overtaken>>
    BY <1>3 DEF tracker, overtaken
  <2>2. TypeOK'
    BY <1>1, <1>2, <1>3, <2>1 DEF TypeOK, web
  <2>3. Shape' /\ StandbyFirst' /\ AgentLags'
    BY <1>1, <1>3, <2>1 DEF Shape, StandbyFirst, AgentLags, KnowsFusion, KnowsFollow
  <2> QED
    BY <1>1, <1>3, <2>2, <2>3, WebUntouched
<1>4. CASE /\ wire' = "granted"
           /\ \/ Head(todo) = "follow_on" /\ follow' = TRUE /\ UNCHANGED fusion
              \/ Head(todo) = "follow_off" /\ follow' = FALSE /\ UNCHANGED fusion
              \/ Head(todo) = "fusion_on" /\ fusion' = TRUE /\ UNCHANGED follow
              \/ Head(todo) = "fusion_off" /\ fusion' = FALSE /\ follow' = FALSE
           /\ agent_overtaken' = (agent_overtaken /\ Head(todo) = "fusion_on")
           /\ web_overtaken' = (web_overtaken \/ follow' # follow)
  <2>1. /\ follow' \in BOOLEAN /\ fusion' \in BOOLEAN
        /\ agent_overtaken' \in BOOLEAN /\ web_overtaken' \in BOOLEAN
    BY <1>4 DEF TypeOK
  <2>2. TypeOK'
    BY <1>1, <1>2, <1>4, <2>1 DEF TypeOK, web
  <2>3. Shape'
    BY <1>1, <1>4 DEF Shape
  <2>4. StandbyFirst'
    BY <1>1, <1>2 DEF StandbyFirst, ServiceStages
  <2>5. AgentLags'
    <3>1. CASE Head(todo) \in {"follow_on", "follow_off"}
      BY <1>1, <1>4, <3>1 DEF AgentLags, KnowsFusion
    <3>2. CASE Head(todo) = "fusion_on"
      BY <1>1, <1>4, <3>2 DEF AgentLags, KnowsFollow, TypeOK
    <3>3. CASE Head(todo) = "fusion_off"
      BY <1>1, <1>4, <3>3 DEF AgentLags
    <3> QED
      BY <1>2, <3>1, <3>2, <3>3 DEF ServiceStages
  <2>6. WebLags'
    BY <1>1, <1>4, WebOvertaken DEF TypeOK
  <2> QED
    BY <2>2, <2>3, <2>4, <2>5, <2>6
<1> QED
  BY <1>3, <1>4 DEF HandleAgent, Tracker!FollowOn, Tracker!FollowOff, Tracker!FusionOn, Tracker!FusionOff

\* The tracker handles the web node's next request and appends its receipt.
LEMMA HandleWebKeeps ==
  ASSUME IInv, HandleWeb
  PROVE  IInv'
<1> USE DEF IInv
<1>1. /\ web_sent # <<>> /\ web_sent' = Tail(web_sent) /\ UNCHANGED <<agent, camera, web_follow>>
      /\ web_sent \in Seq(BOOLEAN) /\ web_receipts \in Receipts
  BY DEF HandleWeb, TypeOK, Receipts
<1>2. PICK v \in BOOLEAN : v = Head(web_sent)
  BY <1>1
<1>3. PICK b \in BOOLEAN \X BOOLEAN :
        /\ web_receipts' = Append(web_receipts, b)
        /\ \/ /\ b = <<v, TRUE>> /\ follow' = v /\ UNCHANGED fusion
              /\ web_overtaken' = FALSE
              /\ agent_overtaken' = (agent_overtaken \/ follow' # follow)
           \/ /\ b = <<TRUE, FALSE>>
              /\ UNCHANGED <<follow, fusion, agent_overtaken, web_overtaken>>
  <2>1. CASE /\ follow' = v /\ UNCHANGED fusion
             /\ web_receipts' = Append(web_receipts, <<v, TRUE>>)
             /\ web_overtaken' = FALSE
             /\ agent_overtaken' = (agent_overtaken \/ follow' # follow)
    BY <2>1
  <2>2. CASE /\ web_receipts' = Append(web_receipts, <<TRUE, FALSE>>)
             /\ UNCHANGED <<follow, fusion, agent_overtaken, web_overtaken>>
    BY <2>2
  <2> QED
    BY <1>2, <2>1, <2>2 DEF HandleWeb, Tracker!FollowOn, Tracker!FollowOff, tracker, overtaken
<1>4. /\ web_receipts' \in Receipts /\ web_sent' \in Seq(BOOLEAN)
      /\ Len(web_receipts') = Len(web_receipts) + 1
      /\ Len(web_sent') = Len(web_sent) - 1
      /\ Len(web_sent) \in Nat /\ Len(web_receipts) \in Nat
  BY <1>1, <1>3 DEF Receipts
<1>5. TypeOK'
  <2>1. Len(web_sent') + Len(web_receipts') <= MaxRequests
    BY <1>4, MaxRequestsAssumption DEF TypeOK
  <2>2. follow' \in BOOLEAN /\ fusion' \in BOOLEAN /\ agent_overtaken' \in BOOLEAN /\ web_overtaken' \in BOOLEAN
    BY <1>3 DEF TypeOK
  <2> QED
    BY <1>1, <1>4, <2>1, <2>2 DEF TypeOK, agent, Receipts
<1>6. UNCHANGED <<action, todo, wire, agent_follow, agent_fusion>>
  BY <1>1 DEF agent
<1>7. fusion' = fusion /\ (agent_overtaken' \/ (follow' = follow /\ agent_overtaken' = agent_overtaken))
  BY <1>3 DEF TypeOK
<1>8. Shape' /\ StandbyFirst'
  BY <1>6, <1>7 DEF Shape, StandbyFirst
<1>9. AgentLags'
  <2>1. CASE agent_overtaken'
    BY <1>6, <1>7, <2>1 DEF AgentLags, KnowsFusion, KnowsFollow
  <2>2. CASE follow' = follow /\ agent_overtaken' = agent_overtaken
    BY <1>6, <1>7, <2>2 DEF AgentLags, KnowsFusion, KnowsFollow
  <2> QED
    BY <1>7, <2>1, <2>2
<1>10. WebLags'
  <2>1. CASE b = <<v, TRUE>> /\ follow' = v
    <3>1. Tells(Append(web_receipts, <<v, TRUE>>), web_follow, v)
      BY <1>1, GrantTells
    <3> QED
      BY <1>1, <1>3, <2>1, <3>1 DEF WebLags
  <2>2. CASE b = <<TRUE, FALSE>> /\ UNCHANGED <<follow, web_overtaken>>
    <3>1. Tells(web_receipts, web_follow, follow) => Tells(Append(web_receipts, b), web_follow, follow)
      BY <1>1, <2>2, RefusalTells
    <3> QED
      BY <1>1, <1>3, <2>2, <3>1 DEF WebLags
  <2> QED
    BY <1>3, <2>1, <2>2
<1> QED
  BY <1>5, <1>8, <1>9, <1>10

\* A web command only adds a request, and switches the camera.
LEMMA OnCommandKeeps ==
  ASSUME IInv, NEW c \in {"start_camera", "stop_camera", "start_tracking", "stop_tracking"}, OnCommand(c)
  PROVE  IInv'
<1> USE DEF IInv
<1>1. PICK e \in BOOLEAN : e = (c = "start_tracking")
  OBVIOUS
<1>2. /\ UNCHANGED <<tracker, agent, overtaken, web_receipts, web_follow>>
      /\ camera' \in {"on", "off", camera}
      /\ \/ web_sent' = web_sent
         \/ /\ Len(web_sent) + Len(web_receipts) < MaxRequests
            /\ web_sent' = Append(web_sent, e)
  BY <1>1 DEF OnCommand, RequestTrackingState, web
<1>3. web_sent \in Seq(BOOLEAN) /\ Len(web_receipts) \in Nat
  BY DEF TypeOK
<1>4. web_sent' \in Seq(BOOLEAN) /\ Len(web_sent') + Len(web_receipts') <= MaxRequests
  <2>1. CASE web_sent' = web_sent
    BY <1>2, <1>3, <2>1 DEF TypeOK
  <2>2. CASE Len(web_sent) + Len(web_receipts) < MaxRequests /\ web_sent' = Append(web_sent, e)
    <3>1. Append(web_sent, e) \in Seq(BOOLEAN) /\ Len(Append(web_sent, e)) = Len(web_sent) + 1
      BY <1>3
    <3> QED
      BY <1>2, <1>3, <2>2, <3>1, MaxRequestsAssumption
  <2> QED
    BY <1>2, <2>1, <2>2
<1>5. TypeOK'
  BY <1>2, <1>4 DEF TypeOK, tracker, agent, overtaken
<1>6. WebLags'
  BY <1>2 DEF WebLags, tracker, overtaken
<1> QED
  BY <1>2, <1>5, <1>6, AgentUntouched

\* A receipt reaches the web node.
LEMMA OnTrackingResponseKeeps ==
  ASSUME IInv, OnTrackingResponse
  PROVE  IInv'
<1> USE DEF IInv
<1>1. /\ web_receipts # <<>> /\ web_receipts \in Receipts /\ web_receipts' = Tail(web_receipts)
      /\ web_follow' = IF Head(web_receipts)[2] THEN Head(web_receipts)[1] ELSE web_follow
      /\ UNCHANGED <<tracker, agent, camera, web_sent, overtaken>>
  BY DEF OnTrackingResponse, Adopts, TypeOK, Receipts
<1>2. /\ web_receipts' \in Receipts /\ Len(web_receipts') = Len(web_receipts) - 1
      /\ Len(web_receipts) \in Nat /\ Head(web_receipts) \in BOOLEAN \X BOOLEAN
  BY <1>1 DEF Receipts
<1>3. TypeOK'
  <2>1. Len(web_sent') + Len(web_receipts') <= MaxRequests
    BY <1>1, <1>2, MaxRequestsAssumption DEF TypeOK
  <2>2. web_follow' \in BOOLEAN
    BY <1>1, <1>2 DEF TypeOK
  <2> QED
    BY <1>1, <1>2, <2>1, <2>2 DEF TypeOK, tracker, agent, overtaken, Receipts
<1>4. WebLags'
  BY <1>1, AdoptionTells DEF WebLags, tracker, overtaken
<1> QED
  BY <1>1, <1>3, <1>4, AgentUntouched

\* Every step of the two clients and the tracker preserves the invariant.
LEMMA NextIInv == IInv /\ [Next]_vars => IInv'
<1> SUFFICES ASSUME IInv, [Next]_vars PROVE IInv'
  OBVIOUS
<1>1. CASE Toggle
  BY <1>1, ToggleFacts, BeginKeeps DEF Toggle
<1>2. CASE AgentStep
  BY <1>2, DeadlineKeeps, PublishKeeps, SubmitKeeps, FailKeeps, ReceiveKeeps, EndKeeps DEF AgentStep
<1>3. CASE UNCHANGED vars
  <2>1. TypeOK'
    BY <1>3 DEF IInv, TypeOK, vars, tracker, agent, web, overtaken
  <2> QED
    BY <1>3, <2>1, WebUntouched, AgentUntouched DEF IInv, vars
<1> QED
  BY <1>1, <1>2, <1>3, BeginKeeps, HandleAgentKeeps, HandleWebKeeps, OnCommandKeeps,
     OnTrackingResponseKeeps DEF Next

-------------------------------------------------------------------------------
(* Results.                                                                *)

\* The inductive invariant: what each entry believes lags behind the tracker by
\* exactly the receipts on their way to it.
THEOREM Invariance == Spec => []IInv
<1> QED
  BY InitIInv, NextIInv, PTL DEF Spec

\* The state of the two entries is well typed, however many requests are under way.
THEOREM TypeCorrect == Spec => []TypeOK
<1>1. IInv => TypeOK
  BY DEF IInv
<1> QED
  BY Invariance, <1>1, PTL

\* What the agent reports as confirmed is what the tracker does.
THEOREM AgentReportsTheTracker == Spec => []AgentKnows
<1>1. IInv => AgentKnows
  BY DEF IInv, AgentLags, KnowsFusion, KnowsFollow, AgentKnows
<1> QED
  BY Invariance, <1>1, PTL

\* With nothing in flight the web node reports what the tracker does, however
\* many requests it had in flight together.
THEOREM WebReportsTheTracker == Spec => []WebKnows
<1>1. IInv => WebKnows
  <2> SUFFICES ASSUME IInv, web_receipts = <<>>, ~web_overtaken PROVE web_follow = follow
    BY DEF WebKnows
  <2>1. Len(web_receipts) = 0
    OBVIOUS
  <2>2. ~\E i \in 1..Len(web_receipts) : TRUE
    BY <2>1
  <2> QED
    BY <2>2 DEF IInv, WebLags, Tells
<1> QED
  BY Invariance, <1>1, PTL

\* The agent pauses the camera only in standby, unless overtaken.
THEOREM CameraPausesInStandby == Spec => CameraPausedInStandby
<1>1. IInv /\ [Next]_vars => [PublishCamera /\ camera' = "off" => ~follow \/ agent_overtaken]_vars
  <2> SUFFICES ASSUME IInv, PublishCamera, camera' = "off" PROVE ~follow \/ agent_overtaken
    OBVIOUS
  <2>1. todo # <<>> /\ Head(todo) = "camera_off"
    BY DEF PublishCamera, MayBeginStage, CameraStages
  <2> QED
    BY <2>1 DEF IInv, StandbyFirst
<1> QED
  BY Invariance, <1>1, PTL DEF Spec, CameraPausedInStandby
===============================================================================
