-------------------------- MODULE LocalAgentProofs --------------------------
(***************************************************************************)
(* Proofs about the sessions of the local agent, for any agents, any       *)
(* number of connections and any calls.  The properties are not inductive  *)
(* as they stand: that a call gets one reply depends on where its entry in *)
(* pending went, and that a registered session is open on what the one it  *)
(* replaced may still do.  IInv follows an entry from pending through      *)
(* readLoop's hand to the reply channel, and a session from its            *)
(* registration to its push-out.                                           *)
(***************************************************************************)
EXTENDS LocalAgent, SequenceTheorems, TLAPS

Unattached == {"unused", "dialled"}

\* The registered session is being served, and only sessions that have been
\* attached are closed or pushed out.
RegistryInv ==
  /\ registry # None => stage[registry] \in {"replacing", "reading"} /\ ~closed[registry]
  /\ \A s \in Sessions : closed[s] => stage[s] \notin Unattached
  /\ \A s \in Sessions : stage[s] # "unused" => peer[s] \in Agents
  /\ \A s \in Sessions : old[s] # None => stage[old[s]] \notin Unattached
  /\ \A s \in Sessions : stage[s] = "replacing" => old[s] # None /\ old[s] # registry

\* Where a call stands bounds what can have happened to it.
CallInv ==
  \A c \in Calls : /\ at[c] \notin {"start", "done"} => target[c] \in Sessions
                   /\ at[c] \in {"start", "found"} => reply[c] = Empty
                   /\ at[c] = "applying" => reply[c] \in Frame

\* An entry of pending belongs to a call whose reply is still to come.
PendingUnanswered ==
  \A s \in Sessions : \A c \in pending[s] :
    reply[c] = Empty /\ \A t \in Sessions : delivering[t].id # c

\* A closed session has no entry.
ClosedHasNone == \A s \in Sessions : closed[s] => pending[s] = {}

\* The reply in readLoop's hand is for a call of its session without one.
HandInv ==
  \A s \in Sessions : delivering[s] # NoFrame =>
    /\ reply[delivering[s].id] = Empty
    /\ target[delivering[s].id] = s
    /\ at[delivering[s].id] \notin {"start", "found"}

\* A waiting call is pending, about to be answered or answered.
WaiterKnown ==
  \A c \in Calls : at[c] \in {"registered", "waiting"} =>
    c \in pending[target[c]] \/ reply[c] # Empty \/ delivering[target[c]].id = c

MessageInv == /\ CallInv
              /\ PendingIsLive
              /\ PendingUnanswered
              /\ ClosedHasNone
              /\ HandInv
              /\ WaiterKnown

IInv == TypeOK /\ RegistryInv /\ MessageInv
-----------------------------------------------------------------------------
(* Frames and unchanged parts *)

LEMMA NoneFacts ==
  /\ None \notin Sessions /\ None \notin Agents /\ None \notin Calls /\ None \notin Workspaces
  BY LocalAgentAssumption DEF LocalAgentAssumption

\* A frame is for a call, and none of the marks is a frame.
LEMMA FrameFacts ==
  /\ \A f \in Frame : f.id \in Calls /\ f.ws \in Workspaces \cup {None} /\ f # Empty /\ f # NoFrame
  /\ NoFrame.id = None /\ Gone # Empty
  /\ \A c \in Calls : \A w \in Workspaces \cup {None} : [id |-> c, ws |-> w] \in Frame
<1>1. None \notin Calls /\ None # "empty"
  BY LocalAgentAssumption DEF LocalAgentAssumption
<1>2. Gone.ws = None /\ Empty.ws = "empty"
  BY DEF Gone, Empty
<1>. QED
  BY <1>1, <1>2 DEF Frame, NoFrame, Empty

LEMMA SameRegistry ==
  ASSUME RegistryInv, UNCHANGED <<registry, stage, old, closed, peer>>
  PROVE  RegistryInv'
BY DEF RegistryInv

LEMMA SameMessages ==
  ASSUME MessageInv, UNCHANGED <<at, target, reply, pending, closed, delivering>>
  PROVE  MessageInv'
BY DEF MessageInv, CallInv, PendingIsLive, PendingUnanswered, ClosedHasNone, HandInv, WaiterKnown

LEMMA InitIInv == Init => IInv
<1>. SUFFICES ASSUME Init
              PROVE  IInv
  OBVIOUS
<1>1. TypeOK
  BY DEF Init, TypeOK
<1>2. RegistryInv
  BY DEF Init, RegistryInv
<1>3. MessageInv
  BY NoneFacts, FrameFacts DEF Init, MessageInv, CallInv, PendingIsLive, PendingUnanswered, ClosedHasNone,
     HandInv, WaiterKnown
<1>. QED
  BY <1>1, <1>2, <1>3 DEF IInv
-----------------------------------------------------------------------------
(* The goroutine of a session *)

LEMMA AttachIInv ==
  ASSUME IInv, NEW s \in Sessions, Attach(s)
  PROVE  IInv'
<1>1. peer[s] \in Agents
  BY DEF Attach, IInv, RegistryInv
<1>2. TypeOK'
  BY <1>1 DEF Attach, IInv, TypeOK, wireVars, callVars, agentVars
<1>3. RegistryInv'
  BY NoneFacts DEF Attach, IInv, TypeOK, RegistryInv, Unattached, agentVars
<1>4. MessageInv'
  BY SameMessages DEF Attach, IInv, callVars
<1>. QED
  BY <1>2, <1>3, <1>4 DEF IInv

\* Close answers every pending call of its session, and those only.
LEMMA CloseMessages ==
  ASSUME TypeOK, MessageInv, NEW s \in Sessions, Close(s), UNCHANGED <<at, target, delivering>>
  PROVE  MessageInv'
<1>1. /\ closed' = [closed EXCEPT ![s] = TRUE]
      /\ pending' = [pending EXCEPT ![s] = IF closed[s] THEN @ ELSE {}]
      /\ \A c \in Calls : reply'[c] = IF ~closed[s] /\ c \in pending[s] /\ reply[c] = Empty
                                       THEN Gone ELSE reply[c]
  BY DEF Close
<1>2. \A t \in Sessions : pending[t] \subseteq Calls
  BY DEF TypeOK
<1>3. \A t \in Sessions : pending'[t] = IF t = s THEN {} ELSE pending[t]
  BY <1>1 DEF TypeOK, MessageInv, ClosedHasNone
<1>4. \A c \in Calls : c \in pending[s] => target[c] = s
  BY DEF MessageInv, PendingIsLive
<1>5. CallInv'
  BY <1>1 DEF MessageInv, CallInv, PendingIsLive
<1>6. PendingIsLive'
  BY <1>3 DEF MessageInv, PendingIsLive
<1>7. PendingUnanswered'
  <2>. SUFFICES ASSUME NEW t \in Sessions, NEW c \in pending'[t]
                PROVE  reply'[c] = Empty /\ \A u \in Sessions : delivering'[u].id # c
    BY DEF PendingUnanswered
  <2>1. t # s /\ c \in pending[t] /\ c \in Calls
    BY <1>2, <1>3
  <2>2. c \notin pending[s]
    BY <1>4, <2>1 DEF MessageInv, PendingIsLive
  <2>. QED
    BY <1>1, <2>1, <2>2 DEF MessageInv, PendingUnanswered
<1>8. ClosedHasNone'
  BY <1>1, <1>3 DEF TypeOK, MessageInv, ClosedHasNone
<1>9. HandInv'
  <2>. SUFFICES ASSUME NEW t \in Sessions, delivering[t] # NoFrame
                PROVE  /\ reply'[delivering[t].id] = Empty
                       /\ target[delivering[t].id] = t
                       /\ at[delivering[t].id] \notin {"start", "found"}
    BY DEF HandInv
  <2>1. delivering[t].id \in Calls
    BY FrameFacts DEF TypeOK
  <2>2. delivering[t].id \notin pending[s]
    BY DEF MessageInv, PendingUnanswered
  <2>. QED
    BY <1>1, <2>1, <2>2 DEF MessageInv, HandInv
<1>10. WaiterKnown'
  <2>. SUFFICES ASSUME NEW c \in Calls, at[c] \in {"registered", "waiting"}
                PROVE  \/ c \in pending'[target[c]]
                       \/ reply'[c] # Empty
                       \/ delivering[target[c]].id = c
    BY DEF WaiterKnown
  <2>1. target[c] \in Sessions
    BY DEF MessageInv, CallInv
  <2>2. CASE c \in pending[s] /\ target[c] = s
    BY <1>1, <2>2, FrameFacts DEF MessageInv, PendingUnanswered, ClosedHasNone
  <2>3. CASE ~(c \in pending[s] /\ target[c] = s)
    BY <1>1, <1>3, <2>1, <2>3, FrameFacts DEF MessageInv, WaiterKnown
  <2>. QED
    BY <2>2, <2>3
<1>. QED
  BY <1>5, <1>6, <1>7, <1>8, <1>9, <1>10 DEF MessageInv

LEMMA CloseTypes ==
  ASSUME TypeOK, NEW s \in Sessions, Close(s)
  PROVE  /\ closed' \in [Sessions -> BOOLEAN]
         /\ pending' \in [Sessions -> SUBSET Calls]
         /\ reply' \in [Calls -> Frame \cup {Gone, Empty}]
BY DEF TypeOK, Close

LEMMA PushOutIInv ==
  ASSUME IInv, NEW s \in Sessions, PushOut(s)
  PROVE  IInv'
<1>1. old[s] \in Sessions /\ old[s] # registry /\ Close(old[s])
  BY DEF PushOut, IInv, TypeOK, RegistryInv
<1>2. TypeOK'
  BY <1>1, CloseTypes DEF PushOut, IInv, TypeOK, wireVars, agentVars
<1>3. RegistryInv'
  BY <1>1, NoneFacts DEF PushOut, Close, IInv, TypeOK, RegistryInv, Unattached, agentVars
<1>4. MessageInv'
  BY <1>1, CloseMessages DEF PushOut, IInv
<1>. QED
  BY <1>2, <1>3, <1>4 DEF IInv

LEMMA CloseSelfIInv ==
  ASSUME IInv, NEW s \in Sessions, CloseSelf(s)
  PROVE  IInv'
<1>1. stage[s] = "cleanup" /\ Close(s) /\ registry # s
  BY NoneFacts DEF CloseSelf, IInv, RegistryInv
<1>2. TypeOK'
  BY <1>1, CloseTypes DEF CloseSelf, IInv, TypeOK, wireVars, agentVars
<1>3. RegistryInv'
  BY <1>1, NoneFacts DEF CloseSelf, Close, IInv, TypeOK, RegistryInv, Unattached, agentVars
<1>4. MessageInv'
  BY <1>1, CloseMessages DEF CloseSelf, IInv
<1>. QED
  BY <1>2, <1>3, <1>4 DEF IInv

LEMMA DetachIInv ==
  ASSUME IInv, NEW s \in Sessions, Detach(s)
  PROVE  IInv'
<1>1. TypeOK'
  BY DEF Detach, IInv, TypeOK, wireVars, callVars, agentVars
<1>2. RegistryInv'
  BY NoneFacts DEF Detach, IInv, TypeOK, RegistryInv, Unattached, agentVars
<1>3. MessageInv'
  BY SameMessages DEF Detach, IInv, callVars
<1>. QED
  BY <1>1, <1>2, <1>3 DEF IInv

\* An entry leaves pending for readLoop's hand.
LEMMA DeliverIInv ==
  ASSUME IInv, NEW s \in Sessions, Deliver(s)
  PROVE  IInv'
<1>. DEFINE f == Head(toServer[s])
<1>1. /\ delivering[s] = NoFrame
      /\ delivering' = [delivering EXCEPT ![s] = IF f.id \in pending[s] THEN f ELSE NoFrame]
      /\ pending' = [pending EXCEPT ![s] = @ \ {f.id}]
      /\ toServer' = [toServer EXCEPT ![s] = Tail(@)]
      /\ UNCHANGED <<registry, stage, old, closed, workspace, link, toAgent, callVars, agentVars>>
  BY DEF Deliver
<1>2. toServer[s] \in Seq(Frame) /\ toServer[s] # <<>>
  BY DEF Deliver, IInv, TypeOK
<1>3. f \in Frame /\ Tail(toServer[s]) \in Seq(Frame)
  BY <1>2, HeadTailProperties
<1>. HIDE DEF f
<1>4. f.id \in Calls /\ f # NoFrame
  BY <1>3, FrameFacts
<1>5. TypeOK'
  BY <1>1, <1>3 DEF IInv, TypeOK, callVars, agentVars
<1>6. RegistryInv'
  BY <1>1, SameRegistry DEF IInv, agentVars
<1>7. UNCHANGED <<at, target, reply, closed>>
  BY <1>1 DEF callVars
<1>8. /\ \A t \in Sessions \ {s} : delivering'[t] = delivering[t] /\ pending'[t] = pending[t]
      /\ delivering'[s] = IF f.id \in pending[s] THEN f ELSE NoFrame
      /\ pending'[s] = pending[s] \ {f.id}
  BY <1>1 DEF IInv, TypeOK
<1>9. CallInv' /\ PendingIsLive' /\ ClosedHasNone'
  BY <1>7, <1>8 DEF IInv, MessageInv, CallInv, PendingIsLive, ClosedHasNone
<1>10. PendingUnanswered'
  <2>. SUFFICES ASSUME NEW t \in Sessions, NEW c \in pending'[t], NEW u \in Sessions
                PROVE  reply'[c] = Empty /\ delivering'[u].id # c
    BY DEF PendingUnanswered
  <2>1. c \in pending[t] /\ c \in Calls
    BY <1>8 DEF IInv, TypeOK
  <2>2. f.id \in pending[s] => f.id # c
    BY <1>8, <2>1 DEF IInv, MessageInv, PendingIsLive
  <2>. QED
    BY <1>7, <1>8, <2>1, <2>2, FrameFacts, NoneFacts DEF IInv, MessageInv, PendingUnanswered
<1>11. HandInv'
  <2>. SUFFICES ASSUME NEW t \in Sessions, delivering'[t] # NoFrame
                PROVE  /\ reply[delivering'[t].id] = Empty
                       /\ target[delivering'[t].id] = t
                       /\ at[delivering'[t].id] \notin {"start", "found"}
    BY <1>7 DEF HandInv
  <2>1. CASE t = s
    BY <1>8, <2>1 DEF IInv, MessageInv, PendingIsLive, PendingUnanswered
  <2>2. CASE t # s
    BY <1>8, <2>2 DEF IInv, MessageInv, HandInv
  <2>. QED
    BY <2>1, <2>2
<1>12. WaiterKnown'
  <2>. SUFFICES ASSUME NEW c \in Calls, at[c] \in {"registered", "waiting"}
                PROVE  \/ c \in pending'[target[c]]
                       \/ reply[c] # Empty
                       \/ delivering'[target[c]].id = c
    BY <1>7 DEF WaiterKnown
  <2>1. target[c] \in Sessions
    BY DEF IInv, MessageInv, CallInv
  <2>2. \/ c \in pending[target[c]] \/ reply[c] # Empty \/ delivering[target[c]].id = c
    BY DEF IInv, MessageInv, WaiterKnown
  <2>. QED
    BY <1>1, <1>8, <2>1, <2>2, FrameFacts, NoneFacts
<1>. QED
  BY <1>5, <1>6, <1>9, <1>10, <1>11, <1>12 DEF IInv, MessageInv

\* The reply goes from readLoop's hand into the channel.
LEMMA SendReplyIInv ==
  ASSUME IInv, NEW s \in Sessions, SendReply(s)
  PROVE  IInv'
<1>. DEFINE f == delivering[s]
<1>1. /\ f # NoFrame /\ reply[f.id] = Empty
      /\ reply' = [reply EXCEPT ![f.id] = f]
      /\ delivering' = [delivering EXCEPT ![s] = NoFrame]
      /\ UNCHANGED <<registry, stage, old, closed, pending, workspace, wireVars, at, target, agentVars>>
  BY DEF SendReply
<1>2. f \in Frame
  BY <1>1 DEF IInv, TypeOK
<1>3. /\ f.id \in Calls /\ f # Empty /\ target[f.id] = s /\ at[f.id] \notin {"start", "found"}
      /\ \A t \in Sessions : f.id \notin pending[t]
  BY <1>1, <1>2, FrameFacts DEF IInv, MessageInv, HandInv, PendingUnanswered
<1>4. /\ \A t \in Sessions \ {s} : delivering'[t] = delivering[t]
      /\ delivering'[s] = NoFrame
      /\ \A c \in Calls : reply'[c] = IF c = f.id THEN f ELSE reply[c]
  BY <1>1, <1>3 DEF IInv, TypeOK
<1>5. TypeOK'
  BY <1>1, <1>2, <1>3 DEF IInv, TypeOK, wireVars, agentVars
<1>6. RegistryInv'
  BY <1>1, SameRegistry DEF IInv, agentVars
<1>. HIDE DEF f
<1>7. CallInv' /\ PendingIsLive' /\ ClosedHasNone'
  BY <1>1, <1>2, <1>3, <1>4 DEF IInv, MessageInv, CallInv, PendingIsLive, ClosedHasNone
<1>8. PendingUnanswered'
  <2>. SUFFICES ASSUME NEW t \in Sessions, NEW c \in pending[t], NEW u \in Sessions
                PROVE  reply'[c] = Empty /\ delivering'[u].id # c
    BY <1>1 DEF PendingUnanswered
  <2>1. c \in Calls
    BY DEF IInv, TypeOK
  <2>. QED
    BY <1>3, <1>4, <2>1, FrameFacts, NoneFacts DEF IInv, MessageInv, PendingUnanswered
<1>9. HandInv'
  <2>. SUFFICES ASSUME NEW t \in Sessions, delivering'[t] # NoFrame
                PROVE  /\ reply'[delivering'[t].id] = Empty
                       /\ target[delivering'[t].id] = t
                       /\ at[delivering'[t].id] \notin {"start", "found"}
    BY <1>1 DEF HandInv
  <2>1. t # s /\ delivering'[t] = delivering[t]
    BY <1>4
  <2>2. delivering[t].id \in Calls
    BY <2>1, FrameFacts DEF IInv, TypeOK
  <2>3. target[delivering[t].id] = t /\ reply[delivering[t].id] = Empty
        /\ at[delivering[t].id] \notin {"start", "found"}
    BY <2>1 DEF IInv, MessageInv, HandInv
  <2>. QED
    BY <1>3, <1>4, <2>1, <2>2, <2>3
<1>10. WaiterKnown'
  <2>. SUFFICES ASSUME NEW c \in Calls, at[c] \in {"registered", "waiting"}
                PROVE  \/ c \in pending[target[c]]
                       \/ reply'[c] # Empty
                       \/ delivering'[target[c]].id = c
    BY <1>1 DEF WaiterKnown
  <2>1. target[c] \in Sessions
    BY DEF IInv, MessageInv, CallInv
  <2>2. \/ c \in pending[target[c]] \/ reply[c] # Empty \/ delivering[target[c]].id = c
    BY DEF IInv, MessageInv, WaiterKnown
  <2>. QED
    BY <1>3, <1>4, <2>1, <2>2 DEF f
<1>. QED
  BY <1>5, <1>6, <1>7, <1>8, <1>9, <1>10 DEF IInv, MessageInv
-----------------------------------------------------------------------------
(* The goroutine of a call *)

LEMMA FindIInv ==
  ASSUME IInv, NEW c \in Calls, Find(c)
  PROVE  IInv'
<1>1. TypeOK'
  BY DEF Find, IInv, TypeOK, sessionVars, wireVars, agentVars
<1>2. RegistryInv'
  BY SameRegistry DEF Find, IInv, sessionVars, agentVars
<1>3. /\ \A d \in Calls \ {c} : at'[d] = at[d] /\ target'[d] = target[d]
      /\ at[c] = "start" /\ at'[c] \in {"done", "found"}
      /\ target'[c] = registry /\ (at'[c] # "done" => registry # None)
      /\ UNCHANGED <<reply, pending, closed, delivering>>
  BY DEF Find, IInv, TypeOK, sessionVars
<1>4. \A s \in Sessions : c \notin pending[s] /\ (delivering[s] # NoFrame => delivering[s].id # c)
  BY <1>3 DEF IInv, MessageInv, PendingIsLive, HandInv
<1>5. CallInv' /\ PendingUnanswered' /\ ClosedHasNone'
  BY <1>3 DEF IInv, TypeOK, MessageInv, CallInv, PendingUnanswered, ClosedHasNone
<1>6. PendingIsLive'
  <2>1. \A s \in Sessions : \A d \in pending[s] : d \in Calls \ {c}
    BY <1>4 DEF IInv, TypeOK
  <2>. QED
    BY <1>3, <2>1 DEF IInv, MessageInv, PendingIsLive
<1>7. HandInv'
  <2>1. \A s \in Sessions : delivering[s] # NoFrame => delivering[s].id \in Calls \ {c}
    BY <1>4, FrameFacts DEF IInv, TypeOK
  <2>. QED
    BY <1>3, <2>1 DEF IInv, MessageInv, HandInv
<1>8. WaiterKnown'
  BY <1>3 DEF IInv, MessageInv, WaiterKnown
<1>. QED
  BY <1>1, <1>2, <1>5, <1>6, <1>7, <1>8 DEF IInv, MessageInv

LEMMA RegisterCallIInv ==
  ASSUME IInv, NEW c \in Calls, RegisterCall(c)
  PROVE  IInv'
<1>. DEFINE s == target[c]
<1>1. /\ at[c] = "found" /\ s \in Sessions
      /\ UNCHANGED <<registry, stage, old, closed, workspace, delivering, wireVars, target, reply, agentVars>>
  BY DEF RegisterCall, IInv, MessageInv, CallInv
<1>2. \/ at' = [at EXCEPT ![c] = "done"] /\ UNCHANGED pending
      \/ /\ ~closed[s] /\ pending' = [pending EXCEPT ![s] = @ \cup {c}]
         /\ at' = [at EXCEPT ![c] = "registered"]
  BY DEF RegisterCall
<1>3. /\ reply[c] = Empty
      /\ \A t \in Sessions : c \notin pending[t] /\ delivering[t].id # c
  BY <1>1, FrameFacts, NoneFacts DEF IInv, MessageInv, CallInv, PendingIsLive, HandInv
<1>4. TypeOK'
  <2>1. at' \in [Calls -> {"start", "found", "registered", "waiting", "leaving", "failing",
                           "applying", "done"}]
    BY <1>2 DEF IInv, TypeOK
  <2>2. pending' \in [Sessions -> SUBSET Calls]
    <3>1. pending[s] \cup {c} \in SUBSET Calls
      BY <1>1 DEF IInv, TypeOK
    <3>. QED
      BY <1>2, <3>1 DEF IInv, TypeOK
  <2>. QED
    BY <1>1, <2>1, <2>2 DEF IInv, TypeOK, wireVars, agentVars
<1>5. RegistryInv'
  BY <1>1, SameRegistry DEF IInv, agentVars
<1>6. /\ \A d \in Calls \ {c} : at'[d] = at[d]
      /\ \/ at'[c] = "done" /\ \A t \in Sessions : pending'[t] = pending[t]
         \/ /\ at'[c] = "registered" /\ ~closed[s] /\ pending'[s] = pending[s] \cup {c}
            /\ \A t \in Sessions \ {s} : pending'[t] = pending[t]
  BY <1>1, <1>2 DEF IInv, TypeOK
<1>7. CallInv' /\ PendingUnanswered' /\ ClosedHasNone'
  <2>1. CallInv'
    BY <1>1, <1>6 DEF IInv, MessageInv, CallInv
  <2>2. PendingUnanswered' /\ ClosedHasNone'
    BY <1>1, <1>3, <1>6 DEF IInv, MessageInv, PendingUnanswered, ClosedHasNone
  <2>. QED
    BY <2>1, <2>2
<1>8. PendingIsLive'
  <2>. SUFFICES ASSUME NEW t \in Sessions, NEW d \in pending'[t]
                PROVE  target[d] = t /\ at'[d] \in {"registered", "waiting", "leaving", "failing"}
    BY <1>1 DEF PendingIsLive
  <2>1. CASE d \in pending[t]
    <3>1. d # c /\ d \in Calls
      BY <1>3, <2>1 DEF IInv, TypeOK
    <3>2. target[d] = t /\ at[d] \in {"registered", "waiting", "leaving", "failing"}
      BY <2>1 DEF IInv, MessageInv, PendingIsLive
    <3>. QED
      BY <1>6, <3>1, <3>2
  <2>2. CASE d \notin pending[t]
    BY <1>6, <2>2
  <2>. QED
    BY <2>1, <2>2
<1>9. HandInv'
  <2>1. \A t \in Sessions : delivering[t] # NoFrame => delivering[t].id \in Calls \ {c}
    BY <1>3, FrameFacts DEF IInv, TypeOK
  <2>. QED
    BY <1>1, <1>2, <2>1 DEF IInv, TypeOK, MessageInv, HandInv
<1>10. WaiterKnown'
  <2>. SUFFICES ASSUME NEW d \in Calls, at'[d] \in {"registered", "waiting"}
                PROVE  \/ d \in pending'[target[d]]
                       \/ reply[d] # Empty
                       \/ delivering[target[d]].id = d
    BY <1>1 DEF WaiterKnown
  <2>1. CASE d = c
    BY <1>6, <2>1
  <2>2. CASE d # c
    <3>1. at[d] \in {"registered", "waiting"} /\ target[d] \in Sessions
      BY <1>6, <2>2 DEF IInv, MessageInv, CallInv
    <3>2. pending[target[d]] \subseteq pending'[target[d]]
      BY <1>6, <3>1
    <3>. QED
      BY <3>1, <3>2 DEF IInv, MessageInv, WaiterKnown
  <2>. QED
    BY <2>1, <2>2
<1>. QED
  BY <1>4, <1>5, <1>7, <1>8, <1>9, <1>10 DEF IInv, MessageInv

\* A call moves on inside roundTrip.
LEMMA InsideMessages ==
  ASSUME TypeOK, MessageInv, NEW c \in Calls,
         at[c] \in {"registered", "waiting"},
         NEW p \in {"waiting", "leaving", "failing"}, at' = [at EXCEPT ![c] = p],
         UNCHANGED <<target, reply, pending, closed, delivering>>
  PROVE  MessageInv'
<1>1. CallInv' /\ PendingUnanswered' /\ ClosedHasNone' /\ WaiterKnown'
  BY DEF TypeOK, MessageInv, CallInv, PendingUnanswered, ClosedHasNone, WaiterKnown
<1>2. PendingIsLive'
  <2>1. \A s \in Sessions : pending[s] \subseteq Calls
    BY DEF TypeOK
  <2>. QED
    BY <2>1 DEF TypeOK, MessageInv, PendingIsLive
<1>3. HandInv'
  <2>1. \A s \in Sessions : delivering[s] # NoFrame => delivering[s].id \in Calls
    BY FrameFacts DEF TypeOK
  <2>. QED
    BY <2>1 DEF TypeOK, MessageInv, HandInv
<1>. QED
  BY <1>1, <1>2, <1>3 DEF MessageInv

LEMMA InsideIInv ==
  ASSUME IInv, NEW c \in Calls, WriteFrame(c) \/ TakeReply(c) \/ TimesOut(c)
  PROVE  IInv'
<1>1. TypeOK'
  <2>1. CASE WriteFrame(c)
    <3>1. target[c] \in Sessions
      BY <2>1 DEF WriteFrame, IInv, MessageInv, CallInv
    <3>2. \A q \in Seq(Calls) : Append(q, c) \in Seq(Calls)
      BY AppendProperties
    <3>3. toAgent' \in [Sessions -> Seq(Calls)]
      <4>1. \/ toAgent' = [toAgent EXCEPT ![target[c]] = Append(toAgent[target[c]], c)]
            \/ toAgent' = toAgent
        BY <2>1 DEF WriteFrame
      <4>2. Append(toAgent[target[c]], c) \in Seq(Calls) /\ toAgent \in [Sessions -> Seq(Calls)]
        BY <3>1, <3>2 DEF IInv, TypeOK
      <4>. QED
        BY <4>1, <4>2
    <3>4. at' \in [Calls -> {"start", "found", "registered", "waiting", "leaving", "failing",
                             "applying", "done"}]
      BY <2>1 DEF WriteFrame, IInv, TypeOK
    <3>. QED
      BY <2>1, <3>3, <3>4 DEF WriteFrame, IInv, TypeOK, sessionVars, agentVars
  <2>2. CASE TakeReply(c) \/ TimesOut(c)
    BY <2>2 DEF TakeReply, TimesOut, IInv, TypeOK, sessionVars, wireVars, agentVars
  <2>. QED
    BY <2>1, <2>2
<1>2. RegistryInv'
  BY SameRegistry DEF WriteFrame, TakeReply, TimesOut, IInv, sessionVars, agentVars
<1>3. /\ at[c] \in {"registered", "waiting"}
      /\ \E p \in {"waiting", "leaving", "failing"} : at' = [at EXCEPT ![c] = p]
      /\ UNCHANGED <<target, reply, pending, closed, delivering>>
  BY DEF WriteFrame, TakeReply, TimesOut, sessionVars
<1>4. MessageInv'
  BY <1>3, InsideMessages DEF IInv
<1>. QED
  BY <1>1, <1>2, <1>4 DEF IInv

LEMMA LeaveIInv ==
  ASSUME IInv, NEW c \in Calls, Leave(c)
  PROVE  IInv'
<1>. DEFINE s == target[c]
<1>1. /\ at[c] \in {"leaving", "failing"} /\ s \in Sessions
      /\ pending' = [pending EXCEPT ![s] = @ \ {c}]
      /\ UNCHANGED <<registry, stage, old, closed, workspace, delivering, wireVars, target, reply, agentVars>>
  BY DEF Leave, IInv, MessageInv, CallInv
<1>2. PICK p \in {"applying", "done"} : /\ at' = [at EXCEPT ![c] = p]
                                        /\ p = "applying" => reply[c] \in Frame
  BY DEF Leave, Switched, IInv, TypeOK
<1>3. TypeOK'
  BY <1>1, <1>2 DEF IInv, TypeOK, wireVars, agentVars
<1>4. RegistryInv'
  BY <1>1, SameRegistry DEF IInv, agentVars
<1>5. CallInv' /\ PendingUnanswered' /\ ClosedHasNone'
  BY <1>1, <1>2 DEF IInv, TypeOK, MessageInv, CallInv, PendingUnanswered, ClosedHasNone
<1>6. PendingIsLive'
  <2>. SUFFICES ASSUME NEW t \in Sessions, NEW d \in pending'[t]
                PROVE  target[d] = t /\ at'[d] \in {"registered", "waiting", "leaving", "failing"}
    BY <1>1 DEF PendingIsLive
  <2>1. d \in pending[t] /\ d \in Calls
    BY <1>1 DEF IInv, TypeOK
  <2>2. d # c
    BY <1>1, <2>1 DEF IInv, TypeOK, MessageInv, PendingIsLive
  <2>. QED
    BY <1>2, <2>1, <2>2 DEF IInv, TypeOK, MessageInv, PendingIsLive
<1>7. HandInv'
  <2>1. \A t \in Sessions : delivering[t] # NoFrame => delivering[t].id \in Calls
    BY FrameFacts DEF IInv, TypeOK
  <2>. QED
    BY <1>1, <1>2, <2>1 DEF IInv, TypeOK, MessageInv, HandInv
<1>8. WaiterKnown'
  BY <1>1, <1>2 DEF IInv, TypeOK, MessageInv, CallInv, WaiterKnown
<1>. QED
  BY <1>3, <1>4, <1>5, <1>6, <1>7, <1>8 DEF IInv, MessageInv

LEMMA ApplyIInv ==
  ASSUME IInv, NEW c \in Calls, Apply(c)
  PROVE  IInv'
<1>1. /\ at[c] = "applying" /\ at' = [at EXCEPT ![c] = "done"]
      /\ workspace' = [workspace EXCEPT ![target[c]] = reply[c].ws]
      /\ UNCHANGED <<registry, stage, old, closed, pending, delivering, wireVars, target, reply, agentVars>>
  BY DEF Apply
<1>2. target[c] \in Sessions /\ reply[c].ws \in Workspaces \cup {None}
  BY <1>1, FrameFacts DEF IInv, MessageInv, CallInv
<1>3. TypeOK'
  BY <1>1, <1>2 DEF IInv, TypeOK, wireVars, agentVars
<1>4. RegistryInv'
  BY <1>1, SameRegistry DEF IInv, agentVars
<1>5. CallInv' /\ PendingUnanswered' /\ ClosedHasNone' /\ WaiterKnown'
  BY <1>1 DEF IInv, TypeOK, MessageInv, CallInv, PendingUnanswered, ClosedHasNone, WaiterKnown
<1>6. PendingIsLive'
  <2>1. \A s \in Sessions : \A d \in pending[s] : d \in Calls /\ d # c
    BY <1>1 DEF IInv, TypeOK, MessageInv, PendingIsLive
  <2>. QED
    BY <1>1, <2>1 DEF IInv, TypeOK, MessageInv, PendingIsLive
<1>7. HandInv'
  <2>1. \A t \in Sessions : delivering[t] # NoFrame => delivering[t].id \in Calls
    BY FrameFacts DEF IInv, TypeOK
  <2>. QED
    BY <1>1, <2>1 DEF IInv, TypeOK, MessageInv, HandInv
<1>. QED
  BY <1>3, <1>4, <1>5, <1>6, <1>7 DEF IInv, MessageInv
-----------------------------------------------------------------------------
(* The connection and the agent *)

LEMMA LinkBreaksIInv ==
  ASSUME IInv, NEW s \in Sessions, LinkBreaks(s)
  PROVE  IInv'
<1>1. TypeOK'
  BY DEF LinkBreaks, IInv, TypeOK, sessionVars, callVars, agentVars
<1>. QED
  BY <1>1, SameRegistry, SameMessages DEF LinkBreaks, IInv, sessionVars, callVars, agentVars

LEMMA DialIInv ==
  ASSUME IInv, NEW a \in Agents, NEW s \in Sessions, Dial(a, s)
  PROVE  IInv'
<1>1. TypeOK'
  BY DEF Dial, IInv, TypeOK, callVars
<1>2. RegistryInv'
  BY NoneFacts DEF Dial, IInv, TypeOK, RegistryInv, Unattached
<1>3. MessageInv'
  BY SameMessages DEF Dial, IInv, callVars
<1>. QED
  BY <1>1, <1>2, <1>3 DEF IInv

LEMMA AgentIInv ==
  ASSUME IInv, NEW a \in Agents, Handle(a) \/ Answer(a) \/ HangUp(a)
  PROVE  IInv'
<1>1. RegistryInv' /\ MessageInv'
  BY SameRegistry, SameMessages DEF Handle, Answer, HangUp, IInv, sessionVars, callVars
<1>2. CASE Handle(a)
  <2>. DEFINE s == conn[a]
              c == Head(toAgent[s])
  <2>1. s \in Sessions /\ toAgent[s] \in Seq(Calls) /\ toAgent[s] # <<>>
    BY <1>2 DEF Handle, IInv, TypeOK
  <2>2. c \in Calls /\ Tail(toAgent[s]) \in Seq(Calls)
    BY <2>1, HeadTailProperties
  <2>3. \A w \in Workspaces \cup {None} : [id |-> c, ws |-> w] \in Frame
    BY <2>2, FrameFacts
  <2>4. answer' \in [Agents -> Frame \cup {NoFrame}] /\ root' \in [Agents -> Workspaces]
    <3>1. answer \in [Agents -> Frame \cup {NoFrame}] /\ root \in [Agents -> Workspaces]
      BY DEF IInv, TypeOK
    <3>2. \/ answer' = [answer EXCEPT ![a] = [id |-> c, ws |-> None]] /\ root' = root
          \/ \E w \in Workspaces : /\ root' = [root EXCEPT ![a] = w]
                                   /\ answer' = [answer EXCEPT ![a] = [id |-> c, ws |-> w]]
      BY <1>2 DEF Handle
    <3>. HIDE DEF c, s
    <3>3. CASE answer' = [answer EXCEPT ![a] = [id |-> c, ws |-> None]] /\ root' = root
      BY <2>3, <3>1, <3>3
    <3>4. ASSUME NEW w \in Workspaces, root' = [root EXCEPT ![a] = w],
                 answer' = [answer EXCEPT ![a] = [id |-> c, ws |-> w]]
          PROVE  answer' \in [Agents -> Frame \cup {NoFrame}] /\ root' \in [Agents -> Workspaces]
      <4>1. [id |-> c, ws |-> w] \in Frame
        BY <2>3
      <4>. QED
        BY <3>1, <3>4, <4>1
    <3>. QED
      BY <3>2, <3>3, <3>4
  <2>5. /\ toAgent' = [toAgent EXCEPT ![s] = Tail(@)]
        /\ UNCHANGED <<sessionVars, link, toServer, callVars, peer, conn>>
    BY <1>2 DEF Handle
  <2>6. toAgent' \in [Sessions -> Seq(Calls)]
    BY <2>2, <2>5 DEF IInv, TypeOK
  <2>7. TypeOK'
    BY <2>4, <2>5, <2>6 DEF IInv, TypeOK, sessionVars, callVars
  <2>. QED
    BY <1>1, <2>7 DEF IInv
<1>3. CASE Answer(a)
  <2>1. conn[a] \in Sessions /\ answer[a] \in Frame
    BY <1>3 DEF Answer, IInv, TypeOK
  <2>2. \A q \in Seq(Frame) : Append(q, answer[a]) \in Seq(Frame)
    BY <2>1, AppendProperties
  <2>3. TypeOK'
    BY <1>3, <2>1, <2>2 DEF Answer, IInv, TypeOK, sessionVars, callVars
  <2>. QED
    BY <1>1, <2>3 DEF IInv
<1>4. CASE HangUp(a)
  <2>1. TypeOK'
    BY <1>4 DEF HangUp, IInv, TypeOK, sessionVars, wireVars, callVars
  <2>. QED
    BY <1>1, <2>1 DEF IInv
<1>. QED
  BY <1>2, <1>3, <1>4
-----------------------------------------------------------------------------
(* The whole next-state relation *)

LEMMA NextIInv == IInv /\ [Next]_vars => IInv'
<1>. SUFFICES ASSUME IInv, [Next]_vars
              PROVE  IInv'
  OBVIOUS
<1>1. CASE UNCHANGED vars \/ Done
  <2>1. UNCHANGED <<sessionVars, wireVars, callVars, agentVars>>
    BY <1>1 DEF Done, vars
  <2>2. TypeOK'
    BY <2>1 DEF IInv, TypeOK, sessionVars, wireVars, callVars, agentVars
  <2>. QED
    BY <2>1, <2>2, SameRegistry, SameMessages DEF IInv, sessionVars, callVars, agentVars
<1>2. ASSUME NEW s \in Sessions, SessionStep(s) \/ LinkBreaks(s)
      PROVE  IInv'
  BY <1>2, AttachIInv, PushOutIInv, DeliverIInv, SendReplyIInv, DetachIInv, CloseSelfIInv,
     LinkBreaksIInv DEF SessionStep
<1>3. ASSUME NEW c \in Calls, Find(c) \/ CallStep(c) \/ TimesOut(c)
      PROVE  IInv'
  BY <1>3, FindIInv, RegisterCallIInv, InsideIInv, LeaveIInv, ApplyIInv DEF CallStep
<1>4. ASSUME NEW a \in Agents, (\E s \in Sessions : Dial(a, s)) \/ Handle(a) \/ Answer(a) \/ HangUp(a)
      PROVE  IInv'
  BY <1>4, DialIInv, AgentIInv
<1>. QED
  BY <1>1, <1>2, <1>3, <1>4 DEF Next

(***************************************************************************)
(* The invariant holds whatever agents, connections and calls there are.   *)
(***************************************************************************)
THEOREM InductiveInvariant == Spec => []IInv
  BY InitIInv, NextIInv, PTL DEF Spec

(***************************************************************************)
(* Type correctness (registry.go and cmd/localagent): a frame on the wire  *)
(* or in readLoop's hand is always for a call, and every pointer is to a   *)
(* session that exists.                                                    *)
(***************************************************************************)
THEOREM TypeCorrect == Spec => []TypeOK
<1>1. IInv => TypeOK
  BY DEF IInv
<1>. QED
  BY InductiveInvariant, <1>1, PTL

\* A registered session goes only when a new one is attached or its own
\* goroutine takes it off.
OwnerStep ==
  \A s \in Sessions : registry = s /\ registry' # s =>
    \/ registry' # None /\ stage[registry'] = "dialled"
    \/ stage[s] = "reading" /\ stage'[s] = "cleanup"

LEMMA NextOwnerStep == IInv /\ [Next]_vars => OwnerStep
<1>. SUFFICES ASSUME IInv, [Next]_vars, NEW s \in Sessions, registry = s, registry' # s
              PROVE  \/ registry' # None /\ stage[registry'] = "dialled"
                     \/ stage[s] = "reading" /\ stage'[s] = "cleanup"
  BY DEF OwnerStep
<1>1. \/ UNCHANGED registry
      \/ \E t \in Sessions : Attach(t) \/ Detach(t)
  BY DEF Next, vars, sessionVars, Done, SessionStep, CallStep, PushOut, Deliver, SendReply, CloseSelf,
     LinkBreaks, Find, RegisterCall, WriteFrame, TakeReply, TimesOut, Leave, Apply, Dial, Handle,
     Answer, HangUp
<1>2. ASSUME NEW t \in Sessions, Attach(t)
      PROVE  registry' # None /\ stage[registry'] = "dialled"
  BY <1>2, NoneFacts DEF Attach
<1>3. ASSUME NEW t \in Sessions, Detach(t)
      PROVE  stage[s] = "reading" /\ stage'[s] = "cleanup"
  BY <1>3 DEF Detach, IInv, TypeOK
<1>. QED
  BY <1>1, <1>2, <1>3

(***************************************************************************)
(* The registry and its sessions are sound (registry.go, Attach, Close,    *)
(* deliver and roundTrip): a registered session is open, only its own      *)
(* goroutine gives it up, every call waiting on a session is pending there *)
(* or has its answer under way, and gets one answer at most.               *)
(***************************************************************************)
THEOREM SessionsAreSound == Spec => SessionSound
<1>1. IInv => RegisteredIsOpen /\ ClosedMeansAnswered /\ OneReplyPerCall /\ PendingIsLive
  <2>. SUFFICES ASSUME IInv
                PROVE  RegisteredIsOpen /\ ClosedMeansAnswered /\ OneReplyPerCall /\ PendingIsLive
    OBVIOUS
  <2>1. RegisteredIsOpen
    BY DEF IInv, RegistryInv, RegisteredIsOpen
  <2>2. ClosedMeansAnswered
    BY DEF IInv, MessageInv, CallInv, ClosedHasNone, WaiterKnown, ClosedMeansAnswered
  <2>3. OneReplyPerCall /\ PendingIsLive
    BY DEF IInv, MessageInv, HandInv, OneReplyPerCall
  <2>. QED
    BY <2>1, <2>2, <2>3
<1>2. IInv /\ [Next]_vars => [OwnerStep]_vars
  BY NextOwnerStep
<1>3. Spec => /\ [](RegisteredIsOpen /\ ClosedMeansAnswered /\ OneReplyPerCall /\ PendingIsLive)
              /\ [][OwnerStep]_vars
  BY InductiveInvariant, <1>1, <1>2, PTL DEF Spec
<1>. QED
  BY <1>3, PTL DEF SessionSound, OnlyOwnerDetaches, OwnerStep
=============================================================================
