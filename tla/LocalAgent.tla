----------------------------- MODULE LocalAgent -----------------------------
(***************************************************************************)
(* internal/agent/local/registry.go, its controller and cmd/localagent:    *)
(* the server sends tool calls over a WebSocket to an agent on the user's  *)
(* computer and waits for the answers.                                     *)
(*                                                                         *)
(* The model follows one user.  A session is one connection; its server    *)
(* goroutine registers it, pushes out the previous one, reads frames until *)
(* the connection breaks and then takes it off the registry.  Calls are    *)
(* goroutines of their own: they look the session up, register themselves  *)
(* as pending, write, and wait for a reply, the end of the session or      *)
(* their timeout.  The agent handles one frame at a time.                  *)
(***************************************************************************)
EXTENDS Integers, Sequences, FiniteSets

CONSTANTS Agents,       \* agent processes the user has started, each with its loop
          Sessions,     \* connections they make
          Invokes,      \* tool calls (Session.Invoke)
          Switches,     \* workspace switches (Session.SetWorkspace)
          Workspaces,   \* directories the user may choose
          None

Calls == Invokes \cup Switches

ASSUME LocalAgentAssumption == /\ Invokes \cap Switches = {}
                               /\ None \notin Sessions \cup Workspaces \cup Agents
                               /\ None \notin Calls \cup {"empty"}
                               /\ Workspaces # {}

VARIABLES registry,     \* Registry.sessions[user]
          stage,        \* where the goroutine of each session stands in Attach
          old,          \* the session it has pushed out
          closed,       \* Session.closed
          pending,      \* Session.pending, by call
          workspace,    \* Session.workspace
          delivering,   \* the frame readLoop has matched and not yet sent on
          link,         \* is the connection up?
          toAgent, toServer,   \* frames on their way
          at,           \* where each call stands
          target,       \* the session it uses
          reply,        \* its reply channel, of capacity 1
          peer,         \* [session -> the agent at its other end]
          conn,         \* [agent -> the session it serves]
          root,         \* [agent -> its workspace]
          answer        \* [agent -> the frame it is about to write]

sessionVars == <<registry, stage, old, closed, pending, workspace, delivering>>
wireVars == <<link, toAgent, toServer>>
callVars == <<at, target, reply>>
agentVars == <<peer, conn, root, answer>>
vars == <<sessionVars, wireVars, callVars, agentVars>>

\* A frame from the agent: which call it answers and, for a switch that
\* succeeded, the workspace now in force.
Frame == [id : Calls, ws : Workspaces \cup {None}]
NoFrame == [id |-> None, ws |-> None]
Gone == [id |-> None, ws |-> None]
Empty == [id |-> None, ws |-> "empty"]

TypeOK ==
  /\ registry \in Sessions \cup {None}
  /\ stage \in [Sessions -> {"unused", "dialled", "replacing", "reading", "cleanup", "ended"}]
  /\ old \in [Sessions -> Sessions \cup {None}]
  /\ closed \in [Sessions -> BOOLEAN]
  /\ pending \in [Sessions -> SUBSET Calls]
  /\ workspace \in [Sessions -> Workspaces \cup {None}]
  /\ delivering \in [Sessions -> Frame \cup {NoFrame}]
  /\ link \in [Sessions -> BOOLEAN]
  /\ toAgent \in [Sessions -> Seq(Calls)]
  /\ toServer \in [Sessions -> Seq(Frame)]
  /\ at \in [Calls -> {"start", "found", "registered", "waiting", "leaving", "failing",
                     "applying", "done"}]
  /\ target \in [Calls -> Sessions \cup {None}]
  /\ reply \in [Calls -> Frame \cup {Gone, Empty}]
  /\ peer \in [Sessions -> Agents \cup {None}]
  /\ conn \in [Agents -> Sessions \cup {None}]
  /\ root \in [Agents -> Workspaces]
  /\ answer \in [Agents -> Frame \cup {NoFrame}]

Init == /\ registry = None
        /\ stage = [s \in Sessions |-> "unused"]
        /\ old = [s \in Sessions |-> None]
        /\ closed = [s \in Sessions |-> FALSE]
        /\ pending = [s \in Sessions |-> {}]
        /\ workspace = [s \in Sessions |-> None]
        /\ delivering = [s \in Sessions |-> NoFrame]
        /\ link = [s \in Sessions |-> FALSE]
        /\ toAgent = [s \in Sessions |-> <<>>]
        /\ toServer = [s \in Sessions |-> <<>>]
        /\ at = [c \in Calls |-> "start"]
        /\ target = [c \in Calls |-> None]
        /\ reply = [c \in Calls |-> Empty]
        /\ peer = [s \in Sessions |-> None]
        /\ conn = [a \in Agents |-> None]
        /\ \E w \in Workspaces : root = [a \in Agents |-> w]
        /\ answer = [a \in Agents |-> NoFrame]
-----------------------------------------------------------------------------
(* The session's goroutine: controller Handle, then Registry.Attach *)

\* The hello frame has arrived: newSession and the swap in the registry.
Attach(s) == /\ stage[s] = "dialled"
             /\ registry' = s
             /\ old' = [old EXCEPT ![s] = registry]
             /\ workspace' = [workspace EXCEPT ![s] = root[peer[s]]]
             /\ stage' = [stage EXCEPT ![s] = IF registry = None THEN "reading" ELSE "replacing"]
             /\ UNCHANGED <<closed, pending, delivering, wireVars, callVars, agentVars>>

\* Mutant: the waiting calls are left to their timeouts.
CloseSilently(s) == /\ closed' = [closed EXCEPT ![s] = TRUE]
                    /\ pending' = [pending EXCEPT ![s] = {}]
                    /\ UNCHANGED reply

\* Session.Close, under its lock; the second call changes nothing.
Close(s) == /\ closed' = [closed EXCEPT ![s] = TRUE]
            /\ reply' = [c \in Calls |-> IF ~closed[s] /\ c \in pending[s] /\ reply[c] = Empty
                                         THEN Gone ELSE reply[c]]
            /\ pending' = [pending EXCEPT ![s] = IF closed[s] THEN @ ELSE {}]

PushOut(s) == /\ stage[s] = "replacing"
              /\ Close(old[s])
              /\ stage' = [stage EXCEPT ![s] = "reading"]
              /\ UNCHANGED <<registry, old, workspace, delivering, wireVars, at, target, agentVars>>

\* readLoop takes a frame; deliver matches it, or drops it when nobody waits.
Deliver(s) ==
  /\ stage[s] = "reading" /\ delivering[s] = NoFrame /\ link[s] /\ toServer[s] # <<>>
  /\ LET f == Head(toServer[s]) IN
       /\ delivering' = [delivering EXCEPT ![s] = IF f.id \in pending[s] THEN f ELSE NoFrame]
       /\ pending' = [pending EXCEPT ![s] = @ \ {f.id}]
  /\ toServer' = [toServer EXCEPT ![s] = Tail(@)]
  /\ UNCHANGED <<registry, stage, old, closed, workspace, link, toAgent, callVars, agentVars>>

\* Outside the lock: ch <- reply.  It would block on a full channel.
SendReply(s) ==
  LET f == delivering[s] IN
  /\ f # NoFrame
  /\ reply[f.id] = Empty
  /\ reply' = [reply EXCEPT ![f.id] = f]
  /\ delivering' = [delivering EXCEPT ![s] = NoFrame]
  /\ UNCHANGED <<registry, stage, old, closed, pending, workspace, wireVars, at, target, agentVars>>

\* readLoop has seen the connection break: Attach's deferred function.
Detach(s) ==
  /\ stage[s] = "reading" /\ delivering[s] = NoFrame /\ ~link[s]
  /\ registry' = IF registry = s THEN None ELSE registry
  /\ stage' = [stage EXCEPT ![s] = "cleanup"]
  /\ UNCHANGED <<old, closed, pending, workspace, delivering, wireVars, callVars, agentVars>>

CloseSelf(s) == /\ stage[s] = "cleanup"
                /\ Close(s)
                /\ stage' = [stage EXCEPT ![s] = "ended"]
                /\ UNCHANGED <<registry, old, workspace, delivering, wireVars, at, target, agentVars>>

\* The connection goes down: closed by this end after Session.Close, or lost
\* and noticed by the read timeout.  What was on its way is lost with it.
LinkBreaks(s) == /\ link[s]
                 /\ link' = [link EXCEPT ![s] = FALSE]
                 /\ toAgent' = [toAgent EXCEPT ![s] = <<>>]
                 /\ toServer' = [toServer EXCEPT ![s] = <<>>]
                 /\ UNCHANGED <<sessionVars, callVars, agentVars>>

ConnClosed(s) == closed[s] /\ LinkBreaks(s)
-----------------------------------------------------------------------------
(* A call: Registry.Current, roundTrip, and SetWorkspace's last step *)

Find(c) == /\ at[c] = "start"
           /\ target' = [target EXCEPT ![c] = registry]
           /\ at' = [at EXCEPT ![c] = IF registry = None THEN "done" ELSE "found"]
           /\ UNCHANGED <<sessionVars, wireVars, reply, agentVars>>

\* Mutant: roundTrip does not look at closed.
RegisterAnyway(c) == LET s == target[c] IN
  /\ at[c] = "found"
  /\ pending' = [pending EXCEPT ![s] = @ \cup {c}]
  /\ at' = [at EXCEPT ![c] = "registered"]
  /\ UNCHANGED <<registry, stage, old, closed, workspace, delivering, wireVars, target, reply, agentVars>>

RegisterCall(c) == LET s == target[c] IN
  /\ at[c] = "found"
  /\ \/ /\ closed[s]
        /\ at' = [at EXCEPT ![c] = "done"]
        /\ UNCHANGED pending
     \/ /\ ~closed[s]
        /\ pending' = [pending EXCEPT ![s] = @ \cup {c}]
        /\ at' = [at EXCEPT ![c] = "registered"]
  /\ UNCHANGED <<registry, stage, old, closed, workspace, delivering, wireVars, target, reply, agentVars>>

WriteFrame(c) == LET s == target[c] IN
  /\ at[c] = "registered"
  /\ \/ /\ link[s]
        /\ toAgent' = [toAgent EXCEPT ![s] = Append(@, c)]
        /\ at' = [at EXCEPT ![c] = "waiting"]
     \/ /\ ~link[s]
        /\ at' = [at EXCEPT ![c] = "failing"]
        /\ UNCHANGED toAgent
  /\ UNCHANGED <<sessionVars, link, toServer, target, reply, agentVars>>

\* The call returns a workspace frame that reports success.
Switched(c) == at[c] = "leaving" /\ reply[c] \notin {Empty, Gone} /\ reply[c].ws # None

\* select: the reply, or the word that the agent is gone.
TakeReply(c) == /\ at[c] = "waiting"
                /\ reply[c] # Empty
                /\ at' = [at EXCEPT ![c] = "leaving"]
                /\ UNCHANGED <<sessionVars, wireVars, target, reply, agentVars>>

\* select: the timeout or the end of the request, reply or not.
TimesOut(c) == /\ at[c] = "waiting"
               /\ at' = [at EXCEPT ![c] = "failing"]
               /\ UNCHANGED <<sessionVars, wireVars, target, reply, agentVars>>

\* Mutant: SetWorkspace does not look at the error.
LeaveAlwaysApplies(c) ==
  /\ at[c] \in {"leaving", "failing"}
  /\ pending' = [pending EXCEPT ![target[c]] = @ \ {c}]
  /\ at' = [at EXCEPT ![c] = IF c \in Switches THEN "applying" ELSE "done"]
  /\ UNCHANGED <<registry, stage, old, closed, workspace, delivering, wireVars, target, reply, agentVars>>

\* roundTrip's deferred delete.
Leave(c) == /\ at[c] \in {"leaving", "failing"}
            /\ pending' = [pending EXCEPT ![target[c]] = @ \ {c}]
            /\ at' = [at EXCEPT ![c] = IF Switched(c) THEN "applying" ELSE "done"]
            /\ UNCHANGED <<registry, stage, old, closed, workspace, delivering, wireVars, target, reply, agentVars>>

\* SetWorkspace notes the workspace of the frame it got.
Apply(c) == /\ at[c] = "applying"
            /\ workspace' = [workspace EXCEPT ![target[c]] = reply[c].ws]
            /\ at' = [at EXCEPT ![c] = "done"]
            /\ UNCHANGED <<registry, stage, old, closed, pending, delivering, wireVars, target, reply, agentVars>>
-----------------------------------------------------------------------------
(* The agent: agent.session and handleSetWorkspace *)

\* Dial, and write the hello frame with the current root.
Dial(a, s) == /\ conn[a] = None
              /\ stage[s] = "unused"
              /\ conn' = [conn EXCEPT ![a] = s]
              /\ peer' = [peer EXCEPT ![s] = a]
              /\ link' = [link EXCEPT ![s] = TRUE]
              /\ stage' = [stage EXCEPT ![s] = "dialled"]
              /\ UNCHANGED <<registry, old, closed, pending, workspace, delivering, toAgent,
                             toServer, callVars, root, answer>>

\* One frame: run the tool, or let the user choose a directory (or refuse).
Handle(a) == LET s == conn[a] IN
  /\ s # None
  /\ answer[a] = NoFrame
  /\ link[s] /\ toAgent[s] # <<>>
  /\ LET c == Head(toAgent[s]) IN
       \/ /\ answer' = [answer EXCEPT ![a] = [id |-> c, ws |-> None]]
          /\ UNCHANGED root
       \/ /\ c \in Switches
          /\ \E w \in Workspaces : /\ root' = [root EXCEPT ![a] = w]
                                   /\ answer' = [answer EXCEPT ![a] = [id |-> c, ws |-> w]]
  /\ toAgent' = [toAgent EXCEPT ![s] = Tail(@)]
  /\ UNCHANGED <<sessionVars, link, toServer, callVars, peer, conn>>

Answer(a) == LET s == conn[a] IN
  /\ s # None
  /\ answer[a] # NoFrame
  /\ toServer' = [toServer EXCEPT ![s] = IF link[s] THEN Append(@, answer[a]) ELSE @]
  /\ answer' = [answer EXCEPT ![a] = NoFrame]
  /\ UNCHANGED <<sessionVars, link, toAgent, callVars, peer, conn, root>>

\* Read or Write fails at this end, perhaps long before the server notices:
\* session returns, and run dials again.
HangUp(a) == /\ conn[a] # None
             /\ answer[a] = NoFrame
             /\ conn' = [conn EXCEPT ![a] = None]
             /\ UNCHANGED <<sessionVars, wireVars, callVars, peer, root, answer>>
-----------------------------------------------------------------------------
SessionStep(s) == \/ Attach(s) \/ PushOut(s) \/ Deliver(s) \/ SendReply(s)
                  \/ Detach(s) \/ CloseSelf(s)
CallStep(c) == RegisterCall(c) \/ WriteFrame(c) \/ TakeReply(c) \/ Leave(c) \/ Apply(c)

Done == /\ \A c \in Calls : at[c] = "done"
        /\ UNCHANGED vars

Next == \/ \E s \in Sessions : SessionStep(s) \/ LinkBreaks(s)
        \/ \E c \in Calls : Find(c) \/ CallStep(c) \/ TimesOut(c)
        \/ \E a \in Agents : (\E s \in Sessions : Dial(a, s)) \/ Handle(a) \/ Answer(a) \/ HangUp(a)
        \/ Done

Spec == Init /\ [][Next]_vars

(***************************************************************************)
(* Goroutines run, and a connection this end has closed is down soon; no   *)
(* timeout and no agent has to be quick.                                   *)
(***************************************************************************)
Fairness == /\ \A s \in Sessions : WF_vars(SessionStep(s)) /\ WF_vars(ConnClosed(s))
            /\ \A c \in Calls : WF_vars(CallStep(c))

FairSpec == Spec /\ Fairness
-----------------------------------------------------------------------------
(* Properties *)

(***************************************************************************)
(* A session that can be looked up has not been closed: the cleanup takes  *)
(* it off the registry before it closes it, and a push-out closes only     *)
(* what has been replaced (registry.go, Attach).                           *)
(***************************************************************************)
RegisteredIsOpen == registry # None => ~closed[registry]

(***************************************************************************)
(* The newest connection stays registered until its own goroutine gives it *)
(* up: the late cleanup of a replaced one does not take it off.            *)
(***************************************************************************)
OnlyOwnerDetaches ==
  [][\A s \in Sessions : registry = s /\ registry' # s =>
        \/ registry' # None /\ stage[registry'] = "dialled"
        \/ stage[s] = "reading" /\ stage'[s] = "cleanup"]_vars

(***************************************************************************)
(* A call that waits on a closed session has its answer under way, so it   *)
(* is never left to its timeout (registry.go, Close).                      *)
(***************************************************************************)
ClosedMeansAnswered ==
  \A c \in Calls : at[c] \in {"registered", "waiting"} /\ closed[target[c]] =>
                     reply[c] # Empty \/ delivering[target[c]].id = c

(***************************************************************************)
(* A call gets at most one reply, so neither readLoop nor Close can block  *)
(* on its channel (registry.go, deliver and Close).                        *)
(***************************************************************************)
OneReplyPerCall ==
  \A s \in Sessions : delivering[s] # NoFrame => reply[delivering[s].id] = Empty

(***************************************************************************)
(* pending holds only calls that are still inside roundTrip on that        *)
(* session: whatever way a call ends, its entry goes.                      *)
(***************************************************************************)
PendingIsLive ==
  \A s \in Sessions : \A c \in pending[s] :
     target[c] = s /\ at[c] \in {"registered", "waiting", "leaving", "failing"}

(***************************************************************************)
(* The registry and its sessions: who is registered is open until its own  *)
(* goroutine gives it up, and every call waiting on a session is pending   *)
(* there, gets one reply, and gets it when the session closes.             *)
(***************************************************************************)
SessionSound ==
  /\ [](RegisteredIsOpen /\ ClosedMeansAnswered /\ OneReplyPerCall /\ PendingIsLive)
  /\ OnlyOwnerDetaches

(***************************************************************************)
(* When the connection breaks, the calls waiting on it return without any  *)
(* timeout having to run out (registry.go, Attach's deferred Close).       *)
(***************************************************************************)
BrokenLinkWakes ==
  \A c \in Calls : (at[c] = "waiting" /\ ~link[target[c]]) ~> at[c] = "done"
=============================================================================
