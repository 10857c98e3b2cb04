------------------------------- MODULE McpTools -------------------------------
(***************************************************************************)
(* internal/agent/tool: the list of the tools MCP servers offer.  It is    *)
(* loaded when the model of the first chat helper is built (NewUnifiedModel*)
(* asks Registry.Tools), one server after the other, with the registry's   *)
(* lock held; whoever comes later reads it.  A server may be up, down, or  *)
(* hang until the timeout of the load; and the request for which a helper  *)
(* is built may be cancelled while its builder loads the list for all.     *)
(* Reload has the list loaded once more.  Nothing in the repository calls  *)
(* it; here anybody may, once, instead of building a helper.               *)
(***************************************************************************)
EXTENDS Integers

CONSTANTS Builders,          \* the requests that build a chat helper, or call Reload
          Servers,           \* MCP servers are 1 .. Servers, as configured
          Offers, Allowed,   \* [server -> its tools], [server -> allowedTools, {} for all]
          LocalTools,        \* what is registered in the process: ask_user, the workspace
          Interval,          \* emptyRetryInterval
          MaxClock,          \* bound on the clock
          None

McpAssumption ==
  /\ Servers \in Nat \ {0} /\ {Interval, MaxClock} \subseteq Nat
  /\ None \notin Builders

VARIABLES clock,
          state, client,            \* [server -> up, down or hung], [server -> is a client kept?]
          tools, loaded, loadedAt,  \* the registry
          lock, next, found,        \* r.mu held to load: by whom, its next server, its list
          at, gone, began,          \* [builder -> where it stands, is its request cancelled?,
                                    \*   when it asked]
          given,                    \* [builder -> the tools it was given]
          loads, reloads, since     \* history: lists installed, calls of Reload, and
                                    \*   [builder -> 0, or the load its Reload asks for]

registry == <<tools, loaded, loadedAt>>
load == <<lock, next, found>>
history == <<loads, reloads, since>>
mcpVars == <<clock, state, client, registry, load, at, gone, began, given, history>>

\* A server of several gives its name to its tools.
Name(s, t) == IF Servers > 1 THEN <<s, t>> ELSE <<t>>
Kept(s) == {Name(s, t) : t \in {o \in Offers[s] : Allowed[s] = {} \/ o \in Allowed[s]}}
Remote == UNION {Kept(s) : s \in 1 .. Servers}
Local == {<<t>> : t \in LocalTools}

McpTypeOK ==
  /\ clock \in 0 .. MaxClock
  /\ state \in [1 .. Servers -> {"up", "down", "hung"}] /\ client \in [1 .. Servers -> BOOLEAN]
  /\ tools \subseteq Remote /\ found \subseteq Remote /\ loaded \in BOOLEAN /\ loadedAt \in 0 .. clock
  /\ lock \in Builders \cup {None} /\ next \in 1 .. Servers + 1
  /\ at \in [Builders -> {"idle", "reading", "reloading", "waiting", "connecting", "listing", "loaded", "built"}]
  /\ gone \in [Builders -> BOOLEAN] /\ began \in [Builders -> 0 .. clock]
  /\ given \in [Builders -> SUBSET (Remote \cup Local)]
  /\ loads \in Nat /\ reloads \in Nat /\ since \in [Builders -> Nat]

Init == /\ clock = 0
        /\ state \in [1 .. Servers -> {"up", "down"}] /\ client = [s \in 1 .. Servers |-> FALSE]
        /\ tools = {} /\ loaded = FALSE /\ loadedAt = 0
        /\ lock = None /\ next = 1 /\ found = {}
        /\ at = [b \in Builders |-> "idle"] /\ gone = [b \in Builders |-> FALSE]
        /\ began = [b \in Builders |-> 0] /\ given = [b \in Builders |-> {}]
        /\ loads = 0 /\ reloads = 0 /\ since = [b \in Builders |-> 0]

Goto(b, place) == at' = [at EXCEPT ![b] = place]

Tick == /\ clock < MaxClock /\ clock' = clock + 1
        /\ UNCHANGED <<state, client, registry, load, at, gone, began, given, history>>

Turns(s) == /\ \E x \in {"up", "down", "hung"} \ {state[s]} : state' = [state EXCEPT ![s] = x]
            /\ UNCHANGED <<clock, client, registry, load, at, gone, began, given, history>>

Cancel(b) == /\ at[b] \notin {"idle", "built"} /\ ~gone[b]
             /\ gone' = [gone EXCEPT ![b] = TRUE]
             /\ UNCHANGED <<clock, state, client, registry, load, at, began, given, history>>
-----------------------------------------------------------------------------
Ask(b) == /\ at[b] = "idle"
          /\ began' = [began EXCEPT ![b] = clock] /\ Goto(b, "reading")
          /\ UNCHANGED <<clock, state, client, registry, load, gone, given, history>>

AskReload(b) == /\ at[b] = "idle" /\ Goto(b, "reloading")
                /\ UNCHANGED <<clock, state, client, registry, load, gone, began, given, history>>

Stale == tools = {} /\ clock - loadedAt > Interval

\* The local tools come first; a source without tools adds none.
Give(b) == /\ given' = [given EXCEPT ![b] = Local \cup tools] /\ Goto(b, "built")

\* MCPRegistry.Tools under the read lock.
Read(b) == /\ at[b] = "reading" /\ lock = None
           /\ IF loaded /\ ~Stale THEN Give(b) ELSE Goto(b, "waiting") /\ UNCHANGED given
           /\ UNCHANGED <<clock, state, client, registry, load, gone, began, history>>

\* Only loaded is cleared: the list stays until the load brings another.
Reload(b) == /\ at[b] = "reloading" /\ lock = None
             /\ loaded' = FALSE
             /\ reloads' = reloads + 1 /\ since' = [since EXCEPT ![b] = loads + 1]
             /\ Goto(b, "waiting")
             /\ UNCHANGED <<clock, state, client, tools, loadedAt, load, gone, began, given, loads>>

\* Mutant: who has waited for the lock loads, whoever was faster.
BeginLoadAgain(b) ==
  /\ at[b] = "waiting" /\ lock = None
  /\ lock' = b /\ next' = 1 /\ found' = {} /\ Goto(b, "connecting")
  /\ UNCHANGED <<clock, state, client, registry, gone, began, given, history>>

\* load: somebody may have loaded since.
BeginLoad(b) ==
  /\ at[b] = "waiting" /\ lock = None
  /\ IF loaded
     THEN Goto(b, "loaded") /\ UNCHANGED load
     ELSE lock' = b /\ next' = 1 /\ found' = {} /\ Goto(b, "connecting")
  /\ UNCHANGED <<clock, state, client, registry, gone, began, given, history>>

Answers(b) == state[next] = "up" /\ ~gone[b]

\* ensureClient: a client that was made is kept.
Connect(b) ==
  /\ at[b] = "connecting" /\ next <= Servers
  /\ client[next] \/ Answers(b)
  /\ client' = [client EXCEPT ![next] = TRUE] /\ Goto(b, "listing")
  /\ UNCHANGED <<clock, state, registry, load, gone, began, given, history>>

List(b) ==
  /\ at[b] = "listing" /\ Answers(b)
  /\ found' = found \cup Kept(next) /\ next' = next + 1 /\ Goto(b, "connecting")
  /\ UNCHANGED <<clock, state, client, registry, lock, gone, began, given, history>>

\* Mutant: no timeout, a server that hangs is waited for.
GiveUpNever(b) ==
  /\ \/ at[b] = "connecting" /\ next <= Servers /\ ~client[next]
     \/ at[b] = "listing"
  /\ state[next] = "down" \/ gone[b]
  /\ next' = next + 1 /\ Goto(b, "connecting")
  /\ UNCHANGED <<clock, state, client, registry, lock, found, gone, began, given, history>>

\* The server is down, hangs until mcpServerTimeout, or answers with an
\* error, or the request is cancelled: the next server.
GiveUp(b) ==
  /\ \/ at[b] = "connecting" /\ next <= Servers /\ ~client[next]
     \/ at[b] = "listing"
  /\ next' = next + 1 /\ Goto(b, "connecting")
  /\ UNCHANGED <<clock, state, client, registry, lock, found, gone, began, given, history>>

Install(b) ==
  /\ at[b] = "connecting" /\ next > Servers
  /\ tools' = found /\ loaded' = TRUE /\ loadedAt' = clock
  /\ lock' = None /\ next' = 1 /\ found' = {} /\ Goto(b, "loaded")
  /\ loads' = loads + 1
  /\ UNCHANGED <<clock, state, client, gone, began, given, reloads, since>>

ReadLoaded(b) == /\ at[b] = "loaded" /\ since[b] = 0 /\ lock = None
                 /\ Give(b)
                 /\ UNCHANGED <<clock, state, client, registry, load, gone, began, history>>

\* Reload returns nothing.
Reloaded(b) == /\ at[b] = "loaded" /\ since[b] > 0
               /\ Goto(b, "built")
               /\ UNCHANGED <<clock, state, client, registry, load, gone, began, given, history>>
-----------------------------------------------------------------------------
Building(b) == \/ Read(b) \/ Reload(b) \/ BeginLoad(b) \/ Connect(b) \/ List(b) \/ GiveUp(b)
               \/ Install(b) \/ ReadLoaded(b) \/ Reloaded(b)

Next == \/ Tick \/ \E s \in 1 .. Servers : Turns(s)
        \/ \E b \in Builders : Cancel(b) \/ Ask(b) \/ AskReload(b) \/ Building(b)
-----------------------------------------------------------------------------
(***************************************************************************)
(* A list in use is replaced, by more or by less as the servers then are,  *)
(* only by a load that a Reload has asked for, one for every Reload at the *)
(* most: not by those who were waiting to load when the list came.  And    *)
(* when Reload returns, the list has been loaded since it was called, if   *)
(* not by itself.                                                          *)
(***************************************************************************)
ToolsKept ==
  /\ tools # {} /\ tools' # tools => loads' <= reloads + 1
  /\ \A b \in Builders : at[b] # "built" /\ at'[b] = "built" => since[b] <= loads

(***************************************************************************)
(* Every build ends, though one that loads holds the lock all the others   *)
(* wait for and asks servers that may hang: each of them is given up after *)
(* its timeout.  (mcp_registry.go: mcpServerTimeout)                       *)
(***************************************************************************)
NobodyBuilds == \A b \in Builders : at[b] \in {"idle", "built"}

BuildsReturn == []<>NobodyBuilds

(***************************************************************************)
(* mcp_registry.go:27: a list without any tool is tried again after        *)
(* emptyRetryInterval.  So whoever gets no tool of a server gets a list    *)
(* that was not older than that when it asked.                             *)
(***************************************************************************)
EmptyIsRecent ==
  \A b \in Builders : at[b] = "built" /\ since[b] = 0 /\ given[b] \subseteq Local => began[b] - loadedAt <= Interval
=============================================================================
