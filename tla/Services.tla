------------------------------- MODULE Services -------------------------------
(***************************************************************************)
(* The services beside a turn: rate limit, token quota, balancer, accounts,*)
(* the list of MCP tools, the trace of a turn, what its tools leave for    *)
(* the user, and the log writer.  They share no state with one another, so *)
(* a behaviour of all of them is one of each; here one is picked, and the  *)
(* others stay as they begin.                                              *)
(***************************************************************************)
EXTENDS Integers, FiniteSets, Sequences

\* The constants of the services, under their names there but for Root and
\* MaxNow, which are Turn and MaxClock in TurnTrace.
CONSTANTS None, MaxClock,
          Requests, Capacity, Refill, Cost, Expiry,        \* RateLimit
          Sessions, Limit, Usages, MaxDay, MaxTurns,       \* TokenQuota
          Sends, Registers, Cooldown, Validity,            \* Accounts
          Builders, Servers, Offers, Allowed, LocalTools,  \* McpTools
          Interval,
          Spans, ToolSpans, Root, MaxNow,                  \* TurnTrace
          Writers, Lines, QueueSize, BufSize,              \* LogWriter
          Size, Ids, Weights, MaxPicks,                    \* Balancer
          Calls, Labels, Args, Failures,                   \* TurnCollectors
          MaxOptions, MaxWarnings

VARIABLES part,
          rateClock, bucket, rateAt, stamp, granted, fresh, setBack,
          day, storeUp, used, local, localDay, quotaAt, turns, missed,
          userClock, cooldown, captcha, issued, mailed, mails, users, sending, code,
          joining, given, told, shared,
          mcpClock, state, client, tools, loaded, loadedAt, lock, server, found, mcpAt, gone, began, handed,
          loads, reloads, since,
          now, next, steps, span, turn, snapshot, counted, status, store, row, persisted,
          ch, buf, out, dropped, closed, runner, closer, writer, line, late, direct, failed,
          strategy, weight, current, inflight, best, coming, tied, picked, least,
          req, warns, call, taken, shown, service, first, raised

Rate == INSTANCE RateLimit WITH clock <- rateClock, at <- rateAt
Quota == INSTANCE TokenQuota WITH at <- quotaAt
Users == INSTANCE Accounts WITH clock <- userClock
Mcp == INSTANCE McpTools WITH clock <- mcpClock, next <- server, at <- mcpAt, given <- handed
Trace == INSTANCE TurnTrace WITH Turn <- Root, MaxClock <- MaxNow
Log == INSTANCE LogWriter
Balance == INSTANCE Balancer WITH next <- coming
Collect == INSTANCE TurnCollectors

ASSUME ServicesAssumption ==
  /\ Rate!RateAssumption /\ Quota!QuotaAssumption /\ Users!AccountsAssumption
  /\ Mcp!McpAssumption /\ Trace!TraceAssumption /\ Log!LogAssumption
  /\ Balance!BalancerAssumption /\ Collect!CollectorsAssumption

rate == <<rateClock, bucket, rateAt, stamp, granted, fresh, setBack>>
quota == <<day, storeUp, used, local, localDay, quotaAt, turns, missed>>
accounts == <<userClock, cooldown, captcha, issued, mailed, mails, users, sending, code,
              joining, given, told, shared>>
mcp == <<mcpClock, state, client, tools, loaded, loadedAt, lock, server, found, mcpAt, gone,
         began, handed, loads, reloads, since>>
trace == <<now, next, steps, span, turn, snapshot, counted, status, store, row, persisted>>
log == <<ch, buf, out, dropped, closed, runner, closer, writer, line, late, direct, failed>>
balance == <<strategy, weight, current, inflight, best, coming, tied, picked, least>>
collect == <<req, warns, call, taken, shown, service, first, raised>>
vars == <<part, rate, quota, accounts, mcp, trace, log, balance, collect>>

Init == /\ part \in {"rate", "quota", "accounts", "mcp", "trace", "log", "balance", "collect"}
        /\ Rate!Init /\ Quota!Init /\ Users!Init /\ Mcp!Init /\ Trace!Init /\ Log!Init /\ Balance!Init /\ Collect!Init

RateOnly == part = "rate" /\ UNCHANGED <<part, quota, accounts, mcp, trace, log, balance, collect>>
QuotaOnly == part = "quota" /\ UNCHANGED <<part, rate, accounts, mcp, trace, log, balance, collect>>
AccountsOnly == part = "accounts" /\ UNCHANGED <<part, rate, quota, mcp, trace, log, balance, collect>>
McpOnly == part = "mcp" /\ UNCHANGED <<part, rate, quota, accounts, trace, log, balance, collect>>
TraceOnly == part = "trace" /\ UNCHANGED <<part, rate, quota, accounts, mcp, log, balance, collect>>
LogOnly == part = "log" /\ UNCHANGED <<part, rate, quota, accounts, mcp, trace, balance, collect>>
BalanceOnly == part = "balance" /\ UNCHANGED <<part, rate, quota, accounts, mcp, trace, log, collect>>
CollectOnly == part = "collect" /\ UNCHANGED <<part, rate, quota, accounts, mcp, trace, log, balance>>

RateStep == RateOnly /\ Rate!Next
QuotaStep == QuotaOnly /\ Quota!Next
AccountsStep == AccountsOnly /\ Users!Next
McpStep == McpOnly /\ Mcp!Next
TraceStep == TraceOnly /\ Trace!Next
LogStep == LogOnly /\ Log!Next
BalanceStep == BalanceOnly /\ Balance!Next
CollectStep == CollectOnly /\ Collect!Next

Next == RateStep \/ QuotaStep \/ AccountsStep \/ McpStep \/ TraceStep \/ LogStep
        \/ BalanceStep \/ CollectStep

\* A goroutine that can go on goes on.  Nobody promises that a database or
\* the output of the log ever answers, that a request or a crash comes.
Fairness == /\ \A b \in Builders : WF_mcp(McpOnly /\ Mcp!Building(b))
            /\ WF_trace(TraceOnly /\ Trace!Finishing)
            /\ \A w \in Writers : WF_log(LogOnly /\ Log!Write(w))

Spec == Init /\ [][Next]_vars /\ Fairness
-----------------------------------------------------------------------------
\* The variables of every service keep their types.
TypeOK == /\ part = "rate" => Rate!RateTypeOK
          /\ part = "quota" => Quota!QuotaTypeOK
          /\ part = "accounts" => Users!AccountsTypeOK
          /\ part = "mcp" => Mcp!McpTypeOK
          /\ part = "trace" => Trace!TraceTypeOK
          /\ part = "log" => Log!LogTypeOK
          /\ part = "balance" => Balance!BalancerTypeOK
          /\ part = "collect" => Collect!CollectorsTypeOK

\* What a bucket lets in, what is counted of a user's day and what an
\* instance gets (ratelimit.go, cost.go, balancer.go), see RateLimit,
\* TokenQuota and Balancer.
LimitsHold == /\ part = "rate" => Rate!RateHolds
              /\ part = "quota" => Quota!QuotaHolds
              /\ part = "balance" => Balance!BalanceHolds

\* One account per code, one mail per cooldown (service/user), see Accounts.
AccountsSound == part = "accounts" => Users!AccountsSound

\* The steps of a turn in its snapshot, the metrics and the database (trace,
\* metrics, dao/trace), and the lines of the log, none lost without a count
\* (async.go), see TurnTrace and LogWriter.
RecordsFaithful == /\ part = "trace" => Trace!TraceFaithful
                   /\ part = "log" => Log!LinesAccounted

\* The question and the warnings of a turn (askuser, warn.go), see TurnCollectors.
TurnTold == part = "collect" => Collect!TurnTold

\* A list of MCP tools in use is replaced only when a Reload asks for it
\* (mcp_registry.go), see McpTools.
ToolsKept == [][part = "mcp" => Mcp!ToolsKept]_mcp

\* Nobody is held up by the services for ever: a build behind servers that
\* hang, a turn behind the store of its trace, a line behind the output.
NobodyHeldUp == []<>(/\ part = "mcp" => Mcp!NobodyBuilds
                     /\ part = "trace" => Trace!NotFinishing
                     /\ part = "log" => Log!NobodyEnqueues)
-----------------------------------------------------------------------------
(* What the comments promise and the code does not do *)

\* The count in the process holds a user to the quota while Redis is
\* unavailable (cost.go:39), see TokenQuota.
LocalQuotaHolds == part = "quota" => Quota!QuotaHoldsLocally

\* A list of MCP tools without any is tried again after an interval
\* (mcp_registry.go:27), see McpTools.
EmptyListRetried == part = "mcp" => Mcp!EmptyIsRecent
=============================================================================
