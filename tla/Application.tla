----------------------------- MODULE Application -----------------------------
(***************************************************************************)
(* Application (core/app.py): the order in which initialize() and start()  *)
(* bring the parts up and stop() takes them down, while hooks fail or      *)
(* hang, handlers of the bus are slow, tool calls are under way, and a     *)
(* second interrupt cancels every task and runs stop() once more.          *)
(***************************************************************************)
EXTENDS Plugins

CONSTANTS Main, First, Second   \* initialize() and start(); the two stop()s

ASSUME TasksAssumption ==
  Tasks = {Main, First, Second} /\ Main # First /\ Main # Second /\ First # Second

VARIABLE app   \* what is up

vars == <<pluginVars, closed, job, mcpVars, app>>

Stops == {First, Second}

Ended == {"returned", "raised", "dead"}

Idle == [at |-> "none", i |-> 1, step |-> "next", hook |-> "none", full |-> FALSE]

TypeOK ==
  /\ McpTypeOK
  /\ state \in [Plugin -> {"FOUND", "LOADED", "ENABLED", "DISABLED", "ERROR", "UNLOADED"}]
  /\ instance \subseteq Plugin /\ polling \subseteq Channels /\ stray \subseteq Channels
  /\ serving \subseteq Plugin \X Kinds
  /\ closed \in BOOLEAN
  /\ app \in [started : BOOLEAN,
              router : {"down", "up", "stopping"}, scheduler : {"down", "up", "stopping"},
              db : {"none", "open", "closed"}, providers : {"none", "open", "closed"}]

Init ==
  /\ McpInit
  /\ state = [p \in Plugin |-> "FOUND"]
  /\ instance = {} /\ serving = {} /\ polling = {} /\ stray = {}
  /\ closed = FALSE
  /\ job = [t \in Tasks |-> IF t = Main THEN [Idle EXCEPT !.at = "load_early"] ELSE Idle]
  /\ app = [started |-> FALSE, router |-> "down", scheduler |-> "down",
            db |-> "none", providers |-> "none"]

To(t, at) == job' = [job EXCEPT ![t].at = at, ![t].i = 1, ![t].step = "next"]

(* A loop has visited every plugin: what comes next.                       *)
AfterSweep(t) ==
  CASE job[t].at = "load_early"   -> "enable_early"
    [] job[t].at = "enable_early" -> "subsystems"
    [] job[t].at = "load_late"    -> "enable_late"
    [] job[t].at = "enable_late"  -> "router"
    [] job[t].at = "disable"      -> "unload"
    [] job[t].at = "unload"       -> IF job[t].full THEN "AppStopped" ELSE "providers"

SweepEnds(t) ==
  /\ Sweeping(t) /\ job[t].step = "next" /\ Due(t) = {}
  /\ To(t, AfterSweep(t))
  /\ app' = [app EXCEPT !.started = @ /\ AfterSweep(t) # "AppStopped"]
  /\ UNCHANGED <<pluginVars, closed, mcpVars>>

Rest == UNCHANGED <<pluginVars, closed, mcpVars>>

(* A step of t that is not about the plugins.                              *)
Passes(t, from, to) == job[t].at = from /\ To(t, to) /\ Rest

----------------------------------------------------------------------------
(* initialize() and start() *)

(* The database, then the providers; either may fail.                      *)
InitSubsystems ==
  \/ /\ Passes(Main, "subsystems", "load_late")
     /\ app' = [app EXCEPT !.db = "open", !.providers = "open"]
  \/ /\ Passes(Main, "subsystems", "failed")
     /\ \/ UNCHANGED app
        \/ \E p \in {"none", "open"} : app' = [app EXCEPT !.db = "open", !.providers = p]

StartRouter ==
  /\ Passes(Main, "router", "scheduler")
  /\ app' = [app EXCEPT !.router = "up"]

StartScheduler ==
  \/ /\ Passes(Main, "scheduler", "AppStarted")
     /\ app' = [app EXCEPT !.scheduler = "up"]
  \/ /\ Passes(Main, "scheduler", "failed")
     /\ UNCHANGED app

Subscribed == \E p \in Plugin : <<p, "subscription">> \in serving

(* A plugin whose handler fails or is slow makes start() fail.             *)
TellStarted ==
  \/ /\ Passes(Main, "AppStarted", "up")
     /\ app' = [app EXCEPT !.started = TRUE]
  \/ /\ Subscribed /\ Passes(Main, "AppStarted", "failed")
     /\ UNCHANGED app

----------------------------------------------------------------------------
(* stop(), for the first time by run() or by who called start() *)

StopAs(s, full) == [Idle EXCEPT !.at = IF full THEN "AppStopping" ELSE "disable", !.full = full]

Stop ==
  /\ job[First].at = "none" /\ job[Main].at \in {"up", "failed"}
  /\ job' = [job EXCEPT ![First] = StopAs(First, app.started)]
  /\ Rest /\ UNCHANGED app

TellStopping(s) ==
  /\ Passes(s, "AppStopping", IF closed THEN "raised" ELSE "scheduler")
  /\ UNCHANGED app

(* SchedulerService.stop() waits for the fires, and cancels them after a   *)
(* while; it returns at once when it was called before.                    *)
StopScheduler(s) ==
  \/ /\ app.scheduler = "up" /\ Passes(s, "scheduler", "fires")
     /\ app' = [app EXCEPT !.scheduler = "stopping"]
  \/ /\ app.scheduler # "up" /\ Passes(s, "scheduler", "router")
     /\ UNCHANGED app
  \/ /\ Passes(s, "fires", "router")
     /\ app' = [app EXCEPT !.scheduler = "down"]

(* MessageRouter.stop() waits for the runs, without a limit.               *)
StopRouter(s) ==
  \/ /\ Passes(s, "router", "runs")
     /\ app' = [app EXCEPT !.router = IF @ = "down" THEN @ ELSE "stopping"]
  \/ /\ \A c \in Calls \ Subagents : doing[c].pc \notin Active
     /\ Passes(s, "runs", "disable")
     /\ app' = [app EXCEPT !.router = "down"]

(* publish, and then shutdown() of the bus; nobody uses publish_nowait.    *)
TellStopped(s) ==
  /\ job[s].at = "AppStopped"
  /\ To(s, IF closed THEN "raised" ELSE "providers")
  /\ closed' = TRUE
  /\ UNCHANGED <<pluginVars, mcpVars, app>>

(* The close() of a provider may raise: the rest is not closed.            *)
CloseProviders(s) ==
  \/ /\ Passes(s, "providers", "db")
     /\ app' = [app EXCEPT !.providers = IF @ = "open" THEN "closed" ELSE @]
  \/ /\ app.providers = "open" /\ Passes(s, "providers", "raised")
     /\ UNCHANGED app

CloseDatabase(s) ==
  \/ /\ Passes(s, "db", "returned")
     /\ app' = [app EXCEPT !.db = IF @ = "open" THEN "closed" ELSE @]
  \/ /\ app.db = "open" /\ Passes(s, "db", "raised")
     /\ UNCHANGED app

(* A second interrupt cancels every task.  The first stop() ends where it  *)
(* is, except in the on_disable of a channel, which takes the cancellation *)
(* for that of its poll task; run() calls stop() again.                    *)
Interrupt ==
  /\ job[First].at \notin Ended \cup {"none"} /\ job[Second].at = "none"
  /\ \/ job' = [job EXCEPT ![First] = [Idle EXCEPT !.at = "dead"], ![Second] = StopAs(Second, app.started)]
     \/ /\ Sweeping(First) /\ Runs(First, "on_disable") /\ Current(First) \in Channels
        /\ job' = [job EXCEPT ![Second] = StopAs(Second, app.started)]
  /\ doing' = [a \in Users |-> IF a \in Tasks THEN NotYet
                               ELSE IF doing[a].pc \in Active THEN [NotYet EXCEPT !.pc = "over"]
                               ELSE doing[a]]
  /\ polling' = {}
  /\ app' = [app EXCEPT !.scheduler = IF @ = "stopping" THEN "down" ELSE @]
  /\ Loses(UNION {Handling(a) : a \in Users})
  /\ UNCHANGED <<state, instance, serving, stray, closed, link, parted>>

----------------------------------------------------------------------------
(* Tool calls: of runs while the router is up, of subagents until they are *)
(* cancelled.  The agent loop cuts off a call that takes too long.         *)

CallBegins(c) ==
  /\ <<Mcp, "entry">> \in serving /\ job[Second].at = "none"
  /\ \/ app.router = "up"
     \/ c \in Subagents /\ job[Main].at = "up"
  /\ CallTool(c)
  /\ UNCHANGED <<pluginVars, closed, job, app>>

Call(c) == CallStep(c) /\ UNCHANGED <<pluginVars, closed, job, app>>
CallIsCut(c) == Cut(c) /\ UNCHANGED <<pluginVars, closed, job, app>>

----------------------------------------------------------------------------
Starting ==
  InitSubsystems \/ StartRouter \/ StartScheduler \/ TellStarted

Stopping(s) ==
  \/ TellStopping(s) \/ StopScheduler(s) \/ StopRouter(s)
  \/ TellStopped(s) \/ CloseProviders(s) \/ CloseDatabase(s)

Next ==
  \/ Starting \/ Stop \/ Interrupt
  \/ \E s \in Stops : Stopping(s)
  \/ \E t \in Tasks : SweepEnds(t)
  \/ \E t \in Tasks : (Manage(t) /\ UNCHANGED app)
  \/ \E c \in Calls : CallBegins(c) \/ Call(c) \/ CallIsCut(c)

(* A stop() goes on: the steps of the event loop are taken and timeouts    *)
(* expire; the runs end (AgentLoop) and the close() of the providers too.  *)
(* A hook, a handler of the bus or the server need never answer.           *)
GoesOn(s) ==
  \/ SweepEnds(s)
  \/ Stopping(s)
  \/ /\ \/ Disable(s) \/ Unload(s) \/ Told(s)
        \/ McpDisconnects(s) /\ UNCHANGED <<pluginVars, closed, job>>
        \/ ~ MayHang(s) /\ HookReturns(s)
        \/ HookTimesOut(s)
     /\ UNCHANGED app

Fairness ==
  /\ \A s \in Stops : WF_vars(GoesOn(s))
  /\ \A c \in Calls : WF_vars(CallIsCut(c))

Spec == Init /\ [][Next]_vars /\ Fairness

----------------------------------------------------------------------------
(* What is registered belongs to a plugin that is enabled, or that is      *)
(* being enabled: whatever hook fails, hangs or is cancelled after it has  *)
(* registered some of its tools, handlers and services, nobody can reach   *)
(* them through the registries, the bus or the channels any more.          *)
OnlyEnabledServe ==
  \A r \in serving :
    \/ state[r[1]] = "ENABLED"
    \/ \E t \in Tasks : /\ Sweeping(t) /\ Sweeps[job[t].at].op = "enable"
                        /\ job[t].step # "next" /\ Current(t) = r[1]

(* When a stop() has returned, also the second of two that ran at once,    *)
(* the database and the providers are closed, no plugin has an instance,   *)
(* no poll task runs except one whose hook broke, no transport of the MCP  *)
(* server is left to be closed (what is open is lost, in one of the five   *)
(* ways that McpServer lists), and if the application had been started,    *)
(* the scheduler and the router are down.                                  *)
StoppedIsQuiet ==
  \A s \in Stops : job[s].at = "returned" =>
    /\ app.db # "open" /\ app.providers # "open"
    /\ instance = {}
    /\ polling \subseteq stray
    /\ kept = {}
    /\ job[s].full => app.scheduler = "down" /\ app.router = "down"

(* Every stop() ends, although a hook, a handler or the MCP server may     *)
(* never answer: it returns, raises, or is cancelled.                      *)
StopEnds == []<>(\A s \in Stops : job[s].at \in Ended \cup {"none"})
=============================================================================
