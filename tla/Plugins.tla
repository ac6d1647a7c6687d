------------------------------- MODULE Plugins -------------------------------
(***************************************************************************)
(* PluginManager (plugins/manager.py) with the registries of tools,        *)
(* commands and handlers, the services and the event bus: what becomes of  *)
(* a plugin whose hooks register things, fail, hang, or are cancelled.     *)
(*                                                                         *)
(* A lifecycle task sweeps over the plugins, one operation after another;  *)
(* two tasks may do so at once.  Each operation awaits a hook of the       *)
(* plugin and the handlers of the event it publishes.                      *)
(***************************************************************************)
EXTENDS McpServer, Sequences

CONSTANTS
  Order,      \* the plugins, in the order they were discovered
  Early,      \* those with load_phase pre-agent
  Channels,   \* those that are a channel: their on_enable starts a poll task
  Mcp,        \* the MCP plugin
  Offers      \* the kinds of things each plugin registers

Plugin == {Order[i] : i \in DOMAIN Order}

(* "entry": a tool, command or recorded handler; "service": a channel or   *)
(* provider type.                                                          *)
Kinds == {"entry", "subscription", "service"}

ASSUME PluginAssumption ==
  /\ Order \in Seq(Plugin) /\ \A i, j \in DOMAIN Order : Order[i] = Order[j] => i = j
  /\ Early \subseteq Plugin /\ Channels \subseteq Plugin /\ Mcp \notin Channels
  /\ Offers \in [Plugin -> SUBSET Kinds]

VARIABLES
  state,      \* PluginRecord.state
  instance,   \* the plugins that have an instance
  serving,    \* what is registered, with its owner
  polling,    \* the channels whose poll task runs
  stray,      \* history: those whose on_enable failed after it had started
              \* its task, or whose on_disable did not get to its end
  closed,     \* EventBus._closed
  job         \* where each lifecycle task is

pluginVars == <<state, instance, serving, polling, stray>>

(* The loops: which plugins they visit, and in which state.                *)
Sweeps == [
  load_early   |-> [op |-> "load",    visit |-> Early,           found |-> {"FOUND"}],
  enable_early |-> [op |-> "enable",  visit |-> Early,           found |-> {"LOADED", "DISABLED"}],
  load_late    |-> [op |-> "load",    visit |-> Plugin \ Early,  found |-> {"FOUND"}],
  enable_late  |-> [op |-> "enable",  visit |-> Plugin \ Early,  found |-> {"LOADED", "DISABLED"}],
  disable      |-> [op |-> "disable", visit |-> Plugin,          found |-> {"ENABLED"}],
  unload       |-> [op |-> "unload",  visit |-> Plugin,
                    found |-> {"DISABLED", "LOADED", "ERROR"}]]

Turn(sweep, j) == Order[IF sweep \in {"disable", "unload"} THEN Len(Order) + 1 - j ELSE j]

Due(t) ==
  LET s == Sweeps[job[t].at]
  IN {j \in job[t].i .. Len(Order) :
        LET p == Turn(job[t].at, j) IN p \in s.visit /\ state[p] \in s.found}

Sweeping(t) == job[t].at \in DOMAIN Sweeps

(* The plugin whose turn it is, while an operation is under way.           *)
Current(t) == Turn(job[t].at, job[t].i)

Runs(t, hook) == job[t].step = "hook" /\ job[t].hook = hook
Hooked(t)     == job[t].step = "hook"

Hook(t, hook)  == job' = [job EXCEPT ![t].step = "hook", ![t].hook = hook]
Tell(t, step)  == job' = [job EXCEPT ![t].step = step]
Return(t)      == job' = [job EXCEPT ![t].step = "next", ![t].hook = "none", ![t].i = @ + 1]

(* An operation starts at the next plugin that is due.                     *)
Begins(t, op, j) ==
  /\ Sweeping(t) /\ job[t].step = "next" /\ Sweeps[job[t].at].op = op
  /\ j \in Due(t) /\ \A k \in Due(t) : j <= k

Under(t, j, step, hook) == job' = [job EXCEPT ![t].i = j, ![t].step = step, ![t].hook = hook]

Owned(p, kinds) == {p} \X kinds

(*---------------------------------- load ---------------------------------*)

(* The module or the constructor may raise.                                *)
Load(t) == \E j \in DOMAIN Order :
  LET p == Turn(job[t].at, j) IN
  /\ Begins(t, "load", j)
  /\ \/ /\ state' = [state EXCEPT ![p] = "LOADED"]
        /\ instance' = instance \cup {p}
        /\ Under(t, j, "told", "none")
     \/ /\ \E s \in {"ERROR", "FOUND"} : state' = [state EXCEPT ![p] = s]
        /\ Under(t, j + 1, "next", "none")
        /\ UNCHANGED instance
  /\ UNCHANGED <<serving, polling, stray, closed, mcpVars>>

(*--------------------------------- enable --------------------------------*)

Enable(t) == \E j \in DOMAIN Order :
  LET p == Turn(job[t].at, j) IN
  /\ Begins(t, "enable", j)
  /\ Under(t, j, "hook", IF state[p] = "LOADED" THEN "on_load" ELSE "on_enable")
  /\ UNCHANGED <<pluginVars, closed, mcpVars>>

LoadHookReturns(t) == LET p == Current(t) IN
  /\ Runs(t, "on_load")
  /\ p = Mcp => doing[t].pc \in {"over", "listing"}
  /\ \E more \in SUBSET Offers[p] :
       /\ p # Mcp \/ doing[t].pc = "listing" \/ more = {}
       /\ serving' = serving \cup Owned(p, more)
  /\ doing' = [doing EXCEPT ![t] = NotYet]
  /\ Hook(t, "on_enable")
  /\ UNCHANGED <<state, instance, polling, stray, closed, link, kept, parted>>

EnableHookReturns(t) == LET p == Current(t) IN
  /\ Runs(t, "on_enable")
  /\ polling' = polling \cup ({p} \cap Channels)
  /\ serving' = IF p = Mcp THEN serving ELSE serving \cup Owned(p, Offers[p])
  /\ state' = [state EXCEPT ![p] = "ENABLED"]
  /\ Tell(t, "told")
  /\ UNCHANGED <<instance, stray, closed, mcpVars>>

(*--------------------------- disable and unload --------------------------*)

(* Mutant: the services stay registered.                                   *)
OwnEntries(p) == Owned(p, {"entry", "subscription"})

Withdrawn(p) == Owned(p, Kinds)

Disable(t) == \E j \in DOMAIN Order :
  LET p == Turn(job[t].at, j) IN
  /\ Begins(t, "disable", j)
  /\ serving' = serving \ Withdrawn(p)
  /\ Under(t, j, "hook", "on_disable")
  /\ UNCHANGED <<state, instance, polling, stray, closed, mcpVars>>

(* The hook stops the poll task.  The state is set whatever it is by now.  *)
DisableHookReturns(t) == LET p == Current(t) IN
  /\ Runs(t, "on_disable")
  /\ polling' = polling \ {p}
  /\ state' = IF state[p] = "ERROR" THEN state ELSE [state EXCEPT ![p] = "DISABLED"]
  /\ IF state[p] = "ERROR" THEN Return(t) ELSE Tell(t, "told")
  /\ UNCHANGED <<instance, serving, stray, closed, mcpVars>>

(* What unload() does after the hook, which a record without an instance   *)
(* does not have.                                                          *)
Dropped(p) ==
  /\ serving' = serving \ Owned(p, {"subscription", "service"})
  /\ instance' = instance \ {p}
  /\ state' = [state EXCEPT ![p] = "UNLOADED"]

Unload(t) == \E j \in DOMAIN Order :
  LET p == Turn(job[t].at, j) IN
  /\ Begins(t, "unload", j)
  /\ IF p \in instance
     THEN /\ Under(t, j, "hook", "on_unload")
          /\ UNCHANGED <<state, instance, serving>>
     ELSE /\ Under(t, j, "told", "none")
          /\ Dropped(p)
  /\ UNCHANGED <<polling, stray, closed, mcpVars>>

(* MCP's on_unload disconnects first, and forgets the connection.          *)
UnloadHookReturns(t) == LET p == Current(t) IN
  /\ Runs(t, "on_unload")
  /\ \/ doing[t].pc = "over"
     \/ doing[t].pc = "none" /\ ~ (p = Mcp /\ link.known)
  /\ Dropped(p)
  /\ doing' = [doing EXCEPT ![t] = NotYet]
  /\ link' = IF p = Mcp THEN [link EXCEPT !.known = FALSE] ELSE link
  /\ Tell(t, "told")
  /\ UNCHANGED <<polling, stray, closed, kept, parted>>

HookReturns(t) ==
  \/ LoadHookReturns(t) \/ EnableHookReturns(t)
  \/ DisableHookReturns(t) \/ UnloadHookReturns(t)

(*------------------------- hooks that go wrong ---------------------------*)

(* on_load of MCP raises for its configuration only; its other hooks do    *)
(* not raise, and one that is not overridden cannot hang either.           *)
MayFail(t) ==
  /\ Hooked(t)
  /\ Current(t) = Mcp => job[t].hook = "on_load" /\ doing[t].pc = "none"
MayHang(t) ==
  /\ Hooked(t)
  /\ Current(t) = Mcp => doing[t].pc \in Active

(* The hook raised, or was cut off by its timeout, after it had registered *)
(* some of its things.  A channel may have started its task; a hook that   *)
(* is cut off may not have stopped it.                                     *)
HookBreaks(t) == LET p == Current(t) IN
  /\ state' = [state EXCEPT ![p] = "ERROR"]
  /\ IF job[t].hook \in {"on_load", "on_enable"}
     THEN \E more \in SUBSET Offers[p] : serving' = serving \cup Owned(p, IF p = Mcp THEN {} ELSE more)
     ELSE UNCHANGED serving
  /\ \/ /\ polling' = IF job[t].hook = "on_disable" THEN polling \ {p} ELSE polling
        /\ UNCHANGED stray
     \/ /\ p \in Channels /\ job[t].hook \in {"on_enable", "on_disable"}
        /\ polling' = IF job[t].hook = "on_enable" THEN polling \cup {p} ELSE polling
        /\ stray' = stray \cup {p}
  /\ IF closed THEN Return(t) ELSE Tell(t, "failed")
  /\ UNCHANGED <<instance, closed>>

HookRaises(t) ==
  /\ MayFail(t) /\ HookBreaks(t)
  /\ UNCHANGED mcpVars

(* Mutant: the hook is awaited without a timeout.                          *)
HookIsAwaited(t) == FALSE

HookTimesOut(t) ==
  /\ MayHang(t) /\ HookBreaks(t)
  /\ doing' = [doing EXCEPT ![t] = NotYet]
  /\ Loses(Handling(t))
  /\ UNCHANGED <<link, parted>>

(*--------------------------------- events --------------------------------*)

(* Every handler of the event has returned, raised, or been cut off.  What *)
(* was published for a hook that failed is followed by the cleaning up.    *)
Told(t) == LET p == Current(t) IN
  /\ Sweeping(t)
  /\ \/ /\ job[t].step = "told"
        /\ UNCHANGED <<state, instance, serving>>
     \/ /\ job[t].step = "failed" /\ job[t].hook \in {"on_load", "on_enable"}
        /\ serving' = serving \ Withdrawn(p)
        /\ UNCHANGED <<state, instance>>
     \/ /\ job[t].step = "failed" /\ job[t].hook = "on_disable"
        /\ UNCHANGED <<state, instance, serving>>
     \/ /\ job[t].step = "failed" /\ job[t].hook = "on_unload"
        /\ Dropped(p)
  /\ IF job[t].step = "failed" /\ job[t].hook = "on_unload" THEN Tell(t, "told") ELSE Return(t)
  /\ UNCHANGED <<polling, stray, closed, mcpVars>>

(*--------------------------- the hooks of MCP ----------------------------*)

OfMcp(t) == Hooked(t) /\ Current(t) = Mcp

McpConnects(t) ==
  /\ OfMcp(t) /\ Runs(t, "on_load") /\ doing[t].pc = "none"
  /\ \E pc \in {"opening", "over"} :
       /\ Goes(t, pc)
       /\ link' = [link EXCEPT !.cm = Named(t, pc, @)]
  /\ Loses({link.cm})
  /\ UNCHANGED parted

McpDisconnects(t) ==
  /\ OfMcp(t) /\ Runs(t, "on_unload") /\ doing[t].pc = "none"
  /\ link.known
  /\ Disconnects(t, "over")
  /\ parted' = TRUE

McpHook(t) ==
  /\ \/ McpConnects(t) \/ McpDisconnects(t)
     \/ Opens(t) \/ OpenFails(t) \/ Initializes(t) \/ InitializeFails(t)
     \/ SessionClosed(t) \/ TransportClosed(t)
  /\ UNCHANGED <<pluginVars, closed, job>>

Manage(t) ==
  \/ Load(t) \/ Enable(t) \/ Disable(t) \/ Unload(t)
  \/ HookReturns(t) \/ HookRaises(t) \/ HookTimesOut(t)
  \/ Told(t) \/ McpHook(t)
=============================================================================
