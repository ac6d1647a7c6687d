-------------------------- MODULE ApplicationProofs --------------------------
(* Proofs about Application. *)
EXTENDS Application, TLAPS

----------------------------------------------------------------------------
(* Where the lifecycle tasks can be *)

StartsAt == {"load_early", "enable_early", "subsystems", "load_late", "enable_late",
             "router", "scheduler", "AppStarted"}
StopsAt  == {"AppStopping", "scheduler", "fires", "router", "runs", "disable", "unload",
             "AppStopped", "providers", "db"} \cup Ended
Steps    == {"next", "hook", "told", "failed"}
Hooks    == {"none", "on_load", "on_enable", "on_disable", "on_unload"}

Job == [at : StartsAt \cup StopsAt \cup {"none", "up", "failed"}, i : 1 .. Len(Order) + 1,
        step : Steps, hook : Hooks, full : BOOLEAN]

JobTypeOK == job \in [Tasks -> Job]

Op(t) == Sweeps[job[t].at].op

(* The hook an operation awaits, or that has failed, is one of its own.    *)
HooksOf == [load |-> {}, enable |-> {"on_load", "on_enable"},
            disable |-> {"on_disable"}, unload |-> {"on_unload"}]

StepFits(t) == job[t].step # "next" =>
  /\ Sweeping(t) /\ job[t].i \in DOMAIN Order
  /\ job[t].step \in {"hook", "failed"} => job[t].hook \in HooksOf[Op(t)]

(* initialize() and start() have ended before stop() is called, and the    *)
(* bus is closed by stop() only.                                           *)
MainIsDone == job[Main].at \in {"up", "failed"}

OneAfterAnother ==
  /\ job[Main].at \in StartsAt \cup {"up", "failed"}
  /\ \A s \in Stops : job[s].at \in StopsAt \cup {"none"}
  /\ job[First].at = "none" => job[Second].at = "none"
  /\ ~ MainIsDone => job[First].at = "none" /\ ~ closed

(* An attempt counts while it is made, and another one is still allowed.   *)
Fits(d) ==
  /\ d.pc \in {"none", "calling", "over"} => d.tries = 0
  /\ d.pc \in {"opening", "initializing", "pausing"} => d.tries < Attempts
  /\ d.then \in {"opening", "pausing"} => d.tries < Attempts
  /\ d.pc \in {"closing", "hanging up"} => d.then # "none"
  /\ d.pc = "none" => d = NotYet

TriesFit == \A a \in Users : Fits(doing[a])

JobInv == TypeOK /\ JobTypeOK /\ TriesFit /\ OneAfterAnother /\ \A t \in Tasks : StepFits(t)

----------------------------------------------------------------------------
(* What is registered *)

(* disable() and unload() withdraw what the plugin had registered before   *)
(* they await its hook; enable() ends with the plugin enabled.             *)
ServeInv ==
  /\ OnlyEnabledServe
  /\ \A t \in Tasks : job[t].step # "next" =>
       /\ Op(t) = "enable" /\ job[t].step = "told" => state[Current(t)] = "ENABLED"
       /\ Op(t) \in {"disable", "unload"} => \A r \in serving : r[1] # Current(t)

----------------------------------------------------------------------------
(* What the sweeps of stop() have done so far *)

Past(s, places) == job[s].at \in places
AfterUnload  == {"AppStopped", "providers", "db", "returned"}
AfterDisable == AfterUnload \cup {"unload"}
AfterRuns    == AfterDisable \cup {"disable"}

(* disable has been through the plugins before its turn, and unload has    *)
(* dropped them.                                                           *)
Swept(s) ==
  /\ job[s].at = "disable" =>
       /\ \A j \in DOMAIN Order : j < job[s].i => state[Turn("disable", j)] # "ENABLED"
       /\ job[s].step \in {"told", "failed"} => state[Current(s)] # "ENABLED"
  /\ Past(s, AfterDisable) => \A p \in Plugin : state[p] # "ENABLED"
  /\ job[s].at = "unload" =>
       /\ \A j \in DOMAIN Order : j < job[s].i => Turn("unload", j) \notin instance
       /\ job[s].step = "told" => Current(s) \notin instance
  /\ Past(s, AfterUnload) => instance = {}

PluginsFit ==
  /\ \A p \in instance : state[p] \in {"LOADED", "ENABLED", "DISABLED", "ERROR"}
  /\ \A p \in Plugin : state[p] = "LOADED" => p \in instance
  /\ \A p \in polling \ stray : state[p] = "ENABLED"

EnablesLoaded ==
  Sweeping(Main) /\ Op(Main) = "enable" /\ job[Main].step = "hook" =>
    IF job[Main].hook = "on_load" THEN state[Current(Main)] = "LOADED"
                                  ELSE state[Current(Main)] \in {"LOADED", "DISABLED"}

SweepInv ==
  /\ PluginsFit /\ EnablesLoaded
  /\ closed => instance = {}
  /\ \A s \in Stops : Swept(s)

----------------------------------------------------------------------------
(* The parts that stop() takes down one by one *)

AfterScheduler == AfterRuns \cup {"router", "runs"}

TakenDown(s) ==
  /\ job[s].at \in {"db", "returned"} => app.providers # "open"
  /\ job[s].at = "returned" => app.db # "open"
  /\ job[s].full /\ Past(s, AfterScheduler) => app.scheduler = "down"
  /\ job[s].full /\ Past(s, AfterRuns) => app.router = "down"

DownInv ==
  /\ app.router # "down" => job[Main].at \in {"scheduler", "AppStarted", "up", "failed"}
  /\ job[Second].at # "none" => Past(First, AfterRuns \cup {"raised", "dead"})
  /\ app.scheduler = "stopping" => \E s \in Stops : job[s].at = "fires"
  /\ \A s \in Stops : TakenDown(s)

----------------------------------------------------------------------------
(* The connection *)

InLoadOfMcp == OfMcp(Main) /\ Runs(Main, "on_load")

(* A task is at the connection in a hook of MCP only, and calls begin when *)
(* the plugins have been loaded.                                           *)
TaskUse(t) ==
  /\ doing[t].pc # "none" => OfMcp(t) /\ job[t].hook \in {"on_load", "on_unload"}
  /\ OfMcp(t) /\ job[t].hook = "on_unload" =>
       doing[t].pc \in {"none", "closing", "hanging up", "over"}
  /\ doing[t].then \in {"none", "over"}

CallUse(c) == doing[c].pc \in Active => job[Main].at \in {"scheduler", "AppStarted", "up", "failed"}

UserInv == (\A t \in Tasks : TaskUse(t)) /\ (\A c \in Calls : CallUse(c))

(* What is kept is the transport that the connection names; until          *)
(* on_unload has gone to disconnect, either the connection is up or        *)
(* somebody is about to bring it up or to close it.                        *)
Handles(b, n) ==
  \/ doing[b].pc = "initializing" /\ Own(b) = n
  \/ doing[b].pc = "closing"
  \/ doing[b].pc = "hanging up" /\ doing[b].held = n

KeptInv ==
  /\ \A n \in kept : link.cm = n
  /\ ~ parted => \A n \in kept : link.connected \/ \E b \in Users : Handles(b, n)

(* What on_unload has reached in a stop().                                 *)
PartInv ==
  \A s \in Stops :
    /\ doing[s].pc # "none" => parted
    /\ doing[s].pc = "hanging up" => kept \subseteq {doing[s].held}
    /\ doing[s].pc = "over" => kept = {}

(* The hook has been cut off on its way.                                   *)
Parting(t) == job[t].step = "failed" /\ job[t].hook = "on_unload" /\ Current(t) = Mcp

(* The plugin forgets the connection, or its instance, only when on_unload *)
(* has been at the connection, or there was none.                          *)
ForgetInv ==
  /\ \A t \in Tasks : Parting(t) => parted
  /\ parted /\ (~ link.known \/ Mcp \notin instance \/ \E t \in Tasks : Parting(t)) => kept = {}
  /\ link.known /\ ~ parted => Mcp \in instance
  /\ \/ link.connected \/ (\E c \in Calls : doing[c].pc \in Active)
     \/ <<Mcp, "entry">> \in serving \/ doing[Main].pc = "listing"
     => link.known \/ parted

LinkInv == KeptInv /\ PartInv /\ ForgetInv

IInv == JobInv /\ ServeInv /\ SweepInv /\ DownInv /\ UserInv /\ LinkInv

----------------------------------------------------------------------------
(* Facts about the constants *)

LEMMA TaskFacts ==
  /\ Main \in Tasks /\ Main \notin Stops /\ Stops \subseteq Tasks /\ Tasks = {Main} \cup Stops
  /\ Tasks \subseteq Users /\ Calls \subseteq Users /\ Calls \cap Tasks = {}
  /\ First \in Stops /\ Second \in Stops /\ First # Second
  BY TasksAssumption, McpAssumption DEF Stops, Users

LEMMA SweepFacts ==
  /\ DOMAIN Sweeps = {"load_early", "enable_early", "load_late", "enable_late",
                      "disable", "unload"}
  /\ Sweeps["load_early"].op = "load" /\ Sweeps["load_late"].op = "load"
  /\ Sweeps["enable_early"].op = "enable" /\ Sweeps["enable_late"].op = "enable"
  /\ Sweeps["disable"].op = "disable" /\ Sweeps["unload"].op = "unload"
  /\ Sweeps["load_early"].found = {"FOUND"} /\ Sweeps["load_late"].found = {"FOUND"}
  /\ Sweeps["enable_early"].found = {"LOADED", "DISABLED"}
  /\ Sweeps["enable_late"].found = {"LOADED", "DISABLED"}
  /\ Sweeps["disable"].found = {"ENABLED"}
  /\ Sweeps["unload"].found = {"DISABLED", "LOADED", "ERROR"}
  /\ Sweeps["disable"].visit = Plugin /\ Sweeps["unload"].visit = Plugin
  BY DEF Sweeps

LEMMA HookFacts ==
  /\ HooksOf["load"] = {} /\ HooksOf["enable"] = {"on_load", "on_enable"}
  /\ HooksOf["disable"] = {"on_disable"} /\ HooksOf["unload"] = {"on_unload"}
  BY DEF HooksOf

(* A sweep has a plugin in every turn, and every plugin has one turn.      *)
LEMMA TurnFacts ==
  ASSUME NEW sweep
  PROVE  /\ Len(Order) \in Nat /\ DOMAIN Order = 1 .. Len(Order)
         /\ \A j \in DOMAIN Order : Turn(sweep, j) \in Plugin
         /\ \A p \in Plugin : \E j \in DOMAIN Order : Turn(sweep, j) = p
<1>1. Len(Order) \in Nat /\ DOMAIN Order = 1 .. Len(Order)
  BY PluginAssumption
<1>2. \A j \in DOMAIN Order : Len(Order) + 1 - j \in DOMAIN Order
  BY <1>1
<1>3. \A j \in DOMAIN Order : Turn(sweep, j) \in Plugin
  BY <1>2 DEF Turn, Plugin
<1>4. ASSUME NEW p \in Plugin
      PROVE  \E j \in DOMAIN Order : Turn(sweep, j) = p
  <2>1. PICK i \in DOMAIN Order : Order[i] = p
    BY DEF Plugin
  <2>2. CASE sweep \in {"disable", "unload"}
    <3>1. Len(Order) + 1 - (Len(Order) + 1 - i) = i
      BY <1>1
    <3> QED
      BY <1>2, <2>1, <2>2, <3>1 DEF Turn
  <2>3. CASE sweep \notin {"disable", "unload"}
    BY <2>1, <2>3 DEF Turn
  <2> QED
    BY <2>2, <2>3
<1> QED
  BY <1>1, <1>3, <1>4

----------------------------------------------------------------------------
(* Types: the plugins *)

LEMMA JobMoves ==
  ASSUME JobTypeOK, NEW t \in Tasks
  PROVE  /\ \A hook \in Hooks : Hook(t, hook) => JobTypeOK'
         /\ \A step \in Steps : Tell(t, step) => JobTypeOK'
         /\ job[t].i \in DOMAIN Order => (Return(t) => JobTypeOK')
         /\ \A j \in 1 .. Len(Order) + 1, step \in Steps, hook \in Hooks :
              Under(t, j, step, hook) => JobTypeOK'
         /\ \A at \in StartsAt \cup StopsAt \cup {"none", "up", "failed"} :
              To(t, at) => JobTypeOK'
<1> DEFINE At0 == StartsAt \cup StopsAt \cup {"none", "up", "failed"}
<1>1. /\ job \in [Tasks -> Job] /\ Len(Order) \in Nat /\ DOMAIN Order = 1 .. Len(Order)
      /\ 1 \in 1 .. Len(Order) + 1 /\ "next" \in Steps /\ "hook" \in Steps /\ "none" \in Hooks
  BY TurnFacts DEF JobTypeOK, Steps, Hooks
<1>2. ASSUME NEW r \in Job
      PROVE  [job EXCEPT ![t] = r] \in [Tasks -> Job]
  BY <1>1
<1>3. /\ \A r \in Job, step \in Steps : [r EXCEPT !.step = step] \in Job
      /\ \A r \in Job, step \in Steps, hook \in Hooks :
           [r EXCEPT !.step = step, !.hook = hook] \in Job
      /\ \A r \in Job, step \in Steps, hook \in Hooks, i \in 1 .. Len(Order) + 1 :
           /\ [r EXCEPT !.step = step, !.hook = hook, !.i = i] \in Job
           /\ [r EXCEPT !.i = i, !.step = step, !.hook = hook] \in Job
      /\ \A r \in Job, step \in Steps, i \in 1 .. Len(Order) + 1, at \in At0 :
           [r EXCEPT !.at = at, !.i = i, !.step = step] \in Job
  BY ZenonT(40) DEF Job
<1>4. job[t] \in Job
  BY <1>1
<1> HIDE DEF At0
<1>5. ASSUME NEW hook \in Hooks, Hook(t, hook) PROVE JobTypeOK'
  <2>1. job' = [job EXCEPT ![t] = [job[t] EXCEPT !.step = "hook", !.hook = hook]]
    BY <1>1, <1>5 DEF Hook
  <2>2. [job[t] EXCEPT !.step = "hook", !.hook = hook] \in Job
    BY <1>1, <1>3, <1>4
  <2> QED
    BY <1>2, <2>1, <2>2 DEF JobTypeOK
<1>6. ASSUME NEW step \in Steps, Tell(t, step) PROVE JobTypeOK'
  <2>1. job' = [job EXCEPT ![t] = [job[t] EXCEPT !.step = step]]
    BY <1>1, <1>6 DEF Tell
  <2>2. [job[t] EXCEPT !.step = step] \in Job
    BY <1>1, <1>3, <1>4
  <2> QED
    BY <1>2, <2>1, <2>2 DEF JobTypeOK
<1>7. ASSUME job[t].i \in DOMAIN Order, Return(t) PROVE JobTypeOK'
  <2>1. job[t].i + 1 \in 1 .. Len(Order) + 1
    BY <1>1, <1>7
  <2>2. job' = [job EXCEPT ![t] = [job[t] EXCEPT !.step = "next", !.hook = "none", !.i = job[t].i + 1]]
    BY <1>1, <1>7 DEF Return
  <2>3. [job[t] EXCEPT !.step = "next", !.hook = "none", !.i = job[t].i + 1] \in Job
    BY <1>1, <1>3, <1>4, <2>1
  <2> QED
    BY <1>2, <2>2, <2>3 DEF JobTypeOK
<1>8. ASSUME NEW j \in 1 .. Len(Order) + 1, NEW step \in Steps, NEW hook \in Hooks,
             Under(t, j, step, hook)
      PROVE  JobTypeOK'
  <2>1. job' = [job EXCEPT ![t] = [job[t] EXCEPT !.i = j, !.step = step, !.hook = hook]]
    BY <1>1, <1>8 DEF Under
  <2>2. [job[t] EXCEPT !.i = j, !.step = step, !.hook = hook] \in Job
    BY <1>3, <1>4
  <2> QED
    BY <1>2, <2>1, <2>2 DEF JobTypeOK
<1>9. ASSUME NEW at \in At0, To(t, at) PROVE JobTypeOK'
  <2>1. job' = [job EXCEPT ![t] = [job[t] EXCEPT !.at = at, !.i = 1, !.step = "next"]]
    BY <1>1, <1>9 DEF To
  <2>2. [job[t] EXCEPT !.at = at, !.i = 1, !.step = "next"] \in Job
    BY <1>1, <1>3, <1>4
  <2> QED
    BY <1>2, <2>1, <2>2 DEF JobTypeOK
<1> QED
  BY <1>5, <1>6, <1>7, <1>8, <1>9 DEF At0

----------------------------------------------------------------------------
(* Types: the connection *)

McpInv == McpTypeOK /\ TriesFit

Link  == [connected : BOOLEAN, session : BOOLEAN, cm : Transports \cup {NoTransport}, known : BOOLEAN]
Doing == [pc : Active \cup {"none", "over"}, held : Transports \cup {NoTransport},
          tries : 0 .. Attempts, then : {"none", "opening", "pausing", "over"}]

LEMMA NotYetFits ==
  /\ NotYet \in Doing /\ Fits(NotYet)
  /\ [NotYet EXCEPT !.pc = "over"] \in Doing /\ Fits([NotYet EXCEPT !.pc = "over"])
  BY McpAssumption DEF NotYet, Doing, Fits

LEMMA McpParts ==
  ASSUME McpInv, NEW a \in Users
  PROVE  /\ doing[a] \in Doing /\ Fits(doing[a]) /\ doing \in [Users -> Doing]
         /\ link \in Link /\ kept \subseteq Transports /\ parted \in BOOLEAN
         /\ Own(a) \in Transports
         /\ \A pc, cm \in Transports \cup {NoTransport} :
              Named(a, pc, cm) \in Transports \cup {NoTransport}
         /\ \A pc : Named(a, pc, NoTransport) \in Transports \cup {NoTransport}
         /\ \A pc : [link EXCEPT !.cm = Named(a, pc, @)] \in Link
<1>1. /\ doing[a] \in Doing /\ Fits(doing[a]) /\ doing \in [Users -> Doing]
      /\ link \in Link /\ kept \subseteq Transports /\ parted \in BOOLEAN
  BY DEF McpInv, McpTypeOK, TriesFit, Doing, Link
<1>2. Own(a) \in Transports
  BY <1>1 DEF Own, Transports, Doing
<1>3. \A pc : \A cm \in Transports \cup {NoTransport} : Named(a, pc, cm) \in Transports \cup {NoTransport}
  BY <1>2 DEF Named
<1>4. \A pc : [link EXCEPT !.cm = Named(a, pc, @)] \in Link
  BY <1>1, <1>3 DEF Link
<1> QED
  BY <1>1, <1>2, <1>3, <1>4

LEMMA Moved ==
  ASSUME McpInv, NEW a \in Users, NEW d \in Doing, Fits(d),
         doing' = [doing EXCEPT ![a] = d],
         link' \in Link, kept' \subseteq Transports, parted' \in BOOLEAN
  PROVE  McpInv'
<1>1. doing \in [Users -> Doing] /\ \A b \in Users : Fits(doing[b])
  BY DEF McpInv, McpTypeOK, TriesFit, Doing
<1>2. doing' \in [Users -> Doing] /\ \A b \in Users : Fits(doing'[b])
  BY <1>1
<1> QED
  BY <1>2 DEF McpInv, McpTypeOK, TriesFit, Doing, Link

(* The places a task goes to, and what it must have kept for them.         *)
LEMMA AtFits ==
  ASSUME McpInv, NEW a \in Users
  PROVE  /\ At(a, "over") \in Doing /\ Fits(At(a, "over"))
         /\ doing[a].tries < Attempts =>
              \A pc \in {"opening", "initializing", "pausing"} : At(a, pc) \in Doing /\ Fits(At(a, pc))
         /\ doing[a].pc \in {"opening", "initializing"} =>
              \A pc \in {"again", "listing"} : At(a, pc) \in Doing /\ Fits(At(a, pc))
         /\ doing[a].pc = "none" => At(a, "calling") \in Doing /\ Fits(At(a, "calling"))
         /\ doing[a].then # "none" =>
              At(a, doing[a].then) \in Doing /\ Fits(At(a, doing[a].then))
<1> DEFINE d == doing[a]
<1>1. d \in Doing /\ Fits(d)
  BY McpParts
<1>2. At(a, "over") \in Doing /\ Fits(At(a, "over"))
  BY NotYetFits DEF At
<1>3. \A pc \in Active : [d EXCEPT !.pc = pc] \in Doing
  BY <1>1 DEF Doing
<1>4. \A pc \in Active : At(a, pc) = [d EXCEPT !.pc = pc]
  BY DEF At, Active, Busy
<1>5. {"opening", "initializing", "pausing", "again", "listing", "calling"} \subseteq Active
  BY DEF Active, Busy
<1>6. \A pc \in {"opening", "initializing", "pausing", "again", "listing", "calling"} : At(a, pc) \in Doing
  BY <1>3, <1>4, <1>5
<1>7. d.tries < Attempts =>
        \A pc \in {"opening", "initializing", "pausing"} : Fits([d EXCEPT !.pc = pc])
  BY <1>1 DEF Doing, Fits
<1>8. d.pc \in {"opening", "initializing"} =>
        Fits([d EXCEPT !.pc = "again"]) /\ Fits([d EXCEPT !.pc = "listing"])
  BY <1>1 DEF Doing, Fits
<1>9. d.pc = "none" => Fits([d EXCEPT !.pc = "calling"])
  BY <1>1, McpAssumption DEF Doing, Fits, NotYet
<1>10. d.then # "none" => d.then = "over" \/ (d.then \in {"opening", "pausing"} /\ d.tries < Attempts)
  BY <1>1 DEF Doing, Fits
<1> QED
  BY <1>2, <1>4, <1>5, <1>6, <1>7, <1>8, <1>9, <1>10

LEMMA McpMoves ==
  ASSUME McpInv, NEW a \in Users
  PROVE  /\ Opens(a) => McpInv'
         /\ OpenFails(a) => McpInv'
         /\ Initializes(a) => McpInv'
         /\ InitializeFails(a) => McpInv'
         /\ PauseEnds(a) => McpInv'
         /\ SessionClosed(a) => McpInv'
         /\ TransportClosed(a) => McpInv'
<1> DEFINE d == doing[a]
<1>1. /\ d \in Doing /\ Fits(d) /\ link \in Link /\ parted \in BOOLEAN
      /\ kept \subseteq Transports /\ doing \in [Users -> Doing]
      /\ Own(a) \in Transports
  BY McpParts
<1>2. ASSUME Opens(a) PROVE McpInv'
  <2>1. d.tries < Attempts /\ UNCHANGED parted
    BY <1>1, <1>2 DEF Opens, Fits
  <2>2. link' \in Link /\ kept' \subseteq Transports
    BY <1>1, <1>2 DEF Opens, Link
  <2> QED
    BY <1>1, <1>2, <2>1, <2>2, Moved, AtFits DEF Opens, Goes
<1>3. ASSUME OpenFails(a) PROVE McpInv'
  <2>1. d.pc = "opening" /\ d.tries < Attempts /\ d.tries \in Nat /\ d.tries + 1 \in 0 .. Attempts
    BY <1>1, <1>3, McpAssumption DEF OpenFails, Fits, Doing
  <2>2. CASE NextTry(a) = "over"
    <3>1. doing' = [doing EXCEPT ![a] = [At(a, "over") EXCEPT !.tries = 0]]
      BY <1>3, <2>2 DEF OpenFails, Trying
    <3>2. [At(a, "over") EXCEPT !.tries = 0] = At(a, "over")
      <4>1. At(a, "over") = [pc |-> "over", held |-> NoTransport, tries |-> 0, then |-> "none"]
        BY DEF At, NotYet
      <4> QED
        BY <4>1
    <3> QED
      BY <1>1, <1>3, <3>1, <3>2, Moved, AtFits DEF OpenFails
  <2>3. CASE NextTry(a) # "over"
    <3>1. NextTry(a) = "pausing" /\ d.tries + 1 < Attempts
      BY <2>3 DEF NextTry
    <3> DEFINE e == [d EXCEPT !.pc = "pausing", !.tries = d.tries + 1]
    <3>2. At(a, "pausing") = [d EXCEPT !.pc = "pausing"]
      BY DEF At
    <3>3. doing' = [doing EXCEPT ![a] = e]
      BY <1>1, <1>3, <3>1, <3>2 DEF OpenFails, Trying, Doing
    <3>4. e \in Doing /\ Fits(e)
      BY <1>1, <2>1, <3>1 DEF Doing, Fits, Active, Busy
    <3> HIDE DEF e
    <3> QED
      BY <1>1, <1>3, <3>3, <3>4, Moved DEF OpenFails
  <2> QED
    BY <2>2, <2>3
<1>4. ASSUME Initializes(a) PROVE McpInv'
  <2>1. link' \in Link
    BY <1>1, <1>4 DEF Initializes, Link
  <2> QED
    BY <1>1, <1>4, <2>1, Moved, AtFits DEF Initializes, Goes
<1>5. ASSUME InitializeFails(a) PROVE McpInv'
  <2> DEFINE e == [d EXCEPT !.pc = "closing", !.then = NextTry(a), !.tries = d.tries + 1]
  <2>1. d.pc = "initializing" /\ d.tries < Attempts /\ d.tries \in Nat /\ d.tries + 1 \in 0 .. Attempts
    BY <1>1, <1>5, McpAssumption DEF InitializeFails, Fits, Doing
  <2>2. doing' = [doing EXCEPT ![a] = e]
    BY <1>1, <1>5 DEF InitializeFails, AfterFailure
  <2>3. NextTry(a) = "over" \/ (NextTry(a) = "pausing" /\ d.tries + 1 < Attempts)
    BY DEF NextTry
  <2>4. e \in Doing /\ Fits(e)
    BY <1>1, <2>1, <2>3 DEF Doing, Fits, Active, Busy
  <2> HIDE DEF e
  <2> QED
    BY <1>1, <1>5, <2>2, <2>4, Moved DEF InitializeFails
<1>6. ASSUME PauseEnds(a) PROVE McpInv'
  <2>1. d.tries < Attempts
    BY <1>1, <1>6 DEF PauseEnds, Fits
  <2>2. link' \in Link /\ kept' \subseteq Transports
    BY <1>1, <1>6 DEF PauseEnds, Link, Loses
  <2> QED
    BY <1>1, <1>6, <2>1, <2>2, Moved, AtFits DEF PauseEnds, Goes
<1>7. \A r \in Doing : Fits(r) /\ r.pc \in {"opening", "pausing", "over"} =>
        /\ [r EXCEPT !.held = NoTransport, !.then = "none"] \in Doing
        /\ Fits([r EXCEPT !.held = NoTransport, !.then = "none"])
  <2> SUFFICES ASSUME NEW r \in Doing, Fits(r), r.pc \in {"opening", "pausing", "over"}
      PROVE  /\ [r EXCEPT !.held = NoTransport, !.then = "none"] \in Doing
             /\ Fits([r EXCEPT !.held = NoTransport, !.then = "none"])
    OBVIOUS
  <2> DEFINE e == [r EXCEPT !.held = NoTransport, !.then = "none"]
  <2>1. e \in Doing BY DEF Doing
  <2>2. e.pc = r.pc /\ e.tries = r.tries /\ e.held = NoTransport /\ e.then = "none"
    BY DEF Doing
  <2> HIDE DEF e
  <2>3. Fits(e) BY <2>2 DEF Fits
  <2> QED BY <2>1, <2>3 DEF e
<1>8. ASSUME Follows(a), d.pc \in {"closing", "hanging up"}, link' \in Link,
             kept' \subseteq Transports, UNCHANGED parted
      PROVE  McpInv'
  <2> DEFINE e == [At(a, d.then) EXCEPT !.held = NoTransport, !.then = "none"]
  <2>1. d.then # "none"
    BY <1>1, <1>8 DEF Fits
  <2>2. At(a, d.then) \in Doing /\ Fits(At(a, d.then)) /\ At(a, d.then).pc \in {"opening", "pausing", "over"}
    <3>1. At(a, d.then) \in Doing /\ Fits(At(a, d.then))
      BY <2>1, AtFits
    <3>2. d.then \in {"opening", "pausing", "over"}
      BY <1>1, <2>1 DEF Doing
    <3>3. \A pc \in {"opening", "pausing", "over"} : At(a, pc).pc = pc
      BY <1>1 DEF At, NotYet, Doing
    <3> QED
      BY <3>1, <3>2, <3>3
  <2>3. e \in Doing /\ Fits(e)
    BY <1>7, <2>2
  <2>4. doing' = [doing EXCEPT ![a] = e]
    BY <1>8 DEF Follows
  <2> HIDE DEF e
  <2> QED
    BY <1>1, <1>8, <2>3, <2>4, Moved
<1>9. ASSUME SessionClosed(a) PROVE McpInv'
  <2>1. CASE link.cm = NoTransport
    <3>1. link' = [link EXCEPT !.session = FALSE, !.cm = Named(a, d.then, @)]
      BY <1>9, <2>1 DEF SessionClosed
    <3>2. link' \in Link
      BY <1>1, <2>1, <3>1 DEF Link, Named
    <3> QED
      BY <1>1, <1>8, <1>9, <2>1, <3>2 DEF SessionClosed
  <2>2. CASE link.cm # NoTransport
    <3> DEFINE e == [d EXCEPT !.pc = "hanging up", !.held = link.cm]
    <3>1. doing' = [doing EXCEPT ![a] = e] /\ link' = [link EXCEPT !.session = FALSE]
      BY <1>9, <2>2 DEF SessionClosed
    <3>2. d.then # "none"
      BY <1>1, <1>9 DEF SessionClosed, Fits
    <3>3. e \in Doing /\ Fits(e) /\ link' \in Link
      BY <1>1, <3>1, <3>2 DEF Doing, Fits, Active, Busy, Link
    <3> HIDE DEF e
    <3> QED
      BY <1>1, <1>9, <3>1, <3>3, Moved DEF SessionClosed
  <2> QED
    BY <2>1, <2>2
<1>10. ASSUME TransportClosed(a) PROVE McpInv'
  <2>1. link' \in Link /\ kept' \subseteq Transports
    BY <1>1, <1>10 DEF TransportClosed, Link, Named, Loses
  <2> QED
    BY <1>8, <1>10, <2>1 DEF TransportClosed
<1> QED
  BY <1>2, <1>3, <1>4, <1>5, <1>6, <1>9, <1>10

(* What a call, or the task that unloads MCP, does besides.                *)
LEMMA UserMoves ==
  ASSUME McpInv, NEW a \in Users, parted' \in BOOLEAN
  PROVE  /\ doing[a].tries < Attempts => (Disconnects(a, "opening") => McpInv')
         /\ Disconnects(a, "over") => McpInv'
         /\ link' \in Link /\ kept' \subseteq kept =>
              /\ doing[a].tries < Attempts => (Goes(a, "opening") => McpInv')
              /\ Goes(a, "over") => McpInv'
              /\ doing[a].pc = "none" => (Goes(a, "calling") => McpInv')
<1> DEFINE d == doing[a]
<1>1. /\ d \in Doing /\ Fits(d) /\ link \in Link /\ parted \in BOOLEAN
      /\ kept \subseteq Transports /\ doing \in [Users -> Doing]
  BY McpParts
<1>2. ASSUME NEW pc, link' \in Link, kept' \subseteq kept,
             Goes(a, pc), At(a, pc) \in Doing, Fits(At(a, pc))
      PROVE  McpInv'
  BY <1>1, <1>2, Moved DEF Goes
<1>3. ASSUME NEW then \in {"opening", "over"}, then = "opening" => d.tries < Attempts,
             Disconnects(a, then)
      PROVE  McpInv'
  <2>1. CASE link.connected
    <3> DEFINE e == [d EXCEPT !.pc = "closing", !.then = then]
    <3>1. doing' = [doing EXCEPT ![a] = e] /\ UNCHANGED kept
      BY <1>1, <1>3, <2>1 DEF Disconnects
    <3>2. e \in Doing /\ Fits(e)
      BY <1>1, <1>3 DEF Doing, Fits, Active, Busy
    <3>3. link' \in Link
      BY <1>1, <1>3, <2>1 DEF Disconnects, Link
    <3> HIDE DEF e
    <3> QED
      BY <1>1, <3>1, <3>2, <3>3, Moved
  <2>2. CASE ~ link.connected
    <3>1. link' \in Link /\ kept' \subseteq kept /\ Goes(a, then)
      BY <1>3, <2>2, McpParts DEF Disconnects, Loses
    <3> QED
      BY <1>2, <1>3, <3>1, AtFits
  <2> QED
    BY <2>1, <2>2
<1> QED
  BY <1>2, <1>3, AtFits

LEMMA Forgotten ==
  ASSUME McpInv, NEW t \in Users, doing' = [doing EXCEPT ![t] = NotYet],
         link' \in {link, [link EXCEPT !.known = FALSE]}, kept' \subseteq kept, parted' \in BOOLEAN
  PROVE  McpInv'
<1>1. link' \in Link /\ kept' \subseteq Transports
  BY McpParts DEF Link
<1> QED
  BY <1>1, Moved, NotYetFits

----------------------------------------------------------------------------
(* What the moves of a lifecycle task are *)

JobIs(t, at, i, step, hook) ==
  /\ \A u \in Tasks \ {t} : job'[u] = job[u]
  /\ job'[t].at = at /\ job'[t].i = i /\ job'[t].step = step /\ job'[t].hook = hook
  /\ job'[t].full = job[t].full

LEMMA Shapes ==
  ASSUME JobTypeOK, NEW t \in Tasks
  PROVE  /\ \A hook : Hook(t, hook) => JobIs(t, job[t].at, job[t].i, "hook", hook)
         /\ \A step : Tell(t, step) => JobIs(t, job[t].at, job[t].i, step, job[t].hook)
         /\ Return(t) => JobIs(t, job[t].at, job[t].i + 1, "next", "none")
         /\ \A j, step, hook : Under(t, j, step, hook) => JobIs(t, job[t].at, j, step, hook)
         /\ \A at : To(t, at) => JobIs(t, at, 1, "next", job[t].hook)
<1>1. job \in [Tasks -> Job] /\ job[t] \in Job
  BY DEF JobTypeOK
<1>2. \A hook : Hook(t, hook) => JobIs(t, job[t].at, job[t].i, "hook", hook)
  BY <1>1 DEF Hook, JobIs, Job
<1>3. \A step : Tell(t, step) => JobIs(t, job[t].at, job[t].i, step, job[t].hook)
  BY <1>1 DEF Tell, JobIs, Job
<1>4. Return(t) => JobIs(t, job[t].at, job[t].i + 1, "next", "none")
  BY <1>1 DEF Return, JobIs, Job
<1>5. \A j, step, hook : Under(t, j, step, hook) => JobIs(t, job[t].at, j, step, hook)
  BY <1>1 DEF Under, JobIs, Job
<1>6. \A at : To(t, at) => JobIs(t, at, 1, "next", job[t].hook)
  BY <1>1 DEF To, JobIs, Job
<1> QED
  BY <1>2, <1>3, <1>4, <1>5, <1>6

LEMMA BeginsFacts ==
  ASSUME JobTypeOK, NEW t \in Tasks, NEW op \in {"load", "enable", "disable", "unload"},
         NEW j \in DOMAIN Order, Begins(t, op, j)
  PROVE  /\ Sweeping(t) /\ Op(t) = op /\ job[t].step = "next" /\ job[t].i <= j
         /\ j \in 1 .. Len(Order) + 1 /\ j + 1 \in 1 .. Len(Order) + 1
         /\ Turn(job[t].at, j) \in Plugin
         /\ op = "load" => state[Turn(job[t].at, j)] = "FOUND"
         /\ op = "enable" => state[Turn(job[t].at, j)] \in {"LOADED", "DISABLED"}
         /\ op = "disable" => job[t].at = "disable" /\ state[Turn(job[t].at, j)] = "ENABLED"
         /\ op = "unload" => job[t].at = "unload"
                             /\ state[Turn(job[t].at, j)] \in {"DISABLED", "LOADED", "ERROR"}
<1> DEFINE at == job[t].at
<1>1. /\ Sweeping(t) /\ Op(t) = op /\ job[t].step = "next" /\ j \in Due(t)
  BY DEF Begins, Op
<1>2. /\ job[t].i \in Nat /\ Len(Order) \in Nat /\ DOMAIN Order = 1 .. Len(Order)
      /\ Turn(at, j) \in Plugin
  BY TurnFacts DEF JobTypeOK, Job
<1>3. j \in job[t].i .. Len(Order) /\ state[Turn(at, j)] \in Sweeps[at].found
  BY <1>1 DEF Due
<1>4. at \in DOMAIN Sweeps /\ Sweeps[at].op = op
  BY <1>1 DEF Sweeping, Op
<1>5. /\ op = "load" => Sweeps[at].found = {"FOUND"}
      /\ op = "enable" => Sweeps[at].found = {"LOADED", "DISABLED"}
      /\ op = "disable" => at = "disable" /\ Sweeps[at].found = {"ENABLED"}
      /\ op = "unload" => at = "unload" /\ Sweeps[at].found = {"DISABLED", "LOADED", "ERROR"}
  BY <1>4, SweepFacts
<1> HIDE DEF at
<1>6. job[t].i <= j /\ j \in 1 .. Len(Order) + 1 /\ j + 1 \in 1 .. Len(Order) + 1
  BY <1>2, <1>3
<1> QED
  BY <1>1, <1>2, <1>3, <1>5, <1>6 DEF at

LEMMA CurrentFacts ==
  ASSUME JobTypeOK, NEW t \in Tasks, StepFits(t), job[t].step # "next"
  PROVE  /\ Sweeping(t) /\ job[t].i \in DOMAIN Order /\ Current(t) \in Plugin
         /\ job[t].i \in 1 .. Len(Order) /\ Len(Order) \in Nat
         /\ Op(t) \in {"load", "enable", "disable", "unload"}
         /\ Op(t) = "disable" <=> job[t].at = "disable"
         /\ Op(t) = "unload" <=> job[t].at = "unload"
         /\ job[t].step \in {"hook", "failed"} =>
              /\ Op(t) = "enable" <=> job[t].hook \in {"on_load", "on_enable"}
              /\ Op(t) = "disable" <=> job[t].hook = "on_disable"
              /\ Op(t) = "unload" <=> job[t].hook = "on_unload"
              /\ Op(t) # "load"
<1>1. Sweeping(t) /\ job[t].i \in DOMAIN Order
  BY DEF StepFits
<1>2. Current(t) \in Plugin /\ job[t].i \in 1 .. Len(Order) /\ Len(Order) \in Nat
  BY <1>1, TurnFacts DEF Current
<1>3. /\ Op(t) \in {"load", "enable", "disable", "unload"}
      /\ Op(t) = "disable" <=> job[t].at = "disable"
      /\ Op(t) = "unload" <=> job[t].at = "unload"
  BY <1>1, SweepFacts DEF Sweeping, Op
<1>4. job[t].step \in {"hook", "failed"} => job[t].hook \in HooksOf[Op(t)]
  BY DEF StepFits
<1> QED
  BY <1>1, <1>2, <1>3, <1>4, HookFacts

(* What a task with no step under way, or with one that fits, is.          *)
LEMMA FitsNext ==
  ASSUME NEW t \in Tasks, NEW i, NEW step, NEW hook,
         JobIs(t, job[t].at, i, step, hook),
         step = "next" \/ (Sweeping(t) /\ i \in DOMAIN Order),
         step \in {"hook", "failed"} => hook \in HooksOf[Op(t)],
         \A u \in Tasks : StepFits(u)
  PROVE  \A u \in Tasks : StepFits(u)'
<1>1. ASSUME NEW u \in Tasks, u # t PROVE StepFits(u)'
  BY <1>1 DEF JobIs, StepFits, Sweeping, Op
<1>2. StepFits(t)'
  BY DEF JobIs, StepFits, Sweeping, Op
<1> QED
  BY <1>1, <1>2

(* An operation of PluginManager moves the task that runs it, inside its   *)
(* sweep, and leaves the others where they are.                            *)
Stays(t) ==
  /\ JobTypeOK' /\ \A u \in Tasks : StepFits(u)'
  /\ \A u \in Tasks : job'[u].at = job[u].at /\ job'[u].full = job[u].full
  /\ \A u \in Tasks \ {t} : job'[u] = job[u]
  /\ UNCHANGED closed

LEMMA StaysIf ==
  ASSUME JobInv, NEW t \in Tasks, NEW i, NEW step, NEW hook,
         JobTypeOK', JobIs(t, job[t].at, i, step, hook),
         step = "next" \/ (Sweeping(t) /\ i \in DOMAIN Order),
         step \in {"hook", "failed"} => hook \in HooksOf[Op(t)],
         UNCHANGED closed
  PROVE  Stays(t)
<1>1. \A u \in Tasks : StepFits(u)'
  BY FitsNext DEF JobInv
<1> QED
  BY <1>1 DEF Stays, JobIs

LEMMA StaysWhenNext ==
  ASSUME JobInv, NEW t \in Tasks, NEW i, NEW hook, JobTypeOK',
         JobIs(t, job[t].at, i, "next", hook), UNCHANGED closed
  PROVE  Stays(t)
<1>1. "next" \notin {"hook", "failed"}
  OBVIOUS
<1> QED
  BY <1>1, StaysIf

LEMMA ManageStays ==
  ASSUME JobInv, NEW t \in Tasks, Manage(t)
  PROVE  Stays(t)
<1> USE HookFacts
<1>1. /\ JobTypeOK /\ StepFits(t)
      /\ {"next", "hook", "told", "failed"} \subseteq Steps
      /\ {"none", "on_load", "on_enable", "on_disable", "on_unload"} \subseteq Hooks
  BY DEF JobInv, Steps, Hooks
<1>2. CASE Load(t)
  <2>1. PICK j \in DOMAIN Order :
          /\ Begins(t, "load", j)
          /\ Under(t, j, "told", "none") \/ Under(t, j + 1, "next", "none")
    BY <1>2 DEF Load
  <2>2. /\ Sweeping(t) /\ Op(t) = "load"
        /\ j \in 1 .. Len(Order) + 1 /\ j + 1 \in 1 .. Len(Order) + 1
    BY <1>1, <2>1, BeginsFacts
  <2>3. /\ JobTypeOK'
        /\ JobIs(t, job[t].at, j, "told", "none") \/ JobIs(t, job[t].at, j + 1, "next", "none")
    BY <1>1, <2>1, <2>2, JobMoves, Shapes
  <2>4. UNCHANGED closed
    BY <1>2 DEF Load
  <2>5. CASE JobIs(t, job[t].at, j, "told", "none")
    BY <2>2, <2>3, <2>4, <2>5, StaysIf
  <2>6. CASE JobIs(t, job[t].at, j + 1, "next", "none")
    BY <2>3, <2>4, <2>6, StaysWhenNext
  <2> QED
    BY <2>3, <2>5, <2>6
<1>3. CASE Enable(t)
  <2>1. PICK j \in DOMAIN Order, hook \in {"on_load", "on_enable"} :
          Begins(t, "enable", j) /\ Under(t, j, "hook", hook)
    BY <1>3 DEF Enable
  <2>2. Sweeping(t) /\ Op(t) = "enable" /\ j \in 1 .. Len(Order) + 1
    BY <1>1, <2>1, BeginsFacts
  <2>3. JobTypeOK' /\ JobIs(t, job[t].at, j, "hook", hook)
    BY <1>1, <2>1, <2>2, JobMoves, Shapes
  <2>4. UNCHANGED closed
    BY <1>3 DEF Enable
  <2> QED
    BY <2>2, <2>3, <2>4, StaysIf
<1>4. CASE Disable(t)
  <2>1. PICK j \in DOMAIN Order : Begins(t, "disable", j) /\ Under(t, j, "hook", "on_disable")
    BY <1>4 DEF Disable
  <2>2. Sweeping(t) /\ Op(t) = "disable" /\ j \in 1 .. Len(Order) + 1
    BY <1>1, <2>1, BeginsFacts
  <2>3. JobTypeOK' /\ JobIs(t, job[t].at, j, "hook", "on_disable")
    BY <1>1, <2>1, <2>2, JobMoves, Shapes
  <2>4. UNCHANGED closed
    BY <1>4 DEF Disable
  <2> QED
    BY <2>2, <2>3, <2>4, StaysIf
<1>5. CASE Unload(t)
  <2>1. PICK j \in DOMAIN Order :
          Begins(t, "unload", j) /\ (Under(t, j, "hook", "on_unload") \/ Under(t, j, "told", "none"))
    BY <1>5 DEF Unload
  <2>2. Sweeping(t) /\ Op(t) = "unload" /\ j \in 1 .. Len(Order) + 1
    BY <1>1, <2>1, BeginsFacts
  <2>3. /\ JobTypeOK'
        /\ JobIs(t, job[t].at, j, "hook", "on_unload") \/ JobIs(t, job[t].at, j, "told", "none")
    BY <1>1, <2>1, <2>2, JobMoves, Shapes
  <2>4. UNCHANGED closed
    BY <1>5 DEF Unload
  <2> QED
    BY <2>2, <2>3, <2>4, StaysIf
<1>6. CASE LoadHookReturns(t)
  <2>1. /\ job[t].step = "hook" /\ job[t].hook = "on_load" /\ Hook(t, "on_enable")
        /\ UNCHANGED closed
    BY <1>6 DEF LoadHookReturns, Runs
  <2>2. Sweeping(t) /\ job[t].i \in DOMAIN Order /\ Op(t) = "enable"
    BY <1>1, <2>1, CurrentFacts
  <2>3. JobTypeOK' /\ JobIs(t, job[t].at, job[t].i, "hook", "on_enable")
    BY <1>1, <2>1, <2>2, JobMoves, Shapes
  <2> QED
    BY <2>1, <2>2, <2>3, StaysIf
<1>7. ASSUME job[t].step \in {"hook", "failed"}, NEW step \in {"told", "failed"}, Tell(t, step),
             UNCHANGED closed
      PROVE  Stays(t)
  <2>1. Sweeping(t) /\ job[t].i \in DOMAIN Order /\ job[t].hook \in HooksOf[Op(t)]
    BY <1>1, <1>7 DEF StepFits
  <2>2. JobTypeOK' /\ JobIs(t, job[t].at, job[t].i, step, job[t].hook)
    BY <1>1, <1>7, JobMoves, Shapes
  <2> QED
    BY <1>7, <2>1, <2>2, StaysIf
<1>8. ASSUME job[t].step # "next", Return(t), UNCHANGED closed
      PROVE  Stays(t)
  <2>1. job[t].i \in DOMAIN Order
    BY <1>1, <1>8 DEF StepFits
  <2>2. JobTypeOK' /\ JobIs(t, job[t].at, job[t].i + 1, "next", "none")
    BY <1>1, <1>8, <2>1, JobMoves, Shapes
  <2> QED
    BY <1>8, <2>2, StaysWhenNext
<1>9. CASE EnableHookReturns(t)
  BY <1>7, <1>9 DEF EnableHookReturns, Runs
<1>10. CASE DisableHookReturns(t)
  BY <1>7, <1>8, <1>10 DEF DisableHookReturns, Runs
<1>11. CASE UnloadHookReturns(t)
  BY <1>7, <1>11 DEF UnloadHookReturns, Runs
<1>12. CASE HookRaises(t) \/ HookTimesOut(t)
  <2>1. job[t].step = "hook" /\ HookBreaks(t)
    BY <1>12 DEF HookRaises, HookTimesOut, MayFail, MayHang, Hooked
  <2>2. UNCHANGED closed /\ (Return(t) \/ Tell(t, "failed"))
    BY <2>1 DEF HookBreaks
  <2> QED
    BY <1>7, <1>8, <2>1, <2>2
<1>13. CASE Told(t)
  <2>1. /\ UNCHANGED closed
        /\ \/ job[t].step = "failed" /\ Tell(t, "told")
           \/ job[t].step \in {"told", "failed"} /\ Return(t)
    BY <1>13 DEF Told
  <2> QED
    BY <1>7, <1>8, <2>1
<1>14. CASE McpHook(t)
  <2>1. UNCHANGED <<job, closed>>
    BY <1>14 DEF McpHook
  <2> QED
    BY <2>1 DEF Stays, JobInv, JobTypeOK, StepFits, Sweeping, Op
<1> QED
  BY <1>2, <1>3, <1>4, <1>5, <1>6, <1>9, <1>10, <1>11, <1>12, <1>13, <1>14 DEF Manage, HookReturns

----------------------------------------------------------------------------
(* Types: every step *)

PluginTypeOK ==
  /\ state \in [Plugin -> {"FOUND", "LOADED", "ENABLED", "DISABLED", "ERROR", "UNLOADED"}]
  /\ instance \subseteq Plugin /\ polling \subseteq Channels /\ stray \subseteq Channels
  /\ serving \subseteq Plugin \X Kinds

LEMMA OwnedType ==
  ASSUME NEW p \in Plugin, NEW more \in SUBSET Offers[p]
  PROVE  Owned(p, more) \subseteq Plugin \X Kinds
<1>1. more \subseteq Kinds
  BY PluginAssumption
<1> QED
  BY <1>1 DEF Owned

LEMMA PluginTypes ==
  ASSUME JobInv, NEW t \in Tasks, Manage(t)
  PROVE  PluginTypeOK'
<1>1. JobTypeOK /\ StepFits(t) /\ PluginTypeOK
  BY DEF JobInv, TypeOK, PluginTypeOK
<1> DEFINE p == Current(t)
<1>2. job[t].step # "next" => p \in Plugin
  BY <1>1, CurrentFacts
<1>3. CASE Load(t)
  <2>1. PICK j \in DOMAIN Order :
          /\ Begins(t, "load", j)
          /\ \E s \in {"LOADED", "ERROR", "FOUND"} :
               state' = [state EXCEPT ![Turn(job[t].at, j)] = s]
          /\ instance' \in {instance, instance \cup {Turn(job[t].at, j)}}
          /\ UNCHANGED <<serving, polling, stray>>
    BY <1>3 DEF Load
  <2>2. Turn(job[t].at, j) \in Plugin
    BY <1>1, <2>1, BeginsFacts
  <2> QED
    BY <1>1, <2>1, <2>2 DEF PluginTypeOK
<1>4. CASE Enable(t)
  BY <1>1, <1>4 DEF Enable, pluginVars, PluginTypeOK
<1>5. CASE Disable(t)
  <2>1. serving' \subseteq serving /\ UNCHANGED <<state, instance, polling, stray>>
    BY <1>5 DEF Disable
  <2> QED
    BY <1>1, <2>1 DEF PluginTypeOK
<1>6. ASSUME NEW q \in Plugin, Dropped(q), UNCHANGED <<polling, stray>> PROVE PluginTypeOK'
  BY <1>1, <1>6 DEF Dropped, PluginTypeOK
<1>7. CASE Unload(t)
  <2>1. PICK j \in DOMAIN Order :
          /\ Begins(t, "unload", j)
          /\ UNCHANGED <<state, instance, serving>> \/ Dropped(Turn(job[t].at, j))
          /\ UNCHANGED <<polling, stray>>
    BY <1>7 DEF Unload
  <2>2. Turn(job[t].at, j) \in Plugin
    BY <1>1, <2>1, BeginsFacts
  <2> QED
    BY <1>1, <1>6, <2>1, <2>2 DEF PluginTypeOK
<1>8. CASE LoadHookReturns(t)
  <2>1. p \in Plugin /\ UNCHANGED <<state, instance, polling, stray>>
    BY <1>2, <1>8 DEF LoadHookReturns, Runs
  <2>2. PICK more \in SUBSET Offers[p] : serving' = serving \cup Owned(p, more)
    BY <1>8 DEF LoadHookReturns
  <2> QED
    BY <1>1, <2>1, <2>2, OwnedType DEF PluginTypeOK
<1>9. CASE EnableHookReturns(t)
  <2>1. p \in Plugin /\ UNCHANGED <<instance, stray>>
    BY <1>2, <1>9 DEF EnableHookReturns, Runs
  <2>2. /\ polling' = polling \cup ({p} \cap Channels)
        /\ state' = [state EXCEPT ![p] = "ENABLED"]
        /\ serving' \in {serving, serving \cup Owned(p, Offers[p])}
    BY <1>9 DEF EnableHookReturns
  <2>3. Owned(p, Offers[p]) \subseteq Plugin \X Kinds
    BY <2>1, OwnedType
  <2> QED
    BY <1>1, <2>1, <2>2, <2>3 DEF PluginTypeOK
<1>10. CASE DisableHookReturns(t)
  BY <1>1, <1>2, <1>10 DEF DisableHookReturns, Runs, PluginTypeOK
<1>11. CASE UnloadHookReturns(t)
  BY <1>2, <1>6, <1>11 DEF UnloadHookReturns, Runs
<1>12. CASE HookRaises(t) \/ HookTimesOut(t)
  <2>1. job[t].step = "hook" /\ HookBreaks(t)
    BY <1>12 DEF HookRaises, HookTimesOut, MayFail, MayHang, Hooked
  <2>2. p \in Plugin /\ state' = [state EXCEPT ![p] = "ERROR"] /\ UNCHANGED instance
    BY <1>2, <2>1 DEF HookBreaks
  <2>3. polling' \subseteq Channels /\ stray' \subseteq Channels
    BY <1>1, <2>1 DEF HookBreaks, PluginTypeOK
  <2>4. serving' \subseteq Plugin \X Kinds
    <3>1. PICK more \in SUBSET Offers[p] :
            serving' \in {serving, serving \cup Owned(p, IF p = Mcp THEN {} ELSE more)}
      BY <2>1 DEF HookBreaks
    <3>2. (IF p = Mcp THEN {} ELSE more) \in SUBSET Offers[p]
      OBVIOUS
    <3> HIDE DEF p
    <3>3. Owned(p, IF p = Mcp THEN {} ELSE more) \subseteq Plugin \X Kinds
      BY <2>2, <3>2, OwnedType
    <3> QED
      BY <1>1, <3>1, <3>3 DEF PluginTypeOK
  <2> QED
    BY <1>1, <2>2, <2>3, <2>4 DEF PluginTypeOK
<1>13. CASE Told(t)
  <2>1. /\ job[t].step # "next" /\ UNCHANGED <<polling, stray>>
        /\ \/ Dropped(p)
           \/ serving' \subseteq serving /\ UNCHANGED <<state, instance>>
    BY <1>13 DEF Told
  <2> HIDE DEF p
  <2> QED
    BY <1>1, <1>2, <1>6, <2>1 DEF PluginTypeOK
<1>14. CASE McpHook(t)
  BY <1>1, <1>14 DEF McpHook, pluginVars, PluginTypeOK
<1> QED
  BY <1>3, <1>4, <1>5, <1>7, <1>8, <1>9, <1>10, <1>11, <1>12, <1>13, <1>14
     DEF Manage, HookReturns

LEMMA ManageMcpTypes ==
  ASSUME JobInv, NEW t \in Tasks, Manage(t)
  PROVE  McpInv'
<1>1. McpInv /\ t \in Users /\ link.connected \in BOOLEAN /\ parted \in BOOLEAN
  BY TaskFacts DEF JobInv, TypeOK, McpInv, McpTypeOK
<1>2. CASE UNCHANGED mcpVars
  BY <1>1, <1>2 DEF mcpVars, McpInv, McpTypeOK, TriesFit
<1>3. CASE LoadHookReturns(t)
  BY <1>1, <1>3, Forgotten DEF LoadHookReturns
<1>4. CASE UnloadHookReturns(t)
  BY <1>1, <1>4, Forgotten DEF UnloadHookReturns
<1>5. CASE HookTimesOut(t)
  <2>1. parted' \in BOOLEAN /\ kept' \subseteq kept
    BY <1>1, <1>5 DEF HookTimesOut, Loses
  <2> QED
    BY <1>1, <1>5, <2>1, Forgotten DEF HookTimesOut
<1>6. CASE McpHook(t)
  <2>1. CASE McpConnects(t)
    <3>1. doing[t].tries < Attempts
      <4>1. doing[t].pc = "none"
        BY <2>1 DEF McpConnects
      <4>2. doing[t].tries = 0
        BY <1>1, <4>1 DEF McpInv, TriesFit, Fits
      <4> QED
        BY <4>2, McpAssumption
    <3>2. link' \in Link
      BY <1>1, <2>1, McpParts DEF McpConnects
    <3>3. kept' \subseteq kept /\ parted' \in BOOLEAN
      BY <1>1, <2>1 DEF McpConnects, Loses
    <3>4. Goes(t, "opening") \/ Goes(t, "over")
      BY <2>1 DEF McpConnects
    <3> QED
      BY <1>1, <3>1, <3>2, <3>3, <3>4, UserMoves
  <2>2. CASE McpDisconnects(t)
    <3>1. parted' \in BOOLEAN /\ Disconnects(t, "over")
      BY <1>1, <2>2 DEF McpDisconnects
    <3> QED
      BY <1>1, <3>1, UserMoves
  <2> QED
    BY <1>1, <1>6, <2>1, <2>2, McpMoves DEF McpHook
<1> QED
  BY <1>2, <1>3, <1>4, <1>5, <1>6 DEF Manage, HookReturns, Load, Enable, Disable, Unload,
     EnableHookReturns, DisableHookReturns, HookRaises, Told

AppType == [started : BOOLEAN,
            router : {"down", "up", "stopping"}, scheduler : {"down", "up", "stopping"},
            db : {"none", "open", "closed"}, providers : {"none", "open", "closed"}]

LEMMA JobInvIs ==
  JobInv <=> /\ PluginTypeOK /\ closed \in BOOLEAN /\ app \in AppType /\ McpInv /\ JobTypeOK
             /\ OneAfterAnother /\ \A t \in Tasks : StepFits(t)
  BY DEF JobInv, TypeOK, PluginTypeOK, AppType, McpInv

LEMMA JobInit == Init => JobInv
<1> SUFFICES ASSUME Init PROVE JobInv
  OBVIOUS
<1>1. /\ PluginTypeOK /\ closed \in BOOLEAN /\ app \in AppType
  BY PluginAssumption DEF Init, PluginTypeOK, AppType
<1>2. McpInv
  <2>2. doing \in [Users -> Doing] /\ \A a \in Users : Fits(doing[a])
    BY NotYetFits DEF Init, McpInit
  <2>3. link \in Link
    BY DEF Init, McpInit, Link
  <2> QED
    BY <2>2, <2>3 DEF Init, McpInit, McpInv, McpTypeOK, TriesFit, Doing, Link
<1>3. JobTypeOK
  <2>1. Len(Order) \in Nat
    BY TurnFacts
  <2>2. Idle \in Job
    BY <2>1 DEF Idle, Job, Steps, Hooks
  <2>3. \A r \in Job : [r EXCEPT !.at = "load_early"] \in Job
    BY DEF Job, StartsAt
  <2> QED
    BY <2>2, <2>3 DEF Init, JobTypeOK
<1>4. OneAfterAnother
  BY TaskFacts DEF Init, OneAfterAnother, MainIsDone, Idle, StartsAt
<1>5. \A t \in Tasks : StepFits(t)
  BY DEF Init, StepFits, Idle
<1> QED
  BY <1>1, <1>2, <1>3, <1>4, <1>5, JobInvIs

LEMMA JobStutter == JobInv /\ UNCHANGED vars => JobInv'
  BY DEF JobInv, TypeOK, McpTypeOK, JobTypeOK, TriesFit, OneAfterAnother, MainIsDone, StepFits,
         Sweeping, Op, vars, pluginVars, mcpVars

LEMMA JobManage ==
  ASSUME JobInv, NEW t \in Tasks, Manage(t), UNCHANGED app
  PROVE  JobInv'
<1>1. Stays(t) /\ PluginTypeOK' /\ McpInv'
  BY ManageStays, PluginTypes, ManageMcpTypes
<1>2. OneAfterAnother'
  BY <1>1, TaskFacts DEF Stays, JobInv, OneAfterAnother, MainIsDone
<1>3. closed' \in BOOLEAN /\ app' \in AppType
  BY <1>1, JobInvIs DEF Stays
<1>4. JobTypeOK' /\ \A u \in Tasks : StepFits(u)'
  BY <1>1 DEF Stays
<1> QED
  BY <1>1, <1>2, <1>3, <1>4 DEF JobInv, TypeOK, PluginTypeOK, AppType, McpInv

LEMMA PassesJobs ==
  ASSUME JobInv, NEW t \in Tasks, NEW at \in StartsAt \cup StopsAt \cup {"none", "up", "failed"},
         To(t, at), UNCHANGED <<pluginVars, mcpVars>>, closed' \in BOOLEAN, app' \in AppType,
         OneAfterAnother'
  PROVE  JobInv'
<1>1. JobTypeOK' /\ JobIs(t, at, 1, "next", job[t].hook)
  BY JobMoves, Shapes DEF JobInv
<1>2. \A u \in Tasks : StepFits(u)'
  BY <1>1 DEF JobInv, JobIs, StepFits, Sweeping, Op
<1>3. PluginTypeOK' /\ McpInv'
  BY DEF JobInv, TypeOK, PluginTypeOK, pluginVars, mcpVars, McpInv, McpTypeOK, TriesFit
<1> QED
  BY <1>1, <1>2, <1>3 DEF JobInv, TypeOK, PluginTypeOK, AppType, McpInv

LEMMA MainMoves ==
  ASSUME JobInv, ~ MainIsDone, NEW at \in StartsAt \cup {"up", "failed"}, To(Main, at),
         UNCHANGED <<pluginVars, closed, mcpVars>>, app' \in AppType
  PROVE  JobInv'
<1>1. JobIs(Main, at, 1, "next", job[Main].hook)
  BY Shapes, TaskFacts DEF JobInv
<1>2. OneAfterAnother'
  BY <1>1, TaskFacts DEF JobInv, OneAfterAnother, MainIsDone, JobIs
<1>3. closed' \in BOOLEAN
  BY DEF JobInv, TypeOK
<1> QED
  BY <1>2, <1>3, PassesJobs, TaskFacts

(* A stop() is under way only when initialize() and start() are not.       *)
LEMMA StopFollows ==
  ASSUME OneAfterAnother, NEW s \in Stops, job[s].at # "none"
  PROVE  MainIsDone
  BY DEF OneAfterAnother, Stops

LEMMA StopMoves ==
  ASSUME JobInv, NEW s \in Stops, job[s].at # "none", NEW at \in StopsAt, To(s, at),
         UNCHANGED <<pluginVars, mcpVars>>, closed' \in BOOLEAN, app' \in AppType
  PROVE  JobInv'
<1>1. JobIs(s, at, 1, "next", job[s].hook) /\ MainIsDone
  BY Shapes, TaskFacts, StopFollows DEF JobInv
<1>2. at # "none"
  BY DEF StopsAt, Ended
<1>3. OneAfterAnother'
  BY <1>1, <1>2, TaskFacts DEF JobInv, OneAfterAnother, MainIsDone, JobIs, Stops
<1> QED
  BY <1>3, PassesJobs, TaskFacts

LEMMA SweepEndsJobs ==
  ASSUME JobInv, NEW t \in Tasks, SweepEnds(t)
  PROVE  JobInv'
<1>1. /\ Sweeping(t) /\ To(t, AfterSweep(t)) /\ UNCHANGED <<pluginVars, closed, mcpVars>>
      /\ app' = [app EXCEPT !.started = @ /\ AfterSweep(t) # "AppStopped"]
  BY DEF SweepEnds
<1>2. app \in AppType /\ closed \in BOOLEAN /\ OneAfterAnother
  BY DEF JobInv, TypeOK, AppType
<1>3. app' \in AppType
  BY <1>1, <1>2 DEF AppType
<1>4. job[t].at \in DOMAIN Sweeps
  BY <1>1 DEF Sweeping
<1>5. CASE t = Main
  <2>1. job[t].at \in {"load_early", "enable_early", "load_late", "enable_late"}
    BY <1>2, <1>4, <1>5, SweepFacts DEF OneAfterAnother, StartsAt
  <2>2. AfterSweep(t) \in {"enable_early", "subsystems", "enable_late", "router"} /\ ~ MainIsDone
    BY <1>5, <2>1 DEF AfterSweep, MainIsDone
  <2> QED
    BY <1>1, <1>3, <1>5, <2>2, MainMoves DEF StartsAt
<1>6. CASE t \in Stops
  <2>1. job[t].at \in {"disable", "unload"}
    BY <1>2, <1>4, <1>6, SweepFacts DEF OneAfterAnother, StopsAt, Ended
  <2>2. AfterSweep(t) \in {"unload", "AppStopped", "providers"}
    BY <2>1 DEF AfterSweep
  <2>3. AfterSweep(t) \in StopsAt /\ job[t].at # "none"
    BY <2>1, <2>2 DEF StopsAt
  <2> QED
    BY <1>1, <1>2, <1>3, <1>6, <2>3, StopMoves
<1> QED
  BY <1>5, <1>6, TaskFacts

LEMMA StartingJobs == JobInv /\ Starting => JobInv'
<1> SUFFICES ASSUME JobInv, Starting PROVE JobInv'
  OBVIOUS
<1>1. app \in AppType
  BY DEF JobInv, TypeOK, AppType
<1>2. PICK at \in {"load_late", "failed", "scheduler", "AppStarted", "up"} :
        To(Main, at) /\ UNCHANGED <<pluginVars, closed, mcpVars>>
  BY DEF Starting, InitSubsystems, StartRouter, StartScheduler, TellStarted, Passes, Rest
<1>3. job[Main].at \in {"subsystems", "router", "scheduler", "AppStarted"}
  BY DEF Starting, InitSubsystems, StartRouter, StartScheduler, TellStarted, Passes
<1>4. app' \in AppType
  BY <1>1 DEF AppType, Starting, InitSubsystems, StartRouter, StartScheduler, TellStarted
<1> QED
  BY <1>2, <1>3, <1>4, MainMoves DEF MainIsDone, StartsAt

LEMMA StoppingJobs ==
  ASSUME JobInv, NEW s \in Stops, Stopping(s)
  PROVE  JobInv'
<1>1. app \in AppType /\ closed \in BOOLEAN
  BY DEF JobInv, TypeOK, AppType
<1>2. PICK at \in StopsAt : To(s, at)
  BY DEF Stopping, TellStopping, StopScheduler, StopRouter, TellStopped, CloseProviders,
         CloseDatabase, Passes, StopsAt, Ended
<1>3. job[s].at # "none" /\ UNCHANGED <<pluginVars, mcpVars>> /\ closed' \in BOOLEAN
  BY <1>1 DEF Stopping, TellStopping, StopScheduler, StopRouter, TellStopped, CloseProviders,
         CloseDatabase, Passes, Rest
<1>4. app' \in AppType
  BY <1>1 DEF AppType, Stopping, TellStopping, StopScheduler, StopRouter, TellStopped,
         CloseProviders, CloseDatabase
<1> QED
  BY <1>2, <1>3, <1>4, StopMoves

LEMMA StopAsType ==
  ASSUME NEW full \in BOOLEAN, NEW s
  PROVE  /\ StopAs(s, full) \in Job
         /\ StopAs(s, full).at = IF full THEN "AppStopping" ELSE "disable"
         /\ StopAs(s, full).i = 1 /\ StopAs(s, full).step = "next" /\ StopAs(s, full).full = full
         /\ [Idle EXCEPT !.at = "dead"] \in Job
         /\ [Idle EXCEPT !.at = "dead"].at = "dead" /\ [Idle EXCEPT !.at = "dead"].step = "next"
<1>1. Len(Order) \in Nat
  BY TurnFacts
<1>2. Idle \in Job
  BY <1>1 DEF Idle, Job, Steps, Hooks
<1>3. \A r \in Job, at \in {"AppStopping", "disable", "dead"} :
        [r EXCEPT !.at = at] \in Job /\ [r EXCEPT !.at = at, !.full = full] \in Job
  BY DEF Job, StopsAt, Ended
<1> QED
  BY <1>2, <1>3 DEF StopAs, Idle

LEMMA StopJobs == JobInv /\ Stop => JobInv'
<1> SUFFICES ASSUME JobInv, Stop PROVE JobInv'
  OBVIOUS
<1> DEFINE r == StopAs(First, app.started)
<1>1. /\ job' = [job EXCEPT ![First] = r] /\ job[First].at = "none" /\ MainIsDone
      /\ UNCHANGED <<pluginVars, closed, mcpVars, app>>
  BY DEF Stop, Rest, MainIsDone
<1>2. job \in [Tasks -> Job] /\ app.started \in BOOLEAN
  BY DEF JobInv, JobTypeOK, TypeOK
<1>3. r \in Job /\ r.at \in {"AppStopping", "disable"} /\ r.step = "next"
  BY <1>2, StopAsType
<1> HIDE DEF r
<1>4. JobTypeOK'
  BY <1>1, <1>2, <1>3 DEF JobTypeOK
<1>5. \A t \in Tasks : StepFits(t)'
  BY <1>1, <1>2, <1>3 DEF JobInv, StepFits, Sweeping, Op
<1>6. OneAfterAnother'
  BY <1>1, <1>2, <1>3, TaskFacts DEF JobInv, OneAfterAnother, MainIsDone, StopsAt
<1> QED
  BY <1>1, <1>4, <1>5, <1>6 DEF JobInv, TypeOK, pluginVars, mcpVars, McpTypeOK, TriesFit

LEMMA InterruptJobs == JobInv /\ Interrupt => JobInv'
<1> SUFFICES ASSUME JobInv, Interrupt PROVE JobInv'
  OBVIOUS
<1> DEFINE r == StopAs(Second, app.started)
           d == [Idle EXCEPT !.at = "dead"]
<1>1. /\ job[First].at # "none" /\ job[Second].at = "none"
      /\ \/ job' = [job EXCEPT ![First] = d, ![Second] = r]
         \/ job' = [job EXCEPT ![Second] = r]
      /\ UNCHANGED <<state, instance, serving, stray, closed, link, parted>> /\ polling' = {}
      /\ app' = [app EXCEPT !.scheduler = IF @ = "stopping" THEN "down" ELSE @]
  BY DEF Interrupt
<1>2. job \in [Tasks -> Job] /\ app.started \in BOOLEAN /\ MainIsDone /\ OneAfterAnother
  BY <1>1, TaskFacts, StopFollows DEF JobInv, JobTypeOK, TypeOK
<1>3. /\ r \in Job /\ r.at \in {"AppStopping", "disable"} /\ r.step = "next"
      /\ d \in Job /\ d.at = "dead" /\ d.step = "next"
  BY <1>2, StopAsType
<1> HIDE DEF r, d
<1>4. JobTypeOK'
  BY <1>1, <1>2, <1>3 DEF JobTypeOK
<1>5. \A t \in Tasks : StepFits(t)'
  <2>1. \A t \in Tasks : StepFits(t)
    BY DEF JobInv
  <2>2. \A t \in Tasks : job'[t] = job[t] \/ job'[t].step = "next"
    BY <1>1, <1>2, <1>3, TaskFacts
  <2> QED
    BY <2>1, <2>2 DEF StepFits, Sweeping, Op
<1>6. OneAfterAnother'
  <2>1. job'[Main] = job[Main] /\ job'[Second] = r /\ job'[First] \in {job[First], d}
    BY <1>1, <1>2, TaskFacts
  <2> QED
    BY <1>1, <1>2, <1>3, <2>1, TaskFacts DEF OneAfterAnother, MainIsDone, StopsAt, Stops, Ended
<1>7. McpInv'
  <2>1. \A a \in Users : doing'[a] \in Doing /\ Fits(doing'[a])
    BY NotYetFits DEF Interrupt, JobInv, TypeOK, McpTypeOK, Doing, TriesFit
  <2>2. doing' \in [Users -> Doing]
    BY <2>1 DEF Interrupt
  <2>3. kept' \subseteq Transports
    BY DEF Interrupt, JobInv, TypeOK, McpTypeOK, Loses
  <2> QED
    BY <1>1, <2>1, <2>2, <2>3 DEF JobInv, TypeOK, McpTypeOK, McpInv, TriesFit, Doing
<1>8. app' \in AppType /\ closed' \in BOOLEAN /\ PluginTypeOK'
  BY <1>1 DEF JobInv, TypeOK, AppType, PluginTypeOK
<1> QED
  BY <1>4, <1>5, <1>6, <1>7, <1>8 DEF JobInv, TypeOK, PluginTypeOK, AppType, McpInv

LEMMA CallJobs ==
  ASSUME JobInv, NEW c \in Calls, CallBegins(c) \/ Call(c) \/ CallIsCut(c)
  PROVE  JobInv'
<1>1. McpInv /\ c \in Users /\ link.connected \in BOOLEAN /\ link.known \in BOOLEAN /\ parted \in BOOLEAN
  BY TaskFacts DEF JobInv, TypeOK, McpInv, McpTypeOK
<1>2. UNCHANGED <<pluginVars, closed, job, app>>
  BY DEF CallBegins, Call, CallIsCut
<1>3. doing[c].pc \in {"none", "calling"} => doing[c].tries < Attempts
  <2>1. doing[c].pc \in {"none", "calling"} => doing[c].tries = 0
    BY <1>1 DEF McpInv, TriesFit, Fits
  <2> QED
    BY <2>1, McpAssumption
<1>4. ASSUME Raises(c), doing[c].pc \in {"none", "calling"} PROVE McpInv'
  <2>1. parted' \in BOOLEAN /\ Disconnects(c, "opening")
    BY <1>1, <1>4 DEF Raises
  <2> QED
    BY <1>1, <1>3, <1>4, <2>1, UserMoves
<1>0. link \in Link
  BY <1>1, McpParts
<1>5. ASSUME CallTool(c) PROVE McpInv'
  BY <1>0, <1>1, <1>4, <1>5, UserMoves DEF CallTool
<1>6. ASSUME CallStep(c) PROVE McpInv'
  BY <1>0, <1>1, <1>4, <1>6, McpMoves, UserMoves DEF CallStep, CallReturns, CallFails
<1>7. ASSUME Cut(c) PROVE McpInv'
  <2>1. parted' \in BOOLEAN /\ UNCHANGED link /\ kept' \subseteq kept /\ Goes(c, "over")
    BY <1>1, <1>7 DEF Cut, Loses
  <2> QED
    BY <1>0, <1>1, <2>1, UserMoves
<1>8. McpInv'
  BY <1>5, <1>6, <1>7 DEF CallBegins, Call, CallIsCut
<1>9. /\ JobTypeOK' /\ (\A t \in Tasks : StepFits(t)') /\ OneAfterAnother' /\ PluginTypeOK'
      /\ closed' \in BOOLEAN /\ app' \in AppType
  BY <1>2 DEF JobInv, TypeOK, JobTypeOK, StepFits, Sweeping, Op, OneAfterAnother, MainIsDone,
     PluginTypeOK, pluginVars, AppType
<1> QED
  BY <1>8, <1>9 DEF JobInv, TypeOK, PluginTypeOK, AppType, McpInv

LEMMA JobNext == JobInv /\ [Next]_vars => JobInv'
<1> SUFFICES ASSUME JobInv, [Next]_vars PROVE JobInv'
  OBVIOUS
<1>1. CASE UNCHANGED vars
  BY <1>1, JobStutter
<1>2. CASE Next
  BY <1>2, StartingJobs, StopJobs, InterruptJobs, StoppingJobs, SweepEndsJobs, JobManage, CallJobs
     DEF Next
<1> QED
  BY <1>1, <1>2

(* Every variable keeps its type: the plugins, the connection to the MCP   *)
(* server with its attempts, and the parts of the application.             *)
THEOREM TypeCorrect == Spec => []TypeOK
<1>1. JobInv => TypeOK
  BY DEF JobInv
<1> QED
  BY <1>1, JobInit, JobNext, PTL DEF Spec

----------------------------------------------------------------------------
(* What is registered: the proof *)

(* initialize() loads and enables, stop() disables and unloads.            *)
LEMMA WhoSweeps ==
  ASSUME JobInv
  PROVE  /\ Sweeping(Main) => ~ MainIsDone /\ ~ closed /\ Op(Main) \in {"load", "enable"}
                              /\ \A s \in Stops : job[s].at = "none" /\ job[s].step = "next"
         /\ \A s \in Stops : Sweeping(s) =>
              MainIsDone /\ ~ Sweeping(Main) /\ job[Main].step = "next"
              /\ Op(s) \in {"disable", "unload"}
<1>1. /\ OneAfterAnother /\ Main \in Tasks /\ Stops = {First, Second} /\ Stops \subseteq Tasks
      /\ \A t \in Tasks : StepFits(t)
  BY TaskFacts DEF JobInv, Stops
<1>2. \A t \in Tasks : job[t].at \notin DOMAIN Sweeps => job[t].step = "next"
  BY <1>1 DEF StepFits, Sweeping
<1>3. {"up", "failed", "none"} \cap DOMAIN Sweeps = {}
  BY SweepFacts
<1>4. ASSUME Sweeping(Main)
      PROVE  /\ ~ MainIsDone /\ ~ closed /\ Op(Main) \in {"load", "enable"}
             /\ \A s \in Stops : job[s].at = "none" /\ job[s].step = "next"
  <2>1. job[Main].at \in {"load_early", "enable_early", "load_late", "enable_late"} /\ ~ MainIsDone
    BY <1>1, <1>3, <1>4, SweepFacts DEF OneAfterAnother, Sweeping, StartsAt, MainIsDone
  <2>2. ~ closed /\ \A s \in Stops : job[s].at = "none"
    BY <1>1, <2>1 DEF OneAfterAnother
  <2> QED
    BY <1>1, <1>2, <1>3, <2>1, <2>2, SweepFacts DEF Op
<1>5. ASSUME NEW s \in Stops, Sweeping(s)
      PROVE  /\ MainIsDone /\ ~ Sweeping(Main) /\ job[Main].step = "next"
             /\ Op(s) \in {"disable", "unload"}
  <2>1. job[s].at \in {"disable", "unload"}
    BY <1>1, <1>5, SweepFacts DEF OneAfterAnother, Sweeping, StopsAt, Ended
  <2>2. MainIsDone
    BY <1>1, <2>1, StopFollows
  <2> QED
    BY <1>1, <1>2, <1>3, <2>1, <2>2, SweepFacts DEF Op, MainIsDone, Sweeping
<1> QED
  BY <1>4, <1>5

LEMMA OwnedFacts ==
  ASSUME NEW p \in Plugin, serving \subseteq Plugin \X Kinds
  PROVE  /\ \A r \in serving : r[1] \in Plugin
         /\ \A r \in serving \ Withdrawn(p) : r[1] # p
         /\ \A kinds : \A r \in Owned(p, kinds) : r[1] = p
<1>1. \A r \in serving : r = <<r[1], r[2]>> /\ r[1] \in Plugin /\ r[2] \in Kinds
  OBVIOUS
<1>2. \A r \in serving \ Withdrawn(p) : r[1] # p
  BY <1>1 DEF Withdrawn, Owned
<1> QED
  BY <1>1, <1>2 DEF Owned

(* An operation of stop() on p: nothing of p is registered after it, and   *)
(* the state of no other plugin changes.                                   *)
LEMMA StopServes ==
  ASSUME JobInv, JobInv', ServeInv, NEW s \in Stops, Sweeping(s), NEW p \in Plugin,
         NEW at, NEW i, NEW step, NEW hook, at = job[s].at, JobIs(s, at, i, step, hook),
         step # "next" => Turn(at, i) = p,
         serving' \subseteq serving, \A r \in serving' : r[1] # p,
         \A q \in Plugin \ {p} : state'[q] = state[q]
  PROVE  ServeInv'
<1>1. /\ \A r \in serving : r[1] \in Plugin /\ state[r[1]] = "ENABLED"
      /\ s \in Tasks /\ ~ Sweeping(Main) /\ job[Main].step = "next"
  <2>1. \A r \in serving : r[1] \in Plugin
    BY DEF JobInv, TypeOK
  <2>2. /\ \A t \in Stops : Sweeping(t) => Op(t) # "enable"
        /\ ~ Sweeping(Main) /\ job[Main].step = "next"
    BY WhoSweeps
  <2> QED
    BY <2>1, <2>2, TaskFacts DEF ServeInv, OnlyEnabledServe, Op
<1>2. OnlyEnabledServe'
  BY <1>1 DEF OnlyEnabledServe
<1>3. ASSUME NEW t \in Tasks, job'[t].step # "next"
      PROVE  /\ ~ (Op(t)' = "enable" /\ job'[t].step = "told")
             /\ Op(t)' \in {"disable", "unload"} => \A r \in serving' : r[1] # Current(t)'
  <2>1. t \in Stops
    BY <1>1, <1>3, TaskFacts DEF JobIs
  <2>2. CASE t = s
    <3>1. Op(t)' = Op(s) /\ Current(t)' = p
      BY <1>3, <2>2 DEF JobIs, Op, Current
    <3>2. Op(s) # "enable"
      BY WhoSweeps
    <3> QED
      BY <3>1, <3>2
  <2>3. CASE t # s
    <3>1. job'[t] = job[t] /\ Op(t)' = Op(t) /\ Current(t)' = Current(t)
      BY <1>3, <2>3 DEF JobIs, Op, Current
    <3>2. Sweeping(t)
      BY <1>3, <3>1 DEF JobInv, StepFits
    <3>3. Op(t) # "enable"
      BY <2>1, <3>2, WhoSweeps
    <3> QED
      BY <1>3, <3>1, <3>3 DEF ServeInv
  <2> QED
    BY <2>2, <2>3
<1> QED
  BY <1>2, <1>3 DEF ServeInv

LEMMA ServeDropped ==
  ASSUME JobInv, NEW p \in Plugin, \A r \in serving : r[1] # p,
         Dropped(p) \/ UNCHANGED <<state, serving>> \/
           ((\E x : state' = [state EXCEPT ![p] = x]) /\ UNCHANGED serving)
  PROVE  /\ serving' \subseteq serving /\ \A r \in serving' : r[1] # p
         /\ \A q \in Plugin \ {p} : state'[q] = state[q]
  BY DEF Dropped, JobInv, TypeOK

LEMMA ServeStopManage ==
  ASSUME JobInv, JobInv', ServeInv, NEW s \in Stops, Manage(s)
  PROVE  ServeInv'
<1> DEFINE p == Current(s)
<1>1. /\ JobTypeOK /\ s \in Tasks /\ StepFits(s) /\ serving \subseteq Plugin \X Kinds
      /\ state \in [Plugin -> {"FOUND", "LOADED", "ENABLED", "DISABLED", "ERROR", "UNLOADED"}]
  BY TaskFacts DEF JobInv, TypeOK
<1>2. /\ Sweeping(s) => Op(s) \in {"disable", "unload"} /\ ~ Sweeping(Main) /\ job[Main].step = "next"
  BY WhoSweeps
<1>3. job[s].step # "next" =>
        /\ Sweeping(s) /\ p \in Plugin /\ p = Turn(job[s].at, job[s].i)
        /\ \A r \in serving : r[1] # p
        /\ job[s].step \in {"hook", "failed"} => job[s].hook \in {"on_disable", "on_unload"}
  BY <1>1, <1>2, CurrentFacts DEF ServeInv, Current
<1>4. ASSUME job[s].step # "next", Dropped(p) \/ UNCHANGED <<state, serving>> \/
               ((\E x : state' = [state EXCEPT ![p] = x]) /\ UNCHANGED serving),
             Return(s) \/ \E step : Tell(s, step)
      PROVE  ServeInv'
  <2> HIDE DEF p
  <2>1. PICK i, step, hook : /\ JobIs(s, job[s].at, i, step, hook)
                             /\ step # "next" => i = job[s].i
    BY <1>1, <1>4, Shapes
  <2>2. /\ serving' \subseteq serving /\ \A r \in serving' : r[1] # p
        /\ \A q \in Plugin \ {p} : state'[q] = state[q]
    BY <1>3, <1>4, ServeDropped
  <2> QED
    BY <1>3, <1>4, <2>1, <2>2, StopServes
<1>5. CASE Disable(s)
  <2>1. PICK j \in DOMAIN Order :
          /\ Begins(s, "disable", j) /\ serving' = serving \ Withdrawn(Turn(job[s].at, j))
          /\ Under(s, j, "hook", "on_disable") /\ UNCHANGED state
    BY <1>5 DEF Disable
  <2> DEFINE q == Turn(job[s].at, j)
  <2>2. Sweeping(s) /\ q \in Plugin
    BY <1>1, <2>1, BeginsFacts
  <2>3. JobIs(s, job[s].at, j, "hook", "on_disable")
    BY <1>1, <2>1, Shapes
  <2>4. serving' \subseteq serving /\ \A r \in serving' : r[1] # q
    BY <1>1, <2>1, <2>2, OwnedFacts
  <2> QED
    BY <2>1, <2>2, <2>3, <2>4, StopServes
<1>6. CASE Unload(s)
  <2>1. PICK j \in DOMAIN Order :
          /\ Begins(s, "unload", j)
          /\ UNCHANGED <<state, serving>> \/ Dropped(Turn(job[s].at, j))
          /\ Under(s, j, "hook", "on_unload") \/ Under(s, j, "told", "none")
    BY <1>6 DEF Unload
  <2> DEFINE q == Turn(job[s].at, j)
  <2>2. Sweeping(s) /\ q \in Plugin /\ state[q] # "ENABLED"
    BY <1>1, <2>1, BeginsFacts
  <2>3. PICK step, hook : JobIs(s, job[s].at, j, step, hook)
    BY <1>1, <2>1, Shapes
  <2>4. \A r \in serving : r[1] # q
    <3>1. ~ Sweeping(Main) /\ \A t \in Stops : Sweeping(t) => Op(t) # "enable"
      BY <2>2, WhoSweeps
    <3>2. \A r \in serving : state[r[1]] = "ENABLED"
      BY <3>1, TaskFacts DEF ServeInv, OnlyEnabledServe, Op
    <3> QED
      BY <2>2, <3>2
  <2>5. /\ serving' \subseteq serving /\ \A r \in serving' : r[1] # q
        /\ \A o \in Plugin \ {q} : state'[o] = state[o]
    BY <2>1, <2>2, <2>4, ServeDropped
  <2> HIDE DEF q
  <2> QED
    BY <2>2, <2>3, <2>5, StopServes DEF q
<1>7. CASE HookReturns(s)
  <2>1. job[s].step = "hook" /\ job[s].hook \in {"on_disable", "on_unload"}
    BY <1>3, <1>7 DEF HookReturns, LoadHookReturns, EnableHookReturns, DisableHookReturns,
       UnloadHookReturns, Runs
  <2>2. DisableHookReturns(s) \/ UnloadHookReturns(s)
    BY <1>7, <2>1 DEF HookReturns, LoadHookReturns, EnableHookReturns, Runs
  <2> QED
    BY <1>1, <1>4, <2>1, <2>2 DEF DisableHookReturns, UnloadHookReturns
<1>8. CASE HookRaises(s) \/ HookTimesOut(s)
  <2>1. job[s].step = "hook" /\ HookBreaks(s)
    BY <1>8 DEF HookRaises, HookTimesOut, MayFail, MayHang, Hooked
  <2> QED
    BY <1>3, <1>4, <2>1 DEF HookBreaks
<1>9. CASE Told(s)
  <2>1. job[s].step # "next"
    BY <1>9 DEF Told
  <2>2. Dropped(p) \/ UNCHANGED <<state, serving>>
    BY <1>3, <1>9, <2>1 DEF Told
  <2>3. Return(s) \/ Tell(s, "told")
    BY <1>9 DEF Told
  <2> QED
    BY <1>4, <2>1, <2>2, <2>3
<1>10. CASE McpHook(s)
  BY <1>10 DEF McpHook, pluginVars, ServeInv, OnlyEnabledServe, Sweeping, Op, Current
<1>11. ~ Load(s) /\ ~ Enable(s)
  <2>1. ASSUME NEW j \in DOMAIN Order, NEW op \in {"load", "enable"}, Begins(s, op, j) PROVE FALSE
    BY <1>1, <1>2, <2>1, BeginsFacts
  <2> QED
    BY <2>1 DEF Load, Enable
<1> QED
  BY <1>5, <1>6, <1>7, <1>8, <1>9, <1>10, <1>11 DEF Manage

(* An operation of initialize() on p: what is registered besides is of     *)
(* plugins that are enabled.                                               *)
LEMMA MainServes ==
  ASSUME JobInv, JobInv', ServeInv, Sweeping(Main), NEW p \in Plugin,
         NEW i, NEW step, NEW hook, JobIs(Main, job[Main].at, i, step, hook),
         job[Main].step # "next" => Current(Main) = p,
         \A r \in serving' : r \in serving \/ r[1] = p,
         \A q \in Plugin \ {p} : state'[q] = state[q],
         \/ /\ Op(Main) = "enable" /\ step # "next" /\ Turn(job[Main].at, i) = p
            /\ step = "told" => state'[p] = "ENABLED"
         \/ /\ \A r \in serving' : r[1] = p => state'[p] = "ENABLED"
            /\ step = "next" \/ Op(Main) = "load"
  PROVE  ServeInv'
<1>1. /\ \A s \in Stops : job[s].step = "next" /\ ~ Sweeping(s)
      /\ Main \in Tasks /\ Tasks = {Main} \cup Stops /\ Main \notin Stops
      /\ \A r \in serving' : r[1] \in Plugin
      /\ Op(Main) \in {"load", "enable"}
  BY WhoSweeps, TaskFacts DEF JobInv, TypeOK
<1>2. /\ job'[Main].step = step /\ Op(Main)' = Op(Main) /\ Current(Main)' = Turn(job[Main].at, i)
      /\ Sweeping(Main)'
      /\ \A s \in Stops : job'[s] = job[s]
  BY <1>1 DEF JobIs, Op, Current, Sweeping
<1>3. \A r \in serving : r[1] # p => state[r[1]] = "ENABLED"
  BY <1>1 DEF ServeInv, OnlyEnabledServe
<1>4. \A r \in serving' : r[1] # p => state'[r[1]] = "ENABLED"
  BY <1>1, <1>3
<1>5. ASSUME NEW r \in serving', r[1] = p, state'[p] # "ENABLED"
      PROVE  Op(Main)' = "enable" /\ job'[Main].step # "next" /\ Current(Main)' = r[1]
  BY <1>2, <1>5
<1>6. OnlyEnabledServe'
  BY <1>1, <1>2, <1>4, <1>5 DEF OnlyEnabledServe, Op
<1>7. ASSUME NEW t \in Tasks, job'[t].step # "next"
      PROVE  /\ Op(t)' = "enable" /\ job'[t].step = "told" => state'[Current(t)'] = "ENABLED"
             /\ Op(t)' \notin {"disable", "unload"}
  BY <1>1, <1>2, <1>7
<1> QED
  BY <1>6, <1>7 DEF ServeInv

LEMMA ServeMainManage ==
  ASSUME JobInv, JobInv', ServeInv, Manage(Main)
  PROVE  ServeInv'
<1> DEFINE p == Current(Main)
           at == job[Main].at
<1>1. /\ JobTypeOK /\ Main \in Tasks /\ StepFits(Main) /\ serving \subseteq Plugin \X Kinds
      /\ state \in [Plugin -> {"FOUND", "LOADED", "ENABLED", "DISABLED", "ERROR", "UNLOADED"}]
  BY TaskFacts DEF JobInv, TypeOK
<1>2. Sweeping(Main) =>
        /\ Op(Main) \in {"load", "enable"} /\ ~ closed
        /\ \A s \in Stops : job[s].step = "next" /\ ~ Sweeping(s)
  BY WhoSweeps, SweepFacts DEF Sweeping
<1>3. job[Main].step # "next" =>
        /\ Sweeping(Main) /\ p \in Plugin /\ p = Turn(at, job[Main].i)
        /\ job[Main].step \in {"hook", "failed"} =>
             job[Main].hook \in {"on_load", "on_enable"} /\ Op(Main) = "enable"
        /\ Op(Main) = "enable" /\ job[Main].step = "told" => state[p] = "ENABLED"
  BY <1>1, <1>2, CurrentFacts DEF ServeInv, Current
<1>4. ASSUME Sweeping(Main), job[Main].step = "next", NEW r \in serving PROVE state[r[1]] = "ENABLED"
  BY <1>2, <1>4, TaskFacts DEF ServeInv, OnlyEnabledServe
<1>5. CASE Load(Main)
  <2>1. PICK j \in DOMAIN Order :
          /\ Begins(Main, "load", j) /\ UNCHANGED serving
          /\ \E x : state' = [state EXCEPT ![Turn(at, j)] = x]
          /\ Under(Main, j, "told", "none") \/ Under(Main, j + 1, "next", "none")
    BY <1>5 DEF Load
  <2> DEFINE q == Turn(at, j)
  <2>2. Sweeping(Main) /\ q \in Plugin /\ Op(Main) = "load" /\ state[q] = "FOUND" /\ job[Main].step = "next"
    BY <1>1, <2>1, BeginsFacts
  <2>3. PICK i, step, hook : JobIs(Main, at, i, step, hook)
    BY <1>1, <2>1, Shapes
  <2>4. \A r \in serving' : r \in serving /\ r[1] # q
    BY <1>4, <2>1, <2>2
  <2>5. \A o \in Plugin \ {q} : state'[o] = state[o]
    BY <2>1
  <2> HIDE DEF q
  <2> QED
    BY <2>2, <2>3, <2>4, <2>5, MainServes
<1>6. CASE Enable(Main)
  <2>1. PICK j \in DOMAIN Order, hook \in {"on_load", "on_enable"} :
          Begins(Main, "enable", j) /\ UNCHANGED <<serving, state>> /\ Under(Main, j, "hook", hook)
    BY <1>6 DEF Enable, pluginVars
  <2> DEFINE q == Turn(at, j)
  <2>2. Sweeping(Main) /\ q \in Plugin /\ Op(Main) = "enable" /\ job[Main].step = "next"
    BY <1>1, <2>1, BeginsFacts
  <2>3. JobIs(Main, at, j, "hook", hook)
    BY <1>1, <2>1, Shapes
  <2> QED
    BY <2>1, <2>2, <2>3, MainServes
<1>7. CASE LoadHookReturns(Main)
  <2>1. job[Main].step = "hook" /\ job[Main].hook = "on_load"
    BY <1>7 DEF LoadHookReturns, Runs
  <2>2. PICK more : serving' = serving \cup Owned(p, more)
    BY <1>7 DEF LoadHookReturns
  <2>3. UNCHANGED state /\ Hook(Main, "on_enable")
    BY <1>7 DEF LoadHookReturns
  <2>4. JobIs(Main, at, job[Main].i, "hook", "on_enable")
    BY <1>1, <2>3, Shapes
  <2>5. \A r \in serving' : r \in serving \/ r[1] = p
    BY <1>1, <1>3, <2>1, <2>2, OwnedFacts
  <2> HIDE DEF p
  <2> QED
    BY <1>3, <2>1, <2>3, <2>4, <2>5, MainServes DEF p
<1>8. CASE EnableHookReturns(Main)
  <2>1. job[Main].step = "hook" /\ Tell(Main, "told")
    BY <1>8 DEF EnableHookReturns, Runs
  <2>2. state' = [state EXCEPT ![p] = "ENABLED"] /\ serving' \in {serving, serving \cup Owned(p, Offers[p])}
    BY <1>8 DEF EnableHookReturns
  <2>3. JobIs(Main, at, job[Main].i, "told", job[Main].hook)
    BY <1>1, <2>1, Shapes
  <2>4. \A r \in serving' : r \in serving \/ r[1] = p
    BY <1>1, <1>3, <2>1, <2>2, OwnedFacts
  <2>5. state'[p] = "ENABLED" /\ \A q \in Plugin \ {p} : state'[q] = state[q]
    BY <1>1, <1>3, <2>1, <2>2
  <2> HIDE DEF p
  <2> QED
    BY <1>3, <2>1, <2>3, <2>4, <2>5, MainServes DEF p
<1>9. CASE HookRaises(Main) \/ HookTimesOut(Main)
  <2>1. job[Main].step = "hook" /\ HookBreaks(Main)
    BY <1>9 DEF HookRaises, HookTimesOut, MayFail, MayHang, Hooked
  <2>2. state' = [state EXCEPT ![p] = "ERROR"] /\ Tell(Main, "failed")
    BY <1>2, <1>3, <2>1 DEF HookBreaks
  <2>3. PICK more : serving' \in {serving, serving \cup Owned(p, more)}
    BY <2>1 DEF HookBreaks
  <2>4. JobIs(Main, at, job[Main].i, "failed", job[Main].hook)
    BY <1>1, <2>2, Shapes
  <2>5. \A r \in serving' : r \in serving \/ r[1] = p
    BY <1>1, <1>3, <2>1, <2>3, OwnedFacts
  <2>6. \A q \in Plugin \ {p} : state'[q] = state[q]
    BY <2>2
  <2> HIDE DEF p
  <2> QED
    BY <1>3, <2>1, <2>4, <2>5, <2>6, MainServes DEF p
<1>10. CASE Told(Main)
  <2>1. /\ job[Main].step \in {"told", "failed"} /\ UNCHANGED state /\ Return(Main)
        /\ serving' \in {serving, serving \ Withdrawn(p)}
        /\ job[Main].step = "failed" => serving' = serving \ Withdrawn(p)
    BY <1>3, <1>10 DEF Told
  <2>2. JobIs(Main, at, job[Main].i + 1, "next", "none")
    BY <1>1, <2>1, Shapes
  <2>3. \A r \in serving' : r \in serving
    BY <2>1
  <2>4. \A r \in serving' : r[1] = p => state'[p] = "ENABLED"
    <3>1. CASE job[Main].step = "failed"
      BY <1>1, <1>3, <2>1, <3>1, OwnedFacts
    <3>2. CASE job[Main].step = "told" /\ Op(Main) = "enable"
      BY <1>3, <2>1, <3>2
    <3>3. CASE Op(Main) = "load"
      BY <1>2, <1>3, <2>1, <2>3, <3>3, TaskFacts DEF ServeInv, OnlyEnabledServe, Op
    <3> QED
      BY <1>2, <1>3, <2>1, <3>1, <3>2, <3>3
  <2> HIDE DEF p
  <2> QED
    BY <1>3, <2>1, <2>2, <2>3, <2>4, MainServes DEF p
<1>11. CASE McpHook(Main)
  BY <1>11 DEF McpHook, pluginVars, ServeInv, OnlyEnabledServe, Sweeping, Op, Current
<1>12. ~ DisableHookReturns(Main) /\ ~ UnloadHookReturns(Main)
  BY <1>3 DEF DisableHookReturns, UnloadHookReturns, Runs
<1>13. ~ Disable(Main) /\ ~ Unload(Main)
  <2>1. ASSUME NEW j \in DOMAIN Order, NEW op \in {"disable", "unload"}, Begins(Main, op, j) PROVE FALSE
    BY <1>1, <1>2, <2>1, BeginsFacts
  <2> QED
    BY <2>1 DEF Disable, Unload
<1> QED
  BY <1>5, <1>6, <1>7, <1>8, <1>9, <1>10, <1>11, <1>12, <1>13 DEF Manage, HookReturns

(* The steps that are not operations of PluginManager leave the plugins as *)
(* they are, and no task in the middle of an operation, except a stop()    *)
(* that is cancelled.                                                      *)
Aside ==
  \/ Starting \/ Stop \/ Interrupt
  \/ \E s \in Stops : Stopping(s)
  \/ \E t \in Tasks : SweepEnds(t)
  \/ \E c \in Calls : CallBegins(c) \/ Call(c) \/ CallIsCut(c)

LEMMA AsideFacts ==
  ASSUME JobInv, Aside
  PROVE  /\ UNCHANGED <<state, instance, serving, stray>> /\ polling' \subseteq polling
         /\ \A t \in Tasks : \/ job'[t] = job[t]
                             \/ /\ job'[t].step = "next" /\ job'[t].i = 1
                                /\ t \in Stops \/ job[t].step = "next"
<1>1. job \in [Tasks -> Job] /\ \A t \in Tasks : job[t].at \notin DOMAIN Sweeps => job[t].step = "next"
  BY DEF JobInv, JobTypeOK, StepFits, Sweeping
<1>2. ASSUME NEW t \in Tasks, NEW at, To(t, at), UNCHANGED pluginVars, job[t].step = "next"
      PROVE  /\ UNCHANGED <<state, instance, serving, stray>> /\ polling' \subseteq polling
             /\ \A u \in Tasks : \/ job'[u] = job[u]
                                 \/ job'[u].step = "next" /\ job'[u].i = 1 /\ job[u].step = "next"
  <2>1. JobIs(t, at, 1, "next", job[t].hook)
    BY <1>2, Shapes DEF JobInv
  <2> QED
    BY <1>2, <2>1 DEF JobIs, pluginVars
<1>3. CASE Starting
  <2>1. PICK at : To(Main, at) /\ UNCHANGED pluginVars
    BY <1>3 DEF Starting, InitSubsystems, StartRouter, StartScheduler, TellStarted, Passes, Rest
  <2>2. job[Main].at \in {"subsystems", "router", "scheduler", "AppStarted"}
    BY <1>3 DEF Starting, InitSubsystems, StartRouter, StartScheduler, TellStarted, Passes
  <2> QED
    BY <1>1, <1>2, <2>1, <2>2, TaskFacts, SweepFacts
<1>4. CASE Stop
  <2>1. job' = [job EXCEPT ![First] = StopAs(First, app.started)] /\ UNCHANGED pluginVars
    BY <1>4 DEF Stop, Rest
  <2>2. StopAs(First, app.started).step = "next" /\ StopAs(First, app.started).i = 1
    BY StopAsType DEF JobInv, TypeOK
  <2>3. \A u \in Tasks : \/ job'[u] = job[u]
                         \/ job'[u].step = "next" /\ job'[u].i = 1 /\ u \in Stops
    BY <1>1, <2>1, <2>2, TaskFacts
  <2> QED
    BY <2>1, <2>3 DEF pluginVars
<1>5. CASE Interrupt
  <2> DEFINE r == StopAs(Second, app.started)
             d == [Idle EXCEPT !.at = "dead"]
  <2>1. /\ job' \in {[job EXCEPT ![First] = d, ![Second] = r], [job EXCEPT ![Second] = r]}
        /\ UNCHANGED <<state, instance, serving, stray>> /\ polling' = {}
    BY <1>5 DEF Interrupt
  <2>2. r.step = "next" /\ r.i = 1 /\ d.step = "next" /\ d.i = 1
    BY StopAsType DEF JobInv, TypeOK, Idle
  <2> HIDE DEF r, d
  <2>3. \A u \in Tasks : \/ job'[u] = job[u]
                         \/ job'[u].step = "next" /\ job'[u].i = 1 /\ u \in Stops
    BY <1>1, <2>1, <2>2, TaskFacts
  <2> QED
    BY <2>1, <2>3
<1>6. ASSUME NEW s \in Stops, Stopping(s)
      PROVE  \E at : To(s, at) /\ UNCHANGED pluginVars /\ job[s].step = "next"
  <2>1. PICK at : To(s, at) /\ UNCHANGED pluginVars
    BY <1>6 DEF Stopping, TellStopping, StopScheduler, StopRouter, TellStopped, CloseProviders,
       CloseDatabase, Passes, Rest
  <2>2. job[s].at \in {"AppStopping", "scheduler", "fires", "router", "runs", "AppStopped", "providers", "db"}
    BY <1>6 DEF Stopping, TellStopping, StopScheduler, StopRouter, TellStopped, CloseProviders,
       CloseDatabase, Passes
  <2> QED
    BY <1>1, <2>1, <2>2, TaskFacts, SweepFacts
<1>7. CASE \E s \in Stops : Stopping(s)
  BY <1>2, <1>6, <1>7, TaskFacts
<1>8. CASE \E t \in Tasks : SweepEnds(t)
  BY <1>2, <1>8 DEF SweepEnds
<1>9. CASE \E c \in Calls : CallBegins(c) \/ Call(c) \/ CallIsCut(c)
  BY <1>9 DEF CallBegins, Call, CallIsCut, pluginVars
<1> QED
  BY <1>3, <1>4, <1>5, <1>7, <1>8, <1>9 DEF Aside

LEMMA ServeAside ==
  ASSUME JobInv, ServeInv, Aside
  PROVE  ServeInv'
<1>1. /\ UNCHANGED <<state, serving>>
      /\ \A t \in Tasks : job'[t].step = "next" \/ job'[t] = job[t]
  BY AsideFacts
<1>2. OnlyEnabledServe'
  <2>1. \A t \in Stops : Sweeping(t) => Op(t) # "enable"
    BY WhoSweeps
  <2>2. ASSUME job[Main].step # "next" PROVE job'[Main] = job[Main]
    BY <2>2, AsideFacts, TaskFacts
  <2> QED
    BY <1>1, <2>1, <2>2, TaskFacts DEF ServeInv, OnlyEnabledServe, Op, Sweeping, Current
<1>3. \A t \in Tasks : job'[t].step # "next" => Op(t)' = Op(t) /\ Current(t)' = Current(t)
  BY <1>1 DEF Op, Current
<1> QED
  BY <1>1, <1>2, <1>3 DEF ServeInv

LEMMA ServeInit == Init => ServeInv
  BY DEF Init, ServeInv, OnlyEnabledServe, Idle

LEMMA NextIs ==
  Next <=> Aside \/ \E t \in Tasks : Manage(t) /\ UNCHANGED app
  BY DEF Next, Aside

LEMMA ServeNext == JobInv /\ ServeInv /\ [Next]_vars => ServeInv'
<1> SUFFICES ASSUME JobInv, ServeInv, [Next]_vars PROVE ServeInv'
  OBVIOUS
<1>1. JobInv'
  BY JobNext
<1>2. CASE UNCHANGED vars
  BY <1>2 DEF vars, pluginVars, ServeInv, OnlyEnabledServe, Sweeping, Op, Current
<1> QED
  BY <1>1, <1>2, ServeAside, ServeMainManage, ServeStopManage, NextIs, TaskFacts

(* Tools, commands, handlers and services that are registered belong to a  *)
(* plugin that is enabled or is being enabled, whichever hook fails, hangs *)
(* or is cancelled, for any set of plugins and of things they offer.       *)
THEOREM NothingIsLeftRegistered == Spec => []OnlyEnabledServe
<1>1. ServeInv => OnlyEnabledServe
  BY DEF ServeInv
<1> QED
  BY <1>1, JobInit, JobNext, ServeInit, ServeNext, PTL DEF Spec

----------------------------------------------------------------------------
(* What the sweeps of stop() have done: the proof *)

LEMMA SweepInit == Init => SweepInv
  BY TaskFacts DEF Init, SweepInv, PluginsFit, EnablesLoaded, Swept, Past, AfterDisable, AfterUnload, Idle

(* What other tasks do does not undo what a sweep has done.                *)
LEMMA SweptStays ==
  ASSUME NEW s \in Stops, Swept(s), job'[s] = job[s], instance' \subseteq instance,
         \A p \in Plugin : state'[p] = "ENABLED" => state[p] = "ENABLED",
         JobTypeOK, StepFits(s)
  PROVE  Swept(s)'
<1>1. /\ \A sweep : \A j \in DOMAIN Order : Turn(sweep, j) \in Plugin
      /\ job[s].step # "next" => Current(s) \in Plugin
  BY TurnFacts, CurrentFacts, TaskFacts
<1>2. Current(s)' = Current(s)
  BY DEF Current
<1> QED
  BY <1>1, <1>2 DEF Swept, Past

LEMMA SweepStopManage ==
  ASSUME JobInv, JobInv', SweepInv, NEW s \in Stops, Manage(s), Sweeping(s),
         PluginsFit',
         instance' \subseteq instance,
         \A p \in Plugin : state'[p] = "ENABLED" => state[p] = "ENABLED",
         Swept(s)',
         \A u \in Tasks \ {s} : job'[u] = job[u]
  PROVE  SweepInv'
<1>1. \A u \in Stops \ {s} : Swept(u)'
  BY SweptStays, TaskFacts DEF SweepInv, JobInv
<1>2. EnablesLoaded'
  <2>1. ~ Sweeping(Main) /\ job'[Main] = job[Main]
    BY WhoSweeps, TaskFacts
  <2> QED
    BY <2>1 DEF EnablesLoaded, Sweeping
<1>3. closed' => instance' = {}
  BY ManageStays, TaskFacts DEF Stays, SweepInv
<1> QED
  BY <1>1, <1>2, <1>3 DEF SweepInv

(* The plugins that a sweep has passed by need nothing of it.              *)
LEMMA PassedBy ==
  ASSUME JobInv, NEW s \in Stops, job[s].at \in {"disable", "unload"}, NEW j \in Nat,
         \A k \in Due(s) : j <= k,
         NEW k \in DOMAIN Order, k < j, job[s].i <= k
  PROVE  state[Turn(job[s].at, k)] \notin Sweeps[job[s].at].found
<1>1. /\ k \in Nat /\ Len(Order) \in Nat /\ k \in job[s].i .. Len(Order)
      /\ Turn(job[s].at, k) \in Plugin
  BY TurnFacts, TaskFacts DEF JobInv, JobTypeOK, Job
<1>2. k \notin Due(s)
  BY <1>1
<1>3. Sweeps[job[s].at].visit = Plugin
  BY SweepFacts
<1> QED
  BY <1>1, <1>2, <1>3 DEF Due

LEMMA SweepBegins ==
  ASSUME JobInv, JobInv', SweepInv, NEW s \in Stops, Disable(s) \/ Unload(s)
  PROVE  SweepInv'
<1> DEFINE at == job[s].at
<1>1. /\ JobTypeOK /\ s \in Tasks /\ StepFits(s) /\ Swept(s) /\ PluginsFit /\ Manage(s)
      /\ state \in [Plugin -> {"FOUND", "LOADED", "ENABLED", "DISABLED", "ERROR", "UNLOADED"}]
      /\ instance \subseteq Plugin /\ polling \subseteq Plugin
      /\ Len(Order) \in Nat /\ DOMAIN Order = 1 .. Len(Order) /\ job[s].i \in Nat
  BY TaskFacts, TurnFacts, PluginAssumption DEF JobInv, TypeOK, SweepInv, Manage, JobTypeOK, Job
<1>2. CASE Disable(s)
  <2>1. PICK j \in DOMAIN Order :
          /\ Begins(s, "disable", j) /\ Under(s, j, "hook", "on_disable")
          /\ UNCHANGED <<state, instance, polling, stray>>
    BY <1>2 DEF Disable
  <2>2. /\ Sweeping(s) /\ at = "disable" /\ JobIs(s, at, j, "hook", "on_disable")
        /\ \A k \in Due(s) : j <= k
    BY <1>1, <2>1, BeginsFacts, Shapes DEF Begins
  <2>3. ASSUME NEW k \in DOMAIN Order, k < j PROVE state[Turn("disable", k)] # "ENABLED"
    <3>1. CASE k < job[s].i
      BY <1>1, <2>2, <3>1 DEF Swept
    <3>2. CASE job[s].i <= k
      <4>1. state[Turn("disable", k)] \notin Sweeps["disable"].found
        BY <1>1, <2>2, <2>3, <3>2, PassedBy
      <4> QED
        BY <4>1, SweepFacts
    <3> QED
      BY <1>1, <3>1, <3>2
  <2>4. Swept(s)'
    BY <2>1, <2>2, <2>3 DEF Swept, JobIs, Past, AfterDisable, AfterUnload
  <2> QED
    BY <1>1, <2>1, <2>2, <2>4, SweepStopManage DEF PluginsFit, JobIs
<1>3. CASE Unload(s)
  <2>1. PICK j \in DOMAIN Order :
          /\ Begins(s, "unload", j)
          /\ \/ /\ Under(s, j, "hook", "on_unload") /\ UNCHANGED <<state, instance, serving>>
             \/ /\ Under(s, j, "told", "none") /\ Dropped(Turn(job[s].at, j))
          /\ UNCHANGED <<polling, stray>>
    BY <1>3 DEF Unload
  <2> DEFINE p == Turn("unload", j)
  <2>2. /\ Sweeping(s) /\ at = "unload" /\ \A k \in Due(s) : j <= k
        /\ p \in Plugin /\ state[p] # "ENABLED"
        /\ \/ JobIs(s, at, j, "hook", "on_unload") /\ UNCHANGED <<state, instance>>
           \/ JobIs(s, at, j, "told", "none") /\ Dropped(p)
    BY <1>1, <2>1, BeginsFacts, Shapes DEF Begins
  <2> HIDE DEF p
  <2>3. /\ instance' \subseteq instance
        /\ \A q \in Plugin : state'[q] = "ENABLED" => state[q] = "ENABLED"
        /\ PluginsFit'
    BY <1>1, <2>1, <2>2 DEF PluginsFit, Dropped
  <2>4. \A q \in Plugin : state[q] # "ENABLED"
    BY <1>1, <2>2 DEF Swept, Past, AfterDisable
  <2>5. ASSUME NEW k \in DOMAIN Order, k < j PROVE Turn("unload", k) \notin instance
    <3>1. CASE k < job[s].i
      BY <1>1, <2>2, <3>1 DEF Swept
    <3>2. CASE job[s].i <= k
      <4>1. state[Turn("unload", k)] \notin {"DISABLED", "LOADED", "ERROR"}
        BY <1>1, <2>2, <2>5, <3>2, PassedBy, SweepFacts
      <4>2. Turn("unload", k) \in Plugin
        BY TurnFacts
      <4> QED
        BY <1>1, <2>4, <4>1, <4>2 DEF PluginsFit
    <3> QED
      BY <1>1, <3>1, <3>2
  <2>6. Swept(s)'
    <3>1. /\ job'[s].at = "unload" /\ job'[s].i = j /\ Current(s)' = p
          /\ job'[s].step = "told" => Dropped(p)
      BY <2>2 DEF JobIs, Current, p
    <3>2. job'[s].step = "told" => p \notin instance'
      BY <3>1 DEF Dropped
    <3> QED
      BY <2>3, <2>4, <2>5, <3>1, <3>2 DEF Swept, Past, AfterDisable, AfterUnload
  <2> QED
    BY <1>1, <2>2, <2>3, <2>6, SweepStopManage DEF JobIs
<1> QED
  BY <1>2, <1>3

LEMMA SweptGoesOn ==
  ASSUME JobTypeOK, NEW s \in Stops, StepFits(s), Swept(s), job[s].step # "next",
         NEW step, NEW hook, NEW p, p = Current(s),
         \/ JobIs(s, job[s].at, job[s].i, step, hook)
         \/ JobIs(s, job[s].at, job[s].i + 1, "next", hook) /\ step = "next",
         instance' \subseteq instance,
         \A q \in Plugin : state'[q] = "ENABLED" => state[q] = "ENABLED",
         job[s].at = "disable" => state'[p] # "ENABLED",
         job[s].at = "unload" /\ step \in {"told", "next"} => p \notin instance'
  PROVE  Swept(s)'
<1>1. /\ job[s].i \in Nat /\ DOMAIN Order \subseteq Nat /\ s \in Tasks
      /\ \A sweep : \A j \in DOMAIN Order : Turn(sweep, j) \in Plugin
      /\ p = Turn(job[s].at, job[s].i) /\ p \in Plugin
  BY TaskFacts, TurnFacts, CurrentFacts DEF Current
<1>2. CASE JobIs(s, job[s].at, job[s].i, step, hook)
  <2>1. Current(s)' = p /\ job'[s].at = job[s].at /\ job'[s].i = job[s].i /\ job'[s].step = step
    BY <1>1, <1>2 DEF JobIs, Current
  <2> QED
    BY <1>1, <2>1 DEF Swept, Past
<1>3. CASE JobIs(s, job[s].at, job[s].i + 1, "next", hook) /\ step = "next"
  <2>1. job'[s].at = job[s].at /\ job'[s].i = job[s].i + 1 /\ job'[s].step = "next"
    BY <1>3 DEF JobIs
  <2>2. \A j \in DOMAIN Order : j < job[s].i + 1 => j < job[s].i \/ j = job[s].i
    BY <1>1
  <2> QED
    BY <1>1, <1>3, <2>1, <2>2 DEF Swept, Past
<1> QED
  BY <1>2, <1>3

LEMMA SweepEndings ==
  ASSUME JobInv, JobInv', SweepInv, NEW s \in Stops, job[s].step # "next",
         HookReturns(s) \/ HookRaises(s) \/ HookTimesOut(s) \/ Told(s)
  PROVE  SweepInv'
<1> DEFINE p == Current(s)
           at == job[s].at
<1>1. /\ JobTypeOK /\ s \in Tasks /\ StepFits(s) /\ Swept(s) /\ PluginsFit /\ Manage(s)
      /\ state \in [Plugin -> {"FOUND", "LOADED", "ENABLED", "DISABLED", "ERROR", "UNLOADED"}]
      /\ instance \subseteq Plugin /\ polling \subseteq Plugin
  BY TaskFacts, PluginAssumption DEF JobInv, TypeOK, SweepInv, Manage
<1>2. /\ Sweeping(s) /\ p \in Plugin /\ at \in {"disable", "unload"}
      /\ job[s].step \in {"hook", "failed"} =>
           /\ at = "disable" <=> job[s].hook = "on_disable"
           /\ at = "unload" <=> job[s].hook = "on_unload"
           /\ job[s].hook \in {"on_disable", "on_unload"}
  BY <1>1, CurrentFacts, WhoSweeps
<1>3. at = "unload" => \A q \in Plugin : state[q] # "ENABLED"
  BY <1>1 DEF Swept, Past, AfterDisable
<1>4. ASSUME NEW step \in {"told", "failed", "next"},
             step = "next" => Return(s), step # "next" => Tell(s, step),
             instance' \subseteq instance,
             \A q \in Plugin : state'[q] = "ENABLED" => state[q] = "ENABLED",
             at = "disable" => state'[p] # "ENABLED",
             at = "unload" /\ step \in {"told", "next"} => p \notin instance',
             PluginsFit'
      PROVE  SweepInv'
  <2> HIDE DEF p
  <2>1. PICK hook : \/ JobIs(s, at, job[s].i, step, hook)
                    \/ JobIs(s, at, job[s].i + 1, "next", hook) /\ step = "next"
    BY <1>1, <1>4, Shapes
  <2>2. Swept(s)'
    BY <1>1, <1>4, <2>1, SweptGoesOn DEF p
  <2>3. \A u \in Tasks \ {s} : job'[u] = job[u]
    BY <2>1 DEF JobIs
  <2> QED
    BY <1>1, <1>2, <1>4, <2>2, <2>3, SweepStopManage
<1>5. ASSUME Dropped(p), UNCHANGED <<polling, stray>>, at = "unload"
      PROVE  /\ instance' \subseteq instance /\ p \notin instance'
             /\ \A q \in Plugin : state'[q] = "ENABLED" => state[q] = "ENABLED"
             /\ PluginsFit'
  <2> HIDE DEF p
  <2> QED
    BY <1>1, <1>2, <1>3, <1>5 DEF Dropped, PluginsFit
<1>6. ASSUME UNCHANGED <<state, instance, polling, stray>>
      PROVE  /\ instance' \subseteq instance
             /\ \A q \in Plugin : state'[q] = "ENABLED" => state[q] = "ENABLED"
             /\ PluginsFit'
  BY <1>1, <1>6 DEF PluginsFit
<1>7. CASE HookReturns(s)
  <2>1. job[s].step = "hook"
    BY <1>7 DEF HookReturns, LoadHookReturns, EnableHookReturns, DisableHookReturns,
       UnloadHookReturns, Runs
  <2>2. CASE DisableHookReturns(s)
    <3>1. /\ at = "disable" /\ polling' = polling \ {p} /\ UNCHANGED <<instance, stray>>
          /\ state' = IF state[p] = "ERROR" THEN state ELSE [state EXCEPT ![p] = "DISABLED"]
          /\ \/ Return(s) 
             \/ Tell(s, "told")
      BY <1>2, <2>1, <2>2 DEF DisableHookReturns, Runs
    <3>2. PICK step \in {"told", "next"} : (step = "next" => Return(s)) /\ (step # "next" => Tell(s, step))
      BY <3>1
    <3> HIDE DEF p
    <3>3. /\ \A q \in Plugin : state'[q] = "ENABLED" => state[q] = "ENABLED"
          /\ state'[p] # "ENABLED"
      BY <1>1, <1>2, <3>1
    <3>4. PluginsFit'
      <4>1. ASSUME NEW q \in instance' PROVE state'[q] \in {"LOADED", "ENABLED", "DISABLED", "ERROR"}
        BY <1>1, <1>2, <3>1, <4>1 DEF PluginsFit
      <4>2. ASSUME NEW q \in Plugin, state'[q] = "LOADED" PROVE q \in instance'
        BY <1>1, <1>2, <3>1, <4>2 DEF PluginsFit
      <4>3. ASSUME NEW q \in polling' \ stray' PROVE state'[q] = "ENABLED"
        BY <1>1, <1>2, <3>1, <4>3 DEF PluginsFit
      <4> QED
        BY <4>1, <4>2, <4>3 DEF PluginsFit
    <3> QED
      BY <1>4, <3>1, <3>2, <3>3, <3>4
  <2>3. CASE UnloadHookReturns(s)
    <3>1. at = "unload" /\ Dropped(p) /\ Tell(s, "told") /\ UNCHANGED <<polling, stray>>
      BY <1>2, <2>1, <2>3 DEF UnloadHookReturns, Runs
    <3> HIDE DEF p
    <3> QED
      BY <1>4, <1>5, <3>1
  <2> QED
    BY <1>2, <1>7, <2>1, <2>2, <2>3 DEF HookReturns, LoadHookReturns, EnableHookReturns, Runs
<1>8. CASE HookRaises(s) \/ HookTimesOut(s)
  <2>1. job[s].step = "hook" /\ HookBreaks(s)
    BY <1>8 DEF HookRaises, HookTimesOut, MayFail, MayHang, Hooked
  <2>2. /\ state' = [state EXCEPT ![p] = "ERROR"] /\ UNCHANGED instance
        /\ \/ /\ polling' = (IF job[s].hook = "on_disable" THEN polling \ {p} ELSE polling)
              /\ UNCHANGED stray
           \/ /\ polling' = polling /\ stray' = stray \cup {p}
        /\ IF closed THEN Return(s) ELSE Tell(s, "failed")
    BY <1>2, <2>1 DEF HookBreaks
  <2> HIDE DEF p
  <2>3. PICK step \in {"failed", "next"} :
          /\ step = "next" => Return(s) /\ closed
          /\ step # "next" => Tell(s, step)
    BY <2>2
  <2>4. /\ \A q \in Plugin : state'[q] = "ENABLED" => state[q] = "ENABLED"
        /\ state'[p] # "ENABLED" /\ instance' \subseteq instance
        /\ closed => p \notin instance'
    BY <1>1, <1>2, <2>2 DEF SweepInv
  <2>5. PluginsFit'
    <3>1. ASSUME NEW q \in instance' PROVE state'[q] \in {"LOADED", "ENABLED", "DISABLED", "ERROR"}
      BY <1>1, <1>2, <2>2, <3>1 DEF PluginsFit
    <3>2. ASSUME NEW q \in Plugin, state'[q] = "LOADED" PROVE q \in instance'
      BY <1>1, <1>2, <2>2, <3>2 DEF PluginsFit
    <3>3. ASSUME NEW q \in polling' \ stray' PROVE state'[q] = "ENABLED"
      <4>1. q \in polling /\ q \notin stray /\ q \in Plugin
        BY <1>1, <2>2
      <4>2. state[q] = "ENABLED"
        BY <1>1, <4>1 DEF PluginsFit
      <4>3. q # p
        BY <1>2, <1>3, <2>1, <2>2, <4>1, <4>2
      <4> QED
        BY <1>1, <2>2, <4>1, <4>2, <4>3
    <3> QED
      BY <3>1, <3>2, <3>3 DEF PluginsFit
  <2> QED
    BY <1>4, <2>3, <2>4, <2>5
<1>9. CASE Told(s)
  <2>1. /\ UNCHANGED <<polling, stray>>
        /\ \/ job[s].step = "told" /\ UNCHANGED <<state, instance>> /\ Return(s)
           \/ job[s].step = "failed" /\ at = "disable" /\ UNCHANGED <<state, instance>> /\ Return(s)
           \/ job[s].step = "failed" /\ at = "unload" /\ Dropped(p) /\ Tell(s, "told")
    BY <1>2, <1>9 DEF Told
  <2>2. /\ job[s].step = "told" /\ at = "unload" => p \notin instance
        /\ job[s].step \in {"told", "failed"} /\ at = "disable" => state[p] # "ENABLED"
    BY <1>1 DEF Swept
  <2> HIDE DEF p
  <2> QED
    BY <1>2, <1>4, <1>5, <1>6, <2>1, <2>2
<1> QED
  BY <1>7, <1>8, <1>9

LEMMA SweepMain ==
  ASSUME JobInv, JobInv', SweepInv, Manage(Main), Sweeping(Main), PluginsFit', EnablesLoaded'
  PROVE  SweepInv'
<1>1. (\A s \in Stops : job[s].at = "none") /\ ~ closed
  BY WhoSweeps
<1>2. (\A s \in Stops : job'[s].at = "none") /\ ~ closed'
  BY <1>1, ManageStays, TaskFacts DEF Stays
<1> QED
  BY <1>2 DEF SweepInv, Swept, Past, AfterDisable, AfterUnload

LEMMA SweepMainManage ==
  ASSUME JobInv, JobInv', SweepInv, Manage(Main)
  PROVE  SweepInv'
<1> DEFINE p == Current(Main)
           at == job[Main].at
<1>1. /\ JobTypeOK /\ Main \in Tasks /\ StepFits(Main) /\ PluginsFit /\ EnablesLoaded
      /\ state \in [Plugin -> {"FOUND", "LOADED", "ENABLED", "DISABLED", "ERROR", "UNLOADED"}]
      /\ instance \subseteq Plugin /\ polling \subseteq Plugin
  BY TaskFacts, PluginAssumption DEF JobInv, TypeOK, SweepInv
<1>2. Sweeping(Main) => ~ closed /\ Op(Main) \in {"load", "enable"}
  BY WhoSweeps
<1>3. job[Main].step # "next" =>
        /\ Sweeping(Main) /\ p \in Plugin
        /\ job[Main].step \in {"hook", "failed"} =>
             job[Main].hook \in {"on_load", "on_enable"} /\ Op(Main) = "enable"
  BY <1>1, <1>2, CurrentFacts
<1>4. job[Main].step = "hook" =>
        IF job[Main].hook = "on_load" THEN state[p] = "LOADED" ELSE state[p] \in {"LOADED", "DISABLED"}
  BY <1>1, <1>3 DEF EnablesLoaded
<1>5. ASSUME NEW i, NEW step, NEW hook, JobIs(Main, at, i, step, hook), step # "hook"
      PROVE  EnablesLoaded'
  BY <1>5 DEF JobIs, EnablesLoaded
<1>6. CASE Load(Main)
  <2>1. PICK j \in DOMAIN Order :
          /\ Begins(Main, "load", j) /\ UNCHANGED <<polling, stray>>
          /\ \/ /\ state' = [state EXCEPT ![Turn(at, j)] = "LOADED"]
                /\ instance' = instance \cup {Turn(at, j)}
             \/ /\ \E x \in {"ERROR", "FOUND"} : state' = [state EXCEPT ![Turn(at, j)] = x]
                /\ UNCHANGED instance
          /\ Under(Main, j, "told", "none") \/ Under(Main, j + 1, "next", "none")
    BY <1>6 DEF Load
  <2> DEFINE q == Turn(at, j)
  <2>2. Sweeping(Main) /\ q \in Plugin /\ state[q] = "FOUND"
    BY <1>1, <2>1, BeginsFacts
  <2>3. JobIs(Main, at, j, "told", "none") \/ JobIs(Main, at, j + 1, "next", "none")
    BY <1>1, <2>1, Shapes
  <2>4. EnablesLoaded'
    BY <1>5, <2>3
  <2> HIDE DEF q
  <2>5. q \notin instance
    BY <1>1, <2>2 DEF PluginsFit
  <2>6. PluginsFit'
    <3>1. CASE state' = [state EXCEPT ![q] = "LOADED"] /\ instance' = instance \cup {q}
      BY <1>1, <2>1, <2>2, <3>1 DEF PluginsFit
    <3>2. ASSUME NEW x \in {"ERROR", "FOUND"}, state' = [state EXCEPT ![q] = x], UNCHANGED instance
          PROVE  PluginsFit'
      BY <1>1, <2>1, <2>2, <2>5, <3>2 DEF PluginsFit
    <3> QED
      BY <2>1, <3>1, <3>2 DEF q
  <2> QED
    BY <1>6, <2>2, <2>4, <2>6, SweepMain DEF Manage
<1>7. CASE Enable(Main)
  <2>1. PICK j \in DOMAIN Order :
          /\ Begins(Main, "enable", j) /\ UNCHANGED pluginVars
          /\ Under(Main, j, "hook", IF state[Turn(at, j)] = "LOADED" THEN "on_load" ELSE "on_enable")
    BY <1>7 DEF Enable
  <2> DEFINE hook == IF state[Turn(at, j)] = "LOADED" THEN "on_load" ELSE "on_enable"
  <2>2. Sweeping(Main) /\ state[Turn(at, j)] \in {"LOADED", "DISABLED"}
    BY <1>1, <2>1, BeginsFacts
  <2>3. JobIs(Main, at, j, "hook", hook)
    BY <1>1, <2>1, Shapes
  <2>4. Current(Main)' = Turn(at, j) /\ job'[Main].hook = hook
    BY <2>3 DEF JobIs, Current
  <2>5. EnablesLoaded' /\ PluginsFit'
    BY <1>1, <2>1, <2>2, <2>4 DEF EnablesLoaded, PluginsFit, pluginVars
  <2> QED
    BY <1>7, <2>2, <2>5, SweepMain DEF Manage
<1>8. CASE LoadHookReturns(Main)
  <2>1. /\ job[Main].step = "hook" /\ job[Main].hook = "on_load" /\ Hook(Main, "on_enable")
        /\ UNCHANGED <<state, instance, polling, stray>>
    BY <1>8 DEF LoadHookReturns, Runs
  <2>2. Current(Main)' = p /\ job'[Main].hook = "on_enable"
    BY <1>1, <2>1, Shapes DEF JobIs, Current
  <2>3. EnablesLoaded' /\ PluginsFit'
    BY <1>1, <1>4, <2>1, <2>2 DEF EnablesLoaded, PluginsFit
  <2> QED
    BY <1>3, <1>8, <2>1, <2>3, SweepMain DEF Manage, HookReturns
<1>9. CASE EnableHookReturns(Main)
  <2>1. /\ job[Main].step = "hook" /\ Tell(Main, "told") /\ UNCHANGED <<instance, stray>>
        /\ state' = [state EXCEPT ![p] = "ENABLED"] /\ polling' = polling \cup ({p} \cap Channels)
    BY <1>9 DEF EnableHookReturns, Runs
  <2>2. EnablesLoaded'
    BY <1>1, <1>5, <2>1, Shapes
  <2> HIDE DEF p
  <2>3. PluginsFit'
    BY <1>1, <1>3, <2>1 DEF PluginsFit
  <2> QED
    BY <1>3, <1>9, <2>1, <2>2, <2>3, SweepMain DEF Manage, HookReturns
<1>10. CASE HookRaises(Main) \/ HookTimesOut(Main)
  <2>1. job[Main].step = "hook" /\ HookBreaks(Main)
    BY <1>10 DEF HookRaises, HookTimesOut, MayFail, MayHang, Hooked
  <2>2. /\ state' = [state EXCEPT ![p] = "ERROR"] /\ UNCHANGED instance
        /\ \/ polling' = polling /\ UNCHANGED stray
           \/ polling' \subseteq polling \cup {p} /\ stray' = stray \cup {p}
        /\ Tell(Main, "failed")
    BY <1>2, <1>3, <2>1 DEF HookBreaks
  <2>3. EnablesLoaded'
    BY <1>1, <1>5, <2>2, Shapes
  <2>4. p \notin polling \ stray
    BY <1>1, <1>4, <2>1 DEF PluginsFit
  <2> HIDE DEF p
  <2>5. PluginsFit'
    <3>1. ASSUME NEW q \in instance' PROVE state'[q] \in {"LOADED", "ENABLED", "DISABLED", "ERROR"}
      BY <1>1, <1>3, <2>1, <2>2, <3>1 DEF PluginsFit
    <3>2. ASSUME NEW q \in Plugin, state'[q] = "LOADED" PROVE q \in instance'
      BY <1>1, <1>3, <2>1, <2>2, <3>2 DEF PluginsFit
    <3>3. ASSUME NEW q \in polling' \ stray' PROVE state'[q] = "ENABLED"
      <4>1. q \in polling \ stray /\ q # p
        BY <2>2, <2>4, <3>3
      <4> QED
        BY <1>1, <2>2, <4>1 DEF PluginsFit
    <3> QED
      BY <3>1, <3>2, <3>3 DEF PluginsFit
  <2> QED
    BY <1>3, <1>10, <2>1, <2>3, <2>5, SweepMain DEF Manage
<1>11. CASE Told(Main)
  <2>1. /\ job[Main].step \in {"told", "failed"} /\ Return(Main)
        /\ UNCHANGED <<state, instance, polling, stray>>
    BY <1>3, <1>11 DEF Told
  <2>2. EnablesLoaded'
    BY <1>1, <1>5, <2>1, Shapes
  <2> QED
    BY <1>1, <1>3, <1>11, <2>1, <2>2, SweepMain DEF Manage, PluginsFit
<1>12. CASE McpHook(Main)
  BY <1>12 DEF McpHook, pluginVars, SweepInv, PluginsFit, EnablesLoaded, Swept, Past, Sweeping,
     Op, Current
<1>13. ~ DisableHookReturns(Main) /\ ~ UnloadHookReturns(Main)
  BY <1>3 DEF DisableHookReturns, UnloadHookReturns, Runs
<1>14. ~ Disable(Main) /\ ~ Unload(Main)
  <2>1. ASSUME NEW j \in DOMAIN Order, NEW op \in {"disable", "unload"}, Begins(Main, op, j) PROVE FALSE
    BY <1>1, <1>2, <2>1, BeginsFacts
  <2> QED
    BY <2>1 DEF Disable, Unload
<1> QED
  BY <1>6, <1>7, <1>8, <1>9, <1>10, <1>11, <1>12, <1>13, <1>14 DEF Manage, HookReturns

LEMMA SweepAsideEnds ==
  ASSUME JobInv, JobInv', SweepInv, NEW s \in Stops, SweepEnds(s)
  PROVE  Swept(s)'
<1>1. /\ Sweeping(s) /\ Due(s) = {} /\ JobTypeOK /\ Swept(s) /\ PluginsFit /\ s \in Tasks
      /\ UNCHANGED <<state, instance>> /\ To(s, AfterSweep(s))
  BY TaskFacts DEF SweepEnds, SweepInv, JobInv, pluginVars
<1>2. JobIs(s, AfterSweep(s), 1, "next", job[s].hook) /\ job[s].i \in Nat /\ Len(Order) \in Nat
  BY <1>1, Shapes, TurnFacts DEF JobTypeOK, Job
<1>3. DOMAIN Order = 1 .. Len(Order)
  BY TurnFacts
<1>4. job[s].at \in {"disable", "unload"}
  BY <1>1, WhoSweeps, SweepFacts DEF Sweeping, Op
<1>5. \A k \in DOMAIN Order : job[s].i <= k =>
        state[Turn(job[s].at, k)] \notin Sweeps[job[s].at].found
  BY <1>1, <1>2, <1>3, <1>4, SweepFacts, TurnFacts DEF Due
<1>6. CASE job[s].at = "disable"
  <2>1. \A k \in DOMAIN Order : state[Turn("disable", k)] # "ENABLED"
    BY <1>1, <1>2, <1>3, <1>5, <1>6, SweepFacts DEF Swept
  <2>2. \A p \in Plugin : state[p] # "ENABLED"
    BY <2>1, TurnFacts
  <2>3. AfterSweep(s) = "unload"
    BY <1>6 DEF AfterSweep
  <2> QED
    BY <1>1, <1>2, <1>3, <2>2, <2>3 DEF Swept, Past, AfterUnload, JobIs
<1>7. CASE job[s].at = "unload"
  <2>1. \A p \in Plugin : state[p] # "ENABLED"
    BY <1>1, <1>7 DEF Swept, Past, AfterDisable
  <2>2. \A k \in DOMAIN Order : Turn("unload", k) \notin instance
    <3>1. \A k \in DOMAIN Order : job[s].i <= k => Turn("unload", k) \notin instance
      BY <1>1, <1>5, <1>7, <2>1, SweepFacts, TurnFacts DEF PluginsFit
    <3> QED
      BY <1>1, <1>2, <1>3, <1>7, <3>1 DEF Swept
  <2>3. instance = {}
    <3>1. instance \subseteq Plugin
      BY DEF JobInv, TypeOK
    <3>2. \A p \in Plugin : \E k \in DOMAIN Order : Turn("unload", k) = p
      BY TurnFacts
    <3> QED
      BY <2>2, <3>1, <3>2
  <2>4. AfterSweep(s) \in AfterUnload
    BY <1>7 DEF AfterSweep, AfterUnload
  <2> QED
    BY <1>1, <1>2, <2>1, <2>3, <2>4 DEF Swept, Past, JobIs, AfterUnload
<1> QED
  BY <1>4, <1>6, <1>7

LEMMA SweepAside ==
  ASSUME JobInv, JobInv', SweepInv, Aside
  PROVE  SweepInv'
<1>1. /\ UNCHANGED <<state, instance, stray>> /\ polling' \subseteq polling
      /\ \A t \in Tasks : job'[t] = job[t] \/ (job'[t].step = "next" /\ job'[t].i = 1)
      /\ PluginsFit /\ EnablesLoaded /\ \A s \in Stops : Swept(s)
      /\ JobTypeOK /\ Main \in Tasks /\ Stops \subseteq Tasks
      /\ \A t \in Tasks : StepFits(t)
  BY AsideFacts, TaskFacts DEF SweepInv, JobInv
<1>2. PluginsFit'
  BY <1>1 DEF PluginsFit
<1>3. EnablesLoaded'
  <2>1. CASE job'[Main] = job[Main]
    BY <1>1, <2>1 DEF EnablesLoaded, Sweeping, Op, Current
  <2>2. CASE job'[Main].step = "next"
    BY <2>2 DEF EnablesLoaded
  <2> QED
    BY <1>1, <2>1, <2>2
<1>4. closed' => instance' = {}
  <2>1. closed' = closed \/ \E s \in Stops : job[s].at = "AppStopped"
    BY DEF Aside, Starting, InitSubsystems, StartRouter, StartScheduler, TellStarted, Passes, Rest,
       Stop, Interrupt, Stopping, TellStopping, StopScheduler, StopRouter, TellStopped,
       CloseProviders, CloseDatabase, SweepEnds, CallBegins, Call, CallIsCut
  <2> QED
    BY <1>1, <2>1 DEF SweepInv, Swept, Past, AfterUnload
<1>5. ASSUME NEW s \in Stops, job'[s] = job[s] PROVE Swept(s)'
  BY <1>1, <1>5, SweptStays
<1>6. ASSUME NEW s \in Stops, job'[s].i = 1, job'[s].step = "next",
             job'[s].at = "unload" => job[s].at = "unload" \/ \A p \in Plugin : state[p] # "ENABLED",
             job'[s].at \in AfterUnload => job[s].at \in AfterUnload
      PROVE  Swept(s)'
  <2>1. /\ \A j \in DOMAIN Order : ~ (j < 1)
    BY TurnFacts
  <2>2. job'[s].at \in AfterDisable => \A p \in Plugin : state[p] # "ENABLED"
    BY <1>1, <1>6 DEF Swept, Past, AfterDisable
  <2>3. job'[s].at \in AfterUnload => instance = {}
    BY <1>1, <1>6 DEF Swept, Past
  <2> QED
    BY <1>1, <1>6, <2>1, <2>2, <2>3 DEF Swept, Past
<1>7. ASSUME NEW s \in Stops, job'[s] # job[s], NEW places,
             job'[s].at \in places, places \cap AfterDisable = {}
      PROVE  Swept(s)'
  BY <1>1, <1>6, <1>7 DEF AfterDisable
<1>8. ASSUME NEW s \in Stops, Starting \/ \E c \in Calls : CallBegins(c) \/ Call(c) \/ CallIsCut(c)
      PROVE  Swept(s)'
  <2>1. CASE Starting
    <3>1. PICK at : To(Main, at)
      BY <2>1 DEF Starting, InitSubsystems, StartRouter, StartScheduler, TellStarted, Passes
    <3>2. JobIs(Main, at, 1, "next", job[Main].hook)
      BY <1>1, <3>1, Shapes
    <3>3. job'[s] = job[s]
      BY <1>1, <3>2, TaskFacts DEF JobIs
    <3> QED
      BY <1>5, <3>3
  <2>2. CASE \E c \in Calls : CallBegins(c) \/ Call(c) \/ CallIsCut(c)
    BY <1>5, <2>2 DEF CallBegins, Call, CallIsCut
  <2> QED
    BY <1>8, <2>1, <2>2
<1>9. ASSUME NEW s \in Stops, Stop \/ Interrupt PROVE Swept(s)'
  <2>1. job'[s] = job[s] \/ job'[s].at \in {"AppStopping", "disable", "dead"}
    <3> DEFINE r(u) == StopAs(u, app.started)
               d == [Idle EXCEPT !.at = "dead"]
    <3>1. \/ \E u \in Stops : job' = [job EXCEPT ![u] = r(u)]
          \/ job' = [job EXCEPT ![First] = d, ![Second] = r(Second)]
      BY <1>9, TaskFacts DEF Stop, Interrupt
    <3>2. (\A u \in Stops : r(u).at \in {"AppStopping", "disable"}) /\ d.at = "dead"
      BY StopAsType DEF JobInv, TypeOK
    <3>3. job \in [Tasks -> Job]
      BY DEF JobInv, JobTypeOK
    <3> HIDE DEF r, d
    <3> QED
      BY <1>1, <3>1, <3>2, <3>3, TaskFacts
  <2>2. {"AppStopping", "disable", "dead"} \cap AfterDisable = {}
    BY DEF AfterDisable, AfterUnload
  <2> QED
    BY <1>5, <1>7, <2>1, <2>2
<1>10. ASSUME NEW s \in Stops, NEW t \in Tasks, SweepEnds(t) PROVE Swept(s)'
  <2>1. CASE t = s
    BY <1>10, <2>1, SweepAsideEnds
  <2>2. CASE t # s
    <3>1. JobIs(t, AfterSweep(t), 1, "next", job[t].hook)
      BY <1>1, <1>10, Shapes DEF SweepEnds
    <3>2. job'[s] = job[s]
      BY <1>1, <2>2, <3>1 DEF JobIs
    <3> QED
      BY <1>5, <3>2
  <2> QED
    BY <2>1, <2>2
<1>11. ASSUME NEW s \in Stops, NEW u \in Stops, Stopping(u) PROVE Swept(s)'
  <2>1. PICK at \in StopsAt :
          /\ To(u, at) /\ at # "unload"
          /\ at \in AfterUnload => job[u].at \in AfterUnload
    BY <1>11 DEF Stopping, TellStopping, StopScheduler, StopRouter, TellStopped, CloseProviders,
         CloseDatabase, Passes, StopsAt, Ended, AfterUnload
  <2>2. JobIs(u, at, 1, "next", job[u].hook)
    BY <1>1, <2>1, Shapes
  <2>3. CASE s = u
    BY <1>6, <2>1, <2>2, <2>3 DEF JobIs
  <2>4. CASE s # u
    BY <1>1, <1>5, <2>2, <2>4 DEF JobIs
  <2> QED
    BY <2>3, <2>4
<1>12. \A s \in Stops : Swept(s)'
  BY <1>8, <1>9, <1>10, <1>11 DEF Aside
<1> QED
  BY <1>2, <1>3, <1>4, <1>12 DEF SweepInv

LEMMA SweepNext == JobInv /\ SweepInv /\ [Next]_vars => SweepInv'
<1> SUFFICES ASSUME JobInv, SweepInv, [Next]_vars PROVE SweepInv'
  OBVIOUS
<1>1. JobInv'
  BY JobNext
<1>2. CASE UNCHANGED vars
  BY <1>2 DEF vars, pluginVars, SweepInv, PluginsFit, EnablesLoaded, Swept, Past, Sweeping, Op, Current
<1>3. ASSUME NEW s \in Stops, Manage(s) PROVE SweepInv'
  <2>1. CASE Disable(s) \/ Unload(s)
    BY <1>1, <2>1, SweepBegins
  <2>2. CASE HookReturns(s) \/ HookRaises(s) \/ HookTimesOut(s) \/ Told(s)
    <3>1. job[s].step # "next"
      BY <2>2 DEF HookReturns, LoadHookReturns, EnableHookReturns, DisableHookReturns,
         UnloadHookReturns, Runs, HookRaises, HookTimesOut, MayFail, MayHang, Hooked, Told
    <3> QED
      BY <1>1, <2>2, <3>1, SweepEndings
  <2>3. CASE McpHook(s)
    BY <2>3 DEF McpHook, pluginVars, SweepInv, PluginsFit, EnablesLoaded, Swept, Past, Sweeping,
       Op, Current
  <2>4. ~ Load(s) /\ ~ Enable(s)
    <3>1. ASSUME NEW j \in DOMAIN Order, NEW op \in {"load", "enable"}, Begins(s, op, j) PROVE FALSE
      BY <3>1, BeginsFacts, WhoSweeps, TaskFacts DEF JobInv
    <3> QED
      BY <3>1 DEF Load, Enable
  <2> QED
    BY <1>3, <2>1, <2>2, <2>3, <2>4 DEF Manage
<1> QED
  BY <1>1, <1>2, <1>3, SweepAside, SweepMainManage, NextIs, TaskFacts

----------------------------------------------------------------------------
(* The parts that stop() takes down: the proof *)

LEMMA DownInit == Init => DownInv
  BY TaskFacts DEF Init, DownInv, TakenDown, Past, AfterScheduler, AfterRuns, AfterDisable, AfterUnload, Idle

LEMMA DownKept ==
  ASSUME DownInv, \A t \in Tasks : job'[t].at = job[t].at /\ job'[t].full = job[t].full, UNCHANGED app
  PROVE  DownInv'
  BY TaskFacts DEF DownInv, TakenDown, Past

LEMMA DownStarting ==
  ASSUME JobInv, DownInv, Starting
  PROVE  DownInv'
<1>1. PICK at : To(Main, at)
  BY DEF Starting, InitSubsystems, StartRouter, StartScheduler, TellStarted, Passes
<1>2. job[Main].at \in {"subsystems", "router", "scheduler", "AppStarted"}
  BY DEF Starting, InitSubsystems, StartRouter, StartScheduler, TellStarted, Passes
<1>3. JobIs(Main, at, 1, "next", job[Main].hook) /\ \A s \in Stops : job[s].at = "none"
  BY <1>1, <1>2, Shapes, TaskFacts, StopFollows DEF JobInv, MainIsDone
<1>4. /\ \A s \in Stops : job'[s].at = "none"
      /\ job'[Main].at = at
  BY <1>3, TaskFacts DEF JobIs
<1>5. \A s \in Stops : TakenDown(s)'
  BY <1>4 DEF TakenDown, Past, AfterScheduler, AfterRuns, AfterDisable, AfterUnload
<1>6. app \in AppType
  BY DEF JobInv, TypeOK, AppType
<1>7. app.router = "down" \/ job[Main].at \in {"scheduler", "AppStarted"}
  BY <1>2 DEF DownInv
<1>8. app'.router # "down" => at \in {"scheduler", "AppStarted", "up", "failed"}
  <2>1. job'[Main] = [job[Main] EXCEPT !.at = at, !.i = 1, !.step = "next"]
    BY <1>1, TaskFacts DEF To, JobInv, JobTypeOK
  <2>2. CASE InitSubsystems
    BY <1>6, <1>7, <2>2 DEF InitSubsystems, Passes, AppType
  <2>3. CASE StartRouter \/ StartScheduler \/ TellStarted
    <3>1. PICK to \in {"scheduler", "AppStarted", "up", "failed"} : To(Main, to)
      BY <2>3 DEF StartRouter, StartScheduler, TellStarted, Passes
    <3>2. JobIs(Main, to, 1, "next", job[Main].hook)
      BY <3>1, Shapes, TaskFacts DEF JobInv
    <3> QED
      BY <1>3, <3>2 DEF JobIs
  <2> QED
    BY <2>2, <2>3 DEF Starting
<1>9. app'.scheduler # "stopping"
  <2>1. app.scheduler # "stopping"
    BY <1>3 DEF DownInv
  <2> QED
    BY <1>6, <2>1 DEF Starting, InitSubsystems, StartRouter, StartScheduler, TellStarted, AppType
<1> QED
  BY <1>4, <1>5, <1>8, <1>9, TaskFacts DEF DownInv

LEMMA DownStop ==
  ASSUME JobInv, DownInv, Stop
  PROVE  DownInv'
<1> DEFINE r == StopAs(First, app.started)
<1>1. /\ job' = [job EXCEPT ![First] = r] /\ job[First].at = "none"
      /\ UNCHANGED app
  BY DEF Stop
<1>2. r.at \in {"AppStopping", "disable"} /\ (r.full => r.at = "AppStopping")
  BY StopAsType DEF JobInv, TypeOK
<1>3. job \in [Tasks -> Job] /\ job[Second].at = "none"
  BY <1>1 DEF JobInv, JobTypeOK, OneAfterAnother
<1> HIDE DEF r
<1>4. /\ job'[First] = r /\ job'[Second] = job[Second] /\ job'[Main] = job[Main]
  BY <1>1, <1>3, TaskFacts
<1>5. TakenDown(First)'
  BY <1>2, <1>4 DEF TakenDown, Past, AfterScheduler, AfterRuns, AfterDisable, AfterUnload
<1>6. TakenDown(Second)'
  BY <1>1, <1>3, <1>4 DEF TakenDown, Past, AfterScheduler, AfterRuns, AfterDisable, AfterUnload
<1>7. app.scheduler # "stopping"
  BY <1>1, <1>3 DEF DownInv, Stops
<1> QED
  BY <1>1, <1>3, <1>4, <1>5, <1>6, <1>7 DEF DownInv, Stops

LEMMA DownInterrupt ==
  ASSUME JobInv, DownInv, Interrupt
  PROVE  DownInv'
<1> DEFINE r == StopAs(Second, app.started)
           d == [Idle EXCEPT !.at = "dead"]
<1>1. /\ job[Second].at = "none" /\ job[First].at # "none"
      /\ \/ job' = [job EXCEPT ![First] = d, ![Second] = r]
         \/ job' = [job EXCEPT ![Second] = r] /\ Sweeping(First) /\ Runs(First, "on_disable")
      /\ app' = [app EXCEPT !.scheduler = IF @ = "stopping" THEN "down" ELSE @]
  BY DEF Interrupt
<1>2. /\ r.at \in {"AppStopping", "disable"} /\ (r.full => r.at = "AppStopping")
      /\ d.at = "dead"
  BY StopAsType DEF JobInv, TypeOK
<1>3. job \in [Tasks -> Job] /\ app \in AppType
  BY DEF JobInv, JobTypeOK, TypeOK, AppType
<1> HIDE DEF r, d
<1>4. /\ job'[Second] = r /\ job'[Main] = job[Main]
      /\ job'[First] = d \/ (job'[First] = job[First] /\ Sweeping(First) /\ Runs(First, "on_disable"))
  BY <1>1, <1>3, TaskFacts
<1>5. Sweeping(First) /\ Runs(First, "on_disable") => job[First].at = "disable"
  BY CurrentFacts, TaskFacts DEF JobInv, Runs
<1>6. Past(First, AfterRuns \cup {"raised", "dead"})'
  BY <1>2, <1>4, <1>5 DEF Past, AfterRuns
<1>7. /\ app'.router = app.router /\ app'.providers = app.providers /\ app'.db = app.db
      /\ app'.scheduler # "stopping" /\ (app.scheduler = "down" => app'.scheduler = "down")
  BY <1>1, <1>3 DEF AppType
<1>8. TakenDown(Second)'
  BY <1>2, <1>4 DEF TakenDown, Past, AfterScheduler, AfterRuns, AfterDisable, AfterUnload
<1>9. TakenDown(First)'
  <2>1. CASE job'[First] = d
    BY <1>2, <2>1 DEF TakenDown, Past, AfterScheduler, AfterRuns, AfterDisable, AfterUnload
  <2>2. CASE job'[First] = job[First]
    BY <1>7, <2>2, TaskFacts DEF DownInv, TakenDown, Past
  <2> QED
    BY <1>4, <2>1, <2>2
<1> QED
  BY <1>4, <1>6, <1>7, <1>8, <1>9 DEF DownInv, Stops

LEMMA DownSweepEnds ==
  ASSUME JobInv, DownInv, NEW t \in Tasks, SweepEnds(t)
  PROVE  DownInv'
<1>1. /\ Sweeping(t) /\ JobIs(t, AfterSweep(t), 1, "next", job[t].hook) /\ app \in AppType
      /\ app' = [app EXCEPT !.started = @ /\ AfterSweep(t) # "AppStopped"]
  BY Shapes DEF SweepEnds, JobInv, TypeOK, AppType
<1>2. /\ app'.router = app.router /\ app'.scheduler = app.scheduler
      /\ app'.providers = app.providers /\ app'.db = app.db
  BY <1>1 DEF AppType
<1>3. CASE t = Main
  <2>1. app.router = "down"
    BY <1>1, <1>3, SweepFacts DEF DownInv, Sweeping
  <2> QED
    BY <1>1, <1>2, <1>3, <2>1, TaskFacts DEF DownInv, TakenDown, Past, JobIs
<1>4. CASE t \in Stops
  <2>1. \/ job[t].at = "disable" /\ AfterSweep(t) = "unload"
        \/ job[t].at = "unload" /\ AfterSweep(t) \in {"AppStopped", "providers"}
    BY <1>1, <1>4, WhoSweeps, SweepFacts DEF Sweeping, Op, AfterSweep
  <2>2. /\ job'[t].at \in AfterDisable /\ job[t].at \in AfterRuns /\ job[t].at # "fires"
        /\ job'[t].at \notin {"db", "returned"} /\ job'[t].full = job[t].full
        /\ \A u \in Tasks \ {t} : job'[u] = job[u]
    BY <1>1, <2>1 DEF JobIs, AfterDisable, AfterRuns, AfterUnload
  <2>3. TakenDown(t)'
    BY <1>2, <1>4, <2>2 DEF DownInv, TakenDown, Past, AfterScheduler, AfterRuns
  <2>4. \A s \in Stops \ {t} : TakenDown(s)'
    BY <1>2, <2>2, TaskFacts DEF DownInv, TakenDown, Past
  <2>5. job'[Second].at # "none" => Past(First, AfterRuns \cup {"raised", "dead"})'
    <3>1. CASE t = First
      BY <2>2, <3>1 DEF Past, AfterRuns
    <3>2. CASE t = Second
      <4>1. job[Second].at # "none" /\ job'[First] = job[First]
        BY <2>1, <2>2, <3>2, TaskFacts
      <4> QED
        BY <4>1 DEF DownInv, Past
    <3> QED
      BY <1>4, <3>1, <3>2 DEF Stops
  <2>6. job'[Main] = job[Main]
    BY <1>4, <2>2, TaskFacts
  <2>7. app'.scheduler = "stopping" => \E s \in Stops : job'[s].at = "fires"
    BY <1>2, <2>2, TaskFacts DEF DownInv
  <2> QED
    BY <1>2, <2>3, <2>4, <2>5, <2>6, <2>7 DEF DownInv
<1> QED
  BY <1>3, <1>4, TaskFacts

LEMMA DownStopping ==
  ASSUME JobInv, DownInv, NEW s \in Stops, Stopping(s)
  PROVE  DownInv'
<1>1. app \in AppType /\ JobTypeOK /\ s \in Tasks
  BY TaskFacts DEF JobInv, TypeOK, AppType
<1>2. PICK from, to :
        /\ job[s].at = from /\ To(s, to)
        /\ \/ from = "AppStopping" /\ to \in {"raised", "scheduler"} /\ UNCHANGED app
           \/ from = "scheduler" /\ to = "fires" /\ app.scheduler = "up"
              /\ app' = [app EXCEPT !.scheduler = "stopping"]
           \/ from = "scheduler" /\ to = "router" /\ app.scheduler # "up" /\ UNCHANGED app
           \/ from = "fires" /\ to = "router" /\ app' = [app EXCEPT !.scheduler = "down"]
           \/ from = "router" /\ to = "runs"
              /\ app' = [app EXCEPT !.router = IF @ = "down" THEN @ ELSE "stopping"]
           \/ from = "runs" /\ to = "disable" /\ app' = [app EXCEPT !.router = "down"]
           \/ from = "AppStopped" /\ to \in {"raised", "providers"} /\ UNCHANGED app
           \/ from = "providers" /\ to = "db"
              /\ app' = [app EXCEPT !.providers = IF @ = "open" THEN "closed" ELSE @]
           \/ from = "providers" /\ to = "raised" /\ UNCHANGED app
           \/ from = "db" /\ to = "returned"
              /\ app' = [app EXCEPT !.db = IF @ = "open" THEN "closed" ELSE @]
           \/ from = "db" /\ to = "raised" /\ UNCHANGED app
  BY DEF Stopping, TellStopping, StopScheduler, StopRouter, TellStopped, CloseProviders,
     CloseDatabase, Passes
<1>3. /\ job'[s].at = to /\ job'[s].full = job[s].full /\ \A u \in Tasks \ {s} : job'[u] = job[u]
  BY <1>1, <1>2, Shapes DEF JobIs
<1>4. job'[Main] = job[Main] /\ job[Main].at \in {"up", "failed"}
  <2>1. from # "none"
    BY <1>2
  <2> QED
    BY <1>2, <1>3, <2>1, StopFollows, TaskFacts DEF JobInv, MainIsDone
<1> USE DEF AfterScheduler, AfterRuns, AfterDisable, AfterUnload
(* The other stop() has passed the router, or has not begun.               *)
<1>5. ASSUME from \notin AfterRuns, NEW u \in Stops, u # s
      PROVE  job[u].at \in AfterRuns \cup {"raised", "dead", "none"}
  <2>1. job[Second].at # "none" => job[First].at \in AfterRuns \cup {"raised", "dead"}
    BY DEF DownInv, Past
  <2>2. from \notin {"raised", "dead", "none"}
    BY <1>2
  <2> QED
    BY <1>2, <1>5, <2>1, <2>2 DEF Stops
<1>6. job'[Second].at # "none" => Past(First, AfterRuns \cup {"raised", "dead"})'
  <2>1. job'[Second].at # "none" <=> job[Second].at # "none"
    BY <1>2, <1>3, TaskFacts
  <2>2. job[First].at \in AfterRuns \cup {"raised", "dead"} =>
          job'[First].at \in AfterRuns \cup {"raised", "dead"}
    BY <1>2, <1>3, TaskFacts
  <2> QED
    BY <2>1, <2>2 DEF DownInv, Past
<1>7. from = "scheduler" => app.scheduler # "stopping"
  BY <1>2, <1>5 DEF DownInv
<1>8. app'.scheduler = "stopping" => \E u \in Stops : job'[u].at = "fires"
  <2>1. CASE from = "scheduler" /\ to = "fires"
    BY <1>3, <2>1
  <2>2. CASE from = "fires"
    BY <1>1, <1>2, <2>2 DEF AppType
  <2>3. CASE from # "fires" /\ to # "fires"
    <3>1. app'.scheduler = app.scheduler
      BY <1>1, <1>2, <2>3 DEF AppType
    <3> QED
      BY <1>2, <1>3, <2>3, <3>1, TaskFacts DEF DownInv
  <2> QED
    BY <1>2, <2>1, <2>2, <2>3
<1>9. /\ app.scheduler = "down" => app'.scheduler = "down"
      /\ app.router = "down" => app'.router = "down"
      /\ app.providers # "open" => app'.providers # "open"
      /\ app.db # "open" => app'.db # "open"
  BY <1>1, <1>2 DEF AppType
<1>10. \A u \in Stops \ {s} : TakenDown(u)'
  BY <1>3, <1>9, TaskFacts DEF DownInv, TakenDown, Past
<1>11. TakenDown(s)'
  <2>1. TakenDown(s)
    BY DEF DownInv
  <2>2. to = "db" => app'.providers # "open"
    BY <1>1, <1>2 DEF AppType
  <2>3. to = "returned" => app'.db # "open" /\ app'.providers # "open"
    BY <1>1, <1>2, <2>1 DEF AppType, TakenDown
  <2>4. job[s].full /\ to \in AfterScheduler => app'.scheduler = "down"
    <3>1. CASE from = "scheduler" /\ to = "router"
      BY <1>1, <1>2, <1>7, <3>1 DEF AppType
    <3>2. CASE from = "fires"
      BY <1>1, <1>2, <3>2 DEF AppType
    <3>3. CASE from \in AfterScheduler
      BY <1>2, <1>9, <2>1, <3>3 DEF TakenDown, Past
    <3> QED
      BY <1>2, <3>1, <3>2, <3>3
  <2>5. job[s].full /\ to \in AfterRuns => app'.router = "down"
    <3>1. CASE from = "runs"
      BY <1>1, <1>2, <3>1 DEF AppType
    <3>2. CASE from \in AfterRuns
      BY <1>2, <1>9, <2>1, <3>2 DEF TakenDown, Past
    <3> QED
      BY <1>2, <3>1, <3>2
  <2> QED
    BY <1>3, <2>2, <2>3, <2>4, <2>5 DEF TakenDown, Past
<1> QED
  BY <1>4, <1>6, <1>8, <1>10, <1>11 DEF DownInv

LEMMA DownNext == JobInv /\ DownInv /\ [Next]_vars => DownInv'
<1> SUFFICES ASSUME JobInv, DownInv, [Next]_vars PROVE DownInv'
  OBVIOUS
<1>1. CASE UNCHANGED vars
  BY <1>1, DownKept DEF vars
<1>2. ASSUME NEW t \in Tasks, Manage(t), UNCHANGED app PROVE DownInv'
  BY <1>2, ManageStays, DownKept DEF Stays
<1>3. ASSUME NEW c \in Calls, CallBegins(c) \/ Call(c) \/ CallIsCut(c) PROVE DownInv'
  BY <1>3, DownKept DEF CallBegins, Call, CallIsCut
<1> QED
  BY <1>1, <1>2, <1>3, DownStarting, DownStop, DownInterrupt, DownSweepEnds, DownStopping DEF Next

----------------------------------------------------------------------------
(* Who is at the connection: the proof *)

LinkStep(a) ==
  \/ Opens(a) \/ OpenFails(a) \/ Initializes(a) \/ InitializeFails(a) \/ PauseEnds(a)
  \/ SessionClosed(a) \/ TransportClosed(a)

LEMMA DoingFacts ==
  ASSUME JobInv
  PROVE  /\ doing \in [Users -> Doing] /\ \A a \in Users : Fits(doing[a])
         /\ Tasks \subseteq Users /\ Calls \subseteq Users /\ Calls \cap Tasks = {}
         /\ link \in Link /\ kept \subseteq Transports /\ parted \in BOOLEAN
  BY TaskFacts DEF JobInv, TypeOK, McpTypeOK, TriesFit, Doing, Link

(* A step at the connection, from one place of its task to the next.       *)
Steps1(a, from, to, then) ==
  doing[a].pc = from /\ doing'[a].pc = to /\ doing'[a].then = then

SameTie == link'.connected = link.connected /\ link'.known = link.known

LEMMA LinkStepIs ==
  ASSUME JobInv, NEW a \in Users, LinkStep(a)
  PROVE  /\ \A b \in Users \ {a} : doing'[b] = doing[b]
         /\ UNCHANGED parted
         /\ \/ /\ Steps1(a, "opening", "initializing", doing[a].then)
               /\ SameTie /\ link'.cm = link.cm /\ Own(a)' = Own(a)
               /\ kept' = IF parted \/ link.cm # Own(a) THEN kept ELSE kept \cup {Own(a)}
            \/ /\ \/ Steps1(a, "opening", "pausing", doing[a].then) /\ a \in Calls
                  \/ Steps1(a, "opening", "over", "none")
               /\ UNCHANGED <<link, kept>>
            \/ /\ Steps1(a, "initializing", IF a \in Calls THEN "again" ELSE "listing", doing[a].then)
               /\ link'.connected /\ link'.known = (link.known \/ a \in Tasks)
               /\ link'.cm = link.cm /\ UNCHANGED kept
            \/ /\ Steps1(a, "initializing", "closing", NextTry(a))
               /\ UNCHANGED <<link, kept>>
            \/ /\ Steps1(a, "pausing", "opening", doing[a].then)
               /\ SameTie /\ kept' = kept \ {link.cm}
            \/ /\ Steps1(a, "closing", doing[a].then, "none") /\ link.cm = NoTransport
               /\ SameTie /\ UNCHANGED kept
            \/ /\ Steps1(a, "closing", "hanging up", doing[a].then)
               /\ doing'[a].held = link.cm /\ link.cm \in Transports
               /\ SameTie /\ link'.cm = link.cm /\ UNCHANGED kept
            \/ /\ Steps1(a, "hanging up", doing[a].then, "none")
               /\ SameTie /\ kept' = kept \ {doing[a].held, link.cm}
<1> DEFINE d == doing[a]
           Others == \A b \in Users \ {a} : doing'[b] = doing[b]
<1>1. d \in Doing /\ Fits(d) /\ doing \in [Users -> Doing] /\ link \in Link
  BY DoingFacts
<1>2. /\ At(a, "over").pc = "over" /\ At(a, "over").then = "none"
      /\ \A pc \in Active : At(a, pc) = [d EXCEPT !.pc = pc]
      /\ {"opening", "initializing", "pausing", "again", "listing"} \subseteq Active
  BY <1>1 DEF At, NotYet, Active, Busy, Doing
<1>3. \A pc \in Active : At(a, pc).pc = pc /\ At(a, pc).then = d.then /\ At(a, pc).tries = d.tries
  BY <1>1, <1>2 DEF Doing
<1>4. ASSUME NEW e, doing' = [doing EXCEPT ![a] = e] PROVE Others /\ doing'[a] = e
  BY <1>1, <1>4
<1>5. ASSUME NEW e, doing' = [doing EXCEPT ![a] = e], e.pc = d.then, e.then = "none",
             d.pc \in {"closing", "hanging up"}
      PROVE  Steps1(a, d.pc, d.then, "none") /\ Others
  BY <1>4, <1>5 DEF Steps1
<1>6. ASSUME d.pc \in {"closing", "hanging up"}, Follows(a)
      PROVE  Steps1(a, d.pc, d.then, "none") /\ Others
  <2> DEFINE e == [At(a, d.then) EXCEPT !.held = NoTransport, !.then = "none"]
  <2>1. d.then \in {"opening", "pausing", "over"}
    BY <1>1, <1>6 DEF Fits, Doing
  <2>5. At(a, d.then) \in Doing
    BY <2>1, AtFits DEF JobInv, TypeOK, McpInv
  <2>6. At(a, d.then).pc = d.then
    BY <1>2, <1>3, <2>1
  <2>2. At(a, d.then) \in Doing /\ At(a, d.then).pc = d.then
    BY <2>5, <2>6
  <2>3. e.pc = d.then /\ e.then = "none"
    BY <2>2 DEF Doing
  <2>4. doing' = [doing EXCEPT ![a] = e]
    BY <1>6 DEF Follows
  <2> HIDE DEF e
  <2> QED
    BY <1>5, <1>6, <2>3, <2>4
<1>7. CASE Opens(a)
  <2>1. doing'[a] = [d EXCEPT !.pc = "initializing"] /\ Others
    BY <1>2, <1>4, <1>7 DEF Opens, Goes
  <2>2. doing'[a].pc = "initializing" /\ doing'[a].then = d.then /\ doing'[a].tries = d.tries
    BY <1>1, <2>1 DEF Doing
  <2>3. SameTie /\ link'.cm = link.cm
    BY <1>1, <1>7 DEF Opens, SameTie, Link
  <2> QED
    BY <1>7, <2>1, <2>2, <2>3 DEF Opens, Steps1, Own
<1>8. CASE OpenFails(a)
  <2>1. d.pc = "opening" /\ UNCHANGED <<link, kept, parted>>
    BY <1>8 DEF OpenFails
  <2> DEFINE pc == NextTry(a)
             e == [At(a, pc) EXCEPT !.tries = IF pc = "over" THEN 0 ELSE @ + 1]
  <2>2. doing' = [doing EXCEPT ![a] = e]
    BY <1>8 DEF OpenFails, Trying
  <2>3. pc \in {"pausing", "over"} /\ (pc = "pausing" => a \in Calls)
    BY DEF NextTry
  <2>4. At(a, pc) \in Doing
    BY <1>1, <2>1, <2>3, AtFits DEF Fits, JobInv, TypeOK, McpInv
  <2>5. e.pc = At(a, pc).pc /\ e.then = At(a, pc).then
    BY <2>4 DEF Doing
  <2>6. e.pc = pc /\ e.then = IF pc = "over" THEN "none" ELSE d.then
    BY <1>2, <1>3, <2>3, <2>5
  <2> HIDE DEF e
  <2>7. Others /\ doing'[a] = e
    BY <1>4, <2>2
  <2> QED
    BY <2>1, <2>3, <2>6, <2>7 DEF Steps1
<1>9. CASE Initializes(a)
  <2> DEFINE to == IF a \in Calls THEN "again" ELSE "listing"
  <2>1. doing' = [doing EXCEPT ![a] = At(a, to)] /\ d.pc = "initializing"
    BY <1>9 DEF Initializes, Goes
  <2>4. Others /\ doing'[a] = At(a, to)
    BY <1>4, <2>1
  <2>5. to \in Active
    BY <1>2
  <2> HIDE DEF to, Others
  <2>2. Others /\ doing'[a].pc = to /\ doing'[a].then = d.then
    BY <1>3, <2>4, <2>5
  <2>3. link'.connected /\ link'.known = (link.known \/ a \in Tasks) /\ link'.cm = link.cm
    BY <1>1, <1>9 DEF Initializes, Link
  <2> QED
    BY <1>9, <2>1, <2>2, <2>3 DEF Initializes, Steps1, to, Others
<1>10. CASE InitializeFails(a)
  <2> DEFINE e == [d EXCEPT !.pc = "closing", !.then = NextTry(a), !.tries = d.tries + 1]
  <2>1. doing' = [doing EXCEPT ![a] = e]
    BY <1>1, <1>10 DEF InitializeFails, AfterFailure
  <2>2. e.pc = "closing" /\ e.then = NextTry(a)
    BY <1>1 DEF Doing
  <2> HIDE DEF e
  <2> QED
    BY <1>4, <1>10, <2>1, <2>2 DEF InitializeFails, Steps1
<1>11. CASE PauseEnds(a)
  <2>1. doing' = [doing EXCEPT ![a] = At(a, "opening")] /\ d.pc = "pausing"
    BY <1>11 DEF PauseEnds, Goes
  <2>4. Others /\ doing'[a] = At(a, "opening")
    BY <1>4, <2>1
  <2>5. At(a, "opening").pc = "opening" /\ At(a, "opening").then = d.then
    BY <1>2, <1>3
  <2>2. Others /\ doing'[a].pc = "opening" /\ doing'[a].then = d.then
    BY <2>4, <2>5
  <2>3. SameTie
    BY <1>1, <1>11 DEF PauseEnds, SameTie, Link
  <2> QED
    BY <1>11, <2>1, <2>2, <2>3 DEF PauseEnds, Steps1, Loses
<1>12. CASE SessionClosed(a)
  <2>1. d.pc = "closing" /\ UNCHANGED <<kept, parted>> /\ SameTie
    BY <1>1, <1>12 DEF SessionClosed, SameTie, Link
  <2>2. CASE link.cm = NoTransport
    BY <1>6, <1>12, <2>1, <2>2 DEF SessionClosed
  <2>3. CASE link.cm # NoTransport
    <3> DEFINE e == [d EXCEPT !.pc = "hanging up", !.held = link.cm]
    <3>1. doing' = [doing EXCEPT ![a] = e] /\ link'.cm = link.cm /\ link.cm \in Transports
      BY <1>1, <1>12, <2>3 DEF SessionClosed, Link
    <3>2. e.pc = "hanging up" /\ e.then = d.then /\ e.held = link.cm
      BY <1>1 DEF Doing
    <3> HIDE DEF e
    <3> QED
      BY <1>4, <2>1, <3>1, <3>2 DEF Steps1
  <2> QED
    BY <2>2, <2>3
<1>13. CASE TransportClosed(a)
  <2>1. d.pc = "hanging up" /\ SameTie /\ kept' = kept \ {d.held, link.cm} /\ UNCHANGED parted
    BY <1>1, <1>13 DEF TransportClosed, SameTie, Link, Loses
  <2> QED
    BY <1>6, <1>13, <2>1 DEF TransportClosed
<1> QED
  BY <1>7, <1>8, <1>9, <1>10, <1>11, <1>12, <1>13 DEF LinkStep

(* Where a task at the connection goes.                                    *)
LEMMA LinkStepFacts ==
  ASSUME JobInv, NEW a \in Users, LinkStep(a)
  PROVE  /\ doing[a].pc \in Active /\ doing'[a].pc # "none"
         /\ doing[a].pc \in {"closing", "hanging up"} /\ doing[a].then = "over" =>
              doing'[a].pc \in {"hanging up", "over"}
         /\ a \notin Calls /\ doing[a].then \in {"none", "over"} =>
              /\ doing'[a].then \in {"none", "over"}
              /\ doing'[a].pc \in {"opening", "pausing"} => doing[a].pc = "pausing"
<1>1. /\ NextTry(a) \in {"pausing", "over"} /\ (NextTry(a) = "pausing" => a \in Calls)
      /\ {"opening", "initializing", "closing", "hanging up", "pausing"} \subseteq Active
  BY DEF NextTry, Active, Busy
<1>2. doing[a].pc \in {"closing", "hanging up"} => doing[a].then \in {"opening", "pausing", "over"}
  BY DoingFacts DEF Fits, Doing
<1> QED
  BY <1>1, <1>2, LinkStepIs DEF Steps1

LEMMA Elsewhere ==
  ASSUME JobInv, NEW t \in Tasks, TaskUse(t),
         ~ OfMcp(t) \/ job[t].hook \notin {"on_load", "on_unload"} \/ doing[t].pc = "none"
  PROVE  doing[t] = NotYet
<1>1. doing[t].pc = "none" /\ Fits(doing[t])
  BY DoingFacts DEF TaskUse
<1> QED
  BY <1>1 DEF Fits

LEMMA UseKept ==
  ASSUME NEW t \in Tasks, TaskUse(t),
         doing'[t] = NotYet \/ (doing'[t] = doing[t] /\ job'[t] = job[t])
  PROVE  TaskUse(t)'
<1>1. NotYet.pc = "none" /\ NotYet.then = "none"
  BY DEF NotYet
<1>2. CASE doing'[t] = NotYet
  BY <1>1, <1>2 DEF TaskUse
<1>3. CASE doing'[t] = doing[t] /\ job'[t] = job[t]
  <2>1. OfMcp(t)' = OfMcp(t)
    BY <1>3 DEF OfMcp, Hooked, Current
  <2> QED
    BY <1>3, <2>1 DEF TaskUse
<1> QED
  BY <1>2, <1>3

(* What an operation of PluginManager does to who is at the connection.    *)
LEMMA ManageLeaves ==
  ASSUME JobInv, NEW t \in Tasks, TaskUse(t), Manage(t), ~ McpHook(t)
  PROVE  /\ doing'[t] = NotYet /\ \A a \in Users \ {t} : doing'[a] = doing[a]
         /\ \A u \in Tasks \ {t} : job'[u] = job[u]
<1>1. doing \in [Users -> Doing] /\ t \in Users
  BY DoingFacts
<1>2. \A u \in Tasks \ {t} : job'[u] = job[u]
  BY ManageStays DEF Stays
<1>3. ASSUME doing' = doing, doing[t] = NotYet
      PROVE  doing'[t] = NotYet /\ \A a \in Users \ {t} : doing'[a] = doing[a]
  BY <1>1, <1>3
<1>4. ASSUME doing' = [doing EXCEPT ![t] = NotYet]
      PROVE  doing'[t] = NotYet /\ \A a \in Users \ {t} : doing'[a] = doing[a]
  BY <1>1, <1>4
<1>5. CASE Load(t) \/ Enable(t) \/ Disable(t) \/ Unload(t) \/ Told(t)
  <2>1. job[t].step # "hook" /\ doing' = doing
    BY <1>5 DEF Load, Enable, Disable, Unload, Told, Begins, mcpVars
  <2> QED
    BY <1>2, <1>3, <2>1, Elsewhere DEF OfMcp, Hooked
<1>6. CASE LoadHookReturns(t) \/ UnloadHookReturns(t)
  BY <1>2, <1>4, <1>6 DEF LoadHookReturns, UnloadHookReturns
<1>7. CASE EnableHookReturns(t) \/ DisableHookReturns(t)
  <2>1. job[t].hook \notin {"on_load", "on_unload"} /\ doing' = doing
    BY <1>7 DEF EnableHookReturns, DisableHookReturns, Runs, mcpVars
  <2> QED
    BY <1>2, <1>3, <2>1, Elsewhere
<1>8. CASE HookRaises(t)
  <2>1. doing' = doing /\ (OfMcp(t) => doing[t].pc = "none")
    BY <1>8 DEF HookRaises, MayFail, OfMcp, mcpVars
  <2> QED
    BY <1>2, <1>3, <2>1, Elsewhere
<1>9. CASE HookTimesOut(t)
  BY <1>2, <1>4, <1>9 DEF HookTimesOut
<1> QED
  BY <1>5, <1>6, <1>7, <1>8, <1>9 DEF Manage, HookReturns

(* A hook of MCP moves its task only.                                      *)
LEMMA McpHookIs ==
  ASSUME JobInv, NEW t \in Tasks, TaskUse(t), McpHook(t)
  PROVE  /\ UNCHANGED <<pluginVars, closed, job>>
         /\ OfMcp(t) /\ \A a \in Users \ {t} : doing'[a] = doing[a]
         /\ doing'[t].pc # "none" /\ doing'[t].then \in {"none", "over"}
         /\ \/ job[t].hook = "on_load"
            \/ job[t].hook = "on_unload" /\ doing'[t].pc \in {"closing", "hanging up", "over"}
<1>1. doing \in [Users -> Doing] /\ t \in Users /\ t \notin Calls /\ doing[t].then \in {"none", "over"}
  BY DoingFacts DEF TaskUse
<1>2. /\ At(t, "over").pc = "over" /\ At(t, "over").then = "none"
      /\ At(t, "opening").pc = "opening" /\ At(t, "opening").then = doing[t].then
  BY <1>1 DEF At, NotYet, Doing
<1>3. CASE McpConnects(t)
  <2>1. PICK pc \in {"opening", "over"} : doing' = [doing EXCEPT ![t] = At(t, pc)]
    BY <1>3 DEF McpConnects, Goes
  <2>2. doing'[t].pc \in {"opening", "over"} /\ doing'[t].then \in {"none", "over"}
    BY <1>1, <1>2, <2>1
  <2>3. OfMcp(t) /\ job[t].hook = "on_load"
    BY <1>3 DEF McpConnects, Runs
  <2>4. \A a \in Users \ {t} : doing'[a] = doing[a]
    BY <1>1, <2>1
  <2> QED
    BY <1>3, <2>2, <2>3, <2>4 DEF McpHook
<1>4. CASE McpDisconnects(t)
  <2>1. OfMcp(t) /\ job[t].hook = "on_unload"
    BY <1>4 DEF McpDisconnects, Runs
  <2>2. CASE link.connected
    <3>1. doing' = [doing EXCEPT ![t] = [doing[t] EXCEPT !.pc = "closing", !.then = "over"]]
      BY <1>1, <1>4, <2>2 DEF McpDisconnects, Disconnects
    <3>2. doing'[t].pc = "closing" /\ doing'[t].then = "over"
      BY <1>1, <3>1 DEF Doing
    <3>3. \A a \in Users \ {t} : doing'[a] = doing[a]
      BY <1>1, <3>1
    <3> QED
      BY <1>4, <2>1, <3>2, <3>3 DEF McpHook
  <2>3. CASE ~ link.connected
    <3>1. doing' = [doing EXCEPT ![t] = At(t, "over")]
      BY <1>4, <2>3 DEF McpDisconnects, Disconnects, Goes
    <3>2. doing'[t].pc = "over" /\ doing'[t].then = "none" /\ \A a \in Users \ {t} : doing'[a] = doing[a]
      BY <1>1, <1>2, <3>1
    <3> QED
      BY <1>4, <2>1, <3>2 DEF McpHook
  <2> QED
    BY <2>2, <2>3
<1>5. CASE LinkStep(t)
  <2>1. \A b \in Users \ {t} : doing'[b] = doing[b]
    BY <1>1, <1>5, LinkStepIs
  <2>2. /\ doing[t].pc \in Active /\ doing'[t].pc # "none"
        /\ doing'[t].then \in {"none", "over"}
        /\ doing[t].pc \in {"closing", "hanging up"} /\ doing[t].then = "over" =>
              doing'[t].pc \in {"hanging up", "over"}
    BY <1>1, <1>5, LinkStepFacts
  <2>3. OfMcp(t) /\ job[t].hook \in {"on_load", "on_unload"}
    BY <2>2 DEF TaskUse, Active, Busy
  <2>4. job[t].hook = "on_unload" => doing'[t].pc \in {"hanging up", "over"}
    <3>1. SUFFICES ASSUME job[t].hook = "on_unload" PROVE doing'[t].pc \in {"hanging up", "over"}
      OBVIOUS
    <3>2. doing[t].pc \in {"none", "closing", "hanging up", "over"}
      BY <2>3, <3>1 DEF TaskUse
    <3>3. doing[t].pc \in {"closing", "hanging up"}
      BY <2>2, <3>2 DEF Active, Busy
    <3>4. doing[t].then = "over"
      BY <1>1, <3>3, DoingFacts DEF Fits
    <3> QED
      BY <2>2, <3>3, <3>4
  <2>5. UNCHANGED <<pluginVars, closed, job>>
    BY DEF McpHook
  <2> QED
    BY <2>1, <2>2, <2>3, <2>4, <2>5
<1>6. LinkStep(t) \/ McpConnects(t) \/ McpDisconnects(t)
  BY DEF McpHook, LinkStep
<1> QED
  BY <1>3, <1>4, <1>5, <1>6

LEMMA UsesManaged ==
  ASSUME JobInv, UserInv, NEW t \in Tasks, Manage(t)
  PROVE  UserInv'
<1>1. TaskUse(t) /\ \A u \in Tasks : TaskUse(u)
  BY DEF UserInv
<1>2. /\ \A a \in Users \ {t} : doing'[a] = doing[a]
      /\ \A u \in Tasks \ {t} : job'[u] = job[u]
      /\ TaskUse(t)'
  <2>1. CASE McpHook(t)
    BY <1>1, <2>1, McpHookIs DEF TaskUse, OfMcp, Hooked, Current
  <2>2. CASE ~ McpHook(t)
    BY <1>1, <2>2, ManageLeaves, UseKept
  <2> QED
    BY <2>1, <2>2
<1>3. \A u \in Tasks \ {t} : TaskUse(u)'
  BY <1>1, <1>2, UseKept, DoingFacts
<1>4. job'[Main].at = job[Main].at
  BY ManageStays, TaskFacts DEF Stays
<1>5. \A c \in Calls : CallUse(c)'
  BY <1>2, <1>4, DoingFacts DEF UserInv, CallUse
<1> QED
  BY <1>2, <1>3, <1>5 DEF UserInv

(* Everything else, but for the second interrupt and the calls, leaves who *)
(* is at the connection there, and moves tasks that are not.               *)
Onward == Starting \/ Stop \/ (\E s \in Stops : Stopping(s)) \/ (\E t \in Tasks : SweepEnds(t))

Calling == \E c \in Calls : CallBegins(c) \/ Call(c) \/ CallIsCut(c)

LEMMA OnwardMoves ==
  ASSUME JobInv, Onward
  PROVE  /\ UNCHANGED <<pluginVars, mcpVars>>
         /\ \A t \in Tasks : \/ job'[t] = job[t]
                             \/ job[t].step = "next" /\ job'[t].step = "next"
         /\ job[Main].at \in {"scheduler", "AppStarted", "up", "failed"} =>
              job'[Main].at \in {"scheduler", "AppStarted", "up", "failed"}
<1> DEFINE Late == {"scheduler", "AppStarted", "up", "failed"}
<1>1. job \in [Tasks -> Job] /\ \A t \in Tasks : job[t].at \notin DOMAIN Sweeps => job[t].step = "next"
  BY DEF JobInv, JobTypeOK, StepFits, Sweeping
<1>2. ASSUME NEW t \in Tasks, NEW at, To(t, at), job[t].step = "next"
      PROVE  /\ \A u \in Tasks : \/ job'[u] = job[u]
                                 \/ job[u].step = "next" /\ job'[u].step = "next"
             /\ job'[t].at = at /\ \A u \in Tasks \ {t} : job'[u] = job[u]
  BY <1>2, Shapes DEF JobInv, JobIs
<1>3. CASE Starting
  <2>1. PICK at : /\ To(Main, at) /\ UNCHANGED <<pluginVars, mcpVars>>
                  /\ job[Main].at \in Late => at \in Late
    BY <1>3 DEF Starting, InitSubsystems, StartRouter, StartScheduler, TellStarted, Passes, Rest
  <2>2. job[Main].at \in {"subsystems", "router", "scheduler", "AppStarted"}
    BY <1>3 DEF Starting, InitSubsystems, StartRouter, StartScheduler, TellStarted, Passes
  <2>3. job[Main].step = "next"
    BY <1>1, <2>2, TaskFacts, SweepFacts
  <2> QED
    BY <1>2, <2>1, <2>3, TaskFacts
<1>4. CASE Stop
  <2>1. /\ job' = [job EXCEPT ![First] = StopAs(First, app.started)] /\ UNCHANGED <<pluginVars, mcpVars>>
        /\ job[First].at = "none"
    BY <1>4 DEF Stop, Rest
  <2>2. StopAs(First, app.started).step = "next" /\ job[First].step = "next"
    BY <1>1, <2>1, StopAsType, TaskFacts, SweepFacts DEF JobInv, TypeOK
  <2>3. job'[First].step = "next" /\ \A u \in Tasks \ {First} : job'[u] = job[u]
    BY <1>1, <2>1, <2>2, TaskFacts
  <2> QED
    BY <2>1, <2>2, <2>3, TaskFacts
<1>5. ASSUME NEW s \in Stops, Stopping(s)
      PROVE  \E at : To(s, at) /\ UNCHANGED <<pluginVars, mcpVars>> /\ job[s].step = "next"
  <2>1. PICK at : To(s, at) /\ UNCHANGED <<pluginVars, mcpVars>>
    BY <1>5 DEF Stopping, TellStopping, StopScheduler, StopRouter, TellStopped, CloseProviders,
       CloseDatabase, Passes, Rest
  <2>2. job[s].at \in {"AppStopping", "scheduler", "fires", "router", "runs", "AppStopped", "providers", "db"}
    BY <1>5 DEF Stopping, TellStopping, StopScheduler, StopRouter, TellStopped, CloseProviders,
       CloseDatabase, Passes
  <2> QED
    BY <1>1, <2>1, <2>2, TaskFacts, SweepFacts
<1>6. CASE \E s \in Stops : Stopping(s)
  <2>0. PICK s \in Stops : Stopping(s)
    BY <1>6
  <2>1. PICK at : To(s, at) /\ UNCHANGED <<pluginVars, mcpVars>> /\ job[s].step = "next"
    BY <1>5, <2>0
  <2> QED
    BY <1>2, <2>1, TaskFacts
<1>7. ASSUME NEW t \in Tasks, SweepEnds(t)
      PROVE  /\ To(t, AfterSweep(t)) /\ UNCHANGED <<pluginVars, mcpVars>> /\ job[t].step = "next"
             /\ job[t].at \notin Late
  BY <1>7, SweepFacts DEF SweepEnds, Sweeping
<1>8. CASE \E t \in Tasks : SweepEnds(t)
  <2>1. PICK t \in Tasks : SweepEnds(t)
    BY <1>8
  <2>2. job[Main].at \in Late => job'[Main].at \in Late
    BY <1>2, <1>7, <2>1, TaskFacts
  <2> QED
    BY <1>2, <1>7, <2>1, <2>2
<1> QED
  BY <1>3, <1>4, <1>6, <1>8 DEF Onward

LEMMA InterruptMoves ==
  ASSUME JobInv, Interrupt
  PROVE  /\ UNCHANGED <<state, instance, serving, link, parted>>
         /\ kept' = kept \ UNION {Handling(a) : a \in Users}
         /\ \A t \in Tasks : doing'[t] = NotYet
         /\ \A c \in Calls : doing'[c].pc \notin Active
         /\ job'[Main] = job[Main] /\ MainIsDone
         /\ \A t \in Tasks : job'[t] = job[t] \/ job'[t].step = "next"
<1>1. /\ UNCHANGED <<state, instance, serving, link, parted>>
      /\ job' \in {[job EXCEPT ![First] = [Idle EXCEPT !.at = "dead"], ![Second] = StopAs(Second, app.started)],
                   [job EXCEPT ![Second] = StopAs(Second, app.started)]}
      /\ kept' = kept \ UNION {Handling(a) : a \in Users}
      /\ doing' = [a \in Users |-> IF a \in Tasks THEN NotYet
                                   ELSE IF doing[a].pc \in Active THEN [NotYet EXCEPT !.pc = "over"]
                                   ELSE doing[a]]
      /\ job[First].at # "none"
  BY DEF Interrupt, Loses
<1>2. \A t \in Tasks : doing'[t] = NotYet
  BY <1>1, TaskFacts
<1>3. \A c \in Calls : doing'[c].pc \notin Active
  <2>1. [NotYet EXCEPT !.pc = "over"].pc = "over" /\ "over" \notin Active
    BY DEF NotYet, Active, Busy
  <2>2. ASSUME NEW c \in Calls PROVE doing'[c].pc \notin Active
    <3>1. c \in Users /\ c \notin Tasks
      BY TaskFacts
    <3>2. doing'[c] = IF doing[c].pc \in Active THEN [NotYet EXCEPT !.pc = "over"] ELSE doing[c]
      BY <1>1, <3>1
    <3> QED
      BY <2>1, <3>2
  <2> QED
    BY <2>2
<1>5. MainIsDone /\ job \in [Tasks -> Job]
  BY <1>1, StopFollows, TaskFacts DEF JobInv, JobTypeOK
<1>6. StopAs(Second, app.started).step = "next" /\ [Idle EXCEPT !.at = "dead"].step = "next"
  BY StopAsType DEF JobInv, TypeOK, Idle
<1>7. job'[Main] = job[Main] /\ \A t \in Tasks : job'[t] = job[t] \/ job'[t].step = "next"
  BY <1>1, <1>5, <1>6, TaskFacts
<1> QED
  BY <1>1, <1>2, <1>3, <1>5, <1>7

LEMMA CallMoves ==
  ASSUME JobInv, UserInv, DownInv, NEW c \in Calls, CallBegins(c) \/ Call(c) \/ CallIsCut(c)
  PROVE  /\ UNCHANGED <<pluginVars, job>>
         /\ \A b \in Users \ {c} : doing'[b] = doing[b]
         /\ CallUse(c)'
         /\ LinkStep(c) \/ CallTool(c) \/ CallReturns(c) \/ CallFails(c) \/ Cut(c)
<1>1. /\ UNCHANGED <<pluginVars, job>>
      /\ LinkStep(c) \/ CallTool(c) \/ CallReturns(c) \/ CallFails(c) \/ Cut(c)
      /\ CallTool(c) \/ doing[c].pc \in Active
  BY DEF CallBegins, Call, CallIsCut, CallStep, LinkStep, CallReturns, CallFails, Cut, Opens, OpenFails,
     Initializes, InitializeFails, PauseEnds, SessionClosed, TransportClosed, Active, Busy
<1>2. c \in Users /\ doing \in [Users -> Doing]
  BY DoingFacts
<1>3. ASSUME NEW then, Disconnects(c, then) PROVE \A b \in Users \ {c} : doing'[b] = doing[b]
  <2>1. link.connected => doing' = [doing EXCEPT ![c] = [doing[c] EXCEPT !.pc = "closing", !.then = then]]
    BY <1>2, <1>3 DEF Disconnects
  <2>2. ~ link.connected => doing' = [doing EXCEPT ![c] = At(c, then)]
    BY <1>3 DEF Disconnects, Goes
  <2> QED
    BY <1>2, <2>1, <2>2
<1>4. ASSUME NEW pc, Goes(c, pc) PROVE \A b \in Users \ {c} : doing'[b] = doing[b]
  BY <1>2, <1>4 DEF Goes
<1>5. \A b \in Users \ {c} : doing'[b] = doing[b]
  BY <1>1, <1>2, <1>3, <1>4, LinkStepIs DEF CallTool, CallReturns, CallFails, Cut, Raises
<1>6. CallUse(c)'
  <2>1. CASE doing[c].pc \in Active
    BY <1>1, <2>1 DEF UserInv, CallUse
  <2>2. CASE doing[c].pc \notin Active
    <3>1. ~ Call(c) /\ ~ CallIsCut(c)
      BY <2>2 DEF Call, CallIsCut, CallStep, CallReturns, CallFails, Cut, Opens, OpenFails, Initializes,
         InitializeFails, PauseEnds, SessionClosed, TransportClosed, Active, Busy
    <3>2. app.router = "up" \/ job[Main].at = "up"
      BY <3>1 DEF CallBegins
    <3> QED
      BY <1>1, <3>2 DEF DownInv, CallUse
  <2> QED
    BY <2>1, <2>2
<1> QED
  BY <1>1, <1>5, <1>6

LEMMA UserInit == Init => UserInv
<1> SUFFICES ASSUME Init PROVE UserInv
  OBVIOUS
<1>1. \A a \in Users : doing[a].pc = "none" /\ doing[a].then = "none"
  BY DEF Init, McpInit, NotYet
<1>2. "none" \notin Active
  BY DEF Active, Busy
<1> QED
  BY <1>1, <1>2, TaskFacts DEF UserInv, TaskUse, CallUse

LEMMA UserNext == JobInv /\ DownInv /\ UserInv /\ [Next]_vars => UserInv'
<1> SUFFICES ASSUME JobInv, DownInv, UserInv, [Next]_vars PROVE UserInv'
  OBVIOUS
<1>1. \A t \in Tasks : TaskUse(t) /\ t \in Users
  BY DoingFacts DEF UserInv
<1>2. CASE UNCHANGED vars
  <2>1. \A t \in Tasks : TaskUse(t)'
    BY <1>1, <1>2, UseKept DEF vars, mcpVars
  <2> QED
    BY <1>2, <2>1 DEF UserInv, CallUse, vars, mcpVars
<1>3. CASE Onward
  <2>1. \A t \in Tasks : job'[t] = job[t] \/ doing[t] = NotYet
    BY <1>1, <1>3, OnwardMoves, Elsewhere DEF OfMcp, Hooked
  <2>2. \A t \in Tasks : TaskUse(t)'
    BY <1>1, <1>3, <2>1, OnwardMoves, UseKept DEF mcpVars
  <2> QED
    BY <1>3, <2>2, OnwardMoves DEF UserInv, CallUse, mcpVars
<1>4. CASE Interrupt
  <2>1. \A t \in Tasks : TaskUse(t)'
    BY <1>1, <1>4, InterruptMoves, UseKept
  <2> QED
    BY <1>4, <2>1, InterruptMoves DEF UserInv, CallUse
<1>5. ASSUME NEW c \in Calls, CallBegins(c) \/ Call(c) \/ CallIsCut(c) PROVE UserInv'
  <2>1. \A t \in Tasks : TaskUse(t)'
    BY <1>1, <1>5, CallMoves, UseKept, TaskFacts
  <2>2. \A d \in Calls : CallUse(d)'
    BY <1>5, CallMoves, TaskFacts DEF UserInv, CallUse
  <2> QED
    BY <2>1, <2>2 DEF UserInv
<1> QED
  BY <1>2, <1>3, <1>4, <1>5, UsesManaged DEF Next, Onward

----------------------------------------------------------------------------
(* The connection: the proof *)

(* Main is at the connection only while on_load of MCP runs, and the       *)
(* plugin has an instance then.                                            *)
LEMMA MainConnects ==
  ASSUME JobInv, SweepInv, UserInv, doing[Main].pc # "none"
  PROVE  Mcp \in instance
<1>1. TaskUse(Main) /\ StepFits(Main) /\ JobTypeOK
  BY TaskFacts DEF UserInv, JobInv
<1>2. OfMcp(Main) /\ job[Main].hook \in {"on_load", "on_unload"} /\ job[Main].step = "hook"
  BY <1>1 DEF TaskUse, OfMcp, Hooked
<1>3. Sweeping(Main) /\ Op(Main) \in {"load", "enable"} /\ Current(Main) \in Plugin
  BY <1>1, <1>2, CurrentFacts, WhoSweeps, TaskFacts
<1>4. Op(Main) = "enable" /\ job[Main].hook = "on_load"
  BY <1>1, <1>2, <1>3, CurrentFacts, TaskFacts
<1>5. state[Mcp] = "LOADED" /\ Mcp \in Plugin
  BY <1>2, <1>3, <1>4 DEF SweepInv, EnablesLoaded, OfMcp
<1> QED
  BY <1>5 DEF SweepInv, PluginsFit

(* Only on_unload brings a stop() to the connection, and only a stop()     *)
(* runs it.                                                                *)
LEMMA StopUnloads ==
  ASSUME JobInv, NEW t \in Tasks, job[t].step \in {"hook", "failed"}
  PROVE  /\ t \in Stops => job[t].hook # "on_load"
         /\ t \notin Stops => job[t].hook # "on_unload" /\ t = Main
<1>1. JobTypeOK /\ StepFits(t) /\ job[t].step # "next"
  BY DEF JobInv
<1>2. Sweeping(t) /\ (t \in Stops => Op(t) \in {"disable", "unload"})
      /\ (t \notin Stops => t = Main /\ Op(t) \in {"load", "enable"})
  BY <1>1, CurrentFacts, WhoSweeps, TaskFacts
<1> QED
  BY <1>1, <1>2, CurrentFacts

LEMMA StopIsAt ==
  ASSUME JobInv, UserInv, NEW s \in Stops, doing[s].pc # "none"
  PROVE  /\ doing[s].pc \in {"closing", "hanging up", "over"}
         /\ doing[s].pc \in {"closing", "hanging up"} => doing[s].then = "over"
<1>1. TaskUse(s) /\ s \in Tasks /\ s \in Users
  BY TaskFacts, DoingFacts DEF UserInv
<1>2. OfMcp(s) /\ job[s].hook \in {"on_load", "on_unload"}
  BY <1>1 DEF TaskUse
<1>3. job[s].hook = "on_unload"
  BY <1>1, <1>2, StopUnloads DEF OfMcp, Hooked
<1> QED
  BY <1>1, <1>2, <1>3, DoingFacts DEF TaskUse, Fits

LEMMA LinkStepped ==
  ASSUME JobInv, SweepInv, UserInv, LinkInv, NEW a \in Users, LinkStep(a),
         UNCHANGED <<pluginVars, job>>
  PROVE  LinkInv'
<1>1. /\ \A b \in Users \ {a} : doing'[b] = doing[b]
      /\ UNCHANGED <<parted, serving, instance, job>>
      /\ Main \in Tasks /\ Main \in Users /\ Main \notin Calls /\ Main \notin Stops
      /\ Stops \subseteq Users /\ Calls \subseteq Users /\ Stops \cap Calls = {}
      /\ Users = Calls \cup Stops \cup {Main}
  BY LinkStepIs, TaskFacts, DoingFacts DEF pluginVars, Users
<1>2. KeptInv /\ PartInv /\ ForgetInv /\ kept \subseteq Transports /\ NoTransport \notin Transports
  BY DoingFacts, McpAssumption DEF LinkInv
<1>3. a \in Stops => doing[a].pc \in {"closing", "hanging up"} /\ doing[a].then = "over" /\ parted
  BY <1>2, StopIsAt, LinkStepFacts DEF PartInv, Active, Busy
<1>4. a \in Tasks /\ doing[a].pc = "initializing" => a = Main /\ Mcp \in instance
  BY <1>1, <1>3, MainConnects, TaskFacts
<1>5. \A b \in Users \ {a} : \A n : Handles(b, n)' <=> Handles(b, n)
  BY <1>1 DEF Handles, Own
<1>6. /\ link.known => link'.known
      /\ parted => kept' \subseteq kept
      /\ link'.known => link.known \/ Mcp \in instance
      /\ link'.connected => link.connected \/ link'.known \/ a \in Calls
  <2>1. CASE doing[a].pc = "initializing" /\ doing'[a].pc # "closing"
    <3>1. /\ link'.known = (link.known \/ a \in Tasks) /\ kept' = kept
      BY <2>1, LinkStepIs DEF Steps1
    <3>2. a \in Calls \/ a \in Tasks
      BY DEF Users
    <3> QED
      BY <1>4, <2>1, <3>1, <3>2
  <2>2. CASE ~ (doing[a].pc = "initializing" /\ doing'[a].pc # "closing")
    <3>1. SameTie \/ UNCHANGED link
      BY <2>2, LinkStepIs DEF Steps1
    <3>2. parted => kept' \subseteq kept
      BY <2>2, LinkStepIs DEF Steps1
    <3> QED
      BY <3>1, <3>2 DEF SameTie
  <2> QED
    BY <2>1, <2>2
<1>7. KeptInv'
  <2>1. CASE kept' = {}
    BY <2>1 DEF KeptInv
  <2>2. CASE /\ Steps1(a, "opening", "initializing", doing[a].then)
             /\ SameTie /\ link'.cm = link.cm /\ Own(a)' = Own(a)
             /\ kept' = IF parted \/ link.cm # Own(a) THEN kept ELSE kept \cup {Own(a)}
    <3>1. Handles(a, Own(a))' /\ \A n : ~ Handles(a, n)
      BY <2>2 DEF Handles, Steps1
    <3> QED
      BY <1>1, <1>2, <1>5, <2>2, <3>1 DEF KeptInv, SameTie
  <2>3. CASE doing[a].pc = "opening" /\ UNCHANGED <<link, kept>>
    <3>1. \A n : ~ Handles(a, n)
      BY <2>3 DEF Handles
    <3> QED
      BY <1>1, <1>2, <1>5, <2>3, <3>1 DEF KeptInv
  <2>4. CASE link'.connected /\ link'.cm = link.cm /\ UNCHANGED kept
    BY <1>2, <2>4 DEF KeptInv
  <2>5. CASE doing'[a].pc = "closing" /\ UNCHANGED <<link, kept>>
    <3>1. \A n : Handles(a, n)'
      BY <2>5 DEF Handles
    <3> QED
      BY <1>1, <1>2, <2>5, <3>1 DEF KeptInv
  <2>6. CASE /\ doing'[a].pc = "hanging up" /\ doing'[a].held = link.cm
             /\ link'.cm = link.cm /\ UNCHANGED kept
    <3>1. \A n \in kept : Handles(a, n)'
      BY <1>2, <2>6 DEF Handles, KeptInv
    <3> QED
      BY <1>1, <1>2, <2>6, <3>1 DEF KeptInv
  <2>7. CASE kept' = kept \ {link.cm} \/ kept' = kept \ {doing[a].held, link.cm}
             \/ (link.cm = NoTransport /\ UNCHANGED kept)
    <3>1. kept' = {}
      BY <1>2, <2>7 DEF KeptInv
    <3> QED
      BY <2>1, <3>1
  <2> QED
    BY <2>2, <2>3, <2>4, <2>5, <2>6, <2>7, LinkStepIs DEF Steps1
<1>8. PartInv'
  <2>1. ASSUME NEW s \in Stops, s # a
        PROVE  /\ doing'[s].pc # "none" => parted
               /\ doing'[s].pc = "hanging up" => kept' \subseteq {doing'[s].held}
               /\ doing'[s].pc = "over" => kept' = {}
    BY <1>1, <1>2, <1>6, <2>1 DEF PartInv
  <2>2. ASSUME a \in Stops
        PROVE  /\ parted
               /\ doing'[a].pc = "hanging up" => kept' \subseteq {doing'[a].held}
               /\ doing'[a].pc = "over" => kept' = {}
    BY <1>2, <1>3, <2>2, LinkStepIs DEF Steps1, KeptInv
  <2> QED
    BY <1>1, <2>1, <2>2 DEF PartInv
<1>9. ForgetInv'
  <2>1. \A t \in Tasks : Parting(t)' <=> Parting(t)
    BY <1>1 DEF Parting, Current
  <2>2. parted /\ (~ link'.known \/ Mcp \notin instance \/ \E t \in Tasks : Parting(t)) => kept' = {}
    BY <1>2, <1>6 DEF ForgetInv
  <2>3. link'.known /\ ~ parted => Mcp \in instance
    BY <1>2, <1>6 DEF ForgetInv
  <2>4. a \in Calls => link.known \/ parted
    BY <1>2, LinkStepFacts DEF ForgetInv
  <2>5. link'.connected => link'.known \/ parted
    BY <1>2, <1>6, <2>4 DEF ForgetInv
  <2>6. (\E c \in Calls : doing'[c].pc \in Active) => link'.known \/ parted
    BY <1>1, <1>2, <1>6, <2>4 DEF ForgetInv
  <2>7. doing'[Main].pc = "listing" => link'.known \/ parted
    <3>1. CASE a # Main
      BY <1>1, <1>2, <1>6, <3>1 DEF ForgetInv
    <3>2. CASE a = Main
      <4>1. doing[Main].then # "listing" /\ NextTry(Main) # "listing"
        BY <1>1, DoingFacts DEF Doing, NextTry
      <4> QED
        BY <1>1, <3>2, <4>1, LinkStepIs DEF Steps1
    <3> QED
      BY <3>1, <3>2
  <2>8. <<Mcp, "entry">> \in serving => link'.known \/ parted
    BY <1>2, <1>6 DEF ForgetInv
  <2> QED
    BY <1>1, <1>2, <2>1, <2>2, <2>3, <2>5, <2>6, <2>7, <2>8 DEF ForgetInv
<1> QED
  BY <1>7, <1>8, <1>9 DEF LinkInv

(* A task that comes or goes without being at it leaves the connection.    *)
LEMMA LinkRests ==
  ASSUME LinkInv, UNCHANGED <<link, kept, parted, instance, serving>>,
         \A a \in Users : doing'[a] = doing[a] \/ (\A n : ~ Handles(a, n)),
         \A s \in Stops : doing'[s] = doing[s] \/ doing'[s].pc = "none",
         \A c \in Calls : doing'[c].pc \in Active =>
           doing[c].pc \in Active \/ <<Mcp, "entry">> \in serving,
         doing'[Main].pc = "listing" => doing[Main].pc = "listing",
         \A t \in Tasks : Parting(t)' => Parting(t)
  PROVE  LinkInv'
<1>1. KeptInv /\ PartInv /\ ForgetInv
  BY DEF LinkInv
<1>2. \A a \in Users : \A n : Handles(a, n) => Handles(a, n)'
  BY DEF Handles, Own
<1>3. KeptInv'
  BY <1>1, <1>2 DEF KeptInv
<1>4. PartInv'
  BY <1>1 DEF PartInv
<1>5. ForgetInv'
  BY <1>1 DEF ForgetInv
<1> QED
  BY <1>3, <1>4, <1>5 DEF LinkInv

LEMMA PartingKept ==
  ASSUME NEW t \in Tasks, job'[t] = job[t] \/ job'[t].step # "failed"
  PROVE  Parting(t)' => Parting(t)
  BY DEF Parting, Current

(* disconnect() closes, unless the connection is down: a call that does so *)
(* goes on to open a transport.                                            *)
LEMMA DisconnectIs ==
  ASSUME JobInv, NEW a \in Users, NEW then \in {"opening", "over"}, Disconnects(a, then)
  PROVE  /\ \A b \in Users \ {a} : doing'[b] = doing[b]
         /\ link'.known = link.known /\ ~ link'.connected
         /\ \/ doing'[a].pc = "closing" /\ link'.cm = link.cm /\ kept' = kept
            \/ doing'[a].pc = then /\ kept' = kept \ {link.cm}
<1>1. doing \in [Users -> Doing] /\ link \in Link
  BY DoingFacts
<1>2. At(a, "over").pc = "over" /\ At(a, "opening").pc = "opening"
  BY <1>1 DEF At, NotYet, Doing
<1>3. CASE link.connected
  <2>1. /\ doing' = [doing EXCEPT ![a] = [doing[a] EXCEPT !.pc = "closing", !.then = then]]
        /\ link' = [link EXCEPT !.connected = FALSE] /\ kept' = kept
    BY <1>1, <1>3 DEF Disconnects
  <2>2. doing'[a].pc = "closing" /\ \A b \in Users \ {a} : doing'[b] = doing[b]
    BY <1>1, <2>1 DEF Doing
  <2>3. link'.known = link.known /\ ~ link'.connected /\ link'.cm = link.cm
    BY <1>1, <2>1 DEF Link
  <2> QED
    BY <2>1, <2>2, <2>3
<1>4. CASE ~ link.connected
  <2>1. /\ doing' = [doing EXCEPT ![a] = At(a, then)] /\ kept' = kept \ {link.cm}
        /\ link' = [link EXCEPT !.cm = Named(a, then, @)]
    BY <1>4 DEF Disconnects, Goes, Loses
  <2>2. doing'[a].pc = then /\ \A b \in Users \ {a} : doing'[b] = doing[b]
    BY <1>1, <1>2, <2>1
  <2>3. link'.known = link.known /\ ~ link'.connected
    BY <1>1, <1>4, <2>1 DEF Link
  <2> QED
    BY <2>1, <2>2, <2>3
<1> QED
  BY <1>3, <1>4

LEMMA LinkCalls ==
  ASSUME JobInv, SweepInv, DownInv, UserInv, LinkInv,
         NEW c \in Calls, CallBegins(c) \/ Call(c) \/ CallIsCut(c)
  PROVE  LinkInv'
<1>1. /\ UNCHANGED <<pluginVars, job>> /\ UNCHANGED <<instance, serving, job>>
      /\ \A b \in Users \ {c} : doing'[b] = doing[b]
      /\ c \in Users /\ c \notin Tasks /\ Main \in Users \ {c} /\ doing \in [Users -> Doing]
      /\ Stops \subseteq Users \ {c} /\ Calls \subseteq Users /\ kept \subseteq Transports
  BY CallMoves, TaskFacts, DoingFacts DEF pluginVars
<1>2. KeptInv /\ PartInv /\ ForgetInv
  BY DEF LinkInv
<1>3. \A t \in Tasks : Parting(t)' <=> Parting(t)
  BY <1>1 DEF Parting, Current
<1>4. \A b \in Users \ {c} : \A n : Handles(b, n)' <=> Handles(b, n)
  BY <1>1 DEF Handles, Own
<1>5. CASE LinkStep(c)
  BY <1>1, <1>5, LinkStepped
<1>6. ASSUME NEW pc \in {"calling", "over"}, Goes(c, pc), \A n : ~ Handles(c, n),
             UNCHANGED <<link, kept, parted>>,
             pc = "calling" => <<Mcp, "entry">> \in serving
      PROVE  LinkInv'
  <2>1. At(c, "over").pc = "over" /\ "over" \notin Active
    BY DEF At, NotYet, Active, Busy
  <2>2. doing'[c].pc \in Active => <<Mcp, "entry">> \in serving
    BY <1>1, <1>6, <2>1 DEF Goes
  <2> QED
    BY <1>1, <1>3, <1>6, <2>2, LinkRests
<1>7. ASSUME Raises(c), doing[c].pc = "calling" \/ <<Mcp, "entry">> \in serving,
             \A n : ~ Handles(c, n)
      PROVE  LinkInv'
  <2>1. /\ UNCHANGED parted
        /\ link'.known = link.known /\ ~ link'.connected
        /\ \/ doing'[c].pc = "closing" /\ link'.cm = link.cm /\ kept' = kept
           \/ kept' = kept \ {link.cm}
    BY <1>1, <1>7, DisconnectIs DEF Raises
  <2>2. KeptInv'
    <3>1. CASE kept' = kept \ {link.cm}
      BY <1>2, <3>1 DEF KeptInv
    <3>2. CASE doing'[c].pc = "closing" /\ link'.cm = link.cm /\ kept' = kept
      <4>1. \A n : Handles(c, n)'
        BY <3>2 DEF Handles
      <4> QED
        BY <1>1, <1>2, <3>2, <4>1 DEF KeptInv
    <3> QED
      BY <2>1, <3>1, <3>2
  <2>3. PartInv'
    BY <1>1, <1>2, <2>1 DEF PartInv
  <2>4. link.known \/ parted
    BY <1>2, <1>7 DEF ForgetInv, Active
  <2>5. ForgetInv'
    BY <1>1, <1>2, <1>3, <2>1, <2>4 DEF ForgetInv
  <2> QED
    BY <2>2, <2>3, <2>5 DEF LinkInv
<1>8. CASE CallTool(c)
  <2>1. <<Mcp, "entry">> \in serving
    <3>1. doing[c].pc = "none"
      BY <1>8 DEF CallTool
    <3>2. ~ Call(c) /\ ~ CallIsCut(c)
      BY <3>1 DEF Call, CallIsCut, CallStep, CallReturns, CallFails, Cut, Opens, OpenFails, Initializes,
         InitializeFails, PauseEnds, SessionClosed, TransportClosed, Active, Busy
    <3> QED
      BY <3>2 DEF CallBegins
  <2>2. \A n : ~ Handles(c, n)
    BY <1>8 DEF CallTool, Handles
  <2> QED
    BY <1>6, <1>7, <1>8, <2>1, <2>2 DEF CallTool
<1>9. CASE CallReturns(c)
  <2>1. \A n : ~ Handles(c, n)
    BY <1>9 DEF CallReturns, Handles
  <2> QED
    BY <1>6, <1>9, <2>1 DEF CallReturns
<1>10. CASE CallFails(c)
  <2>1. \A n : ~ Handles(c, n)
    BY <1>10 DEF CallFails, Handles
  <2> QED
    BY <1>7, <1>10, <2>1 DEF CallFails
<1>11. CASE Cut(c)
  <2>1. kept' = kept \ Handling(c) /\ UNCHANGED <<link, parted>> /\ Goes(c, "over")
    BY <1>11 DEF Cut, Loses
  <2>2. doing'[c].pc = "over" /\ "over" \notin Active
    BY <1>1, <2>1 DEF Goes, At, NotYet, Active, Busy
  <2>3. \A n \in kept' : ~ Handles(c, n)
    BY <1>2, <2>1 DEF Handles, Handling, KeptInv
  <2>4. KeptInv'
    BY <1>2, <1>4, <2>1, <2>3 DEF KeptInv
  <2>5. PartInv'
    BY <1>1, <1>2, <2>1 DEF PartInv
  <2>6. ForgetInv'
    BY <1>1, <1>2, <1>3, <2>1, <2>2 DEF ForgetInv
  <2> QED
    BY <2>4, <2>5, <2>6 DEF LinkInv
<1> QED
  BY <1>5, <1>8, <1>9, <1>10, <1>11, CallMoves

LEMMA LinkOnward ==
  ASSUME JobInv, LinkInv, Onward
  PROVE  LinkInv'
<1>1. /\ UNCHANGED <<instance, serving, link, kept, doing, parted>> /\ Main \in Tasks
      /\ \A t \in Tasks : \/ job'[t] = job[t]
                          \/ job[t].step = "next" /\ job'[t].step = "next"
  BY OnwardMoves, TaskFacts DEF pluginVars, mcpVars
<1>2. \A t \in Tasks : Parting(t)' => Parting(t)
  BY <1>1, PartingKept
<1> QED
  BY <1>1, <1>2, LinkRests

LEMMA LinkInterrupt ==
  ASSUME JobInv, UserInv, LinkInv, Interrupt
  PROVE  LinkInv'
<1>1. /\ UNCHANGED <<instance, serving, link, parted>>
      /\ kept' = kept \ UNION {Handling(a) : a \in Users}
      /\ \A t \in Tasks : doing'[t] = NotYet
      /\ \A c \in Calls : doing'[c].pc \notin Active
      /\ \A t \in Tasks : job'[t] = job[t] \/ job'[t].step = "next"
  BY InterruptMoves
<1>2. KeptInv /\ PartInv /\ ForgetInv /\ NotYet.pc = "none" /\ Stops \subseteq Tasks /\ Main \in Tasks
  BY TaskFacts DEF LinkInv, NotYet
<1>3. KeptInv'
  <2>1. ASSUME NEW n \in kept, NEW a \in Users, Handles(a, n) PROVE n \notin kept'
    <3>1. n \in Handling(a)
      BY <1>2, <2>1 DEF Handles, Handling, KeptInv
    <3> QED
      BY <1>1, <3>1
  <2> QED
    BY <1>1, <1>2, <2>1 DEF KeptInv
<1>4. PartInv'
  BY <1>1, <1>2 DEF PartInv
<1>5. \A t \in Tasks : Parting(t)' => Parting(t)
  BY <1>1, PartingKept
<1>6. ForgetInv'
  BY <1>1, <1>2, <1>5 DEF ForgetInv
<1> QED
  BY <1>3, <1>4, <1>6 DEF LinkInv

LEMMA LinkMcpHook ==
  ASSUME JobInv, SweepInv, UserInv, LinkInv, NEW t \in Tasks, McpHook(t)
  PROVE  LinkInv'
<1>1. /\ UNCHANGED <<pluginVars, job>> /\ UNCHANGED <<instance, serving, job>>
      /\ \A b \in Users \ {t} : doing'[b] = doing[b]
      /\ OfMcp(t) /\ t \in Users /\ t \notin Calls /\ Main \in Users /\ doing \in [Users -> Doing]
      /\ Stops \subseteq Users /\ Calls \subseteq Users /\ Main \notin Stops
  BY McpHookIs, TaskFacts, DoingFacts DEF UserInv, pluginVars
<1>2. KeptInv /\ PartInv /\ ForgetInv
  BY DEF LinkInv
<1>3. \A u \in Tasks : Parting(u)' <=> Parting(u)
  BY <1>1 DEF Parting, Current
<1>4. CASE LinkStep(t)
  BY <1>1, <1>4, LinkStepped
<1>5. CASE McpConnects(t)
  <2>1. /\ job[t].hook = "on_load" /\ kept' = kept \ {link.cm} /\ UNCHANGED parted
        /\ \E pc \in {"opening", "over"} :
             /\ doing' = [doing EXCEPT ![t] = At(t, pc)]
             /\ link' = [link EXCEPT !.cm = Named(t, pc, @)]
    BY <1>5 DEF McpConnects, Goes, Runs, Loses
  <2>2. t = Main
    BY <1>1, <2>1, StopUnloads DEF OfMcp, Hooked
  <2>3. kept' = {} /\ link'.known = link.known /\ link'.connected = link.connected
    BY <1>2, <2>1, DoingFacts DEF KeptInv, Link
  <2>4. doing'[Main].pc # "listing"
    <3>1. At(t, "over").pc = "over" /\ At(t, "opening").pc = "opening"
      BY <1>1 DEF At, NotYet, Doing
    <3> QED
      BY <1>1, <2>1, <2>2, <3>1
  <2>5. KeptInv'
    BY <2>3 DEF KeptInv
  <2>6. PartInv'
    BY <1>1, <1>2, <2>1, <2>2, <2>3 DEF PartInv
  <2>7. ForgetInv'
    BY <1>1, <1>2, <1>3, <2>1, <2>3, <2>4 DEF ForgetInv
  <2> QED
    BY <2>5, <2>6, <2>7 DEF LinkInv
<1>6. CASE McpDisconnects(t)
  <2>1. link.known /\ Disconnects(t, "over") /\ parted'
    BY <1>6 DEF McpDisconnects
  <2>2. /\ link'.known /\ ~ link'.connected
        /\ \/ doing'[t].pc = "closing" /\ link'.cm = link.cm /\ kept' = kept
           \/ doing'[t].pc = "over" /\ kept' = kept \ {link.cm}
    BY <1>1, <2>1, DisconnectIs
  <2>3. kept' \subseteq kept
    BY <2>2
  <2>4. KeptInv'
    BY <1>2, <2>1, <2>2 DEF KeptInv
  <2>5. PartInv'
    <3>1. ASSUME NEW s \in Stops, s # t
          PROVE  /\ doing'[s].pc = "hanging up" => kept' \subseteq {doing'[s].held}
                 /\ doing'[s].pc = "over" => kept' = {}
      BY <1>1, <1>2, <2>3, <3>1 DEF PartInv
    <3>2. doing'[t].pc = "over" => kept' = {}
      BY <1>2, <2>2 DEF KeptInv
    <3> QED
      BY <2>1, <2>2, <3>1, <3>2 DEF PartInv
  <2>6. ForgetInv'
    BY <1>1, <1>2, <1>3, <2>1, <2>2, <2>3 DEF ForgetInv
  <2> QED
    BY <2>4, <2>5, <2>6 DEF LinkInv
<1>7. LinkStep(t) \/ McpConnects(t) \/ McpDisconnects(t)
  BY DEF McpHook, LinkStep
<1> QED
  BY <1>4, <1>5, <1>6, <1>7

(* What an operation of PluginManager does to the connection: a hook that  *)
(* ends at its end leaves it as it is, and one that is cut off loses what  *)
(* it has in hands.                                                        *)
AtRest(t) == doing[t].pc \notin {"initializing", "closing", "hanging up"}

LEMMA ManageTies ==
  ASSUME JobInv, NEW t \in Tasks, TaskUse(t), Manage(t), ~ McpHook(t)
  PROVE  /\ UNCHANGED parted
         /\ \/ AtRest(t) /\ kept' = kept
            \/ kept' = kept \ Handling(t)
         /\ \/ link' = link
            \/ UnloadHookReturns(t) /\ Current(t) = Mcp /\ link' = [link EXCEPT !.known = FALSE]
         /\ \/ instance \subseteq instance'
            \/ \/ UnloadHookReturns(t) /\ Current(t) = Mcp
               \/ Parting(t)
               \/ Mcp \in instance => Mcp \in instance'
         /\ Parting(t)' => /\ job[t].step = "hook" /\ job[t].hook = "on_unload"
                           /\ doing[t].pc \in {"closing", "hanging up"}
                           /\ kept' = kept \ Handling(t)
         /\ <<Mcp, "entry">> \in serving' =>
              <<Mcp, "entry">> \in serving \/ (LoadHookReturns(t) /\ doing[t].pc = "listing")
<1>1. JobTypeOK /\ StepFits(t)
  BY DEF JobInv
<1>2. \A p, kinds : <<Mcp, "entry">> \in Owned(p, kinds) => p = Mcp
  BY DEF Owned
<1>3. doing[t] = NotYet => AtRest(t)
  BY DEF AtRest, NotYet
<1>4. CASE Load(t) \/ Enable(t) \/ Disable(t) \/ Unload(t)
  <2>1. job[t].step = "next" /\ UNCHANGED mcpVars
    BY <1>4 DEF Load, Enable, Disable, Unload, Begins
  <2>2. AtRest(t)
    BY <1>3, <2>1, Elsewhere DEF OfMcp, Hooked
  <2>3. serving' \subseteq serving /\ instance \subseteq instance'
    <3>1. CASE Load(t) \/ Enable(t) \/ Disable(t)
      BY <3>1 DEF Load, Enable, Disable, pluginVars
    <3>2. CASE Unload(t)
      <4>1. PICK j \in DOMAIN Order :
              IF Turn(job[t].at, j) \in instance THEN UNCHANGED <<state, instance, serving>>
                                               ELSE Dropped(Turn(job[t].at, j))
        BY <3>2 DEF Unload
      <4> QED
        BY <4>1 DEF Dropped
    <3> QED
      BY <1>4, <3>1, <3>2
  <2>4. \E j, hook : Under(t, j, "told", hook) \/ Under(t, j, "next", hook) \/ Under(t, j, "hook", hook)
    BY <1>4 DEF Load, Enable, Disable, Unload
  <2>5. job'[t].step # "failed"
    BY <1>1, <2>4, Shapes DEF JobIs
  <2> QED
    BY <2>1, <2>2, <2>3, <2>5 DEF mcpVars, Parting
<1>5. CASE LoadHookReturns(t)
  <2>1. /\ UNCHANGED <<link, kept, parted, instance>> /\ Hook(t, "on_enable")
        /\ Current(t) = Mcp => doing[t].pc \in {"over", "listing"}
    BY <1>5 DEF LoadHookReturns
  <2>2. AtRest(t)
    BY <1>3, <2>1, Elsewhere DEF OfMcp, AtRest
  <2>3. <<Mcp, "entry">> \in serving' => <<Mcp, "entry">> \in serving \/ doing[t].pc = "listing"
    BY <1>2, <1>5 DEF LoadHookReturns, Owned
  <2>4. job'[t].step # "failed"
    BY <1>1, <2>1, Shapes DEF JobIs
  <2> QED
    BY <1>5, <2>1, <2>2, <2>3, <2>4 DEF Parting
<1>6. CASE EnableHookReturns(t) \/ DisableHookReturns(t)
  <2>1. /\ job[t].hook \notin {"on_load", "on_unload"} /\ UNCHANGED mcpVars /\ UNCHANGED instance
        /\ Tell(t, "told") \/ Return(t)
    BY <1>6 DEF EnableHookReturns, DisableHookReturns, Runs
  <2>2. AtRest(t)
    BY <1>3, <2>1, Elsewhere
  <2>3. job'[t].step # "failed"
    BY <1>1, <2>1, Shapes DEF JobIs
  <2>4. <<Mcp, "entry">> \in serving' => <<Mcp, "entry">> \in serving
    BY <1>2, <1>6 DEF EnableHookReturns, DisableHookReturns
  <2> QED
    BY <2>1, <2>2, <2>3, <2>4 DEF mcpVars, Parting
<1>7. CASE UnloadHookReturns(t)
  <2>1. /\ UNCHANGED <<kept, parted>> /\ Tell(t, "told") /\ doing[t].pc \in {"none", "over"}
        /\ link' = link \/ (Current(t) = Mcp /\ link' = [link EXCEPT !.known = FALSE])
        /\ instance' = instance \ {Current(t)} /\ serving' \subseteq serving
    <3>1. UNCHANGED <<kept, parted>> /\ Tell(t, "told") /\ doing[t].pc \in {"none", "over"}
      BY <1>7 DEF UnloadHookReturns
    <3>2. link' = link \/ (Current(t) = Mcp /\ link' = [link EXCEPT !.known = FALSE])
      BY <1>7 DEF UnloadHookReturns
    <3>3. Dropped(Current(t))
      BY <1>7 DEF UnloadHookReturns
    <3> QED
      BY <3>1, <3>2, <3>3 DEF Dropped
  <2>3. JobIs(t, job[t].at, job[t].i, "told", job[t].hook)
    BY <1>1, <2>1, Shapes
  <2>2. job'[t].step # "failed" /\ AtRest(t)
    BY <2>1, <2>3 DEF JobIs, AtRest
  <2> QED
    BY <1>7, <2>1, <2>2 DEF Parting
<1>8. CASE Told(t)
  <2>1. job[t].step # "hook" /\ UNCHANGED mcpVars /\ (Tell(t, "told") \/ Return(t))
    BY <1>8 DEF Told
  <2>2. AtRest(t)
    BY <1>3, <2>1, Elsewhere DEF OfMcp, Hooked
  <2>3. job'[t].step # "failed"
    BY <1>1, <2>1, Shapes DEF JobIs
  <2>4. serving' \subseteq serving
    BY <1>8 DEF Told, Dropped
  <2>5. \/ instance' = instance
        \/ /\ job[t].step = "failed" /\ job[t].hook = "on_unload"
           /\ instance' = instance \ {Current(t)}
    BY <1>8 DEF Told, Dropped
  <2> QED
    BY <2>1, <2>2, <2>3, <2>4, <2>5 DEF mcpVars, Parting
<1>9. ASSUME HookBreaks(t)
      PROVE  /\ UNCHANGED instance
             /\ <<Mcp, "entry">> \in serving' => <<Mcp, "entry">> \in serving
             /\ Parting(t)' => job[t].hook = "on_unload" /\ Current(t) = Mcp
  <2>1. Return(t) \/ Tell(t, "failed")
    BY <1>9 DEF HookBreaks
  <2>2. job'[t].step = "failed" => job'[t].hook = job[t].hook /\ Current(t)' = Current(t)
    BY <1>1, <2>1, Shapes DEF JobIs, Current
  <2>3. <<Mcp, "entry">> \in serving' => <<Mcp, "entry">> \in serving
    BY <1>2, <1>9 DEF HookBreaks, Owned
  <2> QED
    BY <1>9, <2>2, <2>3 DEF HookBreaks, Parting
<1>10. CASE HookRaises(t)
  <2>1. UNCHANGED mcpVars /\ HookBreaks(t) /\ Hooked(t)
        /\ (Current(t) = Mcp => job[t].hook = "on_load" /\ doing[t].pc = "none")
    BY <1>10 DEF HookRaises, MayFail
  <2>2. AtRest(t)
    BY <1>3, <2>1, Elsewhere DEF OfMcp
  <2> QED
    BY <1>9, <2>1, <2>2 DEF mcpVars
<1>11. CASE HookTimesOut(t)
  <2>1. /\ HookBreaks(t) /\ Hooked(t) /\ UNCHANGED <<link, parted>> /\ kept' = kept \ Handling(t)
        /\ (Current(t) = Mcp => doing[t].pc \in Active)
    BY <1>11 DEF HookTimesOut, MayHang, Loses
  <2>2. ASSUME job[t].hook = "on_unload", Current(t) = Mcp
        PROVE  doing[t].pc \in {"closing", "hanging up"}
    BY <2>1, <2>2 DEF TaskUse, OfMcp, Active, Busy
  <2> QED
    BY <1>9, <2>1, <2>2 DEF Hooked
<1> QED
  BY <1>4, <1>5, <1>6, <1>7, <1>8, <1>10, <1>11 DEF Manage, HookReturns

LEMMA LinkManaged ==
  ASSUME JobInv, UserInv, LinkInv, NEW t \in Tasks, Manage(t), ~ McpHook(t)
  PROVE  LinkInv'
<1>1. /\ TaskUse(t) /\ t \in Users /\ t \notin Calls /\ Stops \subseteq Tasks /\ Main \in Tasks
      /\ Calls \subseteq Users \ {t} /\ Tasks \subseteq Users /\ link \in Link
  BY TaskFacts, DoingFacts DEF UserInv
<1>2. /\ doing'[t] = NotYet /\ \A a \in Users \ {t} : doing'[a] = doing[a]
      /\ \A u \in Tasks \ {t} : job'[u] = job[u]
  BY <1>1, ManageLeaves
<1>3. KeptInv /\ PartInv /\ ForgetInv
  BY DEF LinkInv
<1>4. /\ UNCHANGED parted /\ kept' \subseteq kept
      /\ link'.connected = link.connected /\ link'.cm = link.cm /\ (link'.known => link.known)
  <2>1. UNCHANGED parted /\ kept' \subseteq kept
    BY <1>1, ManageTies
  <2>2. link' = link \/ link' = [link EXCEPT !.known = FALSE]
    BY <1>1, ManageTies
  <2>3. link' = [link EXCEPT !.known = FALSE] =>
          link'.connected = link.connected /\ link'.cm = link.cm /\ ~ link'.known
    BY <1>1 DEF Link
  <2> QED
    BY <2>1, <2>2, <2>3
<1>5. \A n \in kept' : ~ Handles(t, n)
  <2>1. ASSUME AtRest(t), NEW n PROVE ~ Handles(t, n)
    BY <2>1 DEF AtRest, Handles
  <2>2. ASSUME kept' = kept \ Handling(t), NEW n \in kept', Handles(t, n) PROVE FALSE
    <3>1. link.cm = n /\ n \notin Handling(t)
      BY <1>3, <2>2 DEF KeptInv
    <3> QED
      BY <2>2, <3>1 DEF Handles, Handling
  <2> QED
    BY <1>1, <2>1, <2>2, ManageTies
<1>6. KeptInv'
  <2>1. \A b \in Users \ {t} : \A n : Handles(b, n)' <=> Handles(b, n)
    BY <1>2 DEF Handles, Own
  <2> QED
    BY <1>1, <1>3, <1>4, <1>5, <2>1 DEF KeptInv
<1>7. PartInv'
  <2>1. doing'[t].pc = "none"
    BY <1>2 DEF NotYet
  <2> QED
    BY <1>1, <1>2, <1>3, <1>4, <2>1 DEF PartInv
<1>8. ASSUME job[t].step = "hook", job[t].hook = "on_unload" PROVE t \in Stops
  BY <1>8, StopUnloads
(* The hook has disconnected, or there was nothing to disconnect.          *)
<1>9. ASSUME UnloadHookReturns(t), Current(t) = Mcp
      PROVE  /\ ~ link'.known
             /\ \/ parted /\ kept = {}
                \/ ~ link.known
  <2>1. /\ job[t].step = "hook" /\ job[t].hook = "on_unload" /\ link' = [link EXCEPT !.known = FALSE]
        /\ doing[t].pc = "over" \/ ~ link.known
    BY <1>9 DEF UnloadHookReturns, Runs
  <2> QED
    BY <1>1, <1>3, <1>8, <2>1 DEF PartInv, Link
(* The hook has been cut off.                                              *)
<1>10. ASSUME Parting(t)' PROVE parted /\ kept' = {}
  <2>1. /\ t \in Stops /\ doing[t].pc \in {"closing", "hanging up"} /\ kept' = kept \ Handling(t)
    BY <1>1, <1>8, <1>10, ManageTies
  <2> QED
    BY <1>3, <2>1 DEF PartInv, KeptInv, Handling
<1>11. ASSUME NEW u \in Tasks, Parting(u)' PROVE parted /\ kept' = {}
  <2>1. CASE u = t
    BY <1>10, <1>11, <2>1
  <2>2. CASE u # t
    <3>1. Parting(u)
      BY <1>2, <1>11, <2>2, PartingKept
    <3> QED
      BY <1>3, <1>4, <3>1 DEF ForgetInv
  <2> QED
    BY <2>1, <2>2
<1>12. ASSUME Mcp \in instance, Mcp \notin instance'
       PROVE  /\ parted => kept = {}
              /\ ~ parted => ~ link'.known
  <2>1. \/ UnloadHookReturns(t) /\ Current(t) = Mcp
        \/ Parting(t)
    BY <1>1, <1>12, ManageTies
  <2> QED
    BY <1>3, <1>9, <2>1 DEF ForgetInv
<1>13. ASSUME link.known, ~ link'.known PROVE parted /\ kept = {}
  <2>1. UnloadHookReturns(t) /\ Current(t) = Mcp
    BY <1>1, <1>13, ManageTies
  <2> QED
    BY <1>9, <1>13, <2>1
<1>14. ForgetInv'
  <2>1. parted /\ (~ link'.known \/ Mcp \notin instance' \/ \E u \in Tasks : Parting(u)') => kept' = {}
    BY <1>3, <1>4, <1>11, <1>12, <1>13 DEF ForgetInv
  <2>2. link'.known /\ ~ parted => Mcp \in instance'
    BY <1>3, <1>4, <1>12 DEF ForgetInv
  <2>3. link.known \/ parted => link'.known \/ parted
    BY <1>13
  <2>4. <<Mcp, "entry">> \in serving' => link.known \/ parted
    <3>1. CASE <<Mcp, "entry">> \in serving
      BY <1>3, <3>1 DEF ForgetInv
    <3>2. CASE LoadHookReturns(t) /\ doing[t].pc = "listing"
      <4>1. t = Main
        BY <3>2, StopUnloads DEF LoadHookReturns, Runs, Stops
      <4> QED
        BY <1>3, <3>2, <4>1 DEF ForgetInv
    <3> QED
      BY <1>1, <3>1, <3>2, ManageTies
  <2>5. doing'[Main].pc = "listing" => doing[Main].pc = "listing"
    BY <1>1, <1>2 DEF NotYet
  <2>6. \A c \in Calls : doing'[c] = doing[c]
    BY <1>1, <1>2
  <2> QED
    BY <1>3, <1>4, <1>11, <2>1, <2>2, <2>3, <2>4, <2>5, <2>6 DEF ForgetInv
<1> QED
  BY <1>6, <1>7, <1>14 DEF LinkInv

LEMMA LinkInit == Init => LinkInv
<1> SUFFICES ASSUME Init PROVE LinkInv
  OBVIOUS
<1>1. /\ kept = {} /\ ~ parted /\ ~ link.connected /\ ~ link.known /\ serving = {}
      /\ \A a \in Users : doing[a].pc = "none"
      /\ \A t \in Tasks : job[t].step = "next"
  BY DEF Init, McpInit, NotYet, Idle
<1>2. Main \in Users /\ Stops \subseteq Users /\ Calls \subseteq Users /\ "none" \notin Active
  BY TaskFacts DEF Users, Active, Busy
<1> QED
  BY <1>1, <1>2 DEF LinkInv, KeptInv, PartInv, ForgetInv, Parting

LEMMA LinkNext == JobInv /\ SweepInv /\ DownInv /\ UserInv /\ LinkInv /\ [Next]_vars => LinkInv'
<1> SUFFICES ASSUME JobInv, SweepInv, DownInv, UserInv, LinkInv, [Next]_vars PROVE LinkInv'
  OBVIOUS
<1>1. CASE UNCHANGED vars
  <2>1. \A t \in Tasks : Parting(t)' => Parting(t)
    BY <1>1, PartingKept DEF vars
  <2> QED
    BY <1>1, <2>1, LinkRests DEF vars, pluginVars, mcpVars
<1>2. ASSUME NEW t \in Tasks, Manage(t) PROVE LinkInv'
  BY <1>2, LinkMcpHook, LinkManaged
<1>3. CASE Onward
  BY <1>3, LinkOnward
<1> QED
  BY <1>1, <1>2, <1>3, LinkInterrupt, LinkCalls DEF Next, Onward

----------------------------------------------------------------------------
(* Everything together *)

LEMMA IInvInit == Init => IInv
  BY JobInit, ServeInit, SweepInit, DownInit, UserInit, LinkInit DEF IInv

LEMMA IInvNext == IInv /\ [Next]_vars => IInv'
  BY JobNext, ServeNext, SweepNext, DownNext, UserNext, LinkNext DEF IInv

LEMMA IInvIsQuiet == IInv => StoppedIsQuiet
<1> SUFFICES ASSUME IInv, NEW s \in Stops, job[s].at = "returned"
             PROVE  /\ app.db # "open" /\ app.providers # "open"
                    /\ instance = {}
                    /\ polling \subseteq stray
                    /\ kept = {}
                    /\ job[s].full => app.scheduler = "down" /\ app.router = "down"
  BY DEF StoppedIsQuiet
<1>1. TakenDown(s) /\ Swept(s) /\ PluginsFit /\ JobInv /\ UserInv /\ LinkInv
  BY DEF IInv, DownInv, SweepInv
<1>2. /\ app.db # "open" /\ app.providers # "open"
      /\ job[s].full => app.scheduler = "down" /\ app.router = "down"
  BY <1>1 DEF TakenDown, Past, AfterScheduler, AfterRuns, AfterDisable, AfterUnload
<1>3. instance = {} /\ \A p \in Plugin : state[p] # "ENABLED"
  BY <1>1 DEF Swept, Past, AfterDisable, AfterUnload
<1>4. polling \subseteq stray
  <2>1. polling \subseteq Plugin
    BY <1>1, PluginAssumption DEF JobInv, TypeOK
  <2> QED
    BY <1>1, <1>3, <2>1 DEF PluginsFit
<1>5. kept = {}
  <2>1. KeptInv /\ PartInv /\ ForgetInv /\ Mcp \notin instance
    BY <1>1, <1>3 DEF LinkInv
  <2>2. SUFFICES ASSUME ~ parted PROVE kept = {}
    BY <2>1 DEF ForgetInv
  <2>3. ~ link.connected /\ \A c \in Calls : doing[c].pc \notin Active
    BY <2>1, <2>2 DEF ForgetInv
  <2>4. doing[Main] = NotYet
    <3>1. MainIsDone
      BY <1>1, StopFollows DEF JobInv
    <3>2. job[Main].step = "next"
      BY <1>1, <3>1, TaskFacts, SweepFacts DEF JobInv, StepFits, Sweeping, MainIsDone
    <3> QED
      BY <1>1, <3>2, Elsewhere, TaskFacts DEF UserInv, OfMcp, Hooked
  <2>5. \A u \in Stops : doing[u].pc = "none"
    BY <2>1, <2>2 DEF PartInv
  <2>6. \A a \in Users : \A n : ~ Handles(a, n)
    <3>1. {"initializing", "closing", "hanging up"} \subseteq Active /\ NotYet.pc = "none"
      BY DEF Active, Busy, NotYet
    <3>2. \A a \in Users : a \in Calls \cup Stops \cup {Main}
      BY TaskFacts DEF Users
    <3>3. \A a \in Users : doing[a].pc \notin {"initializing", "closing", "hanging up"}
      BY <2>3, <2>4, <2>5, <3>1, <3>2
    <3> QED
      BY <3>3 DEF Handles
  <2> QED
    BY <2>1, <2>2, <2>3, <2>6 DEF KeptInv
<1> QED
  BY <1>2, <1>3, <1>4, <1>5

(* When a stop() has returned, also the second of two that ran at once,    *)
(* the database and the providers are closed, no plugin has an instance, a *)
(* poll task runs only if its hook broke, no transport of the MCP server   *)
(* is left that anybody was to close (one that is open is lost, in one of  *)
(* the five ways that McpServer lists, some of which a single task that is *)
(* cut off can take), and the scheduler and the router are down if they    *)
(* were up: for every set of plugins in every order, and any number of     *)
(* tool calls and attempts to reconnect.                                   *)
THEOREM OnlyLostStaysOpen == Spec => []StoppedIsQuiet
<1>1. IInv => StoppedIsQuiet
  BY IInvIsQuiet
<1>2. Init => IInv
  BY IInvInit
<1>3. IInv /\ [Next]_vars => IInv'
  BY IInvNext
<1> QED
  BY <1>1, <1>2, <1>3, PTL DEF Spec
=============================================================================
