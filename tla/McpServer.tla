------------------------------ MODULE McpServer ------------------------------
(***************************************************************************)
(* The connection of the MCP plugin to one server (plugins/mcp): what the  *)
(* tasks that use it leave open.  on_load connects, on_unload disconnects, *)
(* and a tool call that fails disconnects and connects again.  Nothing     *)
(* locks the connection, so all of them may be at it at once.              *)
(*                                                                         *)
(* A transport is named by the task that opens it and the attempt.  An     *)
(* open one is kept while it is the one that the connection names, or that *)
(* a task is closing.  It is lost, that is open for good, when             *)
(*   - the task that was opening or closing it is cut off;                 *)
(*   - its close() raises, which the connection swallows;                  *)
(*   - the connection names another one, or none, in its place, as another *)
(*     connect() or close() went on meanwhile;                             *)
(*   - on_unload's disconnect() finds it in the hands of another task;     *)
(*   - a call opens it after on_unload has gone to disconnect.             *)
(***************************************************************************)
EXTENDS Naturals

CONSTANTS
  Calls,          \* bound: the tool calls
  Subagents,      \* those of subagents, which no stop() waits for
  Tasks,          \* the tasks that run lifecycle hooks
  Attempts,       \* reconnect_attempts
  NoTransport     \* _transport_cm is None

Users == Calls \cup Tasks
Transports == Users \X (0 .. Attempts)

ASSUME McpAssumption ==
  /\ Subagents \subseteq Calls /\ Calls \cap Tasks = {}
  /\ Attempts \in Nat \ {0} /\ NoTransport \notin Transports

VARIABLES
  link,      \* the MCPServerConnection, and whether _connections has it
  kept,      \* the open transports that are not lost
  doing,     \* where a task is in connect(), disconnect() or a call
  parted     \* history: on_unload has gone to disconnect

mcpVars == <<link, kept, doing, parted>>

(* "opening" awaits the transport, "initializing" the session; "closing"   *)
(* and "hanging up" await the end of the session and of the transport held;*)
(* "pausing" is between two attempts to reconnect.                         *)
Busy   == {"opening", "initializing", "closing", "hanging up"}
Active == Busy \cup {"pausing", "calling", "again", "listing"}

NotYet == [pc |-> "none", held |-> NoTransport, tries |-> 0, then |-> "none"]

McpTypeOK ==
  /\ link \in [connected : BOOLEAN, session : BOOLEAN, cm : Transports \cup {NoTransport},
               known : BOOLEAN]
  /\ kept \subseteq Transports
  /\ doing \in [Users -> [pc : Active \cup {"none", "over"}, held : Transports \cup {NoTransport},
                          tries : 0..Attempts, then : {"none", "opening", "pausing", "over"}]]
  /\ parted \in BOOLEAN

McpInit ==
  /\ link = [connected |-> FALSE, session |-> FALSE, cm |-> NoTransport, known |-> FALSE]
  /\ kept = {} /\ parted = FALSE
  /\ doing = [a \in Users |-> NotYet]

At(a, pc) == IF pc = "over" THEN [NotYet EXCEPT !.pc = pc] ELSE [doing[a] EXCEPT !.pc = pc]
Goes(a, pc) == doing' = [doing EXCEPT ![a] = At(a, pc)]
Trying(a, pc) == doing' = [doing EXCEPT ![a] = [At(a, pc) EXCEPT !.tries = IF pc = "over" THEN 0 ELSE @ + 1]]

(* What follows a close.                                                   *)
Follows(a) ==
  doing' = [doing EXCEPT ![a] = [At(a, doing[a].then) EXCEPT !.held = NoTransport, !.then = "none"]]

Own(a) == <<a, doing[a].tries>>

(* connect() names its transport before it awaits that it opens.           *)
Named(a, pc, cm) == IF pc = "opening" THEN Own(a) ELSE cm

Loses(names) == kept' = kept \ names

(* What is lost when a is cut off where it is.                             *)
Handling(a) ==
  CASE doing[a].pc = "initializing" -> {Own(a)}
    [] doing[a].pc = "closing"      -> {link.cm}
    [] doing[a].pc = "hanging up"   -> {doing[a].held}
    [] OTHER                        -> {}

----------------------------------------------------------------------------
(* connect() *)

(* What follows an attempt that failed: on_load gives up; a call tries     *)
(* again, after a pause, until reconnect_attempts.                         *)
NextTry(a) == IF a \in Calls /\ doing[a].tries + 1 < Attempts THEN "pausing" ELSE "over"

(* The session on top of it is created without waiting.                    *)
Opens(a) ==
  /\ doing[a].pc = "opening"
  /\ kept' = IF parted \/ link.cm # Own(a) THEN kept ELSE kept \cup {Own(a)}
  /\ link' = [link EXCEPT !.session = TRUE]
  /\ Goes(a, "initializing")
  /\ UNCHANGED parted

OpenFails(a) ==
  /\ doing[a].pc = "opening"
  /\ Trying(a, NextTry(a))
  /\ UNCHANGED <<link, kept, parted>>

Initializes(a) ==
  /\ doing[a].pc = "initializing"
  /\ link' = [link EXCEPT !.connected = TRUE, !.known = @ \/ a \in Tasks]
  /\ Goes(a, IF a \in Calls THEN "again" ELSE "listing")
  /\ UNCHANGED <<kept, parted>>

(* Mutant: a failed initialize() leaves the transport as it is.            *)
LeftOpen(a) == NextTry(a)

(* initialize() raised: close what was opened.                             *)
AfterFailure(a) == "closing"

InitializeFails(a) ==
  /\ doing[a].pc = "initializing"
  /\ doing' = [doing EXCEPT ![a].pc = AfterFailure(a), ![a].then = NextTry(a), ![a].tries = @ + 1]
  /\ UNCHANGED <<link, kept, parted>>

PauseEnds(c) ==
  /\ doing[c].pc = "pausing"
  /\ link' = [link EXCEPT !.cm = Own(c)]
  /\ Goes(c, "opening")
  /\ Loses({link.cm})
  /\ UNCHANGED parted

----------------------------------------------------------------------------
(* disconnect(), _close_session(), _close_transport() *)

(* disconnect() returns at once when the connection is down.               *)
Disconnects(a, then) ==
  IF link.connected
  THEN /\ link' = [link EXCEPT !.connected = FALSE]
       /\ doing' = [doing EXCEPT ![a].pc = "closing", ![a].then = then]
       /\ UNCHANGED kept
  ELSE /\ link' = [link EXCEPT !.cm = Named(a, then, @)]
       /\ Goes(a, then)
       /\ Loses({link.cm})

(* Closed or not, the session is forgotten, and the transport of now is    *)
(* next.                                                                   *)
SessionClosed(a) ==
  /\ doing[a].pc = "closing"
  /\ IF link.cm = NoTransport
     THEN /\ link' = [link EXCEPT !.session = FALSE, !.cm = Named(a, doing[a].then, @)]
          /\ Follows(a)
     ELSE /\ link' = [link EXCEPT !.session = FALSE]
          /\ doing' = [doing EXCEPT ![a].pc = "hanging up", ![a].held = link.cm]
  /\ UNCHANGED <<kept, parted>>

(* The transport is closed, or its close() raises and it is lost; either   *)
(* way the connection forgets the one it names by now.                     *)
TransportClosed(a) ==
  /\ doing[a].pc = "hanging up"
  /\ link' = [link EXCEPT !.cm = Named(a, doing[a].then, NoTransport)]
  /\ Follows(a)
  /\ Loses({doing[a].held, link.cm})
  /\ UNCHANGED parted

----------------------------------------------------------------------------
(* A tool call: handler() of create_tool_handler *)

(* The call raised: reconnect(), and one more call.                        *)
Raises(c) == Disconnects(c, "opening") /\ UNCHANGED parted

(* call_tool() raises at once when there is no session.                    *)
CallTool(c) ==
  /\ doing[c].pc = "none"
  /\ \/ link.session /\ Goes(c, "calling") /\ UNCHANGED <<link, kept, parted>>
     \/ ~ link.session /\ Raises(c)

(* With a result, or with an error text: of a timeout, or of the second    *)
(* call, which is not followed by a third.                                 *)
CallReturns(c) ==
  /\ doing[c].pc \in {"calling", "again"} /\ Goes(c, "over")
  /\ UNCHANGED <<link, kept, parted>>

CallFails(c) == doing[c].pc = "calling" /\ Raises(c)

(* The task is cancelled where it is: `except Exception` does not see it.  *)
Cut(a) ==
  /\ doing[a].pc \in Active /\ Goes(a, "over")
  /\ Loses(Handling(a))
  /\ UNCHANGED <<link, parted>>

CallStep(c) ==
  \/ Opens(c) \/ OpenFails(c) \/ Initializes(c) \/ InitializeFails(c) \/ PauseEnds(c)
  \/ SessionClosed(c) \/ TransportClosed(c)
  \/ CallReturns(c) \/ CallFails(c)
=============================================================================
