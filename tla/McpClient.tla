------------------------------ MODULE McpClient ------------------------------
(***************************************************************************)
(* MCP clients and the resolver of their tools: Connect, ListTools,        *)
(* CallTool, Close and the reconnect goroutine of each Client              *)
(* (contrib/mcp/client.go), and the cache of the ToolsResolver that        *)
(* several agents share (contrib/mcp/resolver.go).                         *)
(*                                                                         *)
(* A step is a critical section of connectMutex, an access to one of the   *)
(* fields that are read outside it, or a call of the SDK.  Servers offer   *)
(* at least one tool each.                                                 *)
(***************************************************************************)
EXTENDS Naturals, Sequences, SequencesExt

CONSTANTS
  Clients,      \* the clients of the resolver, in order
  Users,        \* goroutines that use them
  MaxOps,       \* bound: operations of all users together
  MaxSessions,  \* bound: sessions that are opened
  Actions       \* what users do: subset of {"resolve", "call", "close"}

ASSUME McpAssumption ==
  /\ Clients \in Seq(STRING) /\ Clients # <<>> /\ IsInjective(Clients)
  /\ MaxOps \in Nat /\ MaxSessions \in Nat
  /\ Actions \subseteq {"resolve", "call", "close"}
  /\ Users \cap {"free", "loop"} = {}  \* who may hold a lock, told apart

Servers == Range(Clients)

VARIABLES
  session, connected,  \* of each client; session 0 is nil
  mutex,               \* who holds connectMutex: a user, the goroutine, "free"
  ctxDone,             \* the current connectCtx is cancelled
  reconnecting,
  live, made,          \* sessions that are up; sessions opened so far
  rpc, rdone, rsess,   \* reconnect: where it is, its ctx cancelled, its session
  upc, at, held,       \* users: where they are, at which client, session to close
  got, failed,         \* of a Resolve under way: servers with tools, any error
  loaded, cache,       \* of the resolver
  ops, closes,         \* operations begun, calls of Close
  wanted               \* no Close since the last connect of a user

clientVars == <<session, connected, mutex, ctxDone, reconnecting, live, made>>
loopVars == <<rpc, rdone, rsess>>
userVars == <<upc, at, held, got, failed>>
resolverVars == <<loaded, cache>>
mvars == <<clientVars, loopVars, userVars, resolverVars, ops, closes, wanted>>

MInit ==
  /\ session = [c \in Servers |-> 0] /\ connected = [c \in Servers |-> FALSE]
  /\ mutex = [c \in Servers |-> "free"] /\ ctxDone = [c \in Servers |-> FALSE]
  /\ reconnecting = [c \in Servers |-> FALSE]
  /\ live = {} /\ made = 0
  /\ rpc = [c \in Servers |-> "none"] /\ rdone = [c \in Servers |-> FALSE]
  /\ rsess = [c \in Servers |-> 0]
  /\ upc = [u \in Users |-> "idle"] /\ at = [u \in Users |-> 1]
  /\ held = [u \in Users |-> 0] /\ got = [u \in Users |-> {}]
  /\ failed = [u \in Users |-> FALSE]
  /\ loaded = FALSE /\ cache = {}
  /\ ops = 0 /\ closes = 0 /\ wanted = [c \in Servers |-> FALSE]

Goto(u, place) == upc' = [upc EXCEPT ![u] = place]

-----------------------------------------------------------------------------
\* connect with a fault: who gets the lock does not look at connected again.
DialsAgain(c, who) ==
  /\ mutex[c] = "free"
  /\ ctxDone' = [ctxDone EXCEPT ![c] = FALSE]
  /\ mutex' = [mutex EXCEPT ![c] = who]

\* connect: lock, renew a cancelled connectCtx, return if connected; else dial,
\* with the lock held.
Locks(c, who) ==
  /\ mutex[c] = "free"
  /\ ctxDone' = [ctxDone EXCEPT ![c] = FALSE]
  /\ mutex' = [mutex EXCEPT ![c] = IF connected[c] THEN "free" ELSE who]

\* The SDK has connected: the session is stored, and a goroutine watches it.
Dialed(c, startReconnect) ==
  /\ made < MaxSessions
  /\ made' = made + 1
  /\ live' = live \cup {made + 1}
  /\ session' = [session EXCEPT ![c] = made + 1]
  /\ connected' = [connected EXCEPT ![c] = TRUE]
  /\ mutex' = [mutex EXCEPT ![c] = "free"]
  /\ IF startReconnect /\ ~ reconnecting[c]
     THEN /\ reconnecting' = [reconnecting EXCEPT ![c] = TRUE]
          /\ rpc' = [rpc EXCEPT ![c] = "check"]
          /\ rdone' = [rdone EXCEPT ![c] = ctxDone[c]]
     ELSE UNCHANGED <<reconnecting, rpc, rdone>>
  /\ UNCHANGED ctxDone

\* The transport cannot be created, or the SDK returns an error.
DialFails(c) ==
  /\ mutex' = [mutex EXCEPT ![c] = "free"]
  /\ UNCHANGED <<session, connected, ctxDone, reconnecting, live, made>>

-----------------------------------------------------------------------------
\* The reconnect goroutine.
Loop(c, place) == rpc' = [rpc EXCEPT ![c] = place]

OutsideLoop == <<userVars, resolverVars, ops, closes, wanted>>

\* The heads of its two loops: return when the context is done.
LoopChecks(c) ==
  /\ rpc[c] \in {"check", "inner"}
  /\ Loop(c, IF rdone[c] THEN "exit" ELSE IF rpc[c] = "check" THEN "read" ELSE "lock")
  /\ UNCHANGED <<clientVars, rdone, rsess, OutsideLoop>>

LoopReads(c) ==
  /\ rpc[c] = "read" /\ mutex[c] = "free"
  /\ LET watched == session[c] # 0 /\ connected[c]
     IN  /\ Loop(c, IF watched THEN "wait" ELSE "inner")
         /\ rsess' = [rsess EXCEPT ![c] = IF watched THEN session[c] ELSE 0]
  /\ UNCHANGED <<clientVars, rdone, OutsideLoop>>

\* LoopWaits with a fault: the loss of the session is not recorded.
LossMissed(c) ==
  /\ rpc[c] = "wait" /\ rsess[c] \notin live
  /\ Loop(c, "inner")
  /\ rsess' = [rsess EXCEPT ![c] = 0]
  /\ UNCHANGED <<clientVars, rdone, OutsideLoop>>

\* session.Wait returns: the session is lost or was closed.
LoopWaits(c) ==
  /\ rpc[c] = "wait" /\ rsess[c] \notin live
  /\ connected' = [connected EXCEPT ![c] = FALSE]
  /\ Loop(c, "inner")
  /\ rsess' = [rsess EXCEPT ![c] = 0]
  /\ UNCHANGED <<session, mutex, ctxDone, reconnecting, live, made, rdone, OutsideLoop>>

LoopLocks(c) ==
  /\ rpc[c] = "lock"
  /\ Locks(c, "loop")
  /\ Loop(c, IF mutex'[c] = "free" THEN "check" ELSE "dial")
  /\ UNCHANGED <<session, connected, reconnecting, live, made, rdone, rsess, OutsideLoop>>

\* The SDK does not connect under a cancelled context.
LoopDials(c) ==
  /\ rpc[c] = "dial" /\ ~ rdone[c] /\ made < MaxSessions
  /\ made' = made + 1
  /\ live' = live \cup {made + 1}
  /\ session' = [session EXCEPT ![c] = made + 1]
  /\ connected' = [connected EXCEPT ![c] = TRUE]
  /\ mutex' = [mutex EXCEPT ![c] = "free"]
  /\ Loop(c, "check")
  /\ UNCHANGED <<ctxDone, reconnecting, rdone, rsess, OutsideLoop>>

LoopFails(c) ==
  /\ rpc[c] = "dial"
  /\ DialFails(c)
  /\ Loop(c, "backoff")
  /\ UNCHANGED <<rdone, rsess, OutsideLoop>>

\* The timer of the backoff, or the end of the context.
LoopBacksOff(c) ==
  /\ rpc[c] = "backoff"
  /\ \/ Loop(c, "inner")
     \/ rdone[c] /\ Loop(c, "exit")
  /\ UNCHANGED <<clientVars, rdone, rsess, OutsideLoop>>

\* The deferred store.
LoopExits(c) ==
  /\ rpc[c] = "exit"
  /\ reconnecting' = [reconnecting EXCEPT ![c] = FALSE]
  /\ Loop(c, "none") /\ rdone' = [rdone EXCEPT ![c] = FALSE]
  /\ UNCHANGED <<session, connected, mutex, ctxDone, live, made, rsess, OutsideLoop>>

Reconnect(c) ==
  \/ LoopChecks(c) \/ LoopReads(c) \/ LoopWaits(c) \/ LoopLocks(c)
  \/ LoopDials(c) \/ LoopFails(c) \/ LoopBacksOff(c) \/ LoopExits(c)

\* A server drops a session.
Drop ==
  /\ \E s \in live : live' = live \ {s}
  /\ UNCHANGED <<session, connected, mutex, ctxDone, reconnecting, made, loopVars,
                 userVars, resolverVars, ops, closes, wanted>>

-----------------------------------------------------------------------------
\* Users.  Client(u) is the client u works on.
Client(u) == Clients[at[u]]

Begin(u) ==
  /\ upc[u] = "idle" /\ ops < MaxOps
  /\ ops' = ops + 1
  /\ \/ "resolve" \in Actions /\ Goto(u, "r_begin") /\ at' = [at EXCEPT ![u] = 1]
     \/ /\ \E i \in DOMAIN Clients : at' = [at EXCEPT ![u] = i]
        /\ \/ "call" \in Actions /\ Goto(u, "c_check")
           \/ "close" \in Actions /\ Goto(u, "c_cancel")
  /\ UNCHANGED <<clientVars, loopVars, held, got, failed, resolverVars, closes, wanted>>

\* ToolsResolver.Resolve: the cache, or one client after the other.
ResolveBegins(u) ==
  /\ upc[u] = "r_begin"
  /\ Goto(u, IF loaded THEN "idle" ELSE "r_connect")
  /\ got' = [got EXCEPT ![u] = {}] /\ failed' = [failed EXCEPT ![u] = FALSE]
  /\ UNCHANGED <<clientVars, loopVars, at, held, resolverVars, ops, closes, wanted>>

\* CallTool, and ListTools when the resolver calls it: connected is read
\* without the lock.
Check(u) ==
  /\ upc[u] \in {"c_check", "r_list"}
  /\ Goto(u, CASE upc[u] = "c_check" -> IF connected[Client(u)] THEN "c_use" ELSE "c_connect"
               [] upc[u] = "r_list"  -> IF connected[Client(u)] THEN "r_use" ELSE "r_relist")
  /\ UNCHANGED <<clientVars, loopVars, at, held, got, failed, resolverVars, ops, closes, wanted>>

\* Where a connect that starts at this place dials, and goes on.
Dials == [c_connect |-> "c_dial", r_connect |-> "r_dial", r_relist |-> "r_redial"]
Connects == [c_dial |-> "c_use", r_dial |-> "r_list", r_redial |-> "r_use"]

UserLocks(u) ==
  /\ upc[u] \in DOMAIN Dials
  /\ Locks(Client(u), u)
  /\ Goto(u, IF mutex'[Client(u)] = "free" THEN Connects[Dials[upc[u]]] ELSE Dials[upc[u]])
  /\ wanted' = [wanted EXCEPT ![Client(u)] = TRUE]
  /\ UNCHANGED <<session, connected, reconnecting, live, made, loopVars, at, held, got,
                 failed, resolverVars, ops, closes>>

UserDials(u) ==
  /\ upc[u] \in DOMAIN Connects
  /\ Dialed(Client(u), TRUE)
  /\ Goto(u, Connects[upc[u]])
  /\ UNCHANGED <<rsess, at, held, got, failed, resolverVars, ops, closes, wanted>>

\* The next client of a Resolve, or its end.
NextClient(u) ==
  IF at[u] < Len(Clients)
  THEN Goto(u, "r_connect") /\ at' = [at EXCEPT ![u] = @ + 1]
  ELSE Goto(u, "r_end") /\ UNCHANGED at

\* A Resolve goes on without a client it cannot connect to; when the tools
\* cannot be listed, it closes the client.
UserDialFails(u) ==
  /\ upc[u] \in DOMAIN Connects
  /\ DialFails(Client(u))
  /\ \/ upc[u] = "c_dial" /\ Goto(u, "idle") /\ UNCHANGED <<at, failed>>
     \/ upc[u] = "r_dial" /\ NextClient(u) /\ failed' = [failed EXCEPT ![u] = TRUE]
     \/ /\ upc[u] = "r_redial" /\ Goto(u, "r_cancel") /\ failed' = [failed EXCEPT ![u] = TRUE]
        /\ UNCHANGED at
  /\ UNCHANGED <<loopVars, held, got, resolverVars, ops, closes, wanted>>

\* The session field is read without the lock: after a concurrent Close it is
\* nil, and the SDK dereferences it.
Panics(u) ==
  /\ upc[u] \in {"c_use", "r_use"} /\ session[Client(u)] = 0
  /\ Goto(u, "panic")
  /\ UNCHANGED <<clientVars, loopVars, at, held, got, failed, resolverVars, ops, closes, wanted>>

\* CallTool of the SDK returns a result or an error, and so does the handler.
CallsTool(u) ==
  /\ upc[u] = "c_use" /\ session[Client(u)] # 0
  /\ Goto(u, "idle")
  /\ UNCHANGED <<clientVars, loopVars, at, held, got, failed, resolverVars, ops, closes, wanted>>

\* The tools are listed and converted; a tool that cannot be converted counts
\* as an error and is left out.
Lists(u) ==
  /\ upc[u] = "r_use" /\ session[Client(u)] \in live
  /\ \/ got' = [got EXCEPT ![u] = @ \cup {Client(u)}] /\ failed' \in {failed, [failed EXCEPT ![u] = TRUE]}
     \/ failed' = [failed EXCEPT ![u] = TRUE] /\ UNCHANGED got
  /\ NextClient(u)
  /\ UNCHANGED <<clientVars, loopVars, held, resolverVars, ops, closes, wanted>>

ListFails(u) ==
  /\ upc[u] = "r_use" /\ session[Client(u)] # 0
  /\ failed' = [failed EXCEPT ![u] = TRUE]
  /\ Goto(u, "r_cancel")
  /\ UNCHANGED <<clientVars, loopVars, at, held, got, resolverVars, ops, closes, wanted>>

\* Errors and no tools: nothing is cached.  Else what was found is kept for good.
ResolveEnds(u) ==
  /\ upc[u] = "r_end"
  /\ IF failed[u] /\ got[u] = {}
     THEN UNCHANGED resolverVars
     ELSE loaded' = TRUE /\ cache' = got[u]
  /\ Goto(u, "idle")
  /\ UNCHANGED <<clientVars, loopVars, at, held, got, failed, ops, closes, wanted>>

\* Close: cancel the context, before the lock is taken.
CloseCancels(u) ==
  /\ upc[u] \in {"c_cancel", "r_cancel"}
  /\ LET c == Client(u)
     IN  /\ rdone' = [rdone EXCEPT ![c] = @ \/ (rpc[c] # "none" /\ ~ ctxDone[c])]
         /\ ctxDone' = [ctxDone EXCEPT ![c] = TRUE]
         /\ wanted' = [wanted EXCEPT ![c] = FALSE]
  /\ closes' = closes + 1
  /\ Goto(u, IF upc[u] = "c_cancel" THEN "c_take" ELSE "r_take")
  /\ UNCHANGED <<session, connected, mutex, reconnecting, live, made, rpc, rsess, at, held,
                 got, failed, resolverVars, ops>>

\* Take the session under the lock.
CloseTakes(u) ==
  /\ upc[u] \in {"c_take", "r_take"} /\ mutex[Client(u)] = "free"
  /\ held' = [held EXCEPT ![u] = session[Client(u)]]
  /\ session' = [session EXCEPT ![Client(u)] = 0]
  /\ connected' = [connected EXCEPT ![Client(u)] = FALSE]
  /\ Goto(u, IF upc[u] = "c_take" THEN "c_close" ELSE "r_close")
  /\ UNCHANGED <<mutex, ctxDone, reconnecting, live, made, loopVars, at, got, failed,
                 resolverVars, ops, closes, wanted>>

\* Close the session outside the lock.
CloseSession(u) ==
  /\ upc[u] \in {"c_close", "r_close"}
  /\ live' = live \ {held[u]}
  /\ held' = [held EXCEPT ![u] = 0]
  /\ IF upc[u] = "c_close" THEN Goto(u, "idle") /\ UNCHANGED at ELSE NextClient(u)
  /\ UNCHANGED <<session, connected, mutex, ctxDone, reconnecting, made, loopVars, got,
                 failed, resolverVars, ops, closes, wanted>>

User(u) ==
  \/ ResolveBegins(u) \/ Check(u) \/ UserLocks(u) \/ UserDials(u) \/ UserDialFails(u)
  \/ Panics(u) \/ CallsTool(u) \/ Lists(u) \/ ListFails(u) \/ ResolveEnds(u)
  \/ CloseCancels(u) \/ CloseTakes(u) \/ CloseSession(u)

\* Nothing is left to do.
Idle ==
  /\ ops = MaxOps /\ \A u \in Users : upc[u] \in {"idle", "panic"}
  /\ UNCHANGED mvars

MNext ==
  \/ \E c \in Servers : Reconnect(c)
  \/ \E u \in Users : Begin(u) \/ User(u)
  \/ Drop \/ Idle

MSpec == MInit /\ [][MNext]_mvars

\* Goroutines go on and SDK calls return; a server that is dialled again and
\* again accepts in the end.  Nobody is obliged to begin an operation, and
\* servers need not drop sessions.
MFair ==
  /\ \A c \in Servers : WF_mvars(Reconnect(c)) /\ SF_mvars(LoopDials(c))
  /\ \A u \in Users : WF_mvars(User(u))

-----------------------------------------------------------------------------
\* Somebody is in the middle of connecting or closing client c.
Busy(c) ==
  \/ rpc[c] = "dial"
  \/ \E u \in Users :
       Client(u) = c /\ upc[u] \in {"c_dial", "r_dial", "r_redial", "c_take", "r_take"}

\* A closed client stays closed: once a Close is through and nobody has asked
\* for the client since, the reconnect goroutine does not bring a session back
\* (Close cancels connectCtx before it takes the lock).  And as long as nobody
\* calls Close, a client has one open session at most, however many users and
\* the reconnect goroutine connect at the same time (connected is looked at
\* again under connectMutex).
SessionsHeld ==
  /\ \A c \in Servers : ~ wanted[c] /\ ~ Busy(c) => session[c] = 0 /\ ~ connected[c]
  /\ closes = 0 => \A s \in live : \E c \in Servers : session[c] = s

\* A client that nobody closed comes back after its session was lost.
Recovers ==
  \A c \in Servers :
    (session[c] # 0 /\ closes = 0) ~>
      ((connected[c] /\ session[c] \in live) \/ closes > 0 \/ made = MaxSessions)
=============================================================================
