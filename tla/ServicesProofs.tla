--------------------------- MODULE ServicesProofs ---------------------------
(***************************************************************************)
(* Proofs about the components of MCServices: the MCP clients (McpClient), *)
(* for any number of clients, users, operations and sessions, and the      *)
(* terminal (Terminal), for any number of turns, tool calls and keys.      *)
(***************************************************************************)
EXTENDS McpClient, Terminal, TLAPS

-----------------------------------------------------------------------------
(***************************************************************************)
(* The MCP clients.                                                        *)
(***************************************************************************)
DialPc  == {"c_dial", "r_dial", "r_redial"}
TakePc  == {"c_take", "r_take"}
ClosePc == {"c_close", "r_close"}
UserPc  == {"idle", "panic", "c_check", "c_connect", "c_use", "c_cancel", "r_begin", "r_connect",
            "r_list", "r_relist", "r_use", "r_cancel", "r_end"} \cup DialPc \cup TakePc \cup ClosePc
LoopPc  == {"none", "check", "read", "wait", "inner", "lock", "dial", "backoff", "exit"}

McpTypes ==
  /\ session \in [Servers -> 0 .. made] /\ connected \in [Servers -> BOOLEAN]
  /\ mutex \in [Servers -> {"free", "loop"} \cup Users] /\ ctxDone \in [Servers -> BOOLEAN]
  /\ made \in Nat /\ live \subseteq 1 .. made
  /\ rpc \in [Servers -> LoopPc] /\ rdone \in [Servers -> BOOLEAN]
  /\ rsess \in [Servers -> Nat]
  /\ upc \in [Users -> UserPc] /\ at \in [Users -> 1 .. Len(Clients)]
  /\ closes \in Nat /\ wanted \in [Servers -> BOOLEAN]

(***************************************************************************)
(* The inductive invariant.                                                *)
(***************************************************************************)
Dialing(u, c) == Client(u) = c /\ upc[u] \in DialPc
Taking(c) == \E u \in Users : Client(u) = c /\ upc[u] \in TakePc

\* Whoever dials a client holds its lock and found it disconnected.
LockHeld ==
  \A c \in Servers :
    /\ \A u \in Users : Dialing(u, c) => mutex[c] = u /\ ~ connected[c]
    /\ rpc[c] = "dial" => mutex[c] = "loop" /\ ~ connected[c]

\* After a Close the reconnect goroutine runs on a cancelled context.  A user that
\* dials meanwhile holds the lock that the Close is still waiting for.
Cancelled ==
  \A c \in Servers :
    /\ rpc[c] # "none" /\ ctxDone[c] => rdone[c]
    /\ ~ wanted[c] /\ rpc[c] # "none" => rdone[c]
    /\ \A u \in Users : ~ wanted[c] /\ Dialing(u, c) => ctxDone[c] /\ Taking(c)
    /\ ~ wanted[c] /\ ~ Taking(c) => session[c] = 0 /\ ~ connected[c]

\* Without a Close, the goroutine waits for the client's own session, and a client
\* that is not connected has lost its session.
OneSession ==
  closes = 0 =>
    /\ \A u \in Users : upc[u] \notin TakePc \cup ClosePc
    /\ \A c \in Servers : /\ ~ connected[c] => session[c] \notin live
                          /\ rpc[c] = "wait" => connected[c] /\ rsess[c] = session[c]
    /\ \A s \in live : \E c \in Servers : session[c] = s

McpInv == McpTypes /\ LockHeld /\ Cancelled /\ OneSession

-----------------------------------------------------------------------------
\* The clients are a sequence without duplicates; users work on one of them.
LEMMA ClientsFacts ==
  /\ Len(Clients) \in Nat /\ DOMAIN Clients = 1 .. Len(Clients)
  /\ \A i \in 1 .. Len(Clients) : Clients[i] \in Servers
  /\ "free" \notin Users /\ "loop" \notin Users
  <1>1. Clients \in Seq(STRING)
    BY McpAssumption
  <1> QED
    BY <1>1, McpAssumption DEF Servers, Range

\* A user always works on a client of the resolver.
LEMMA ClientType ==
  ASSUME McpTypes, NEW u \in Users
  PROVE  Client(u) \in Servers
  BY ClientsFacts DEF McpTypes, Client

\* The invariant holds before anything is done.
LEMMA InitMcp == MInit => McpInv
  <1> SUFFICES ASSUME MInit PROVE McpInv
    OBVIOUS
  <1>1. 1 \in 1 .. Len(Clients)
    BY McpAssumption, ClientsFacts
  <1>2. McpTypes
    BY <1>1 DEF MInit, McpTypes, UserPc, LoopPc
  <1>3. LockHeld /\ OneSession
    BY DEF MInit, LockHeld, Dialing, OneSession, DialPc, TakePc, ClosePc
  <1>4. Cancelled
    BY DEF MInit, Cancelled, Dialing, DialPc
  <1> QED
    BY <1>2, <1>3, <1>4 DEF McpInv

\* A user that moves between places where it neither dials nor closes.
LEMMA UserMoves ==
  ASSUME McpInv, NEW u \in Users,
         UNCHANGED <<clientVars, loopVars, closes, wanted>>,
         upc' \in [Users -> UserPc], at' \in [Users -> 1 .. Len(Clients)],
         \A w \in Users \ {u} : upc'[w] = upc[w] /\ at'[w] = at[w],
         upc[u] \notin DialPc \cup TakePc, upc'[u] \notin DialPc \cup TakePc \cup ClosePc
  PROVE  McpInv'
  <1>1. McpTypes'
    BY DEF McpInv, McpTypes, clientVars, loopVars
  <1>2. \A w \in Users, c \in Servers : Dialing(w, c)' <=> Dialing(w, c)
    BY DEF Dialing, Client
  <1>3. \A c \in Servers : Taking(c)' <=> Taking(c)
    BY DEF Taking, Client
  <1>4. LockHeld'
    BY <1>2 DEF McpInv, LockHeld, clientVars, loopVars
  <1>5. Cancelled'
    BY <1>2, <1>3 DEF McpInv, Cancelled, clientVars, loopVars
  <1>6. OneSession'
    BY DEF McpInv, OneSession, clientVars, loopVars
  <1> QED
    BY <1>1, <1>4, <1>5, <1>6 DEF McpInv

\* Beginning an operation, resolving, listing and calling a tool.
LEMMA QuietUserInv ==
  ASSUME McpInv, NEW u \in Users,
         Begin(u) \/ ResolveBegins(u) \/ Check(u) \/ Panics(u) \/ CallsTool(u) \/ Lists(u)
         \/ ListFails(u) \/ ResolveEnds(u)
  PROVE  McpInv'
  <1>0. /\ upc \in [Users -> UserPc] /\ at \in [Users -> 1 .. Len(Clients)]
        /\ Len(Clients) \in Nat /\ DOMAIN Clients = 1 .. Len(Clients) /\ Clients # <<>>
    BY ClientsFacts, McpAssumption DEF McpInv, McpTypes
  <1>1. 1 \in 1 .. Len(Clients)
    BY McpAssumption, ClientsFacts
  <1>2. UNCHANGED <<clientVars, loopVars, closes, wanted>>
    BY DEF Begin, ResolveBegins, Check, Panics, CallsTool, Lists, ListFails, ResolveEnds
  <1>3. \E p \in UserPc \ (DialPc \cup TakePc \cup ClosePc) : upc' = [upc EXCEPT ![u] = p]
    <2>1. CASE Begin(u) \/ ResolveBegins(u) \/ Panics(u) \/ CallsTool(u) \/ ListFails(u) \/ ResolveEnds(u)
      BY <2>1 DEF Begin, ResolveBegins, Panics, CallsTool, ListFails, ResolveEnds, Goto,
                  UserPc, DialPc, TakePc, ClosePc
    <2>2. CASE Check(u)
      <3>1. \E p \in {"c_use", "c_connect", "r_use", "r_relist"} : upc' = [upc EXCEPT ![u] = p]
        BY <2>2 DEF Check, Goto
      <3> QED
        BY <3>1 DEF UserPc, DialPc, TakePc, ClosePc
    <2>3. CASE Lists(u)
      BY <2>3 DEF Lists, NextClient, Goto, UserPc, DialPc, TakePc, ClosePc
    <2> QED
      BY <2>1, <2>2, <2>3
  <1>4. at' = at \/ \E i \in 1 .. Len(Clients) : at' = [at EXCEPT ![u] = i]
    <2>1. CASE Begin(u)
      BY <1>0, <1>1, <2>1 DEF Begin
    <2>2. CASE Lists(u)
      <3>1. at' = at \/ (at[u] < Len(Clients) /\ at' = [at EXCEPT ![u] = at[u] + 1])
        BY <2>2 DEF Lists, NextClient
      <3>2. at[u] < Len(Clients) => at[u] + 1 \in 1 .. Len(Clients)
        BY <1>0
      <3> QED
        BY <3>1, <3>2
    <2> QED
      BY <2>1, <2>2 DEF ResolveBegins, Check, Panics, CallsTool, ListFails, ResolveEnds
  <1>5. upc[u] \notin DialPc \cup TakePc
    BY DEF Begin, ResolveBegins, Check, Panics, CallsTool, Lists, ListFails, ResolveEnds,
           DialPc, TakePc
  <1>6. /\ upc' \in [Users -> UserPc] /\ at' \in [Users -> 1 .. Len(Clients)]
        /\ \A w \in Users \ {u} : upc'[w] = upc[w] /\ at'[w] = at[w]
        /\ upc'[u] \notin DialPc \cup TakePc \cup ClosePc
    BY <1>0, <1>3, <1>4
  <1> QED
    BY <1>2, <1>5, <1>6, UserMoves

\* Locking connectMutex in connect: the user dials, or the client is connected.
LEMMA UserLocksInv ==
  ASSUME McpInv, NEW u \in Users, UserLocks(u)
  PROVE  McpInv'
  <1> DEFINE c == Client(u)
  <1>1. c \in Servers /\ "free" \notin Users /\ "loop" \notin Users
    BY ClientType, ClientsFacts DEF McpInv
  <1>2. /\ mutex[c] = "free" /\ upc[u] \in {"c_connect", "r_connect", "r_relist"}
        /\ ctxDone' = [ctxDone EXCEPT ![c] = FALSE]
        /\ mutex' = [mutex EXCEPT ![c] = IF connected[c] THEN "free" ELSE u]
        /\ wanted' = [wanted EXCEPT ![c] = TRUE]
        /\ UNCHANGED <<session, connected, live, made, rpc, rdone, rsess, at, closes>>
    BY DEF UserLocks, Locks, Dials, loopVars
  <1>3. \E p \in UserPc : /\ upc' = [upc EXCEPT ![u] = p]
                          /\ p \notin TakePc \cup ClosePc
                          /\ p \in DialPc => ~ connected[c]
    <2>1. mutex'[c] = IF connected[c] THEN "free" ELSE u
      BY <1>1, <1>2 DEF McpInv, McpTypes
    <2>2. upc' = [upc EXCEPT ![u] = IF mutex'[c] = "free" THEN Connects[Dials[upc[u]]] ELSE Dials[upc[u]]]
      BY DEF UserLocks, Goto
    <2>3. Dials[upc[u]] \in DialPc /\ Connects[Dials[upc[u]]] \in {"c_use", "r_list", "r_use"}
      BY <1>2 DEF Dials, Connects, DialPc
    <2> HIDE DEF c
    <2> QED
      BY <1>1, <2>1, <2>2, <2>3 DEF UserPc, DialPc, TakePc, ClosePc
  <1> HIDE DEF c
  <1>4. PICK p \in UserPc : /\ upc' = [upc EXCEPT ![u] = p]
                            /\ p \notin TakePc \cup ClosePc
                            /\ p \in DialPc => ~ connected[c]
    BY <1>3
  <1>5. McpTypes'
    BY <1>1, <1>2, <1>4 DEF McpInv, McpTypes
  <1>6. /\ \A w \in Users : Client(w)' = Client(w)
        /\ \A w \in Users \ {u} : upc'[w] = upc[w]
        /\ upc'[u] = p /\ upc[u] \notin DialPc \cup TakePc \cup ClosePc
    BY <1>2, <1>4 DEF McpInv, McpTypes, Client, DialPc, TakePc, ClosePc
  <1>7. \A d \in Servers : Taking(d)' <=> Taking(d)
    BY <1>4, <1>6 DEF Taking
  <1>8. \A d \in Servers, w \in Users : w # u \/ d # c => (Dialing(w, d)' <=> Dialing(w, d))
    BY <1>6 DEF Dialing, c
  <1>9. \A w \in Users : ~ Dialing(w, c)
    BY <1>1, <1>2 DEF McpInv, LockHeld
  <1>10. LockHeld'
    BY <1>1, <1>2, <1>4, <1>6, <1>8, <1>9 DEF McpInv, McpTypes, LockHeld, Dialing
  <1>11. Cancelled'
    BY <1>1, <1>2, <1>7, <1>8 DEF McpInv, McpTypes, Cancelled
  <1>12. OneSession'
    BY <1>2, <1>4, <1>6 DEF McpInv, OneSession
  <1> QED
    BY <1>5, <1>10, <1>11, <1>12 DEF McpInv

\* A session that is opened by its dialer, with the lock held: the old one is lost.
LEMMA Opened ==
  ASSUME McpInv, NEW c \in Servers, mutex[c] # "free", ~ connected[c],
         made' = made + 1, live' = live \cup {made + 1},
         session' = [session EXCEPT ![c] = made + 1],
         connected' = [connected EXCEPT ![c] = TRUE], closes' = closes,
         \A d \in Servers : /\ rpc'[d] = "wait" => rpc[d] = "wait"
                            /\ rsess'[d] = rsess[d],
         \A u \in Users : upc'[u] \in TakePc \cup ClosePc => upc[u] \in TakePc \cup ClosePc
  PROVE  OneSession'
  <1> SUFFICES ASSUME closes = 0
               PROVE  /\ \A u \in Users : upc'[u] \notin TakePc \cup ClosePc
                      /\ \A d \in Servers : /\ ~ connected'[d] => session'[d] \notin live'
                                            /\ rpc'[d] = "wait" => connected'[d] /\ rsess'[d] = session'[d]
                      /\ \A s \in live' : \E d \in Servers : session'[d] = s
    BY DEF OneSession
  <1>1. /\ \A u \in Users : upc[u] \notin TakePc \cup ClosePc
        /\ \A d \in Servers : /\ ~ connected[d] => session[d] \notin live
                              /\ rpc[d] = "wait" => connected[d] /\ rsess[d] = session[d]
        /\ \A s \in live : \E d \in Servers : session[d] = s
    BY DEF McpInv, OneSession
  <1>2. /\ made \in Nat /\ session \in [Servers -> 0 .. made] /\ live \subseteq 1 .. made
        /\ connected \in [Servers -> BOOLEAN]
    BY DEF McpInv, McpTypes
  <1>3. /\ session'[c] = made + 1 /\ connected'[c]
        /\ \A d \in Servers \ {c} : session'[d] = session[d] /\ connected'[d] = connected[d]
    BY <1>2
  <1>4. \A d \in Servers : session[d] # made + 1
    BY <1>2
  <1>5. \A s \in live' : \E d \in Servers : session'[d] = s
    BY <1>1, <1>3
  <1> QED
    BY <1>1, <1>3, <1>4, <1>5

\* A user's dial succeeds.
LEMMA UserDialsInv ==
  ASSUME McpInv, NEW u \in Users, UserDials(u)
  PROVE  McpInv'
  <1> DEFINE c == Client(u)
  <1>1. c \in Servers /\ "free" \notin Users /\ "loop" \notin Users
    BY ClientType, ClientsFacts DEF McpInv
  <1>2. /\ upc[u] \in DialPc
        /\ made' = made + 1 /\ live' = live \cup {made + 1}
        /\ session' = [session EXCEPT ![c] = made + 1]
        /\ connected' = [connected EXCEPT ![c] = TRUE]
        /\ mutex' = [mutex EXCEPT ![c] = "free"]
        /\ \/ UNCHANGED <<rpc, rdone>>
           \/ /\ rpc' = [rpc EXCEPT ![c] = "check"]
              /\ rdone' = [rdone EXCEPT ![c] = ctxDone[c]]
        /\ UNCHANGED <<ctxDone, rsess, at, closes, wanted>>
    BY DEF UserDials, Dialed, Connects, DialPc
  <1>3. PICK p \in UserPc \ (DialPc \cup TakePc \cup ClosePc) : upc' = [upc EXCEPT ![u] = p]
    <2>1. upc' = [upc EXCEPT ![u] = Connects[upc[u]]]
      BY DEF UserDials, Goto
    <2>2. Connects[upc[u]] \in {"c_use", "r_list", "r_use"}
      BY <1>2 DEF DialPc, Connects
    <2> QED
      BY <2>1, <2>2 DEF UserPc, DialPc, TakePc, ClosePc
  <1>4. mutex[c] = u /\ ~ connected[c]
    BY <1>1, <1>2 DEF McpInv, LockHeld, Dialing
  <1> HIDE DEF c
  <1>5. McpTypes'
    <2>1. made \in Nat /\ made' \in Nat /\ live' \subseteq 1 .. made'
      BY <1>2 DEF McpInv, McpTypes
    <2>2. session' \in [Servers -> 0 .. made']
      <3>1. session \in [Servers -> 0 .. made']
        BY <1>2, <2>1 DEF McpInv, McpTypes
      <3> QED
        BY <1>1, <1>2, <2>1, <3>1
    <2>3. /\ connected' \in [Servers -> BOOLEAN] /\ mutex' \in [Servers -> {"free", "loop"} \cup Users]
          /\ rpc' \in [Servers -> LoopPc] /\ rdone' \in [Servers -> BOOLEAN]
      BY <1>1, <1>2 DEF McpInv, McpTypes, LoopPc
    <2>4. /\ upc' \in [Users -> UserPc] /\ at' = at /\ rsess' = rsess /\ ctxDone' = ctxDone
          /\ closes' = closes /\ wanted' = wanted
      BY <1>2, <1>3 DEF McpInv, McpTypes
    <2> QED
      BY <2>1, <2>2, <2>3, <2>4 DEF McpInv, McpTypes
  <1>6. /\ \A w \in Users : Client(w)' = Client(w)
        /\ \A w \in Users \ {u} : upc'[w] = upc[w]
        /\ upc'[u] = p
    BY <1>2, <1>3 DEF McpInv, McpTypes, Client
  <1>7. \A d \in Servers : Taking(d)' <=> Taking(d)
    BY <1>2, <1>3, <1>6 DEF Taking, DialPc, TakePc
  <1>8. \A d \in Servers, w \in Users : Dialing(w, d)' => Dialing(w, d) /\ d # c
    <2> SUFFICES ASSUME NEW d \in Servers, NEW w \in Users, Dialing(w, d)'
                 PROVE  Dialing(w, d) /\ d # c
      OBVIOUS
    <2>1. w # u /\ Dialing(w, d)
      BY <1>3, <1>6 DEF Dialing
    <2> QED
      BY <1>4, <2>1 DEF McpInv, LockHeld
  <1>9. rpc[c] # "dial"
    BY <1>1, <1>4 DEF McpInv, LockHeld
  <1>10. LockHeld'
    BY <1>1, <1>2, <1>8, <1>9 DEF McpInv, McpTypes, LockHeld
  <1>11. Cancelled'
    <2>1. ~ wanted[c] => ctxDone[c] /\ Taking(c)
      <3>1. Dialing(u, c)
        BY <1>2 DEF Dialing, c
      <3> QED
        BY <1>1, <3>1 DEF McpInv, Cancelled
    <2> SUFFICES ASSUME NEW d \in Servers
                 PROVE  /\ rpc'[d] # "none" /\ ctxDone'[d] => rdone'[d]
                        /\ ~ wanted'[d] /\ rpc'[d] # "none" => rdone'[d]
                        /\ \A w \in Users : ~ wanted'[d] /\ Dialing(w, d)' => ctxDone'[d] /\ Taking(d)'
                        /\ ~ wanted'[d] /\ ~ Taking(d)' => session'[d] = 0 /\ ~ connected'[d]
      BY DEF Cancelled
    <2>2. CASE d = c
      BY <1>1, <1>2, <1>7, <1>8, <2>1, <2>2 DEF McpInv, McpTypes, Cancelled
    <2>3. CASE d # c
      BY <1>1, <1>2, <1>7, <1>8, <2>3 DEF McpInv, McpTypes, Cancelled
    <2> QED
      BY <2>2, <2>3
  <1>12. OneSession'
    <2>1. mutex[c] # "free"
      BY <1>1, <1>4
    <2>2. \A d \in Servers : (rpc'[d] = "wait" => rpc[d] = "wait") /\ rsess'[d] = rsess[d]
      BY <1>2 DEF McpInv, McpTypes
    <2>3. \A w \in Users : upc'[w] \in TakePc \cup ClosePc => upc[w] \in TakePc \cup ClosePc
      BY <1>3, <1>6
    <2> QED
      BY <1>1, <1>2, <1>4, <2>1, <2>2, <2>3, Opened
  <1> QED
    BY <1>5, <1>10, <1>11, <1>12 DEF McpInv

\* A user's dial fails: the lock is free again.
LEMMA UserDialFailsInv ==
  ASSUME McpInv, NEW u \in Users, UserDialFails(u)
  PROVE  McpInv'
  <1> DEFINE c == Client(u)
  <1>0. /\ upc \in [Users -> UserPc] /\ at \in [Users -> 1 .. Len(Clients)]
        /\ Len(Clients) \in Nat
    BY ClientsFacts DEF McpInv, McpTypes
  <1>1. c \in Servers /\ "free" \notin Users /\ "loop" \notin Users
    BY ClientType, ClientsFacts DEF McpInv
  <1>2. /\ upc[u] \in DialPc /\ mutex' = [mutex EXCEPT ![c] = "free"]
        /\ UNCHANGED <<session, connected, ctxDone, live, made, rpc, rdone, rsess, closes, wanted>>
    BY DEF UserDialFails, DialFails, Connects, DialPc, loopVars
  <1>3. \E p \in UserPc \ (DialPc \cup TakePc \cup ClosePc) : upc' = [upc EXCEPT ![u] = p]
    BY DEF UserDialFails, NextClient, Goto, UserPc, DialPc, TakePc, ClosePc
  <1>4. at' = at \/ \E i \in 1 .. Len(Clients) : at' = [at EXCEPT ![u] = i]
    <2>1. at' = at \/ (at[u] < Len(Clients) /\ at' = [at EXCEPT ![u] = at[u] + 1])
      BY DEF UserDialFails, NextClient
    <2>2. at[u] < Len(Clients) => at[u] + 1 \in 1 .. Len(Clients)
      BY <1>0
    <2> QED
      BY <2>1, <2>2
  <1>5. mutex[c] = u
    BY <1>1, <1>2 DEF McpInv, LockHeld, Dialing
  <1> HIDE DEF c
  <1>6. /\ upc' \in [Users -> UserPc] /\ at' \in [Users -> 1 .. Len(Clients)]
        /\ \A w \in Users \ {u} : upc'[w] = upc[w] /\ at'[w] = at[w]
        /\ upc'[u] \notin DialPc \cup TakePc \cup ClosePc
    BY <1>0, <1>3, <1>4
  <1>7. McpTypes'
    BY <1>1, <1>2, <1>6 DEF McpInv, McpTypes
  <1>8. \A d \in Servers : Taking(d)' <=> Taking(d)
    BY <1>2, <1>6 DEF Taking, Client, DialPc, TakePc
  <1>9. \A d \in Servers, w \in Users : Dialing(w, d)' => Dialing(w, d) /\ d # c
    <2> SUFFICES ASSUME NEW d \in Servers, NEW w \in Users, Dialing(w, d)'
                 PROVE  Dialing(w, d) /\ d # c
      OBVIOUS
    <2>1. w # u /\ Dialing(w, d)
      BY <1>6 DEF Dialing, Client
    <2> QED
      BY <1>5, <2>1 DEF McpInv, LockHeld
  <1>10. LockHeld'
    <2>1. rpc[c] # "dial"
      BY <1>1, <1>5 DEF McpInv, LockHeld
    <2> QED
      BY <1>1, <1>2, <1>9, <2>1 DEF McpInv, McpTypes, LockHeld
  <1>11. Cancelled'
    BY <1>2, <1>8, <1>9 DEF McpInv, Cancelled
  <1>12. OneSession'
    BY <1>2, <1>6 DEF McpInv, OneSession
  <1> QED
    BY <1>7, <1>10, <1>11, <1>12 DEF McpInv

\* The first half of a Close, before the lock is taken.
LEMMA CloseCancelsInv ==
  ASSUME McpInv, NEW u \in Users, CloseCancels(u)
  PROVE  McpInv'
  <1> DEFINE c == Client(u)
  <1>1. c \in Servers
    BY ClientType DEF McpInv
  <1>2. /\ upc[u] \in {"c_cancel", "r_cancel"}
        /\ rdone' = [rdone EXCEPT ![c] = @ \/ (rpc[c] # "none" /\ ~ ctxDone[c])]
        /\ ctxDone' = [ctxDone EXCEPT ![c] = TRUE]
        /\ wanted' = [wanted EXCEPT ![c] = FALSE]
        /\ closes' = closes + 1
        /\ UNCHANGED <<session, connected, mutex, live, made, rpc, rsess, at>>
    BY DEF CloseCancels
  <1>3. PICK p \in TakePc : upc' = [upc EXCEPT ![u] = p]
    BY DEF CloseCancels, Goto, TakePc
  <1>4. /\ \A w \in Users : Client(w)' = Client(w)
        /\ \A w \in Users \ {u} : upc'[w] = upc[w]
        /\ upc'[u] = p /\ Client(u) = c
    BY <1>2, <1>3 DEF McpInv, McpTypes, Client
  <1> HIDE DEF c
  <1>5. McpTypes'
    <2>1. /\ rdone' \in [Servers -> BOOLEAN] /\ ctxDone' \in [Servers -> BOOLEAN]
          /\ wanted' \in [Servers -> BOOLEAN]
      BY <1>1, <1>2 DEF McpInv, McpTypes
    <2>2. upc' \in [Users -> UserPc]
      BY <1>3 DEF McpInv, McpTypes, UserPc
    <2>3. closes' \in Nat
      BY <1>2 DEF McpInv, McpTypes
    <2> QED
      BY <1>2, <2>1, <2>2, <2>3 DEF McpInv, McpTypes
  <1>6. \A d \in Servers, w \in Users : Dialing(w, d)' => Dialing(w, d)
    BY <1>3, <1>4 DEF Dialing, DialPc, TakePc
  <1>7. \A d \in Servers : d = c \/ Taking(d) => Taking(d)'
    BY <1>2, <1>3, <1>4 DEF Taking, TakePc
  <1>8. LockHeld'
    BY <1>2, <1>6 DEF McpInv, LockHeld
  <1>9. Cancelled'
    <2> SUFFICES ASSUME NEW d \in Servers
                 PROVE  /\ rpc'[d] # "none" /\ ctxDone'[d] => rdone'[d]
                        /\ ~ wanted'[d] /\ rpc'[d] # "none" => rdone'[d]
                        /\ \A w \in Users : ~ wanted'[d] /\ Dialing(w, d)' => ctxDone'[d] /\ Taking(d)'
                        /\ ~ wanted'[d] /\ ~ Taking(d)' => session'[d] = 0 /\ ~ connected'[d]
      BY DEF Cancelled
    <2>1. CASE d = c
      <3>1. ctxDone'[d] /\ (rpc[d] # "none" => rdone'[d])
        BY <1>1, <1>2, <2>1 DEF McpInv, McpTypes, Cancelled
      <3> QED
        BY <1>2, <1>7, <2>1, <3>1
    <2>2. CASE d # c
      <3>1. rdone'[d] = rdone[d] /\ ctxDone'[d] = ctxDone[d] /\ wanted'[d] = wanted[d]
        BY <1>2, <2>2 DEF McpInv, McpTypes
      <3> QED
        BY <1>2, <1>6, <1>7, <3>1 DEF McpInv, Cancelled
    <2> QED
      BY <2>1, <2>2
  <1>10. OneSession'
    <2>1. closes' # 0
      BY <1>2 DEF McpInv, McpTypes
    <2> QED
      BY <2>1 DEF OneSession
  <1> QED
    BY <1>5, <1>8, <1>9, <1>10 DEF McpInv

\* The second half, under the lock: nobody dials the client at the time.
LEMMA CloseTakesInv ==
  ASSUME McpInv, NEW u \in Users, CloseTakes(u)
  PROVE  McpInv'
  <1> DEFINE c == Client(u)
  <1>1. c \in Servers /\ "free" \notin Users /\ "loop" \notin Users
    BY ClientType, ClientsFacts DEF McpInv
  <1>2. /\ upc[u] \in TakePc /\ mutex[c] = "free"
        /\ session' = [session EXCEPT ![c] = 0]
        /\ connected' = [connected EXCEPT ![c] = FALSE]
        /\ UNCHANGED <<mutex, ctxDone, live, made, rpc, rdone, rsess, at, closes, wanted>>
    BY DEF CloseTakes, TakePc, loopVars
  <1>3. PICK p \in ClosePc : upc' = [upc EXCEPT ![u] = p]
    BY DEF CloseTakes, Goto, ClosePc
  <1>4. /\ \A w \in Users : Client(w)' = Client(w)
        /\ \A w \in Users \ {u} : upc'[w] = upc[w]
        /\ upc'[u] = p /\ Client(u) = c
    BY <1>2, <1>3 DEF McpInv, McpTypes, Client
  <1> HIDE DEF c
  <1>5. McpTypes'
    <2>1. /\ session' \in [Servers -> 0 .. made'] /\ connected' \in [Servers -> BOOLEAN]
      BY <1>1, <1>2 DEF McpInv, McpTypes
    <2>2. upc' \in [Users -> UserPc]
      BY <1>3 DEF McpInv, McpTypes, UserPc
    <2> QED
      BY <1>2, <2>1, <2>2 DEF McpInv, McpTypes
  <1>6. \A d \in Servers, w \in Users : Dialing(w, d)' => Dialing(w, d) /\ d # c
    <2>1. \A d \in Servers, w \in Users : Dialing(w, d)' => Dialing(w, d)
      BY <1>3, <1>4 DEF Dialing, DialPc, ClosePc
    <2>2. \A w \in Users : ~ Dialing(w, c)
      BY <1>1, <1>2 DEF McpInv, LockHeld
    <2> QED
      BY <2>1, <2>2
  <1>7. rpc[c] # "dial"
    BY <1>1, <1>2 DEF McpInv, LockHeld
  <1>8. \A d \in Servers : d # c => (Taking(d)' <=> Taking(d))
    BY <1>2, <1>3, <1>4 DEF Taking
  <1>9. \A d \in Servers \ {c} : session'[d] = session[d] /\ connected'[d] = connected[d]
    BY <1>2 DEF McpInv, McpTypes
  <1>10. session'[c] = 0 /\ ~ connected'[c]
    BY <1>1, <1>2 DEF McpInv, McpTypes
  <1>11. LockHeld'
    BY <1>2, <1>6, <1>7, <1>9 DEF McpInv, LockHeld
  <1>12. Cancelled'
    BY <1>2, <1>6, <1>8, <1>9, <1>10 DEF McpInv, Cancelled
  <1>13. OneSession'
    <2>1. closes # 0
      BY <1>2 DEF McpInv, OneSession
    <2> QED
      BY <1>2, <2>1 DEF OneSession
  <1> QED
    BY <1>5, <1>11, <1>12, <1>13 DEF McpInv

\* The end of a Close, outside the lock.
LEMMA CloseSessionInv ==
  ASSUME McpInv, NEW u \in Users, CloseSession(u)
  PROVE  McpInv'
  <1>0. /\ upc \in [Users -> UserPc] /\ at \in [Users -> 1 .. Len(Clients)]
        /\ Len(Clients) \in Nat
    BY ClientsFacts DEF McpInv, McpTypes
  <1>1. /\ upc[u] \in ClosePc /\ live' \subseteq live
        /\ UNCHANGED <<session, connected, mutex, ctxDone, made, rpc, rdone, rsess, closes, wanted>>
    BY DEF CloseSession, ClosePc, loopVars
  <1>2. PICK p \in {"idle", "r_connect", "r_end"} : upc' = [upc EXCEPT ![u] = p]
    BY DEF CloseSession, NextClient, Goto
  <1>3. at' \in [Users -> 1 .. Len(Clients)] /\ \A w \in Users \ {u} : at'[w] = at[w]
    <2>1. at' = at \/ (at[u] < Len(Clients) /\ at' = [at EXCEPT ![u] = at[u] + 1])
      BY DEF CloseSession, NextClient
    <2>2. at[u] < Len(Clients) => at[u] + 1 \in 1 .. Len(Clients)
      BY <1>0
    <2> QED
      BY <1>0, <2>1, <2>2
  <1>4. McpTypes'
    <2>1. live' \subseteq 1 .. made'
      BY <1>1 DEF McpInv, McpTypes
    <2>2. upc' \in [Users -> UserPc]
      BY <1>0, <1>2 DEF UserPc
    <2> QED
      BY <1>1, <1>3, <2>1, <2>2 DEF McpInv, McpTypes
  <1>5. \A w \in Users \ {u} : upc'[w] = upc[w] /\ Client(w)' = Client(w)
    BY <1>0, <1>2, <1>3 DEF Client
  <1>6. upc'[u] \notin DialPc \cup TakePc /\ upc[u] \notin DialPc \cup TakePc
    BY <1>0, <1>1, <1>2 DEF DialPc, TakePc, ClosePc
  <1>7. \A d \in Servers, w \in Users : Dialing(w, d)' <=> Dialing(w, d)
    BY <1>5, <1>6 DEF Dialing
  <1>8. \A d \in Servers : Taking(d)' <=> Taking(d)
    BY <1>5, <1>6 DEF Taking
  <1>9. LockHeld'
    BY <1>1, <1>7 DEF McpInv, LockHeld
  <1>10. Cancelled'
    BY <1>1, <1>7, <1>8 DEF McpInv, Cancelled
  <1>11. OneSession'
    <2>1. closes # 0
      BY <1>1 DEF McpInv, OneSession
    <2> QED
      BY <1>1, <2>1 DEF OneSession
  <1> QED
    BY <1>4, <1>9, <1>10, <1>11 DEF McpInv

\* A server drops a session; nobody on this side moves.
LEMMA DropInv ==
  ASSUME McpInv, Drop
  PROVE  McpInv'
  <1>1. /\ live' \subseteq live
        /\ UNCHANGED <<session, connected, mutex, ctxDone, made, rpc, rdone, rsess, upc, at, closes, wanted>>
    BY DEF Drop, loopVars, userVars
  <1>2. McpTypes'
    BY <1>1 DEF McpInv, McpTypes
  <1>3. LockHeld' /\ Cancelled'
    BY <1>1 DEF McpInv, LockHeld, Cancelled, Dialing, Taking, Client
  <1>4. OneSession'
    BY <1>1 DEF McpInv, OneSession
  <1> QED
    BY <1>2, <1>3, <1>4 DEF McpInv

\* A step of the goroutine of client c that leaves the client alone.
LEMMA LoopMoves ==
  ASSUME McpInv, NEW c \in Servers, NEW p \in LoopPc \ {"wait", "dial"},
         UNCHANGED <<session, connected, mutex, ctxDone, live, made, rsess, upc, at, closes, wanted>>,
         rpc[c] # "none", rpc' = [rpc EXCEPT ![c] = p],
         rdone' = rdone \/ (p = "none" /\ rdone' = [rdone EXCEPT ![c] = FALSE])
  PROVE  McpInv'
  <1>1. /\ rpc'[c] = p /\ \A d \in Servers \ {c} : rpc'[d] = rpc[d] /\ rdone'[d] = rdone[d]
        /\ p # "none" => rdone'[c] = rdone[c]
    BY DEF McpInv, McpTypes
  <1>2. McpTypes'
    <2>1. rpc' \in [Servers -> LoopPc] /\ rdone' \in [Servers -> BOOLEAN]
      BY DEF McpInv, McpTypes
    <2> QED
      BY <2>1 DEF McpInv, McpTypes
  <1>3. /\ \A d \in Servers, w \in Users : Dialing(w, d)' <=> Dialing(w, d)
        /\ \A d \in Servers : Taking(d)' <=> Taking(d)
    BY DEF Dialing, Taking, Client
  <1>4. LockHeld'
    BY <1>1, <1>3 DEF McpInv, LockHeld
  <1>5. Cancelled'
    BY <1>1, <1>3 DEF McpInv, Cancelled
  <1>6. OneSession'
    BY <1>1 DEF McpInv, OneSession
  <1> QED
    BY <1>2, <1>4, <1>5, <1>6 DEF McpInv

\* The steps of the goroutine that only move it.
LEMMA QuietLoopInv ==
  ASSUME McpInv, NEW c \in Servers, LoopChecks(c) \/ LoopBacksOff(c) \/ LoopExits(c)
  PROVE  McpInv'
  <1>1. UNCHANGED <<session, connected, mutex, ctxDone, live, made, rsess, upc, at, closes, wanted>>
    BY DEF LoopChecks, LoopBacksOff, LoopExits, clientVars, OutsideLoop, userVars
  <1>2. rpc[c] # "none"
    BY DEF LoopChecks, LoopBacksOff, LoopExits
  <1>3. PICK p \in LoopPc \ {"wait", "dial"} :
          /\ rpc' = [rpc EXCEPT ![c] = p]
          /\ rdone' = rdone \/ (p = "none" /\ rdone' = [rdone EXCEPT ![c] = FALSE])
    BY DEF LoopChecks, LoopBacksOff, LoopExits, Loop, LoopPc
  <1> QED
    BY <1>1, <1>2, <1>3, LoopMoves

\* The goroutine reads the session under the lock, and what it does when the
\* session is lost.
LEMMA LoopWatchInv ==
  ASSUME McpInv, NEW c \in Servers, LoopReads(c) \/ LoopWaits(c)
  PROVE  McpInv'
  <1>1. UNCHANGED <<session, mutex, ctxDone, live, made, rdone, upc, at, closes, wanted>>
    BY DEF LoopReads, LoopWaits, clientVars, OutsideLoop, userVars
  <1>2. PICK p \in {"wait", "inner"}, s \in Nat :
          /\ rpc' = [rpc EXCEPT ![c] = p] /\ rsess' = [rsess EXCEPT ![c] = s]
          /\ p = "wait" => connected' = connected /\ connected[c] /\ s = session[c]
          /\ \/ connected' = connected
             \/ /\ rpc[c] = "wait" /\ rsess[c] \notin live
                /\ connected' = [connected EXCEPT ![c] = FALSE]
    <2>1. session[c] \in Nat
      BY DEF McpInv, McpTypes
    <2>2. CASE LoopReads(c)
      <3>1. CASE session[c] # 0 /\ connected[c]
        BY <2>1, <2>2, <3>1 DEF LoopReads, Loop, clientVars
      <3>2. CASE ~ (session[c] # 0 /\ connected[c])
        BY <2>2, <3>2 DEF LoopReads, Loop, clientVars
      <3> QED
        BY <3>1, <3>2
    <2>3. CASE LoopWaits(c)
      BY <2>3 DEF LoopWaits, Loop
    <2> QED
      BY <2>2, <2>3
  <1>3. /\ rpc'[c] = p /\ rsess'[c] = s
        /\ \A d \in Servers \ {c} : /\ rpc'[d] = rpc[d] /\ rsess'[d] = rsess[d]
                                    /\ connected'[d] = connected[d]
        /\ connected'[c] => connected[c]
    BY <1>2 DEF McpInv, McpTypes
  <1>4. McpTypes'
    <2>1. /\ rpc' \in [Servers -> LoopPc] /\ rsess' \in [Servers -> Nat]
          /\ connected' \in [Servers -> BOOLEAN]
      BY <1>2 DEF McpInv, McpTypes, LoopPc
    <2> QED
      BY <1>1, <2>1 DEF McpInv, McpTypes
  <1>5. /\ \A d \in Servers, w \in Users : Dialing(w, d)' <=> Dialing(w, d)
        /\ \A d \in Servers : Taking(d)' <=> Taking(d)
    BY <1>1 DEF Dialing, Taking, Client
  <1>6. rpc[c] # "none" /\ p # "dial"
    BY <1>2 DEF LoopReads, LoopWaits
  <1>7. LockHeld'
    BY <1>1, <1>3, <1>5, <1>6 DEF McpInv, LockHeld
  <1>8. Cancelled'
    BY <1>1, <1>3, <1>5, <1>6 DEF McpInv, Cancelled
  <1>9. OneSession'
    <2> SUFFICES ASSUME closes = 0 PROVE OneSession'
      BY <1>1 DEF OneSession
    <2>1. /\ \A w \in Users : upc[w] \notin TakePc \cup ClosePc
          /\ \A d \in Servers : /\ ~ connected[d] => session[d] \notin live
                                /\ rpc[d] = "wait" => connected[d] /\ rsess[d] = session[d]
          /\ \A e \in live : \E d \in Servers : session[d] = e
      BY DEF McpInv, OneSession
    <2>2. ~ connected'[c] => session[c] \notin live
      BY <1>2, <2>1 DEF McpInv, McpTypes
    <2>3. rpc'[c] = "wait" => connected'[c] /\ rsess'[c] = session[c]
      BY <1>2, <1>3
    <2> QED
      BY <1>1, <1>3, <2>1, <2>2, <2>3 DEF OneSession
  <1> QED
    BY <1>4, <1>7, <1>8, <1>9 DEF McpInv

\* Locking connectMutex in reconnect, and giving the lock back after a failure.
LEMMA LoopLocksInv ==
  ASSUME McpInv, NEW c \in Servers, LoopLocks(c) \/ LoopFails(c)
  PROVE  McpInv'
  <1>0. "free" \notin Users /\ "loop" \notin Users
    BY ClientsFacts
  <1>1. UNCHANGED <<session, connected, live, made, rdone, rsess, upc, at, closes, wanted>>
    BY DEF LoopLocks, LoopFails, DialFails, Locks, OutsideLoop, userVars
  <1>2. PICK p \in {"check", "dial", "backoff"} :
          /\ rpc' = [rpc EXCEPT ![c] = p]
          /\ mutex' = [mutex EXCEPT ![c] = IF p = "dial" THEN "loop" ELSE "free"]
          /\ p = "dial" => ~ connected[c]
    <2>1. CASE LoopLocks(c)
      <3>1. mutex' = [mutex EXCEPT ![c] = IF connected[c] THEN "free" ELSE "loop"]
        BY <2>1 DEF LoopLocks, Locks
      <3>2. rpc' = [rpc EXCEPT ![c] = IF mutex'[c] = "free" THEN "check" ELSE "dial"]
        BY <2>1 DEF LoopLocks, Loop
      <3>3. mutex'[c] = IF connected[c] THEN "free" ELSE "loop"
        BY <3>1 DEF McpInv, McpTypes
      <3>4. CASE connected[c]
        BY <3>1, <3>2, <3>3, <3>4
      <3>5. CASE ~ connected[c]
        BY <3>1, <3>2, <3>3, <3>5
      <3> QED
        BY <3>4, <3>5
    <2>2. CASE LoopFails(c)
      BY <2>2 DEF LoopFails, DialFails, Loop
    <2> QED
      BY <2>1, <2>2
  <1>3. /\ rpc[c] # "none"
        /\ ctxDone' = ctxDone \/ ctxDone' = [ctxDone EXCEPT ![c] = FALSE]
    BY DEF LoopLocks, Locks, LoopFails, DialFails
  <1>4. \A w \in Users : ~ Dialing(w, c)
    <2>1. mutex[c] \in {"free", "loop"}
      BY DEF McpInv, LockHeld, LoopLocks, LoopFails, Locks
    <2> QED
      BY <1>0, <2>1 DEF McpInv, LockHeld
  <1>5. /\ rpc'[c] = p /\ mutex'[c] = (IF p = "dial" THEN "loop" ELSE "free")
        /\ \A d \in Servers \ {c} : /\ rpc'[d] = rpc[d] /\ mutex'[d] = mutex[d]
                                    /\ ctxDone'[d] = ctxDone[d]
        /\ ctxDone'[c] => ctxDone[c]
    BY <1>2, <1>3 DEF McpInv, McpTypes
  <1>6. McpTypes'
    <2>1. /\ rpc' \in [Servers -> LoopPc] /\ ctxDone' \in [Servers -> BOOLEAN]
          /\ mutex' \in [Servers -> {"free", "loop"} \cup Users]
      BY <1>2, <1>3 DEF McpInv, McpTypes, LoopPc
    <2> QED
      BY <1>1, <2>1 DEF McpInv, McpTypes
  <1>7. /\ \A d \in Servers, w \in Users : Dialing(w, d)' <=> Dialing(w, d)
        /\ \A d \in Servers : Taking(d)' <=> Taking(d)
    BY <1>1 DEF Dialing, Taking, Client
  <1>8. LockHeld'
    BY <1>1, <1>2, <1>4, <1>5, <1>7 DEF McpInv, LockHeld
  <1>9. Cancelled'
    BY <1>1, <1>3, <1>4, <1>5, <1>7 DEF McpInv, Cancelled
  <1>10. OneSession'
    BY <1>1, <1>5 DEF McpInv, OneSession
  <1> QED
    BY <1>6, <1>8, <1>9, <1>10 DEF McpInv

\* The goroutine dials again: its context is not cancelled, so the client is wanted.
LEMMA LoopDialsInv ==
  ASSUME McpInv, NEW c \in Servers, LoopDials(c)
  PROVE  McpInv'
  <1>0. "free" \notin Users /\ "loop" \notin Users
    BY ClientsFacts
  <1>1. /\ rpc[c] = "dial" /\ ~ rdone[c]
        /\ made' = made + 1 /\ live' = live \cup {made + 1}
        /\ session' = [session EXCEPT ![c] = made + 1]
        /\ connected' = [connected EXCEPT ![c] = TRUE]
        /\ mutex' = [mutex EXCEPT ![c] = "free"]
        /\ rpc' = [rpc EXCEPT ![c] = "check"]
        /\ UNCHANGED <<ctxDone, rdone, rsess, upc, at, closes, wanted>>
    BY DEF LoopDials, Loop, OutsideLoop, userVars
  <1>2. mutex[c] = "loop" /\ ~ connected[c] /\ wanted[c]
    BY <1>1 DEF McpInv, LockHeld, Cancelled
  <1>3. McpTypes'
    <2>1. made \in Nat /\ made' \in Nat /\ live' \subseteq 1 .. made'
      BY <1>1 DEF McpInv, McpTypes
    <2>2. session' \in [Servers -> 0 .. made']
      <3>1. session \in [Servers -> 0 .. made']
        BY <1>1, <2>1 DEF McpInv, McpTypes
      <3> QED
        BY <1>1, <2>1, <3>1
    <2>3. /\ connected' \in [Servers -> BOOLEAN] /\ mutex' \in [Servers -> {"free", "loop"} \cup Users]
          /\ rpc' \in [Servers -> LoopPc]
      BY <1>1 DEF McpInv, McpTypes, LoopPc
    <2> QED
      BY <1>1, <2>1, <2>2, <2>3 DEF McpInv, McpTypes
  <1>4. /\ rpc'[c] = "check" /\ mutex'[c] = "free"
        /\ \A d \in Servers \ {c} : /\ rpc'[d] = rpc[d] /\ mutex'[d] = mutex[d]
                                    /\ session'[d] = session[d] /\ connected'[d] = connected[d]
    BY <1>1 DEF McpInv, McpTypes
  <1>5. /\ \A d \in Servers, w \in Users : Dialing(w, d)' <=> Dialing(w, d)
        /\ \A d \in Servers : Taking(d)' <=> Taking(d)
    BY <1>1 DEF Dialing, Taking, Client
  <1>6. \A w \in Users : ~ Dialing(w, c)
    BY <1>0, <1>2 DEF McpInv, LockHeld
  <1>7. LockHeld'
    BY <1>4, <1>5, <1>6 DEF McpInv, LockHeld
  <1>8. Cancelled'
    BY <1>1, <1>2, <1>4, <1>5, <1>6 DEF McpInv, Cancelled
  <1>9. OneSession'
    <2>1. mutex[c] # "free"
      BY <1>2
    <2>2. \A d \in Servers : (rpc'[d] = "wait" => rpc[d] = "wait") /\ rsess'[d] = rsess[d]
      BY <1>1, <1>4
    <2> QED
      BY <1>1, <1>2, <2>1, <2>2, Opened
  <1> QED
    BY <1>3, <1>7, <1>8, <1>9 DEF McpInv

\* Every step keeps the invariant.
LEMMA StepMcp ==
  ASSUME McpInv, [MNext]_mvars
  PROVE  McpInv'
  <1>1. CASE UNCHANGED mvars
    BY <1>1 DEF mvars, clientVars, loopVars, userVars, McpInv, McpTypes, LockHeld, Cancelled,
                OneSession, Dialing, Taking, Client
  <1>2. CASE Idle
    BY <1>1, <1>2 DEF Idle
  <1>3. CASE Drop
    BY <1>3, DropInv
  <1>4. ASSUME NEW c \in Servers, Reconnect(c) PROVE McpInv'
    BY <1>4, QuietLoopInv, LoopWatchInv, LoopLocksInv, LoopDialsInv DEF Reconnect
  <1>5. ASSUME NEW u \in Users, Begin(u) \/ User(u) PROVE McpInv'
    BY <1>5, QuietUserInv, UserLocksInv, UserDialsInv, UserDialFailsInv, CloseCancelsInv,
       CloseTakesInv, CloseSessionInv DEF User
  <1> QED
    BY <1>1, <1>2, <1>3, <1>4, <1>5 DEF MNext

\* A closed client stays closed until somebody asks for it again, and until the
\* first Close no session is lost track of: for any number of clients and users,
\* SessionsHeld of McpClient.  (After a Close and a Connect the old reconnect
\* goroutine can drop the new session, client.go:241.)
THEOREM SessionsHeldHolds == MSpec => []SessionsHeld
  <1>1. ASSUME McpInv PROVE SessionsHeld
    <2>1. \A c \in Servers : ~ Busy(c) => ~ Taking(c)
      BY DEF Busy, Taking, TakePc
    <2> QED
      BY <1>1, <2>1 DEF SessionsHeld, McpInv, Cancelled, OneSession
  <1> QED
    BY <1>1, InitMcp, StepMcp, PTL DEF MSpec

-----------------------------------------------------------------------------
(***************************************************************************)
(* Terminal: types.                                                        *)
(***************************************************************************)
TextMsgs == {Text(t, n) : t \in Turns, n \in Nat}
EventMsgs == {Start(c) : c \in ToolCalls} \cup {End(c) : c \in ToolCalls}
Items == TextMsgs \cup EventMsgs
Ends == {Finished("ok"), Finished("error")}
Messages == Items \cup Ends \cup {Finished("canceled")}
Section == [call : ToolCalls, complete : BOOLEAN]
Entry == [turn : 0 .. MaxTurns, text : Seq(TextMsgs), tools : Seq(Section), over : BOOLEAN]

TerminalTypes ==
  /\ state \in {"input", "running", "quit"} /\ stopCh \in Nat
  /\ streamBuf \in Seq(TextMsgs) /\ streamTools \in Seq(Section) /\ turns \in Seq(Entry)
  /\ sent \in 0 .. MaxTurns /\ streamCh \in 0 .. sent /\ (state = "running" => streamCh # 0)
  /\ chan \in [Turns -> Seq(Messages)] /\ inbox \in Seq(Messages)
  /\ waiting \in [0 .. MaxTurns -> Nat]
  /\ hpc \in [Turns -> {"none", "running", "returned", "gone"}]
  /\ wrote \in [Turns -> Seq(Items)]
  /\ pressed \in Seq(1 .. sent) /\ (state # "quit" => cancelled \subseteq 1 .. sent)

(***************************************************************************)
(* The inductive invariant.                                                *)
(***************************************************************************)
\* Texts carry their places.
Numbered(t, written) ==
  \A j \in 1 .. Len(written) : written[j] = Text(t, j) \/ written[j] \in EventMsgs

\* Turns to come have not done anything.
Placed ==
  \A t \in Turns :
    /\ Numbered(t, wrote[t])
    /\ t > sent => hpc[t] = "none" /\ wrote[t] = <<>> /\ chan[t] = <<>>

Gone(t) == IF hpc[t] = "gone" THEN 1 ELSE 0

\* m is message j of a turn: what its handler wrote, then the end of the turn.
IsMessage(written, j, m) == IF j <= Len(written) THEN m = written[j] ELSE m \in Ends

\* The first k messages of a turn are handled and shown, and all later ones, its
\* end among them if the handler is gone, are handed over or in the channel.
Delivers(written, gone, box, ch, text, tools, k) ==
  /\ k \in 0 .. Len(written) /\ k + Len(box) + Len(ch) = Len(written) + gone
  /\ \A j \in 1 .. Len(box) : IsMessage(written, k + j, box[j])
  /\ \A j \in 1 .. Len(ch) : IsMessage(written, k + Len(box) + j, ch[j])
  /\ ShowsTexts(text, written, k) /\ ShowsTools(tools, written, k)

Flows(written, gone, box, ch, text, tools) ==
  \E k \in Nat : Delivers(written, gone, box, ch, text, tools, k)

\* Before the first Esc one goroutine waits for the response that is shown, or
\* has handed over one message.
Undisturbed ==
  pressed = <<>> =>
    /\ state # "quit" => stopCh = 0
    /\ state = "input" => inbox = <<>> /\ \A u \in 0 .. MaxTurns : waiting[u] = 0
    /\ state = "running" =>
         /\ streamCh = sent /\ sent \notin cancelled /\ hpc[sent] # "none"
         /\ turns # <<>> /\ turns[Len(turns)].turn = sent /\ ~ turns[Len(turns)].over
         /\ \A u \in 0 .. MaxTurns : u # sent => waiting[u] = 0
         /\ waiting[sent] + Len(inbox) = 1
         /\ Flows(wrote[sent], Gone(sent), inbox, chan[sent], streamBuf, streamTools)

\* After an Esc the last entry of the view, the one that finishTurn writes to, is
\* not one of the turns that ended before.
LastIsLater ==
  pressed # <<>> =>
    /\ turns # <<>>
    /\ turns[Len(turns)].turn = 0 \/ turns[Len(turns)].turn >= Head(pressed)

Faithful(e, written) ==
  ShowsTexts(e.text, written, Len(written)) /\ ShowsTools(e.tools, written, Len(written))

\* The turns that ended before are shown as their handlers left them.
KeptOk(e) == Kept(e) => hpc[e.turn] = "gone" /\ Faithful(e, wrote[e.turn])

TerminalInv ==
  /\ TerminalTypes /\ Placed /\ Undisturbed /\ LastIsLater
  /\ \A e \in Range(turns) : KeptOk(e)

-----------------------------------------------------------------------------
\* What tells messages apart.
LEMMA TextFacts ==
  /\ \A t, n : Text(t, n).kind = "text" /\ Text(t, n).n = n
  /\ \A m \in TextMsgs : m.kind = "text"
  <1>1. \A t, n : Text(t, n).kind = "text" /\ Text(t, n).n = n
    BY Zenon DEF Text
  <1>2. \A m \in TextMsgs : m.kind = "text"
    BY <1>1 DEF TextMsgs
  <1> QED
    BY <1>1, <1>2

LEMMA EventFacts ==
  /\ \A c : Start(c).kind = "start" /\ Start(c).call = c /\ End(c).kind = "end" /\ End(c).call = c
  /\ \A m \in EventMsgs : m.kind # "text" /\ m.kind # "done" /\ m.call \in ToolCalls
                          /\ (m = Start(m.call) \/ m = End(m.call))
  <1>1. \A c : Start(c).kind = "start" /\ Start(c).call = c /\ End(c).kind = "end" /\ End(c).call = c
    BY Zenon DEF Start, End
  <1>2. ASSUME NEW m \in EventMsgs
        PROVE  m.kind # "text" /\ m.kind # "done" /\ m.call \in ToolCalls
               /\ (m = Start(m.call) \/ m = End(m.call))
    <2>1. \E c \in ToolCalls : m = Start(c) \/ m = End(c)
      BY DEF EventMsgs
    <2>2. PICK c \in ToolCalls : m = Start(c) \/ m = End(c)
      BY <2>1
    <2>3. CASE m = Start(c)
      <3>1. m.kind = "start" /\ m.call = c
        BY <2>3, <1>1, Zenon
      <3> QED
        BY <3>1, <2>3
    <2>4. CASE m = End(c)
      <3>1. m.kind = "end" /\ m.call = c
        BY <2>4, <1>1, Zenon
      <3> QED
        BY <3>1, <2>4
    <2> QED
      BY <2>2, <2>3, <2>4
  <1> QED
    BY <1>1, <1>2

LEMMA EndFacts ==
  /\ \A err : Finished(err).kind = "done" /\ Finished(err).err = err
  /\ \A m \in Ends : m.kind = "done" /\ m.err # "canceled"
  <1>1. \A err : Finished(err).kind = "done" /\ Finished(err).err = err
    BY Zenon DEF Finished
  <1>2. ASSUME NEW m \in Ends PROVE m.kind = "done" /\ m.err # "canceled"
    <2>1. CASE m = Finished("ok")
      <3>1. m.kind = "done" /\ m.err = "ok"
        BY <2>1, <1>1, Zenon
      <3> QED
        BY <3>1
    <2>2. CASE m = Finished("error")
      <3>1. m.kind = "done" /\ m.err = "error"
        BY <2>2, <1>1, Zenon
      <3> QED
        BY <3>1
    <2> QED
      BY <2>1, <2>2 DEF Ends
  <1> QED
    BY <1>1, <1>2

\* A message is what its kind says.
LEMMA KindFacts ==
  ASSUME NEW m \in Messages
  PROVE  /\ m.kind = "text" => m \in TextMsgs
         /\ m.kind # "text" /\ m.kind # "done" => m \in EventMsgs
         /\ m.kind = "done" => m \in Ends \/ m = Finished("canceled")
  <1>1. CASE m \in TextMsgs
    BY <1>1, TextFacts
  <1>2. CASE m \in EventMsgs
    BY <1>2, EventFacts
  <1>3. CASE m \in Ends \cup {Finished("canceled")}
    <2>1. m.kind = "done"
      BY <1>3, EndFacts
    <2> QED
      BY <1>3, <2>1
  <1> QED
    BY <1>1, <1>2, <1>3 DEF Messages, Items

-----------------------------------------------------------------------------
\* What is shown depends on the first k items only.
LEMMA ShowsPrefix ==
  ASSUME NEW written, NEW longer, NEW k \in Nat, NEW text, NEW tools,
         \A j \in 1 .. k : longer[j] = written[j],
         ShowsTexts(text, written, k), ShowsTools(tools, written, k)
  PROVE  ShowsTexts(text, longer, k) /\ ShowsTools(tools, longer, k)
  <1>1. ShowsTexts(text, longer, k)
    <2>1. {longer[j] : j \in {i \in 1 .. k : longer[i].kind = "text"}}
            = {written[j] : j \in {i \in 1 .. k : written[i].kind = "text"}}
      OBVIOUS
    <2> QED
      BY <2>1 DEF ShowsTexts
  <1>2. ASSUME NEW c \in ToolCalls
        PROVE  /\ (\E i \in 1 .. k : longer[i] = Start(c)) <=> (\E i \in 1 .. k : written[i] = Start(c))
               /\ Unfinished(c, longer, k) <=> Unfinished(c, written, k)
    <2>1. \A i \in 1 .. k : \A j \in i + 1 .. k : j \in 1 .. k
      OBVIOUS
    <2> QED
      BY <2>1 DEF Unfinished
  <1>3. ShowsTools(tools, longer, k)
    BY <1>2 DEF ShowsTools
  <1> QED
    BY <1>1, <1>3

\* One more item, a text: it is appended.
LEMMA ShowsText ==
  ASSUME NEW t \in Turns, NEW written \in Seq(Items), Numbered(t, written),
         NEW k \in Nat, k + 1 <= Len(written), NEW text \in Seq(TextMsgs),
         ShowsTexts(text, written, k), written[k + 1].kind = "text"
  PROVE  ShowsTexts(Append(text, written[k + 1]), written, k + 1)
  <1> DEFINE more == Append(text, written[k + 1])
  <1>1. \A j \in 1 .. k + 1 : written[j].kind = "text" => written[j].n = j
    BY TextFacts, EventFacts DEF Numbered
  <1>2. /\ DOMAIN text = 1 .. Len(text) /\ DOMAIN more = 1 .. Len(text) + 1 /\ Len(text) \in Nat
        /\ \A i \in 1 .. Len(text) : more[i] = text[i]
        /\ more[Len(text) + 1] = written[k + 1]
    OBVIOUS
  <1>3. \A i \in 1 .. Len(text) : \E j \in 1 .. k : text[i] = written[j] /\ written[j].kind = "text"
    BY <1>2 DEF ShowsTexts, Range
  <1>4. \A i \in 1 .. Len(text) : text[i].n \in 1 .. k
    BY <1>1, <1>3
  <1>5. \A i, j \in DOMAIN more : i < j => more[i].n < more[j].n
    <2> SUFFICES ASSUME NEW i \in DOMAIN more, NEW j \in DOMAIN more, i < j
                 PROVE  more[i].n < more[j].n
      OBVIOUS
    <2>1. i \in 1 .. Len(text) /\ j \in 1 .. Len(text) + 1 /\ i < j
      BY <1>2
    <2>2. CASE j = Len(text) + 1
      <3>1. more[j].n = k + 1
        BY <2>2, <1>1, <1>2
      <3>2. more[i].n \in 1 .. k
        BY <2>1, <1>2, <1>4
      <3> QED
        BY <3>1, <3>2
    <2>3. CASE j # Len(text) + 1
      <3>1. j \in 1 .. Len(text) /\ more[i] = text[i] /\ more[j] = text[j]
        BY <2>1, <2>3, <1>2
      <3> QED
        BY <3>1, <2>1, <1>2 DEF ShowsTexts
    <2> QED
      BY <2>2, <2>3
  <1>6. Range(more) = Range(text) \cup {written[k + 1]}
    <2>1. \A i \in 1 .. Len(text) : more[i] = text[i] /\ i \in 1 .. Len(text) + 1
      BY <1>2
    <2>2. \A i \in 1 .. Len(text) + 1 : i \in 1 .. Len(text) \/ i = Len(text) + 1
      BY <1>2
    <2>3. Len(text) + 1 \in 1 .. Len(text) + 1
      BY <1>2
    <2> HIDE DEF more
    <2> QED
      BY <1>2, <2>1, <2>2, <2>3 DEF Range
  <1>7. {written[j] : j \in {i \in 1 .. k + 1 : written[i].kind = "text"}}
          = {written[j] : j \in {i \in 1 .. k : written[i].kind = "text"}} \cup {written[k + 1]}
    <2>1. \A i \in 1 .. k + 1 : i \in 1 .. k \/ i = k + 1
      OBVIOUS
    <2>2. \A i \in 1 .. k : i \in 1 .. k + 1
      OBVIOUS
    <2>3. k + 1 \in 1 .. k + 1
      OBVIOUS
    <2> QED
      BY <2>1, <2>2, <2>3
  <1> HIDE DEF more
  <1>8. Range(text) = {written[j] : j \in {i \in 1 .. k : written[i].kind = "text"}}
    BY DEF ShowsTexts
  <1>9. ShowsTexts(more, written, k + 1)
    BY <1>5, <1>6, <1>7, <1>8 DEF ShowsTexts
  <1> QED
    BY <1>9 DEF more

\* One more item, an event: the texts are the same.
LEMMA ShowsNoText ==
  ASSUME NEW written, NEW k \in Nat, NEW text,
         ShowsTexts(text, written, k), written[k + 1].kind # "text"
  PROVE  ShowsTexts(text, written, k + 1)
  <1>1. {written[j] : j \in {i \in 1 .. k + 1 : written[i].kind = "text"}}
          = {written[j] : j \in {i \in 1 .. k : written[i].kind = "text"}}
    <2>1. \A i \in 1 .. k + 1 : i \in 1 .. k \/ i = k + 1
      OBVIOUS
    <2>2. \A i \in 1 .. k : i \in 1 .. k + 1
      OBVIOUS
    <2> QED
      BY <2>1, <2>2
  <1> QED
    BY <1>1 DEF ShowsTexts

\* One more item, and what it means for call c.
LEMMA OneMoreItem ==
  ASSUME NEW written, NEW k \in Nat, NEW c
  PROVE  /\ (\E i \in 1 .. k + 1 : written[i] = Start(c))
              <=> (\E i \in 1 .. k : written[i] = Start(c)) \/ written[k + 1] = Start(c)
         /\ written[k + 1] # Start(c) /\ written[k + 1] # End(c) =>
              (Unfinished(c, written, k + 1) <=> Unfinished(c, written, k))
         /\ written[k + 1] = Start(c) => Unfinished(c, written, k + 1)
         /\ written[k + 1] = End(c) => ~ Unfinished(c, written, k + 1)
  <1>1. \A i \in 1 .. k + 1 : i \in 1 .. k \/ i = k + 1
    OBVIOUS
  <1>2. \A i \in 1 .. k : i \in 1 .. k + 1 /\ k + 1 \in i + 1 .. k + 1
    OBVIOUS
  <1>3. k + 1 \in 1 .. k + 1 /\ \A j \in k + 1 + 1 .. k + 1 : FALSE
    OBVIOUS
  <1>4. Start(c) # End(c)
    BY EventFacts
  <1>5. \A i \in 1 .. k : \A j \in i + 1 .. k + 1 : j \in i + 1 .. k \/ j = k + 1
    OBVIOUS
  <1>6. \A i \in 1 .. k : \A j \in i + 1 .. k : j \in i + 1 .. k + 1
    OBVIOUS
  <1>7. (\E i \in 1 .. k + 1 : written[i] = Start(c))
           <=> (\E i \in 1 .. k : written[i] = Start(c)) \/ written[k + 1] = Start(c)
    BY <1>1, <1>2, <1>3
  <1>8. ASSUME written[k + 1] # Start(c), written[k + 1] # End(c)
        PROVE  Unfinished(c, written, k + 1) <=> Unfinished(c, written, k)
    <2>1. ASSUME Unfinished(c, written, k) PROVE Unfinished(c, written, k + 1)
      <3>1. PICK i \in 1 .. k : written[i] = Start(c) /\ \A j \in i + 1 .. k : written[j] # End(c)
        BY <2>1 DEF Unfinished
      <3>2. \A j \in i + 1 .. k + 1 : written[j] # End(c)
        BY <3>1, <1>5, <1>8
      <3> QED
        BY <3>1, <3>2, <1>2 DEF Unfinished
    <2>2. ASSUME Unfinished(c, written, k + 1) PROVE Unfinished(c, written, k)
      <3>1. PICK i \in 1 .. k + 1 : written[i] = Start(c) /\ \A j \in i + 1 .. k + 1 : written[j] # End(c)
        BY <2>2 DEF Unfinished
      <3>2. i \in 1 .. k
        BY <3>1, <1>1, <1>8
      <3> QED
        BY <3>1, <3>2, <1>6 DEF Unfinished
    <2> QED
      BY <2>1, <2>2
  <1>9. ASSUME written[k + 1] = Start(c) PROVE Unfinished(c, written, k + 1)
    BY <1>9, <1>3 DEF Unfinished
  <1>10. ASSUME written[k + 1] = End(c) PROVE ~ Unfinished(c, written, k + 1)
    <2> SUFFICES ASSUME NEW i \in 1 .. k + 1, written[i] = Start(c),
                        \A j \in i + 1 .. k + 1 : written[j] # End(c)
                 PROVE  FALSE
      BY DEF Unfinished
    <2>1. i \in 1 .. k
      BY <1>1, <1>4, <1>10
    <2> QED
      BY <2>1, <1>2, <1>10
  <1> QED
    BY <1>7, <1>8, <1>9, <1>10

\* The sections of one call, and those of all.
Sections(c, tools, written, k) ==
  LET mine == {j \in DOMAIN tools : tools[j].call = c}
  IN  /\ mine # {} <=> \E i \in 1 .. k : written[i] = Start(c)
      /\ \A j \in mine : tools[j].complete \/ \A l \in mine : l <= j
      /\ (\E j \in mine : ~ tools[j].complete) <=> Unfinished(c, written, k)

LEMMA ShowsSections ==
  ASSUME NEW tools, NEW written, NEW k
  PROVE  ShowsTools(tools, written, k) <=> \A c \in ToolCalls : Sections(c, tools, written, k)
  BY DEF ShowsTools, Sections

\* An item that is about another call, or a text: the sections are as good.
LEMMA OtherSections ==
  ASSUME NEW tools, NEW more, NEW written, NEW k \in Nat, NEW c, Sections(c, tools, written, k),
         {j \in DOMAIN more : more[j].call = c} = {j \in DOMAIN tools : tools[j].call = c},
         \A j \in DOMAIN tools : tools[j].call = c => more[j].complete = tools[j].complete,
         written[k + 1] # Start(c), written[k + 1] # End(c)
  PROVE  Sections(c, more, written, k + 1)
  <1>1. /\ (\E i \in 1 .. k + 1 : written[i] = Start(c)) <=> \E i \in 1 .. k : written[i] = Start(c)
        /\ Unfinished(c, written, k + 1) <=> Unfinished(c, written, k)
    BY OneMoreItem
  <1> QED
    BY <1>1 DEF Sections

\* The start of c when no section of c is open: it gets one at the end.
LEMMA StartSection ==
  ASSUME NEW tools \in Seq(Section), NEW written, NEW k \in Nat, NEW c \in ToolCalls,
         Sections(c, tools, written, k), written[k + 1] = Start(c),
         \A j \in DOMAIN tools : tools[j].call = c => tools[j].complete
  PROVE  Sections(c, Append(tools, [call |-> c, complete |-> FALSE]), written, k + 1)
  <1>1. PICK s \in Section : s = [call |-> c, complete |-> FALSE]
    BY DEF Section
  <1>2. s.call = c /\ ~ s.complete
    BY <1>1, Zenon
  <1>3. PICK more : more = Append(tools, s)
    OBVIOUS
  <1>4. /\ DOMAIN tools = 1 .. Len(tools) /\ DOMAIN more = 1 .. Len(tools) + 1 /\ Len(tools) \in Nat
        /\ \A j \in 1 .. Len(tools) : more[j] = tools[j] /\ j \in 1 .. Len(tools) + 1
        /\ more[Len(tools) + 1] = s /\ Len(tools) + 1 \in 1 .. Len(tools) + 1
        /\ \A j \in 1 .. Len(tools) + 1 : j <= Len(tools) + 1 /\ (j \in 1 .. Len(tools) \/ j = Len(tools) + 1)
    BY <1>3
  <1>5. /\ \E i \in 1 .. k + 1 : written[i] = Start(c)
        /\ Unfinished(c, written, k + 1)
    BY OneMoreItem
  <1>6. Sections(c, more, written, k + 1)
    BY <1>2, <1>4, <1>5 DEF Sections
  <1> QED
    BY <1>1, <1>3, <1>6

\* The start of c when a section of c is open already: it stays.
LEMMA StartAgain ==
  ASSUME NEW tools, NEW written, NEW k \in Nat, NEW c,
         Sections(c, tools, written, k), written[k + 1] = Start(c),
         NEW o \in DOMAIN tools, tools[o].call = c, ~ tools[o].complete
  PROVE  Sections(c, tools, written, k + 1)
  <1>1. /\ \E i \in 1 .. k + 1 : written[i] = Start(c)
        /\ Unfinished(c, written, k + 1)
    BY OneMoreItem
  <1> QED
    BY <1>1 DEF Sections

\* The end of c: no section of c is open any more.
LEMMA EndSection ==
  ASSUME NEW tools, NEW more, NEW written, NEW k \in Nat, NEW c,
         Sections(c, tools, written, k), written[k + 1] = End(c),
         {j \in DOMAIN more : more[j].call = c} = {j \in DOMAIN tools : tools[j].call = c},
         \A j \in DOMAIN more : more[j].call = c => more[j].complete
  PROVE  Sections(c, more, written, k + 1)
  <1>1. /\ (\E i \in 1 .. k + 1 : written[i] = Start(c)) <=> \E i \in 1 .. k : written[i] = Start(c)
        /\ ~ Unfinished(c, written, k + 1)
    BY OneMoreItem, EventFacts
  <1> QED
    BY <1>1 DEF Sections

\* Whatever is open, AfterEvent leaves sections.
LEMMA AfterEventType ==
  ASSUME streamTools \in Seq(Section), NEW m, m.call \in ToolCalls
  PROVE  AfterEvent(m) \in Seq(Section)
  <1>1. [call |-> m.call, complete |-> FALSE] \in Section
    BY DEF Section
  <1>2. [streamTools EXCEPT ![OpenSection(m.call)].complete = TRUE] \in Seq(Section)
    <2>1. ASSUME NEW s \in Section PROVE [s EXCEPT !.complete = TRUE] \in Section
      BY DEF Section
    <2>2. PICK n \in Nat : n = Len(streamTools) /\ DOMAIN streamTools = 1 .. n
                          /\ \A i \in 1 .. n : streamTools[i] \in Section
      OBVIOUS
    <2>3. PICK o : o = OpenSection(m.call)
      OBVIOUS
    <2>4. PICK after : after = [streamTools EXCEPT ![o].complete = TRUE]
      OBVIOUS
    <2>5. /\ after = [i \in 1 .. n |-> after[i]]
          /\ \A i \in 1 .. n : after[i] = streamTools[i] \/ after[i] = [streamTools[i] EXCEPT !.complete = TRUE]
      BY <2>2, <2>4
    <2>6. \A i \in 1 .. n : after[i] \in Section
      BY <2>1, <2>2, <2>5
    <2>7. after \in [1 .. n -> Section]
      BY <2>5, <2>6
    <2>8. after \in Seq(Section)
      BY <2>7
    <2> QED
      BY <2>3, <2>4, <2>8
  <1> QED
    BY <1>1, <1>2 DEF AfterEvent

\* The open section that the code finds, where a call has at most one.
LEMMA OpenSectionFound ==
  ASSUME NEW c, streamTools \in Seq(Section), NEW written, NEW k, Sections(c, streamTools, written, k)
  PROVE  \/ /\ OpenSection(c) = 0
            /\ \A j \in DOMAIN streamTools : streamTools[j].call = c => streamTools[j].complete
         \/ /\ OpenSection(c) # 0 /\ OpenSection(c) \in DOMAIN streamTools
            /\ streamTools[OpenSection(c)].call = c /\ ~ streamTools[OpenSection(c)].complete
            /\ \A j \in DOMAIN streamTools :
                 streamTools[j].call = c /\ j # OpenSection(c) => streamTools[j].complete
  <1> DEFINE open == {i \in DOMAIN streamTools : streamTools[i].call = c /\ ~ streamTools[i].complete}
  <1>1. CASE open = {}
    <2>1. OpenSection(c) = 0
      BY <1>1 DEF OpenSection
    <2> QED
      BY <1>1, <2>1
  <1>2. CASE open # {}
    <2>1. \A i \in open : \A j \in open : j <= i
      BY DEF Sections
    <2>2. \A i, j \in open : i = j
      BY <2>1
    <2>3. OpenSection(c) = CHOOSE i \in open : \A j \in open : j <= i
      BY <1>2 DEF OpenSection
    <2>4. OpenSection(c) \in open
      BY <1>2, <2>1, <2>3
    <2>5. OpenSection(c) # 0
      BY <2>4
    <2> QED
      BY <2>2, <2>4, <2>5
  <1> QED
    BY <1>1, <1>2

\* One more item, an event: AfterEvent shows it.
LEMMA ShowsEvent ==
  ASSUME streamTools \in Seq(Section), NEW written, NEW k \in Nat,
         ShowsTools(streamTools, written, k), written[k + 1] \in EventMsgs
  PROVE  ShowsTools(AfterEvent(written[k + 1]), written, k + 1)
  <1>1. PICK m : m = written[k + 1]
    OBVIOUS
  <1>2. m \in EventMsgs /\ m.call \in ToolCalls /\ (m = Start(m.call) \/ m = End(m.call))
    BY <1>1, EventFacts
  <1>3. PICK d \in ToolCalls : d = m.call
    BY <1>2
  <1>4. \A c \in ToolCalls : Sections(c, streamTools, written, k)
    BY ShowsSections
  <1>5. \A c \in ToolCalls : c # d => m # Start(c) /\ m # End(c)
    BY <1>3, EventFacts
  <1>6. PICK more : more = AfterEvent(m)
    OBVIOUS
  <1>7. PICK o : o = OpenSection(d)
    OBVIOUS
  <1>8. /\ DOMAIN streamTools = 1 .. Len(streamTools) /\ Len(streamTools) \in Nat
        /\ \A j \in DOMAIN streamTools : streamTools[j] \in Section
    OBVIOUS
  <1>9. \/ /\ o = 0
           /\ \A j \in DOMAIN streamTools : streamTools[j].call = d => streamTools[j].complete
        \/ /\ o # 0 /\ o \in DOMAIN streamTools
           /\ streamTools[o].call = d /\ ~ streamTools[o].complete
           /\ \A j \in DOMAIN streamTools :
                streamTools[j].call = d /\ j # o => streamTools[j].complete
    BY <1>4, <1>7, OpenSectionFound
  <1>10. CASE m = Start(d) /\ o = 0
    <2>1. m.kind = "start"
      BY <1>10, EventFacts
    <2>2. more = Append(streamTools, [call |-> d, complete |-> FALSE])
      BY <1>3, <1>6, <1>7, <1>10, <2>1 DEF AfterEvent
    <2>3. PICK s \in Section : s = [call |-> d, complete |-> FALSE]
      BY DEF Section
    <2>4. s.call = d /\ more = Append(streamTools, s)
      BY <2>2, <2>3
    <2>5. /\ DOMAIN more = 1 .. Len(streamTools) + 1
          /\ \A j \in DOMAIN streamTools : more[j] = streamTools[j] /\ j \in DOMAIN more
          /\ more[Len(streamTools) + 1] = s
      BY <1>8, <2>4
    <2>6. \A j \in DOMAIN more : j \in DOMAIN streamTools \/ j = Len(streamTools) + 1
      BY <1>8, <2>5
    <2>7. Sections(d, more, written, k + 1)
      BY <1>1, <1>4, <1>9, <1>10, <2>2, StartSection
    <2>8. ASSUME NEW c \in ToolCalls, c # d PROVE Sections(c, more, written, k + 1)
      <3>1. {j \in DOMAIN more : more[j].call = c} = {j \in DOMAIN streamTools : streamTools[j].call = c}
        BY <2>4, <2>5, <2>6, <2>8
      <3>2. \A j \in DOMAIN streamTools : streamTools[j].call = c => more[j].complete = streamTools[j].complete
        BY <2>5
      <3> QED
        BY <1>1, <1>4, <1>5, <2>8, <3>1, <3>2, OtherSections
    <2> QED
      BY <1>1, <1>6, <2>7, <2>8, ShowsSections
  <1>11. CASE m = Start(d) /\ o # 0
    <2>1. m.kind = "start"
      BY <1>11, EventFacts
    <2>2. more = streamTools
      BY <1>3, <1>6, <1>7, <1>11, <2>1 DEF AfterEvent
    <2>3. Sections(d, more, written, k + 1)
      BY <1>1, <1>4, <1>9, <1>11, <2>2, StartAgain
    <2>4. ASSUME NEW c \in ToolCalls, c # d PROVE Sections(c, more, written, k + 1)
      BY <1>1, <1>4, <1>5, <2>2, <2>4, OtherSections
    <2> QED
      BY <1>1, <1>6, <2>3, <2>4, ShowsSections
  <1>12. CASE m = End(d) /\ o = 0
    <2>1. m.kind # "start"
      BY <1>12, EventFacts
    <2>2. more = streamTools
      BY <1>3, <1>6, <1>7, <1>12, <2>1 DEF AfterEvent
    <2>3. Sections(d, more, written, k + 1)
      BY <1>1, <1>4, <1>9, <1>12, <2>2, EndSection
    <2>4. ASSUME NEW c \in ToolCalls, c # d PROVE Sections(c, more, written, k + 1)
      BY <1>1, <1>4, <1>5, <2>2, <2>4, OtherSections
    <2> QED
      BY <1>1, <1>6, <2>3, <2>4, ShowsSections
  <1>13. CASE m = End(d) /\ o # 0
    <2>1. m.kind # "start"
      BY <1>13, EventFacts
    <2>2. more = [streamTools EXCEPT ![o].complete = TRUE]
      BY <1>3, <1>6, <1>7, <1>13, <2>1 DEF AfterEvent
    <2>3. PICK s \in Section : s = [streamTools[o] EXCEPT !.complete = TRUE]
      BY <1>8, <1>9, <1>13 DEF Section
    <2>4. s.call = d /\ s.complete
      BY <1>8, <1>9, <1>13, <2>3 DEF Section
    <2>5. /\ DOMAIN more = DOMAIN streamTools /\ more[o] = s
          /\ \A j \in DOMAIN streamTools : j # o => more[j] = streamTools[j]
      BY <1>9, <1>13, <2>2, <2>3
    <2>6. \A c : {j \in DOMAIN more : more[j].call = c} = {j \in DOMAIN streamTools : streamTools[j].call = c}
      BY <1>9, <1>13, <2>4, <2>5
    <2>7. \A j \in DOMAIN more : more[j].call = d => more[j].complete
      BY <1>9, <1>13, <2>4, <2>5
    <2>8. Sections(d, more, written, k + 1)
      BY <1>1, <1>4, <1>13, <2>6, <2>7, EndSection
    <2>9. ASSUME NEW c \in ToolCalls, c # d PROVE Sections(c, more, written, k + 1)
      <3>1. \A j \in DOMAIN streamTools : streamTools[j].call = c => more[j].complete = streamTools[j].complete
        BY <1>9, <1>13, <2>5, <2>9
      <3> QED
        BY <1>1, <1>4, <1>5, <2>6, <2>9, <3>1, OtherSections
    <2> QED
      BY <1>1, <1>6, <2>8, <2>9, ShowsSections
  <1> QED
    BY <1>2, <1>3, <1>10, <1>11, <1>12, <1>13

-----------------------------------------------------------------------------
(***************************************************************************)
(* What each step does to the messages of the turn that is shown.          *)
(***************************************************************************)
\* Nothing is written yet.
LEMMA FlowBegins == Flows(<<>>, 0, <<>>, <<>>, <<>>, <<>>)
  <1>1. ShowsTexts(<<>>, <<>>, 0)
    BY DEF ShowsTexts, Range
  <1>2. ShowsTools(<<>>, <<>>, 0)
    BY DEF ShowsTools, Unfinished
  <1>3. Delivers(<<>>, 0, <<>>, <<>>, <<>>, <<>>, 0)
    BY <1>1, <1>2 DEF Delivers
  <1> QED
    BY <1>3 DEF Flows

\* The waiting goroutine hands over the first message of the channel.
LEMMA FlowHears ==
  ASSUME NEW written \in Seq(Items), NEW gone \in 0 .. 1, NEW ch \in Seq(Messages), ch # <<>>,
         NEW text, NEW tools, Flows(written, gone, <<>>, ch, text, tools)
  PROVE  Flows(written, gone, <<Head(ch)>>, Tail(ch), text, tools)
  <1>1. PICK k \in Nat : Delivers(written, gone, <<>>, ch, text, tools, k)
    BY DEF Flows
  <1>2. Len(<<Head(ch)>>) = 1 /\ Len(<<>>) = 0 /\ <<Head(ch)>>[1] = ch[1] /\ Len(Tail(ch)) = Len(ch) - 1
        /\ Len(ch) \in Nat \ {0} /\ \A j \in 1 .. Len(ch) - 1 : Tail(ch)[j] = ch[j + 1]
    OBVIOUS
  <1>3. \A j \in 1 .. Len(ch) : IsMessage(written, k + j, ch[j])
    BY <1>1, <1>2 DEF Delivers
  <1>4. \A j \in 1 .. Len(Tail(ch)) : IsMessage(written, k + 1 + j, Tail(ch)[j])
    <2> SUFFICES ASSUME NEW j \in 1 .. Len(ch) - 1 PROVE IsMessage(written, k + 1 + j, ch[j + 1])
      BY <1>2
    <2>1. j + 1 \in 1 .. Len(ch) /\ k + (j + 1) = k + 1 + j
      BY <1>2
    <2> QED
      BY <1>3, <2>1
  <1>5. \A j \in 1 .. 1 : IsMessage(written, k + j, <<Head(ch)>>[j])
    BY <1>2, <1>3
  <1>6. k + 1 + Len(Tail(ch)) = Len(written) + gone
    BY <1>1, <1>2 DEF Delivers
  <1>7. Delivers(written, gone, <<Head(ch)>>, Tail(ch), text, tools, k)
    BY <1>1, <1>2, <1>4, <1>5, <1>6 DEF Delivers
  <1> QED
    BY <1>7 DEF Flows

\* A sum with one more.
LEMMA SumPlusOne ==
  \A a, b, c, d \in Nat : a + b + c = d => a + b + (c + 1) = d + 1
  OBVIOUS

\* The handler writes an item to the channel.
LEMMA FlowWrites ==
  ASSUME NEW written \in Seq(Items), NEW box \in Seq(Messages), NEW ch \in Seq(Messages),
         NEW text, NEW tools, Flows(written, 0, box, ch, text, tools), NEW m \in Items
  PROVE  Flows(Append(written, m), 0, box, Append(ch, m), text, tools)
  <1>1. PICK k \in Nat : Delivers(written, 0, box, ch, text, tools, k)
    BY DEF Flows
  <1>2. PICK w : w = Append(written, m)
    OBVIOUS
  <1>3. PICK c : c = Append(ch, m)
    OBVIOUS
  <1>4. /\ Len(w) = Len(written) + 1 /\ w[Len(written) + 1] = m /\ Len(written) \in Nat /\ Len(box) \in Nat
        /\ \A j \in 1 .. Len(written) : w[j] = written[j]
        /\ Len(c) = Len(ch) + 1 /\ c[Len(ch) + 1] = m /\ Len(ch) \in Nat
        /\ \A j \in 1 .. Len(ch) : c[j] = ch[j]
    BY <1>2, <1>3 DEF Messages
  <1>5. k <= Len(written) /\ k + Len(box) + Len(ch) = Len(written)
    BY <1>1 DEF Delivers
  <1>6. ASSUME NEW j \in 1 .. Len(box) PROVE IsMessage(w, k + j, box[j])
    <2>1. k + j \in 1 .. Len(written)
      BY <1>4, <1>5
    <2>2. box[j] = written[k + j]
      <3>1. \A i \in 1 .. Len(box) : IsMessage(written, k + i, box[i])
        BY ONLY <1>1 DEF Delivers
      <3>2. IsMessage(written, k + j, box[j])
        BY ONLY <3>1, j \in 1 .. Len(box)
      <3>3. k + j <= Len(written)
        BY ONLY <1>4, <2>1
      <3> QED
        BY ONLY <3>2, <3>3 DEF IsMessage
    <2> QED
      BY <1>4, <2>1, <2>2 DEF IsMessage
  <1>7. ASSUME NEW j \in 1 .. Len(c) PROVE IsMessage(w, k + Len(box) + j, c[j])
    <2>1. CASE j = Len(ch) + 1
      <3>1. k + Len(box) + j = Len(written) + 1
        <4>1. Len(box) \in Nat /\ Len(ch) \in Nat /\ Len(written) \in Nat
          BY <1>4
        <4>2. k + Len(box) + Len(ch) = Len(written)
          BY <1>5
        <4>3. k + Len(box) + (Len(ch) + 1) = Len(written) + 1
          BY ONLY <4>1, <4>2, k \in Nat, SumPlusOne
        <4> QED
          BY ONLY <4>3, <2>1
      <3> QED
        BY <1>4, <2>1, <3>1 DEF IsMessage
    <2>2. CASE j # Len(ch) + 1
      <3>1. j \in 1 .. Len(ch) /\ k + Len(box) + j \in 1 .. Len(written)
        BY <1>4, <1>5, <2>2
      <3>2. ch[j] = written[k + Len(box) + j]
        BY <1>1, <3>1 DEF Delivers, IsMessage
      <3> QED
        BY <1>4, <3>1, <3>2 DEF IsMessage
    <2> QED
      BY <2>1, <2>2
  <1>8. ShowsTexts(text, w, k) /\ ShowsTools(tools, w, k)
    <2>1. \A j \in 1 .. k : w[j] = written[j]
      BY <1>4, <1>5
    <2> QED
      BY <1>1, <2>1, ShowsPrefix DEF Delivers
  <1>9. k \in 0 .. Len(w) /\ k + Len(box) + Len(c) = Len(w) + 0
    BY <1>4, <1>5
  <1>10. Delivers(w, 0, box, c, text, tools, k)
    BY <1>6, <1>7, <1>8, <1>9 DEF Delivers
  <1> QED
    BY <1>2, <1>3, <1>10 DEF Flows

\* The goroutine of the handler sends the end of the turn.
LEMMA FlowReports ==
  ASSUME NEW written \in Seq(Items), NEW box \in Seq(Messages), NEW ch \in Seq(Messages),
         NEW text, NEW tools, Flows(written, 0, box, ch, text, tools), NEW m \in Ends
  PROVE  Flows(written, 1, box, Append(ch, m), text, tools)
  <1>1. PICK k \in Nat : Delivers(written, 0, box, ch, text, tools, k)
    BY DEF Flows
  <1>2. PICK c : c = Append(ch, m)
    OBVIOUS
  <1>3. /\ Len(written) \in Nat /\ Len(box) \in Nat
        /\ Len(c) = Len(ch) + 1 /\ c[Len(ch) + 1] = m /\ Len(ch) \in Nat
        /\ \A j \in 1 .. Len(ch) : c[j] = ch[j]
    BY <1>2 DEF Messages
  <1>4. k <= Len(written) /\ k + Len(box) + Len(ch) = Len(written)
    BY <1>1 DEF Delivers
  <1>5. ASSUME NEW j \in 1 .. Len(c) PROVE IsMessage(written, k + Len(box) + j, c[j])
    <2>1. CASE j = Len(ch) + 1
      <3>1. ~ (k + Len(box) + j <= Len(written))
        BY <1>3, <1>4, <2>1
      <3> QED
        BY <1>3, <2>1, <3>1 DEF IsMessage
    <2>2. CASE j # Len(ch) + 1
      <3>1. j \in 1 .. Len(ch)
        BY <1>3, <2>2
      <3> QED
        BY <1>1, <1>3, <3>1 DEF Delivers
    <2> QED
      BY <2>1, <2>2
  <1>6. k + Len(box) + Len(c) = Len(written) + 1
    <2>0. Len(c) = Len(ch) + 1
      BY <1>3
    <2>1. Len(box) \in Nat /\ Len(ch) \in Nat /\ Len(written) \in Nat
      BY <1>3
    <2>2. k + Len(box) + Len(ch) = Len(written)
      BY <1>4
    <2>3. k + Len(box) + (Len(ch) + 1) = Len(written) + 1
      BY ONLY <2>1, <2>2, k \in Nat, SumPlusOne
    <2> QED
      BY ONLY <2>0, <2>3
  <1>7. Delivers(written, 1, box, c, text, tools, k)
    BY <1>1, <1>5, <1>6 DEF Delivers
  <1> QED
    BY <1>2, <1>7 DEF Flows

\* The loop handles a message that was handed over: it is an item, which comes to
\* be shown, or the end of the turn, and everything else is shown.
LEMMA FlowHandles ==
  ASSUME streamTools \in Seq(Section), NEW t \in Turns, NEW written \in Seq(Items), Numbered(t, written),
         NEW gone \in 0 .. 1, NEW ch \in Seq(Messages), NEW m \in Messages, NEW text \in Seq(TextMsgs),
         Flows(written, gone, <<m>>, ch, text, streamTools)
  PROVE  /\ m.kind = "text" => Flows(written, gone, <<>>, ch, Append(text, m), streamTools)
         /\ m.kind # "text" /\ m.kind # "done" => Flows(written, gone, <<>>, ch, text, AfterEvent(m))
         /\ m.kind = "done" => /\ m \in Ends /\ gone = 1
                               /\ ShowsTexts(text, written, Len(written))
                               /\ ShowsTools(streamTools, written, Len(written))
  <1>1. PICK k \in Nat : Delivers(written, gone, <<m>>, ch, text, streamTools, k)
    BY DEF Flows
  <1>2. Len(<<m>>) = 1 /\ <<m>>[1] = m /\ Len(<<>>) = 0 /\ Len(written) \in Nat /\ Len(ch) \in Nat
    OBVIOUS
  <1>3. /\ k <= Len(written) /\ k + 1 + Len(ch) = Len(written) + gone
        /\ IsMessage(written, k + 1, m)
        /\ \A j \in 1 .. Len(ch) : IsMessage(written, k + 1 + j, ch[j])
        /\ ShowsTexts(text, written, k) /\ ShowsTools(streamTools, written, k)
    BY <1>1, <1>2 DEF Delivers
  <1>4. ASSUME NEW x, NEW y, k + 1 <= Len(written),
               ShowsTexts(x, written, k + 1), ShowsTools(y, written, k + 1)
        PROVE  Flows(written, gone, <<>>, ch, x, y)
    <2>1. /\ k + 1 \in 0 .. Len(written) /\ k + 1 + Len(<<>>) + Len(ch) = Len(written) + gone
      BY <1>2, <1>3, <1>4
    <2>2. \A j \in 1 .. Len(ch) : IsMessage(written, k + 1 + Len(<<>>) + j, ch[j])
      BY <1>2, <1>3
    <2>3. \A j \in 1 .. Len(<<>>) : IsMessage(written, k + 1 + j, <<>>[j])
      BY <1>2
    <2>4. Delivers(written, gone, <<>>, ch, x, y, k + 1)
      BY <1>4, <2>1, <2>2, <2>3 DEF Delivers
    <2> QED
      BY <2>4 DEF Flows
  <1>5. CASE k + 1 <= Len(written)
    <2>1. m = written[k + 1] /\ k + 1 \in 1 .. Len(written)
      BY <1>2, <1>3, <1>5 DEF IsMessage
    <2>2. m \in Items
      BY <2>1
    <2>3. CASE m \in TextMsgs
      <3>1. m.kind = "text"
        BY <2>3, TextFacts
      <3>2. ShowsTexts(Append(text, m), written, k + 1)
        BY <1>3, <1>5, <2>1, <3>1, ShowsText
      <3>3. \A c \in ToolCalls : m # Start(c) /\ m # End(c)
        BY <3>1, EventFacts
      <3>4. \A c \in ToolCalls : Sections(c, streamTools, written, k)
        BY <1>3, ShowsSections
      <3>5. \A c \in ToolCalls : Sections(c, streamTools, written, k + 1)
        BY <2>1, <3>3, <3>4, OtherSections
      <3>6. ShowsTools(streamTools, written, k + 1)
        BY <3>5, ShowsSections
      <3> QED
        BY <1>4, <1>5, <3>1, <3>2, <3>6
    <2>4. CASE m \in EventMsgs
      <3>1. m.kind # "text" /\ m.kind # "done"
        BY <2>4, EventFacts
      <3>2. ShowsTexts(text, written, k + 1)
        BY <1>3, <2>1, <3>1, ShowsNoText
      <3>3. ShowsTools(AfterEvent(m), written, k + 1)
        BY <1>3, <2>1, <2>4, ShowsEvent
      <3> QED
        BY <1>4, <1>5, <3>1, <3>2, <3>3
    <2> QED
      BY <2>2, <2>3, <2>4 DEF Items
  <1>6. CASE ~ (k + 1 <= Len(written))
    <2>1. m \in Ends
      BY <1>3, <1>6 DEF IsMessage
    <2>2. m.kind = "done"
      BY <2>1, EndFacts
    <2>3. k = Len(written) /\ gone = 1
      BY <1>2, <1>3, <1>6
    <2> QED
      BY <1>3, <2>1, <2>2, <2>3
  <1> QED
    BY <1>5, <1>6

-----------------------------------------------------------------------------
(***************************************************************************)
(* The entries of the view.                                                *)
(***************************************************************************)
\* An entry stays as good when the handlers that are gone stay so, and no turn is
\* added to those that ended before the first Esc.
LEMMA KeptStays ==
  ASSUME NEW e, KeptOk(e), pressed \in Seq(1 .. sent),
         hpc[e.turn] = "gone" => hpc'[e.turn] = "gone" /\ wrote'[e.turn] = wrote[e.turn],
         pressed' = pressed \/ \E p \in Nat : pressed' = Append(pressed, p)
  PROVE  KeptOk(e)'
  <1>1. ASSUME Kept(e)' PROVE Kept(e)
    <2>1. CASE pressed' = pressed
      BY <1>1, <2>1 DEF Kept
    <2>2. CASE pressed' # pressed
      <3>1. PICK p \in Nat : pressed' = Append(pressed, p)
        BY <2>2
      <3>2. CASE pressed = <<>>
        BY <1>1, <3>2 DEF Kept
      <3>3. CASE pressed # <<>>
        <4>1. Head(pressed') = Head(pressed) /\ pressed' # <<>>
          BY <3>1, <3>3
        <4> QED
          BY <1>1, <4>1 DEF Kept
      <3> QED
        BY <3>2, <3>3
    <2> QED
      BY <2>1, <2>2
  <1>2. CASE ~ Kept(e)
    BY <1>1, <1>2 DEF KeptOk
  <1>3. CASE Kept(e)
    <2>1. /\ hpc[e.turn] = "gone" /\ Faithful(e, wrote[e.turn])
          /\ hpc'[e.turn] = "gone" /\ wrote'[e.turn] = wrote[e.turn]
      BY <1>3 DEF KeptOk
    <2>2. Faithful(e, wrote'[e.turn])
      BY <2>1
    <2> QED
      BY <2>1, <2>2 DEF KeptOk
  <1> QED
    BY <1>2, <1>3

\* The message and the turn that are added to the view.
LEMMA NewEntries ==
  /\ Meta \in Entry /\ Meta.turn = 0
  /\ \A t \in Turns : LET e == [turn |-> t, text |-> <<>>, tools |-> <<>>, over |-> FALSE]
                      IN  e \in Entry /\ e.turn = t /\ ~ e.over
  <1> USE TerminalAssumption
  <1>1. Meta \in Entry
    BY DEF Meta, Entry
  <1>2. Meta.turn = 0
    BY DEF Meta
  <1>3. ASSUME NEW t \in Turns
        PROVE  LET e == [turn |-> t, text |-> <<>>, tools |-> <<>>, over |-> FALSE]
               IN  e \in Entry /\ e.turn = t /\ ~ e.over
    <2> DEFINE e == [turn |-> t, text |-> <<>>, tools |-> <<>>, over |-> FALSE]
    <2>1. e \in Entry
      BY DEF Entry, Turns
    <2>2. e.turn = t /\ e.over = FALSE
      BY Zenon
    <2> QED
      BY <2>1, <2>2
  <1> QED
    BY <1>1, <1>2, <1>3

\* A view with one more entry.
LEMMA OneMoreEntry ==
  ASSUME NEW s \in Seq(Entry), NEW e \in Entry
  PROVE  /\ Append(s, e) \in Seq(Entry) /\ Append(s, e) # <<>>
         /\ Append(s, e)[Len(Append(s, e))] = e
         /\ Range(Append(s, e)) = Range(s) \cup {e}
  <1>1. PICK r : r = Append(s, e)
    OBVIOUS
  <1>2. /\ r \in Seq(Entry) /\ r # <<>> /\ Len(r) = Len(s) + 1 /\ r[Len(s) + 1] = e /\ Len(s) \in Nat
        /\ DOMAIN s = 1 .. Len(s) /\ DOMAIN r = 1 .. Len(s) + 1
        /\ \A i \in 1 .. Len(s) : r[i] = s[i]
    BY <1>1
  <1>3. /\ \A i \in 1 .. Len(s) : i \in 1 .. Len(s) + 1
        /\ Len(s) + 1 \in 1 .. Len(s) + 1
        /\ \A i \in 1 .. Len(s) + 1 : i \in 1 .. Len(s) \/ i = Len(s) + 1
    BY <1>2
  <1>4. Range(r) = Range(s) \cup {e}
    BY <1>2, <1>3 DEF Range
  <1> QED
    BY <1>1, <1>2, <1>4

-----------------------------------------------------------------------------
\* Nothing has been said.
LEMMA InitTerminal == TInit => TerminalInv
  <1> SUFFICES ASSUME TInit PROVE TerminalInv
    OBVIOUS
  <1> USE TerminalAssumption
  <1>1. TerminalTypes
    <2>1. /\ streamBuf = <<>> /\ streamTools = <<>> /\ turns = <<>> /\ inbox = <<>> /\ pressed = <<>>
          /\ sent = 0 /\ streamCh = 0 /\ stopCh = 0 /\ cancelled = {} /\ state = "input"
          /\ chan = [t \in Turns |-> <<>>] /\ waiting = [t \in 0 .. MaxTurns |-> 0]
          /\ hpc = [t \in Turns |-> "none"] /\ wrote = [t \in Turns |-> <<>>]
      BY DEF TInit
    <2>2. /\ streamBuf \in Seq(TextMsgs) /\ streamTools \in Seq(Section) /\ turns \in Seq(Entry)
          /\ inbox \in Seq(Messages) /\ pressed \in Seq(1 .. sent)
      BY <2>1
    <2>3. /\ chan \in [Turns -> Seq(Messages)] /\ waiting \in [0 .. MaxTurns -> Nat]
          /\ hpc \in [Turns -> {"none", "running", "returned", "gone"}] /\ wrote \in [Turns -> Seq(Items)]
      BY <2>1
    <2>4. sent \in 0 .. MaxTurns /\ streamCh \in 0 .. sent /\ stopCh \in Nat
      BY <2>1
    <2> QED
      BY <2>1, <2>2, <2>3, <2>4 DEF TerminalTypes
  <1>2. Placed
    BY DEF TInit, Placed, Numbered
  <1>3. Undisturbed /\ LastIsLater
    BY DEF TInit, Undisturbed, LastIsLater
  <1>4. Range(turns) = {}
    BY DEF TInit, Range
  <1> QED
    BY <1>1, <1>2, <1>3, <1>4 DEF TerminalInv

\* What a user reads off the invariant.
LEMMA InvView == TerminalInv => ViewFaithful
  <1> SUFFICES ASSUME TerminalInv, NEW i \in DOMAIN turns, Kept(turns[i])
               PROVE  LET e == turns[i]
                          written == wrote[e.turn]
                      IN  /\ ShowsTexts(e.text, written, Len(written))
                          /\ ShowsTools(e.tools, written, Len(written))
    BY DEF ViewFaithful
  <1>1. turns[i] \in Range(turns)
    BY DEF Range
  <1>2. KeptOk(turns[i])
    BY <1>1 DEF TerminalInv
  <1> QED
    BY <1>2 DEF KeptOk, Faithful

-----------------------------------------------------------------------------
(***************************************************************************)
(* The keyboard.                                                           *)
(***************************************************************************)
\* startTurn: nobody waits and nothing is on its way.
LEMMA StartInv ==
  ASSUME TerminalInv, startTurn
  PROVE  TerminalInv'
  <1> USE TerminalAssumption
  <1>1. PICK t : t = sent + 1
    OBVIOUS
  <1>2. PICK e : e = [turn |-> t, text |-> <<>>, tools |-> <<>>, over |-> FALSE]
    OBVIOUS
  <1>3. /\ state = "input" /\ sent < MaxTurns
        /\ state' = "running" /\ sent' = t /\ streamCh' = t
        /\ streamBuf' = <<>> /\ streamTools' = <<>> /\ turns' = Append(turns, e)
        /\ hpc' = [hpc EXCEPT ![t] = "running"] /\ waiting' = [waiting EXCEPT ![t] = @ + 1]
        /\ UNCHANGED <<stopCh, chan, inbox, wrote, cancelled, pressed>>
    BY <1>1, <1>2 DEF startTurn, Await
  <1>4. TerminalTypes /\ Placed /\ Undisturbed /\ LastIsLater /\ \A d \in Range(turns) : KeptOk(d)
    BY DEF TerminalInv
  <1>5. /\ t \in Turns /\ t > sent /\ t \in 0 .. MaxTurns /\ sent \in Nat /\ 1 .. sent \subseteq 1 .. t
        /\ t \notin 1 .. sent /\ t # 0
    <2>1. sent \in 0 .. MaxTurns /\ sent < MaxTurns /\ MaxTurns \in Nat
      BY <1>3, <1>4 DEF TerminalTypes
    <2> QED
      BY ONLY <1>1, <2>1 DEF Turns
  <1>6. e \in Entry /\ e.turn = t /\ ~ e.over
    BY <1>2, <1>5, NewEntries
  <1>7. /\ turns' \in Seq(Entry) /\ turns' # <<>> /\ turns'[Len(turns')] = e
        /\ Range(turns') = Range(turns) \cup {e}
    BY <1>3, <1>4, <1>6, OneMoreEntry DEF TerminalTypes
  <1>8. TerminalTypes'
    <2>1. waiting' \in [0 .. MaxTurns -> Nat]
      <3>1. PICK D : D = 0 .. MaxTurns
        OBVIOUS
      <3>2. waiting \in [D -> Nat] /\ waiting' = [waiting EXCEPT ![t] = waiting[t] + 1] /\ t \in D
        BY <1>3, <1>4, <1>5, <3>1 DEF TerminalTypes
      <3>3. waiting' \in [D -> Nat]
        BY <3>2
      <3> QED
        BY <3>1, <3>3
    <2>5. hpc' \in [Turns -> {"none", "running", "returned", "gone"}]
      <3>1. PICK S : S = {"none", "running", "returned", "gone"}
        OBVIOUS
      <3>2. hpc \in [Turns -> S] /\ hpc' = [hpc EXCEPT ![t] = "running"] /\ "running" \in S
        BY <1>3, <1>4, <3>1 DEF TerminalTypes
      <3>3. hpc' \in [Turns -> S]
        BY <3>2
      <3> QED
        BY <3>1, <3>3
    <2>2. streamBuf' \in Seq(TextMsgs) /\ streamTools' \in Seq(Section)
      BY <1>3
    <2>3. pressed' \in Seq(1 .. sent') /\ cancelled' \subseteq 1 .. sent'
      <3>1. PICK A : A = 1 .. sent
        OBVIOUS
      <3>2. PICK B : B = 1 .. sent'
        OBVIOUS
      <3>3. pressed' = pressed /\ cancelled' = cancelled /\ sent' = t
        BY ONLY <1>3
      <3>4. A \subseteq B
        BY ONLY <1>5, <3>1, <3>2, <3>3
      <3>5. pressed \in Seq(A) /\ cancelled \subseteq A
        <4>1. pressed \in Seq(1 .. sent) /\ cancelled \subseteq 1 .. sent
          <5>1. state # "quit"
            BY <1>3
          <5> QED
            BY ONLY <1>4, <5>1, Zenon DEF TerminalTypes
        <4> QED
          BY ONLY <3>1, <4>1, Zenon
      <3>6. pressed \in Seq(B) /\ cancelled \subseteq B
        BY ONLY <3>4, <3>5
      <3> QED
        BY ONLY <3>2, <3>3, <3>6
    <2>4. sent' \in 0 .. MaxTurns /\ streamCh' \in 0 .. sent' /\ streamCh' # 0
      BY <1>3, <1>5
    <2> QED
      BY <1>3, <1>4, <1>7, <2>1, <2>2, <2>3, <2>4, <2>5 DEF TerminalTypes
  <1>9. Placed'
    <2> SUFFICES ASSUME NEW u \in Turns
                 PROVE  /\ Numbered(u, wrote'[u])
                        /\ u > sent' => hpc'[u] = "none" /\ wrote'[u] = <<>> /\ chan'[u] = <<>>
      BY DEF Placed
    <2>1. u > t => u > sent /\ u # t
      BY <1>5 DEF Turns
    <2> QED
      BY <1>3, <1>4, <2>1 DEF Placed, TerminalTypes
  <1>10. Undisturbed'
    <2> SUFFICES ASSUME pressed' = <<>> PROVE Undisturbed'
      BY DEF Undisturbed
    <2>1. stopCh = 0 /\ inbox = <<>> /\ \A u \in 0 .. MaxTurns : waiting[u] = 0
      BY <1>3, <1>4 DEF Undisturbed
    <2>2. wrote[t] = <<>> /\ chan[t] = <<>>
      BY <1>4, <1>5 DEF Placed
    <2>3. hpc'[t] = "running"
      BY <1>3, <1>4, <1>5 DEF TerminalTypes
    <2>4. Gone(t)' = 0
      BY <2>3 DEF Gone
    <2>5. Flows(wrote'[t], 0, inbox', chan'[t], streamBuf', streamTools')
      BY <1>3, <2>1, <2>2, FlowBegins
    <2>6. waiting'[t] + Len(inbox') = 1 /\ \A u \in 0 .. MaxTurns : u # t => waiting'[u] = 0
      BY <1>3, <1>4, <1>5, <2>1 DEF TerminalTypes
    <2>7. t \notin cancelled'
      BY <1>3, <1>4, <1>5 DEF TerminalTypes
    <2>8. Flows(wrote[sent], Gone(sent), inbox, chan[sent], streamBuf, streamTools)'
      BY <1>3, <2>4, <2>5
    <2> QED
      BY <1>3, <1>6, <1>7, <2>1, <2>3, <2>6, <2>7, <2>8 DEF Undisturbed
  <1>11. LastIsLater'
    <2> SUFFICES ASSUME pressed' # <<>> PROVE turns'[Len(turns')].turn >= Head(pressed')
      BY <1>7 DEF LastIsLater
    <2>1. Head(pressed) \in 1 .. sent
      BY <1>3, <1>4 DEF TerminalTypes
    <2>2. t >= Head(pressed)
      BY <1>5, <2>1
    <2> QED
      BY <1>3, <1>6, <1>7, <2>2
  <1>12. ASSUME NEW d \in Range(turns) PROVE KeptOk(d)'
    <2>1. hpc[d.turn] = "gone" => hpc'[d.turn] = "gone" /\ wrote'[d.turn] = wrote[d.turn]
      <3>1. hpc[t] = "none"
        BY <1>4, <1>5 DEF Placed
      <3> QED
        BY <1>3, <1>4, <3>1 DEF TerminalTypes
    <2>2. pressed \in Seq(1 .. sent) /\ pressed' = pressed
      BY <1>3, <1>4 DEF TerminalTypes
    <2> QED
      BY <1>4, <2>1, <2>2, KeptStays
  <1>13. KeptOk(e)'
    BY <1>6 DEF KeptOk, Kept
  <1> QED
    BY <1>7, <1>8, <1>9, <1>10, <1>11, <1>12, <1>13 DEF TerminalInv

\* Nothing that the entries depend on changes.
LEMMA KeptUnchanged ==
  ASSUME TerminalInv, UNCHANGED <<hpc, wrote, pressed>>, NEW e \in Range(turns)
  PROVE  KeptOk(e)'
  <1>1. KeptOk(e) /\ pressed \in Seq(1 .. sent)
    BY DEF TerminalInv, TerminalTypes
  <1> QED
    BY <1>1, KeptStays

\* handleSlash: the view gets a message, perhaps as its only entry.
LEMMA SlashInv ==
  ASSUME TerminalInv, handleSlash
  PROVE  TerminalInv'
  <1> USE TerminalAssumption
  <1>1. /\ state = "input"
        /\ UNCHANGED <<streamCh, sent, stopCh, chan, waiting, inbox, hpc, wrote, pressed>>
    BY DEF handleSlash, handlerVars
  <1>2. PICK reset \in BOOLEAN, quits \in BOOLEAN :
          /\ turns' = Append(IF reset THEN <<>> ELSE turns, Meta)
          /\ streamBuf' = IF reset THEN <<>> ELSE streamBuf
          /\ streamTools' = IF reset THEN <<>> ELSE streamTools
          /\ state' = IF quits THEN "quit" ELSE state
          /\ cancelled' = IF quits THEN cancelled \cup Turns ELSE cancelled
    <2>1. PICK r : /\ turns' = Append(IF r.reset THEN <<>> ELSE turns, Meta)
                   /\ streamBuf' = IF r.reset THEN <<>> ELSE streamBuf
                   /\ streamTools' = IF r.reset THEN <<>> ELSE streamTools
                   /\ state' = IF r.quit THEN "quit" ELSE state
                   /\ cancelled' = IF r.quit THEN cancelled \cup Turns ELSE cancelled
      BY Zenon DEF handleSlash
    <2> QED
      BY <2>1
  <1>3. TerminalTypes /\ Placed /\ Undisturbed /\ LastIsLater /\ \A d \in Range(turns) : KeptOk(d)
    BY DEF TerminalInv
  <1>4. PICK before \in Seq(Entry) : before = (IF reset THEN <<>> ELSE turns)
    <2>1. turns \in Seq(Entry)
      BY <1>3 DEF TerminalTypes
    <2>2. CASE reset
      <3>1. <<>> \in Seq(Entry)
        OBVIOUS
      <3> QED
        BY <2>2, <3>1, Zenon
    <2>3. CASE ~ reset
      BY <2>1, <2>3
    <2> QED
      BY <2>2, <2>3
  <1>5. Range(before) \subseteq Range(turns)
    BY <1>4 DEF Range
  <1>6. turns' = Append(before, Meta)
    BY <1>2, <1>4
  <1>7. /\ turns' \in Seq(Entry) /\ turns' # <<>> /\ turns'[Len(turns')] = Meta
        /\ Range(turns') = Range(before) \cup {Meta}
    BY <1>6, NewEntries, OneMoreEntry
  <1>8. TerminalTypes'
    <2>1. streamBuf' \in Seq(TextMsgs) /\ streamTools' \in Seq(Section)
      BY <1>2, <1>3 DEF TerminalTypes
    <2>2. state' \in {"input", "quit"} /\ (state' # "quit" => cancelled' \subseteq 1 .. sent)
      BY <1>1, <1>2, <1>3 DEF TerminalTypes
    <2> QED
      BY <1>1, <1>3, <1>7, <2>1, <2>2 DEF TerminalTypes
  <1>9. Placed'
    BY <1>1, <1>3 DEF Placed
  <1>10. Undisturbed'
    BY <1>1, <1>2, <1>3 DEF Undisturbed
  <1>11. LastIsLater'
    BY <1>7, NewEntries DEF LastIsLater
  <1>12. ASSUME NEW d \in Range(turns) PROVE KeptOk(d)'
    BY <1>1, KeptUnchanged
  <1>13. KeptOk(Meta)'
    <2>1. ~ Kept(Meta)'
      BY NewEntries DEF Kept, Meta
    <2> QED
      BY <2>1 DEF KeptOk, Meta
  <1> QED
    BY <1>5, <1>7, <1>8, <1>9, <1>10, <1>11, <1>12, <1>13 DEF TerminalInv

\* quit: the view stays as it is.
LEMMA QuitInv ==
  ASSUME TerminalInv, quit
  PROVE  TerminalInv'
  <1>1. /\ state' = "quit"
        /\ UNCHANGED <<streamCh, streamBuf, streamTools, turns, sent, stopCh, chan, waiting, inbox, hpc,
                       wrote, pressed>>
    BY DEF quit, handlerVars
  <1>2. TerminalTypes /\ Placed /\ Undisturbed /\ LastIsLater
    BY DEF TerminalInv
  <1>3. TerminalTypes'
    BY <1>1, <1>2 DEF TerminalTypes
  <1>4. Placed' /\ LastIsLater'
    BY <1>1, <1>2 DEF Placed, LastIsLater
  <1>5. Undisturbed'
    BY <1>1 DEF Undisturbed
  <1>6. ASSUME NEW d \in Range(turns) PROVE KeptOk(d)'
    BY <1>1, KeptUnchanged
  <1> QED
    BY <1>1, <1>3, <1>4, <1>5, <1>6 DEF TerminalInv

\* Escape: the last entry is that of the response, or of a later one.
LEMMA EscapeInv ==
  ASSUME TerminalInv, Escape
  PROVE  TerminalInv'
  <1> USE TerminalAssumption
  <1>1. /\ state = "running" /\ pressed' = Append(pressed, streamCh)
        /\ cancelled' = cancelled \cup {streamCh} /\ stopCh' = 1
        /\ waiting' = [waiting EXCEPT ![streamCh] = @ + 1]
        /\ UNCHANGED <<state, streamCh, streamBuf, streamTools, turns, sent, chan, inbox, hpc, wrote>>
    BY DEF Escape, Await, viewVars, handlerVars
  <1>2. TerminalTypes /\ Placed /\ Undisturbed /\ LastIsLater /\ \A d \in Range(turns) : KeptOk(d)
    BY DEF TerminalInv
  <1>3. streamCh \in 1 .. sent /\ sent \in 0 .. MaxTurns /\ streamCh \in 0 .. MaxTurns
    BY <1>1, <1>2 DEF TerminalTypes
  <1>4. pressed' \in Seq(1 .. sent) /\ pressed' # <<>>
        /\ (pressed # <<>> => Head(pressed') = Head(pressed)) /\ (pressed = <<>> => Head(pressed') = streamCh)
    <2>1. PICK S : S = 1 .. sent
      OBVIOUS
    <2>2. pressed \in Seq(S) /\ streamCh \in S /\ pressed' = Append(pressed, streamCh)
      BY <1>1, <1>2, <1>3, <2>1 DEF TerminalTypes
    <2>3. pressed' \in Seq(S) /\ pressed' # <<>>
      BY <2>2
    <2>4. (pressed # <<>> => Head(pressed') = Head(pressed)) /\ (pressed = <<>> => Head(pressed') = streamCh)
      BY <2>2
    <2> QED
      BY <2>1, <2>3, <2>4
  <1>5. TerminalTypes'
    <2>1. waiting' \in [0 .. MaxTurns -> Nat]
      BY <1>1, <1>2, <1>3 DEF TerminalTypes
    <2>2. cancelled' \subseteq 1 .. sent /\ stopCh' \in Nat
      BY <1>1, <1>2, <1>3 DEF TerminalTypes
    <2> QED
      BY <1>1, <1>2, <1>4, <2>1, <2>2 DEF TerminalTypes
  <1>6. Placed'
    BY <1>1, <1>2 DEF Placed
  <1>7. Undisturbed'
    BY <1>4 DEF Undisturbed
  <1>8. LastIsLater'
    <2>1. CASE pressed = <<>>
      <3>1. turns # <<>> /\ turns[Len(turns)].turn = sent /\ streamCh = sent
        BY <1>1, <1>2, <2>1 DEF Undisturbed
      <3>2. turns[Len(turns)].turn >= Head(pressed')
        BY <1>3, <1>4, <2>1, <3>1
      <3> QED
        BY <1>1, <3>1, <3>2 DEF LastIsLater
    <2>2. CASE pressed # <<>>
      BY <1>1, <1>2, <1>4, <2>2 DEF LastIsLater
    <2> QED
      BY <2>1, <2>2
  <1>9. ASSUME NEW d \in Range(turns) PROVE KeptOk(d)'
    <2>1. streamCh \in Nat /\ pressed \in Seq(1 .. sent)
      BY <1>2, <1>3 DEF TerminalTypes
    <2> QED
      BY <1>1, <1>2, <2>1, KeptStays
  <1> QED
    BY <1>1, <1>5, <1>6, <1>7, <1>8, <1>9 DEF TerminalInv

-----------------------------------------------------------------------------
(***************************************************************************)
(* The loop.                                                               *)
(***************************************************************************)
\* What finishTurn makes of a view that is not empty.
LEMMA LastFilled ==
  ASSUME NEW s \in Seq(Entry), s # <<>>, NEW f \in Entry, NEW r, r = [s EXCEPT ![Len(s)] = f]
  PROVE  /\ r \in Seq(Entry) /\ r # <<>> /\ r[Len(r)] = f
         /\ Range(r) \subseteq Range(s) \cup {f} /\ f \in Range(r)
  <1>1. PICK n \in Nat \ {0} : n = Len(s)
    OBVIOUS
  <1>2. r = [s EXCEPT ![n] = f]
    BY <1>1
  <1>3. DOMAIN s = 1 .. n /\ n \in 1 .. n /\ \A i \in 1 .. n : s[i] \in Entry
    BY <1>1
  <1>4. DOMAIN r = 1 .. n /\ r[n] = f /\ \A i \in 1 .. n : i # n => r[i] = s[i]
    BY <1>2, <1>3
  <1>5. r \in [1 .. n -> Entry]
    BY <1>2, <1>3, <1>4
  <1>6. r \in Seq(Entry) /\ Len(r) = n
    BY <1>5
  <1>7. r # <<>>
    BY <1>6
  <1>8. Range(r) \subseteq Range(s) \cup {f} /\ f \in Range(r)
    BY <1>3, <1>4 DEF Range
  <1> QED
    BY <1>1, <1>2, <1>4, <1>6, <1>7, <1>8

\* The inbox without one of its messages; a single one leaves nothing.
LEMMA Removed ==
  ASSUME NEW box \in Seq(Messages), NEW i \in DOMAIN box
  PROVE  /\ RemoveAt(box, i) \in Seq(Messages)
         /\ Len(box) = 1 => box = <<box[1]>> /\ i = 1 /\ RemoveAt(box, i) = <<>>
  <1>1. SubSeq(box, 1, i - 1) \in Seq(Messages) /\ SubSeq(box, i + 1, Len(box)) \in Seq(Messages)
    OBVIOUS
  <1>2. RemoveAt(box, i) \in Seq(Messages)
    BY <1>1 DEF RemoveAt
  <1>3. ASSUME Len(box) = 1 PROVE box = <<box[1]>> /\ i = 1 /\ RemoveAt(box, i) = <<>>
    <2>1. i = 1
      BY <1>3
    <2>2. box = <<box[1]>>
      BY <1>3
    <2>3. SubSeq(box, 1, 0) = <<>> /\ SubSeq(box, 2, 1) = <<>>
      BY <1>3
    <2>4. RemoveAt(box, i) = <<>> \o <<>>
      BY <1>3, <2>1, <2>3 DEF RemoveAt
    <2> QED
      BY <2>1, <2>2, <2>4
  <1> QED
    BY <1>2, <1>3

\* A sum of one.
LEMMA SumIsOne ==
  \A a, b \in Nat : a + b = 1 /\ b # 0 => a = 0 /\ b = 1
  OBVIOUS

\* The end of a turn, where no Esc was pressed: the entry of the turn gets all
\* that its handler wrote.
LEMMA FinishCalm ==
  ASSUME TerminalInv, state # "quit", NEW i \in DOMAIN inbox, inbox[i].kind = "done",
         inbox' = RemoveAt(inbox, i), finishTurn(inbox[i].err), UNCHANGED waiting,
         UNCHANGED <<sent, stopCh, chan, hpc, wrote, pressed>>, pressed = <<>>
  PROVE  /\ state = "running" /\ inbox' = <<>> /\ \A u \in 0 .. MaxTurns : waiting[u] = 0
         /\ inbox[i].err # "canceled" /\ hpc[sent] = "gone"
         /\ turns # <<>> /\ turns[Len(turns)].turn = sent
         /\ ShowsTexts(streamBuf, wrote[sent], Len(wrote[sent]))
         /\ ShowsTools(streamTools, wrote[sent], Len(wrote[sent]))
  <1> USE TerminalAssumption
  <1>1. TerminalTypes /\ Placed /\ Undisturbed
    BY DEF TerminalInv
  <1>2. inbox \in Seq(Messages) /\ Len(inbox) # 0 /\ inbox # <<>>
    BY <1>1 DEF TerminalTypes
  <1>3. state = "running"
    BY <1>1, <1>2 DEF Undisturbed, TerminalTypes
  <1>4. /\ turns # <<>> /\ turns[Len(turns)].turn = sent
        /\ \A u \in 0 .. MaxTurns : u # sent => waiting[u] = 0
        /\ waiting[sent] + Len(inbox) = 1
        /\ Flows(wrote[sent], Gone(sent), inbox, chan[sent], streamBuf, streamTools)
    BY <1>1, <1>3 DEF Undisturbed
  <1>5. sent \in Turns /\ sent \in 0 .. MaxTurns
    BY <1>1, <1>3 DEF TerminalTypes, Turns
  <1>6. waiting[sent] \in Nat /\ Len(inbox) \in Nat
    BY <1>1, <1>2, <1>5 DEF TerminalTypes
  <1>7. Len(inbox) = 1 /\ waiting[sent] = 0
    <2>1. waiting[sent] + Len(inbox) = 1 /\ Len(inbox) # 0
      BY <1>2, <1>4
    <2> QED
      BY ONLY <1>6, <2>1, SumIsOne, Zenon
  <1>8. inbox = <<inbox[1]>> /\ i = 1 /\ inbox' = <<>>
    BY <1>2, <1>7, Removed
  <1>9. PICK m \in Messages : m = inbox[1] /\ inbox = <<m>>
    BY <1>2, <1>7, <1>8
  <1>10. /\ streamTools \in Seq(Section) /\ streamBuf \in Seq(TextMsgs) /\ wrote[sent] \in Seq(Items)
         /\ chan[sent] \in Seq(Messages) /\ Numbered(sent, wrote[sent]) /\ Gone(sent) \in 0 .. 1
    BY <1>1, <1>5 DEF TerminalTypes, Placed, Gone
  <1>11. Flows(wrote[sent], Gone(sent), <<m>>, chan[sent], streamBuf, streamTools)
    BY <1>4, <1>9
  <1>12. m.kind = "done"
    BY <1>8, <1>9
  <1>13. /\ m \in Ends /\ Gone(sent) = 1
         /\ ShowsTexts(streamBuf, wrote[sent], Len(wrote[sent]))
         /\ ShowsTools(streamTools, wrote[sent], Len(wrote[sent]))
    BY <1>5, <1>10, <1>11, <1>12, FlowHandles
  <1>14. m.err # "canceled"
    BY <1>13, EndFacts
  <1>15. hpc[sent] = "gone"
    BY <1>13 DEF Gone
  <1> QED
    BY <1>3, <1>4, <1>7, <1>8, <1>9, <1>13, <1>14, <1>15

\* finishTurn: no entry of a turn that ended before the first Esc is written to,
\* except that of the turn that ends before it now.
LEMMA FinishInv ==
  ASSUME TerminalInv, state # "quit", NEW i \in DOMAIN inbox, inbox[i].kind = "done",
         inbox' = RemoveAt(inbox, i), finishTurn(inbox[i].err), UNCHANGED waiting,
         UNCHANGED <<sent, stopCh, chan, hpc, wrote, pressed>>
  PROVE  TerminalInv'
  <1> USE TerminalAssumption
  <1>1. TerminalTypes /\ Placed /\ Undisturbed /\ LastIsLater /\ \A d \in Range(turns) : KeptOk(d)
    BY DEF TerminalInv
  <1>2. PICK shown : shown = IF inbox[i].err = "canceled" THEN Append(turns, Meta) ELSE turns
    OBVIOUS
  <1>3. /\ turns' = IF shown = <<>> THEN shown
                    ELSE [shown EXCEPT ![Len(shown)] =
                            [@ EXCEPT !.text = streamBuf, !.tools = streamTools, !.over = TRUE]]
        /\ state' = "input" /\ streamCh' = 0
        /\ cancelled' = cancelled \cup (IF streamCh = 0 THEN {} ELSE {streamCh})
        /\ streamBuf' = <<>> /\ streamTools' = <<>>
    BY <1>2 DEF finishTurn
  <1>4. /\ turns \in Seq(Entry) /\ inbox \in Seq(Messages) /\ streamBuf \in Seq(TextMsgs)
        /\ streamTools \in Seq(Section)
    BY <1>1 DEF TerminalTypes
  <1>5. CASE shown = <<>>
    <2>1. Append(turns, Meta) # <<>>
      BY <1>4, NewEntries, OneMoreEntry
    <2>2. turns = <<>> /\ inbox[i].err # "canceled" /\ turns' = <<>>
      BY <1>2, <1>3, <1>5, <2>1
    <2>3. pressed # <<>>
      BY <2>2, FinishCalm
    <2> QED
      BY <1>1, <2>2, <2>3 DEF LastIsLater
  <1>6. CASE shown # <<>>
    <2>1. shown \in Seq(Entry)
      BY <1>2, <1>4, NewEntries, OneMoreEntry
    <2>2. PICK e \in Entry : e = shown[Len(shown)]
      BY <1>6, <2>1
    <2>3. PICK f : f = [e EXCEPT !.text = streamBuf, !.tools = streamTools, !.over = TRUE]
      OBVIOUS
    <2>4. f \in Entry /\ f.turn = e.turn /\ f.text = streamBuf /\ f.tools = streamTools /\ f.over
      BY <1>4, <2>3 DEF Entry
    <2>5. turns' = [shown EXCEPT ![Len(shown)] = f]
      BY <1>3, <1>6, <2>2, <2>3
    <2>6. /\ turns' \in Seq(Entry) /\ turns' # <<>> /\ turns'[Len(turns')] = f
          /\ Range(turns') \subseteq Range(shown) \cup {f}
      <3>1. PICK r : r = turns'
        OBVIOUS
      <3>2. r = [shown EXCEPT ![Len(shown)] = f] /\ f \in Entry
        BY <2>4, <2>5, <3>1
      <3>3. r \in Seq(Entry) /\ r # <<>> /\ r[Len(r)] = f /\ Range(r) \subseteq Range(shown) \cup {f}
        BY ONLY <1>6, <2>1, <3>2, LastFilled
      <3> QED
        BY ONLY <3>1, <3>3
    <2>7. Range(shown) \subseteq Range(turns) \cup {Meta}
      BY <1>2, <1>4, NewEntries, OneMoreEntry
    <2>8. inbox[i].err = "canceled" => e = Meta
      BY <1>2, <1>4, <2>2, NewEntries, OneMoreEntry
    <2>9. inbox[i].err # "canceled" => shown = turns
      BY <1>2
    <2>10. TerminalTypes'
      <3>1. inbox' \in Seq(Messages)
        BY <1>4, Removed
      <3>2. streamBuf' \in Seq(TextMsgs) /\ streamTools' \in Seq(Section)
        BY <1>3
      <3>3. cancelled' \subseteq 1 .. sent
        BY <1>1, <1>3 DEF TerminalTypes
      <3>4. streamCh' \in 0 .. sent'
        BY <1>1, <1>3 DEF TerminalTypes
      <3> QED
        BY <1>1, <1>3, <2>6, <3>1, <3>2, <3>3, <3>4 DEF TerminalTypes
    <2>11. Placed'
      BY <1>1 DEF Placed
    <2>12. Undisturbed'
      <3> SUFFICES ASSUME pressed' = <<>> PROVE Undisturbed'
        BY DEF Undisturbed
      <3>1. inbox' = <<>> /\ \A u \in 0 .. MaxTurns : waiting[u] = 0
        BY FinishCalm
      <3> QED
        BY <1>1, <1>3, <3>1 DEF Undisturbed
    <2>13. LastIsLater'
      <3>1. CASE inbox[i].err = "canceled"
        BY <2>4, <2>6, <2>8, <3>1, NewEntries DEF LastIsLater
      <3>2. CASE inbox[i].err # "canceled"
        BY <1>1, <2>2, <2>4, <2>6, <2>9, <3>2 DEF LastIsLater
      <3> QED
        BY <3>1, <3>2
    <2>14. ASSUME NEW d \in Range(turns) PROVE KeptOk(d)'
      BY KeptUnchanged
    <2>15. KeptOk(Meta)'
      <3>1. ~ Kept(Meta)'
        BY NewEntries DEF Kept, Meta
      <3> QED
        BY <3>1 DEF KeptOk, Meta
    <2>16. KeptOk(f)'
      <3>1. CASE pressed = <<>>
        <4>1. /\ inbox[i].err # "canceled" /\ hpc[sent] = "gone" /\ turns[Len(turns)].turn = sent
              /\ ShowsTexts(streamBuf, wrote[sent], Len(wrote[sent]))
              /\ ShowsTools(streamTools, wrote[sent], Len(wrote[sent]))
          BY <3>1, FinishCalm
        <4>2. f.turn = sent
          BY <2>2, <2>4, <2>9, <4>1
        <4>3. Faithful(f, wrote[sent])
          BY <2>4, <4>1 DEF Faithful
        <4>4. hpc'[f.turn] = "gone" /\ Faithful(f, wrote'[f.turn])
          BY <4>1, <4>2, <4>3
        <4> QED
          BY <4>4 DEF KeptOk
      <3>2. CASE pressed # <<>>
        <4>1. f.turn = 0 \/ f.turn >= Head(pressed)
          BY <1>1, <2>2, <2>4, <2>8, <2>9, <3>2, NewEntries DEF LastIsLater
        <4>2. f.turn \in Nat /\ Head(pressed) \in Nat
          <5>1. Head(pressed) \in 1 .. sent
            BY <1>1, <3>2 DEF TerminalTypes
          <5>2. f.turn \in 0 .. MaxTurns
            BY <2>4 DEF Entry
          <5> QED
            BY <5>1, <5>2
        <4>3. ~ (f.turn # 0 /\ f.turn < Head(pressed))
          BY <4>1, <4>2
        <4>4. ~ Kept(f)'
          BY <3>2, <4>3 DEF Kept
        <4> QED
          BY <4>4 DEF KeptOk
      <3> QED
        BY <3>1, <3>2
    <2> QED
      BY <2>6, <2>7, <2>10, <2>11, <2>12, <2>13, <2>14, <2>15, <2>16 DEF TerminalInv
  <1> QED
    BY <1>5, <1>6

\* A text or an event is shown, and one goroutine waits again.
LEMMA ShowsInv ==
  ASSUME TerminalInv, state # "quit", NEW i \in DOMAIN inbox, inbox[i].kind # "done",
         inbox' = RemoveAt(inbox, i), Shows(inbox[i]),
         UNCHANGED <<sent, stopCh, chan, hpc, wrote, pressed>>
  PROVE  TerminalInv'
  <1> USE TerminalAssumption
  <1>1. TerminalTypes /\ Placed /\ Undisturbed /\ LastIsLater /\ \A d \in Range(turns) : KeptOk(d)
    BY DEF TerminalInv
  <1>2. /\ waiting' = [waiting EXCEPT ![streamCh] = @ + 1] /\ UNCHANGED <<state, streamCh, turns, cancelled>>
        /\ inbox[i].kind = "text" => streamBuf' = Append(streamBuf, inbox[i]) /\ streamTools' = streamTools
        /\ inbox[i].kind # "text" => streamTools' = AfterEvent(inbox[i]) /\ streamBuf' = streamBuf
    BY DEF Shows, Await
  <1>3. inbox \in Seq(Messages) /\ inbox[i] \in Messages /\ Len(inbox) \in Nat \ {0} /\ inbox # <<>>
    BY <1>1 DEF TerminalTypes
  <1>4. /\ streamTools \in Seq(Section) /\ streamBuf \in Seq(TextMsgs)
        /\ streamCh \in 0 .. MaxTurns /\ sent \in 0 .. MaxTurns
    BY <1>1 DEF TerminalTypes
  <1>5. streamBuf' \in Seq(TextMsgs) /\ streamTools' \in Seq(Section)
    <2>1. CASE inbox[i].kind = "text"
      <3>1. inbox[i] \in TextMsgs
        BY <1>3, <2>1, KindFacts
      <3> QED
        BY <1>2, <1>4, <2>1, <3>1
    <2>2. CASE inbox[i].kind # "text"
      <3>1. inbox[i] \in EventMsgs
        BY <1>3, <2>2, KindFacts
      <3>2. inbox[i].call \in ToolCalls
        BY <3>1, EventFacts
      <3> QED
        BY <1>2, <1>4, <2>2, <3>2, AfterEventType
    <2> QED
      BY <2>1, <2>2
  <1>6. /\ waiting' \in [0 .. MaxTurns -> Nat] /\ waiting'[streamCh] = waiting[streamCh] + 1
        /\ \A u \in 0 .. MaxTurns : u # streamCh => waiting'[u] = waiting[u]
    <2>1. PICK D : D = 0 .. MaxTurns
      OBVIOUS
    <2>2. waiting \in [D -> Nat] /\ waiting' = [waiting EXCEPT ![streamCh] = waiting[streamCh] + 1] /\ streamCh \in D
      BY <1>1, <1>2, <1>4, <2>1 DEF TerminalTypes
    <2>3. /\ waiting' \in [D -> Nat] /\ waiting'[streamCh] = waiting[streamCh] + 1
          /\ \A u \in D : u # streamCh => waiting'[u] = waiting[u]
      BY <2>2
    <2> QED
      BY <2>1, <2>3
  <1>7. TerminalTypes'
    <2>1. inbox' \in Seq(Messages)
      BY <1>3, Removed
    <2> QED
      BY <1>1, <1>2, <1>5, <1>6, <2>1 DEF TerminalTypes
  <1>8. Placed' /\ LastIsLater'
    BY <1>1, <1>2 DEF Placed, LastIsLater
  <1>9. Undisturbed'
    <2> SUFFICES ASSUME pressed = <<>> PROVE Undisturbed'
      BY DEF Undisturbed
    <2>1. state = "running"
      BY <1>1, <1>3 DEF Undisturbed, TerminalTypes
    <2>2. /\ turns # <<>> /\ turns[Len(turns)].turn = sent /\ ~ turns[Len(turns)].over
          /\ streamCh = sent /\ sent \notin cancelled /\ hpc[sent] # "none" /\ stopCh = 0
          /\ \A u \in 0 .. MaxTurns : u # sent => waiting[u] = 0
          /\ waiting[sent] + Len(inbox) = 1
          /\ Flows(wrote[sent], Gone(sent), inbox, chan[sent], streamBuf, streamTools)
      BY <1>1, <2>1 DEF Undisturbed
    <2>3. sent \in Turns /\ waiting[sent] \in Nat
      BY <1>1, <1>4, <2>1 DEF TerminalTypes, Turns
    <2>4. Len(inbox) = 1 /\ waiting[sent] = 0
      <3>1. waiting[sent] + Len(inbox) = 1
        BY <2>2
      <3>2. Len(inbox) \in Nat /\ Len(inbox) # 0 /\ waiting[sent] \in Nat
        BY <1>3, <2>3
      <3> QED
        BY ONLY <3>1, <3>2, SumIsOne, Zenon
    <2>5. inbox = <<inbox[1]>> /\ i = 1 /\ inbox' = <<>>
      BY <1>3, <2>4, Removed
    <2>6. PICK m \in Messages : m = inbox[i] /\ inbox = <<m>>
      BY <1>3, <2>5
    <2>7. /\ wrote[sent] \in Seq(Items) /\ chan[sent] \in Seq(Messages)
          /\ Numbered(sent, wrote[sent]) /\ Gone(sent) \in 0 .. 1
      BY <1>1, <2>3 DEF TerminalTypes, Placed, Gone
    <2>8. Flows(wrote[sent], Gone(sent), <<m>>, chan[sent], streamBuf, streamTools)
      BY <2>2, <2>6
    <2>9. Flows(wrote[sent], Gone(sent), <<>>, chan[sent], streamBuf', streamTools')
      <3>1. /\ m.kind = "text" => Flows(wrote[sent], Gone(sent), <<>>, chan[sent], Append(streamBuf, m), streamTools)
            /\ m.kind # "text" /\ m.kind # "done" =>
                 Flows(wrote[sent], Gone(sent), <<>>, chan[sent], streamBuf, AfterEvent(m))
        BY <1>4, <2>3, <2>7, <2>8, FlowHandles
      <3>2. CASE m.kind = "text"
        BY <1>2, <2>6, <3>1, <3>2
      <3>3. CASE m.kind # "text"
        BY <1>2, <2>6, <3>1, <3>3
      <3> QED
        BY <3>2, <3>3
    <2>10. Flows(wrote[sent], Gone(sent), inbox, chan[sent], streamBuf, streamTools)'
      <3>1. Gone(sent)' = Gone(sent)
        BY DEF Gone
      <3> QED
        BY <2>5, <2>9, <3>1
    <2>11. waiting'[sent] + Len(inbox') = 1 /\ \A u \in 0 .. MaxTurns : u # sent => waiting'[u] = 0
      <3>1. waiting'[sent] = 1 /\ Len(<<>>) = 0
        BY <1>6, <2>2, <2>4
      <3> QED
        BY <1>6, <2>2, <2>5, <3>1
    <2> QED
      BY <1>2, <2>1, <2>2, <2>10, <2>11 DEF Undisturbed
  <1>10. ASSUME NEW d \in Range(turns) PROVE KeptOk(d)'
    BY KeptUnchanged
  <1> QED
    BY <1>2, <1>7, <1>8, <1>9, <1>10 DEF TerminalInv

\* Before the first Esc, what the parts of a running turn are.
LEMMA Running ==
  ASSUME TerminalInv, pressed = <<>>, state = "running"
  PROVE  /\ turns # <<>> /\ turns[Len(turns)].turn = sent /\ ~ turns[Len(turns)].over
         /\ streamCh = sent /\ sent \notin cancelled /\ hpc[sent] # "none" /\ stopCh = 0
         /\ \A u \in 0 .. MaxTurns : u # sent => waiting[u] = 0
         /\ waiting[sent] + Len(inbox) = 1
         /\ Flows(wrote[sent], Gone(sent), inbox, chan[sent], streamBuf, streamTools)
         /\ sent \in Turns /\ waiting[sent] \in Nat /\ Len(inbox) \in Nat
         /\ wrote[sent] \in Seq(Items) /\ chan[sent] \in Seq(Messages) /\ Gone(sent) \in 0 .. 1
  <1> USE TerminalAssumption
  <1>1. TerminalTypes /\ Undisturbed
    BY DEF TerminalInv
  <1>2. sent \in Turns /\ sent \in 0 .. MaxTurns
    BY <1>1 DEF TerminalTypes, Turns
  <1>3. /\ wrote[sent] \in Seq(Items) /\ chan[sent] \in Seq(Messages) /\ Gone(sent) \in 0 .. 1
        /\ waiting[sent] \in Nat /\ Len(inbox) \in Nat
    BY <1>1, <1>2 DEF TerminalTypes, Gone
  <1> QED
    BY <1>1, <1>2, <1>3 DEF Undisturbed

\* waitStreamOrStop: before the first Esc only the goroutine of the response
\* waits, and there is no stop signal.
LEMMA HearsInv ==
  ASSUME TerminalInv, NEW t \in 0 .. MaxTurns, Hears(t)
  PROVE  TerminalInv'
  <1> USE TerminalAssumption
  <1>1. TerminalTypes /\ Placed /\ Undisturbed /\ LastIsLater /\ \A d \in Range(turns) : KeptOk(d)
    BY DEF TerminalInv
  <1>2. /\ state # "quit" /\ waiting[t] > 0 /\ waiting' = [waiting EXCEPT ![t] = @ - 1]
        /\ UNCHANGED <<state, streamCh, streamBuf, streamTools, turns, sent, hpc, wrote, cancelled, pressed>>
    BY DEF Hears, viewVars, handlerVars
  <1>3. \/ /\ t # 0 /\ chan[t] # <<>> /\ inbox' = Append(inbox, Head(chan[t]))
           /\ chan' = [chan EXCEPT ![t] = Tail(@)] /\ stopCh' = stopCh
        \/ /\ stopCh > 0 /\ stopCh' = 0 /\ inbox' = Append(inbox, Finished("canceled")) /\ chan' = chan
    BY DEF Hears
  <1>4. chan \in [Turns -> Seq(Messages)] /\ inbox \in Seq(Messages) /\ stopCh \in Nat
    BY <1>1 DEF TerminalTypes
  <1>5. t # 0 => t \in Turns
    BY DEF Turns
  <1>6. /\ waiting' \in [0 .. MaxTurns -> Nat] /\ waiting'[t] = waiting[t] - 1
        /\ \A u \in 0 .. MaxTurns : u # t => waiting'[u] = waiting[u]
    <2>1. PICK D : D = 0 .. MaxTurns
      OBVIOUS
    <2>2. /\ waiting \in [D -> Nat] /\ waiting' = [waiting EXCEPT ![t] = waiting[t] - 1] /\ t \in D
          /\ waiting[t] \in Nat /\ waiting[t] > 0
      BY <1>1, <1>2, <2>1 DEF TerminalTypes
    <2>3. waiting[t] - 1 \in Nat
      BY <2>2
    <2>4. /\ waiting' \in [D -> Nat] /\ waiting'[t] = waiting[t] - 1
          /\ \A u \in D : u # t => waiting'[u] = waiting[u]
      BY <2>2, <2>3
    <2> QED
      BY <2>1, <2>4
  <1>7. chan' \in [Turns -> Seq(Messages)] /\ inbox' \in Seq(Messages) /\ stopCh' \in Nat
        /\ \A u \in Turns : chan[u] = <<>> => chan'[u] = <<>>
    <2>1. ASSUME t # 0, chan[t] # <<>>, inbox' = Append(inbox, Head(chan[t])),
                 chan' = [chan EXCEPT ![t] = Tail(@)], stopCh' = stopCh
          PROVE  chan' \in [Turns -> Seq(Messages)] /\ inbox' \in Seq(Messages) /\ stopCh' \in Nat
                 /\ \A u \in Turns : chan[u] = <<>> => chan'[u] = <<>>
      <3>1. chan[t] \in Seq(Messages)
        BY <1>4, <1>5, <2>1
      <3>2. Tail(chan[t]) \in Seq(Messages) /\ Head(chan[t]) \in Messages
        BY <2>1, <3>1
      <3> QED
        BY <1>4, <1>5, <2>1, <3>2
    <2>2. ASSUME stopCh' = 0, inbox' = Append(inbox, Finished("canceled")), chan' = chan
          PROVE  chan' \in [Turns -> Seq(Messages)] /\ inbox' \in Seq(Messages) /\ stopCh' \in Nat
                 /\ \A u \in Turns : chan[u] = <<>> => chan'[u] = <<>>
      <3>1. Finished("canceled") \in Messages
        BY DEF Messages
      <3> QED
        BY <1>4, <2>2, <3>1
    <2> QED
      BY <1>3, <2>1, <2>2
  <1>8. TerminalTypes'
    BY <1>1, <1>2, <1>6, <1>7 DEF TerminalTypes
  <1>9. Placed'
    BY <1>1, <1>2, <1>7 DEF Placed
  <1>10. LastIsLater'
    BY <1>1, <1>2 DEF LastIsLater
  <1>11. Undisturbed'
    <2> SUFFICES ASSUME pressed = <<>> PROVE Undisturbed'
      BY <1>2 DEF Undisturbed
    <2>1. state = "running"
      BY <1>1, <1>2 DEF Undisturbed, TerminalTypes
    <2>2. /\ turns # <<>> /\ turns[Len(turns)].turn = sent /\ ~ turns[Len(turns)].over
          /\ streamCh = sent /\ sent \notin cancelled /\ hpc[sent] # "none" /\ stopCh = 0
          /\ \A u \in 0 .. MaxTurns : u # sent => waiting[u] = 0
          /\ waiting[sent] + Len(inbox) = 1
          /\ Flows(wrote[sent], Gone(sent), inbox, chan[sent], streamBuf, streamTools)
          /\ sent \in Turns /\ waiting[sent] \in Nat /\ Len(inbox) \in Nat
          /\ wrote[sent] \in Seq(Items) /\ chan[sent] \in Seq(Messages) /\ Gone(sent) \in 0 .. 1
      BY <2>1, Running
    <2>3. t = sent
      BY <1>2, <2>2
    <2>4. waiting[sent] # 0
      BY <1>2, <2>3
    <2>5. waiting[sent] = 1 /\ Len(inbox) = 0
      <3>1. \A a, b \in Nat : a + b = 1 /\ a # 0 => a = 1 /\ b = 0
        OBVIOUS
      <3> QED
        BY <2>2, <2>4, <3>1, Zenon
    <2>6. inbox = <<>>
      BY <1>4, <2>5
    <2>7. /\ chan[sent] # <<>> /\ inbox' = Append(inbox, Head(chan[sent]))
          /\ chan' = [chan EXCEPT ![sent] = Tail(@)] /\ stopCh' = stopCh
      BY <1>3, <2>2, <2>3
    <2>8. inbox' = <<Head(chan[sent])>> /\ chan'[sent] = Tail(chan[sent])
      BY <1>4, <2>2, <2>6, <2>7
    <2>9. Flows(wrote[sent], Gone(sent), <<Head(chan[sent])>>, Tail(chan[sent]), streamBuf, streamTools)
      <3>1. Flows(wrote[sent], Gone(sent), <<>>, chan[sent], streamBuf, streamTools)
        BY <2>2, <2>6
      <3> QED
        BY <2>2, <2>7, <3>1, FlowHears
    <2>10. Flows(wrote[sent], Gone(sent), inbox, chan[sent], streamBuf, streamTools)'
      <3>1. Gone(sent)' = Gone(sent)
        BY <1>2 DEF Gone
      <3> QED
        BY <1>2, <2>8, <2>9, <3>1
    <2>11. waiting'[sent] + Len(inbox') = 1 /\ \A u \in 0 .. MaxTurns : u # sent => waiting'[u] = 0
      <3>1. waiting'[sent] = 0
        BY <1>6, <2>3, <2>5
      <3>2. Len(inbox') = 1
        BY <2>8
      <3>3. waiting'[sent] + Len(inbox') = 1
        BY ONLY <3>1, <3>2
      <3> QED
        BY <1>6, <2>2, <2>3, <3>3
    <2> QED
      BY <1>2, <2>1, <2>2, <2>7, <2>10, <2>11 DEF Undisturbed
  <1>12. ASSUME NEW d \in Range(turns) PROVE KeptOk(d)'
    BY <1>2, KeptUnchanged
  <1> QED
    BY <1>2, <1>8, <1>9, <1>10, <1>11, <1>12 DEF TerminalInv

-----------------------------------------------------------------------------
(***************************************************************************)
(* The handlers.                                                           *)
(***************************************************************************)
\* Writes: the item that the handler of the response writes gets on its way; the
\* writer drops none before the first Esc.
LEMMA WritesInv ==
  ASSUME TerminalInv, NEW t \in Turns, state # "quit", Writes(t)
  PROVE  TerminalInv'
  <1> USE TerminalAssumption
  <1>1. TerminalTypes /\ Placed /\ Undisturbed /\ LastIsLater /\ \A d \in Range(turns) : KeptOk(d)
    BY DEF TerminalInv
  <1>2. /\ hpc[t] = "running"
        /\ UNCHANGED <<state, streamCh, streamBuf, streamTools, turns, sent, stopCh, waiting, inbox, hpc,
                       cancelled, pressed>>
    BY DEF Writes, viewVars
  <1>3. PICK m \in {Text(t, Len(wrote[t]) + 1)} \cup {Start(c) : c \in ToolCalls} \cup {End(c) : c \in ToolCalls} :
          /\ wrote' = [wrote EXCEPT ![t] = Append(@, m)]
          /\ \/ chan' = [chan EXCEPT ![t] = Append(@, m)]
             \/ t \in cancelled /\ chan' = chan
    BY Zenon DEF Writes
  <1>4. /\ chan \in [Turns -> Seq(Messages)] /\ wrote \in [Turns -> Seq(Items)] /\ sent \in 0 .. MaxTurns
        /\ wrote[t] \in Seq(Items) /\ chan[t] \in Seq(Messages) /\ Len(wrote[t]) \in Nat
    BY <1>1 DEF TerminalTypes
  <1>5. m = Text(t, Len(wrote[t]) + 1) \/ m \in EventMsgs
    BY DEF EventMsgs
  <1>6. m \in Items /\ m \in Messages
    <2>1. Text(t, Len(wrote[t]) + 1) \in TextMsgs
      <3>1. PICK n : n = Len(wrote[t]) + 1
        OBVIOUS
      <3>2. n \in Nat
        BY ONLY <1>4, <3>1
      <3>3. Text(t, n) \in TextMsgs
        BY ONLY <3>2, t \in Turns DEF TextMsgs
      <3> QED
        BY ONLY <3>1, <3>3
    <2> QED
      BY <1>5, <2>1 DEF Items, Messages
  <1>7. /\ wrote'[t] = Append(wrote[t], m) /\ \A u \in Turns : u # t => wrote'[u] = wrote[u]
        /\ wrote' \in [Turns -> Seq(Items)]
    BY <1>3, <1>4, <1>6
  <1>8. /\ chan' \in [Turns -> Seq(Messages)] /\ \A u \in Turns : u # t => chan'[u] = chan[u]
        /\ chan'[t] = Append(chan[t], m) \/ t \in cancelled
    <2>1. CASE chan' = [chan EXCEPT ![t] = Append(@, m)]
      <3>1. Append(chan[t], m) \in Seq(Messages)
        BY <1>4, <1>6
      <3> QED
        BY <1>4, <2>1, <3>1
    <2>2. CASE t \in cancelled /\ chan' = chan
      BY <1>4, <2>2
    <2> QED
      BY <1>3, <2>1, <2>2
  <1>9. TerminalTypes'
    BY <1>1, <1>2, <1>7, <1>8 DEF TerminalTypes
  <1>10. Placed'
    <2> SUFFICES ASSUME NEW u \in Turns
                 PROVE  /\ Numbered(u, wrote'[u])
                        /\ u > sent' => hpc'[u] = "none" /\ wrote'[u] = <<>> /\ chan'[u] = <<>>
      BY DEF Placed
    <2>1. CASE u # t
      BY <1>1, <1>2, <1>7, <1>8, <2>1 DEF Placed
    <2>2. CASE u = t
      <3>1. ~ (t > sent)
        BY <1>1, <1>2 DEF Placed
      <3>2. ASSUME NEW j \in 1 .. Len(wrote'[t])
            PROVE  wrote'[t][j] = Text(t, j) \/ wrote'[t][j] \in EventMsgs
        <4>1. CASE j = Len(wrote[t]) + 1
          <5>1. wrote'[t][j] = m
            BY <1>4, <1>6, <1>7, <4>1
          <5> QED
            BY <1>5, <4>1, <5>1
        <4>2. CASE j # Len(wrote[t]) + 1
          <5>1. j \in 1 .. Len(wrote[t]) /\ wrote'[t][j] = wrote[t][j]
            BY <1>4, <1>6, <1>7, <4>2
          <5> QED
            BY <1>1, <5>1 DEF Placed, Numbered
        <4> QED
          BY <4>1, <4>2
      <3> QED
        BY <1>2, <2>2, <3>1, <3>2 DEF Numbered
    <2> QED
      BY <2>1, <2>2
  <1>11. LastIsLater'
    BY <1>1, <1>2 DEF LastIsLater
  <1>12. Undisturbed'
    <2> SUFFICES ASSUME pressed = <<>>, state = "running"
                 PROVE  Flows(wrote[sent], Gone(sent), inbox, chan[sent], streamBuf, streamTools)'
      BY <1>1, <1>2 DEF Undisturbed
    <2>1. /\ Flows(wrote[sent], Gone(sent), inbox, chan[sent], streamBuf, streamTools)
          /\ sent \in Turns /\ sent \notin cancelled
      BY Running
    <2>2. Gone(sent)' = Gone(sent)
      BY <1>2 DEF Gone
    <2>3. CASE t # sent
      BY <1>2, <1>7, <1>8, <2>1, <2>2, <2>3
    <2>4. CASE t = sent
      <3>1. Gone(t) = 0
        BY <1>2 DEF Gone
      <3>2. Flows(wrote[t], 0, inbox, chan[t], streamBuf, streamTools)
        BY <2>1, <2>4, <3>1
      <3>3. inbox \in Seq(Messages)
        BY <1>1 DEF TerminalTypes
      <3>4. Flows(Append(wrote[t], m), 0, inbox, Append(chan[t], m), streamBuf, streamTools)
        BY <1>4, <1>6, <3>2, <3>3, FlowWrites
      <3>5. chan'[t] = Append(chan[t], m)
        BY <1>8, <2>1, <2>4
      <3> QED
        BY <1>2, <1>7, <2>2, <2>4, <3>1, <3>4, <3>5
    <2> QED
      BY <2>3, <2>4
  <1>13. ASSUME NEW d \in Range(turns) PROVE KeptOk(d)'
    <2>1. d \in Entry
      BY <1>1 DEF TerminalTypes, Range
    <2>2. KeptOk(d) /\ pressed \in Seq(1 .. sent)
      BY <1>1 DEF TerminalTypes
    <2>3. CASE d.turn = 0
      BY <2>3 DEF KeptOk, Kept
    <2>4. CASE d.turn # 0
      <3>1. d.turn \in Turns
        BY <2>1, <2>4 DEF Entry, Turns
      <3>2. hpc[d.turn] = "gone" => hpc'[d.turn] = "gone" /\ wrote'[d.turn] = wrote[d.turn]
        BY <1>2, <1>7, <3>1
      <3> QED
        BY <1>2, <2>2, <3>2, KeptStays
    <2> QED
      BY <2>3, <2>4
  <1> QED
    BY <1>2, <1>9, <1>10, <1>11, <1>12, <1>13 DEF TerminalInv

\* Returns: the end of the turn is still to come.
LEMMA ReturnsInv ==
  ASSUME TerminalInv, NEW t \in Turns, state # "quit", Returns(t)
  PROVE  TerminalInv'
  <1> USE TerminalAssumption
  <1>1. TerminalTypes /\ Placed /\ Undisturbed /\ LastIsLater /\ \A d \in Range(turns) : KeptOk(d)
    BY DEF TerminalInv
  <1>2. /\ hpc[t] = "running" /\ hpc' = [hpc EXCEPT ![t] = "returned"]
        /\ UNCHANGED <<state, streamCh, streamBuf, streamTools, turns, sent, stopCh, chan, waiting, inbox,
                       wrote, cancelled, pressed>>
    BY DEF Returns, viewVars
  <1>3. /\ hpc' \in [Turns -> {"none", "running", "returned", "gone"}] /\ hpc'[t] = "returned"
        /\ \A u \in Turns : u # t => hpc'[u] = hpc[u]
    <2>1. PICK S : S = {"none", "running", "returned", "gone"}
      OBVIOUS
    <2>2. hpc \in [Turns -> S] /\ "returned" \in S
      BY <1>1, <2>1 DEF TerminalTypes
    <2>3. /\ hpc' \in [Turns -> S] /\ hpc'[t] = "returned"
          /\ \A u \in Turns : u # t => hpc'[u] = hpc[u]
      BY <1>2, <2>2
    <2> QED
      BY <2>1, <2>3
  <1>4. TerminalTypes'
    BY <1>1, <1>2, <1>3 DEF TerminalTypes
  <1>5. Placed'
    <2>1. ~ (t > sent)
      BY <1>1, <1>2 DEF Placed
    <2> QED
      BY <1>1, <1>2, <1>3, <2>1 DEF Placed
  <1>6. LastIsLater'
    BY <1>1, <1>2 DEF LastIsLater
  <1>7. Undisturbed'
    <2> SUFFICES ASSUME pressed = <<>>, state = "running"
                 PROVE  /\ hpc'[sent] # "none"
                        /\ Flows(wrote[sent], Gone(sent), inbox, chan[sent], streamBuf, streamTools)'
      BY <1>1, <1>2 DEF Undisturbed
    <2>1. /\ Flows(wrote[sent], Gone(sent), inbox, chan[sent], streamBuf, streamTools)
          /\ sent \in Turns /\ hpc[sent] # "none"
      BY Running
    <2>2. hpc'[sent] # "none" /\ (hpc'[sent] = "gone" <=> hpc[sent] = "gone")
      BY <1>2, <1>3, <2>1
    <2>3. Gone(sent)' = Gone(sent)
      BY <1>2, <2>2 DEF Gone
    <2> QED
      BY <1>2, <2>1, <2>2, <2>3
  <1>8. ASSUME NEW d \in Range(turns) PROVE KeptOk(d)'
    <2>1. d \in Entry
      BY <1>1 DEF TerminalTypes, Range
    <2>2. KeptOk(d) /\ pressed \in Seq(1 .. sent)
      BY <1>1 DEF TerminalTypes
    <2>3. CASE d.turn = 0
      BY <2>3 DEF KeptOk, Kept
    <2>4. CASE d.turn # 0
      <3>1. d.turn \in Turns
        BY <2>1, <2>4 DEF Entry, Turns
      <3>2. hpc[d.turn] = "gone" => hpc'[d.turn] = "gone" /\ wrote'[d.turn] = wrote[d.turn]
        BY <1>2, <1>3, <3>1
      <3> QED
        BY <1>2, <2>2, <3>2, KeptStays
    <2> QED
      BY <2>3, <2>4
  <1> QED
    BY <1>2, <1>4, <1>5, <1>6, <1>7, <1>8 DEF TerminalInv

\* Reports: the end of the turn follows what the handler wrote, and it is not that
\* of a cancelled turn before the first Esc.
LEMMA ReportsInv ==
  ASSUME TerminalInv, NEW t \in Turns, state # "quit", Reports(t)
  PROVE  TerminalInv'
  <1> USE TerminalAssumption
  <1>1. TerminalTypes /\ Placed /\ Undisturbed /\ LastIsLater /\ \A d \in Range(turns) : KeptOk(d)
    BY DEF TerminalInv
  <1>2. /\ hpc[t] = "returned" /\ hpc' = [hpc EXCEPT ![t] = "gone"]
        /\ UNCHANGED <<state, streamCh, streamBuf, streamTools, turns, sent, stopCh, waiting, inbox,
                       wrote, cancelled, pressed>>
    BY DEF Reports, viewVars
  <1>3. PICK err \in {"ok", "error"} \cup (IF t \in cancelled THEN {"canceled"} ELSE {}) :
          chan' = [chan EXCEPT ![t] = Append(@, Finished(err))]
    BY DEF Reports
  <1>4. PICK m : m = Finished(err)
    OBVIOUS
  <1>5. m \in Messages /\ (t \notin cancelled => m \in Ends)
    BY <1>3, <1>4 DEF Messages, Ends
  <1>6. /\ chan \in [Turns -> Seq(Messages)] /\ chan[t] \in Seq(Messages)
        /\ wrote[t] \in Seq(Items) /\ inbox \in Seq(Messages)
    BY <1>1 DEF TerminalTypes
  <1>7. /\ chan' \in [Turns -> Seq(Messages)] /\ \A u \in Turns : u # t => chan'[u] = chan[u]
        /\ chan'[t] = Append(chan[t], m)
    BY <1>3, <1>4, <1>5, <1>6
  <1>8. /\ hpc' \in [Turns -> {"none", "running", "returned", "gone"}] /\ hpc'[t] = "gone"
        /\ \A u \in Turns : u # t => hpc'[u] = hpc[u]
    <2>1. PICK S : S = {"none", "running", "returned", "gone"}
      OBVIOUS
    <2>2. hpc \in [Turns -> S] /\ "gone" \in S
      BY <1>1, <2>1 DEF TerminalTypes
    <2>3. /\ hpc' \in [Turns -> S] /\ hpc'[t] = "gone"
          /\ \A u \in Turns : u # t => hpc'[u] = hpc[u]
      BY <1>2, <2>2
    <2> QED
      BY <2>1, <2>3
  <1>9. TerminalTypes'
    BY <1>1, <1>2, <1>7, <1>8 DEF TerminalTypes
  <1>10. Placed'
    <2>1. ~ (t > sent)
      BY <1>1, <1>2 DEF Placed
    <2> QED
      BY <1>1, <1>2, <1>7, <1>8, <2>1 DEF Placed
  <1>11. LastIsLater'
    BY <1>1, <1>2 DEF LastIsLater
  <1>12. Undisturbed'
    <2> SUFFICES ASSUME pressed = <<>>, state = "running"
                 PROVE  /\ hpc'[sent] # "none"
                        /\ Flows(wrote[sent], Gone(sent), inbox, chan[sent], streamBuf, streamTools)'
      BY <1>1, <1>2 DEF Undisturbed
    <2>1. /\ Flows(wrote[sent], Gone(sent), inbox, chan[sent], streamBuf, streamTools)
          /\ sent \in Turns /\ hpc[sent] # "none" /\ sent \notin cancelled
      BY Running
    <2>2. CASE t # sent
      <3>1. hpc'[sent] = hpc[sent] /\ chan'[sent] = chan[sent]
        BY <1>7, <1>8, <2>1, <2>2
      <3>2. Gone(sent)' = Gone(sent)
        BY <1>2, <3>1 DEF Gone
      <3> QED
        BY <1>2, <2>1, <3>1, <3>2
    <2>3. CASE t = sent
      <3>1. Gone(t) = 0
        BY <1>2 DEF Gone
      <3>2. Gone(t)' = 1
        BY <1>8 DEF Gone
      <3>3. Flows(wrote[t], 0, inbox, chan[t], streamBuf, streamTools)
        BY <2>1, <2>3, <3>1
      <3>4. Flows(wrote[t], 1, inbox, Append(chan[t], m), streamBuf, streamTools)
        BY <1>5, <1>6, <2>1, <2>3, <3>3, FlowReports
      <3>5. Flows(wrote[sent], Gone(sent), inbox, chan[sent], streamBuf, streamTools)'
        BY <1>2, <1>7, <2>3, <3>2, <3>4
      <3> QED
        BY <1>8, <2>3, <3>5
    <2> QED
      BY <2>2, <2>3
  <1>13. ASSUME NEW d \in Range(turns) PROVE KeptOk(d)'
    <2>1. d \in Entry
      BY <1>1 DEF TerminalTypes, Range
    <2>2. KeptOk(d) /\ pressed \in Seq(1 .. sent)
      BY <1>1 DEF TerminalTypes
    <2>3. CASE d.turn = 0
      BY <2>3 DEF KeptOk, Kept
    <2>4. CASE d.turn # 0
      <3>1. d.turn \in Turns
        BY <2>1, <2>4 DEF Entry, Turns
      <3>2. hpc[d.turn] = "gone" => hpc'[d.turn] = "gone" /\ wrote'[d.turn] = wrote[d.turn]
        BY <1>2, <1>8, <3>1
      <3> QED
        BY <1>2, <2>2, <3>2, KeptStays
    <2> QED
      BY <2>3, <2>4
  <1> QED
    BY <1>2, <1>9, <1>10, <1>11, <1>12, <1>13 DEF TerminalInv

-----------------------------------------------------------------------------
\* ViewFaithful: every turn that ended before the first Esc shows what its handler
\* wrote, for any number of turns, items, tools, keys and any buffer.
THEOREM ViewFaithfulHolds == TSpec => []ViewFaithful
  <1>1. TInit => TerminalInv
    BY InitTerminal
  <1>2. ASSUME TerminalInv, [TNext]_tvars PROVE TerminalInv'
    <2>1. CASE startTurn
      BY <1>2, <2>1, StartInv
    <2>2. CASE handleSlash
      BY <1>2, <2>2, SlashInv
    <2>3. CASE quit
      BY <1>2, <2>3, QuitInv
    <2>4. CASE Escape
      BY <1>2, <2>4, EscapeInv
    <2>5. CASE handleStream
      <3>1. /\ state # "quit" /\ UNCHANGED <<sent, stopCh, chan, hpc, wrote, pressed>>
        BY <2>5 DEF handleStream, handlerVars
      <3>2. PICK i \in DOMAIN inbox :
              /\ inbox' = RemoveAt(inbox, i)
              /\ IF inbox[i].kind = "done"
                 THEN finishTurn(inbox[i].err) /\ UNCHANGED waiting
                 ELSE Shows(inbox[i])
        BY <2>5 DEF handleStream
      <3>3. CASE inbox[i].kind = "done"
        BY <1>2, <3>1, <3>2, <3>3, FinishInv
      <3>4. CASE inbox[i].kind # "done"
        BY <1>2, <3>1, <3>2, <3>4, ShowsInv
      <3> QED
        BY <3>3, <3>4
    <2>6. ASSUME NEW t \in 0 .. MaxTurns, Hears(t) PROVE TerminalInv'
      BY <1>2, <2>6, HearsInv
    <2>7. ASSUME NEW t \in Turns, state # "quit", Writes(t) PROVE TerminalInv'
      BY <1>2, <2>7, WritesInv
    <2>8. ASSUME NEW t \in Turns, state # "quit", Returns(t) PROVE TerminalInv'
      BY <1>2, <2>8, ReturnsInv
    <2>9. ASSUME NEW t \in Turns, state # "quit", Reports(t) PROVE TerminalInv'
      BY <1>2, <2>9, ReportsInv
    <2>10. CASE UNCHANGED tvars
      <3>1. UNCHANGED <<state, streamCh, streamBuf, streamTools, turns, sent, stopCh, chan, waiting, inbox,
                        hpc, wrote, cancelled, pressed>>
        BY <2>10 DEF tvars, viewVars, handlerVars
      <3>2. TerminalTypes' /\ Placed' /\ LastIsLater'
        BY <1>2, <3>1 DEF TerminalInv, TerminalTypes, Placed, LastIsLater
      <3>3. Undisturbed'
        <4>1. Undisturbed
          BY <1>2 DEF TerminalInv
        <4> QED
          BY <3>1, <4>1 DEF Undisturbed, Gone
      <3>4. ASSUME NEW d \in Range(turns) PROVE KeptOk(d)'
        BY <1>2, <3>1, KeptUnchanged
      <3> QED
        BY <3>1, <3>2, <3>3, <3>4 DEF TerminalInv
    <2>11. CASE Over
      BY <2>10, <2>11 DEF Over
    <2> QED
      BY <1>2, <2>1, <2>2, <2>3, <2>4, <2>5, <2>6, <2>7, <2>8, <2>9, <2>10, <2>11 DEF TNext
  <1>3. TerminalInv => ViewFaithful
    BY InvView
  <1> QED
    BY <1>1, <1>2, <1>3, PTL DEF TSpec
=============================================================================
