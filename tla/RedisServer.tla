----------------------------- MODULE RedisServer -----------------------------
(***************************************************************************)
(* The goroutines of the Redis endpoint (extensions/redis/redis_server.go):*)
(* acceptLoop, one handler per client connection, and the callers of       *)
(* Server.Close.  They share the semaphore that bounds the clients, the    *)
(* registry of connections, the WaitGroup, and the store lock (protocolMu) *)
(* that a handler holds while it runs one command.                         *)
(*                                                                         *)
(* A client may connect, send, stop reading or go away at any time.  The   *)
(* temporary errors of Accept, after which the loop tries again, change    *)
(* nothing and are left out.                                               *)
(***************************************************************************)
EXTENDS Integers, FiniteSets

CONSTANTS Conns,        \* client connections
          Closers,      \* callers of Server.Close
          MaxClients,   \* Options.MaxClients; 0 for no limit
          None          \* no connection, no closer

ASSUME ServerAssumption ==
  /\ IsFiniteSet(Conns)
  /\ MaxClients \in Nat
  /\ None \notin Conns \cup Closers

VARIABLES
  loop,        \* where acceptLoop is
  current,     \* the connection it has accepted and not yet handed over
  socket,      \* the server's side of every connection
  handler,     \* where the goroutine of every connection is
  sem,         \* tokens in the semaphore channel
  conns,       \* the registry
  wg,          \* the WaitGroup's counter
  store,       \* the connection that holds the store lock
  listening,   \* is the listener open?
  closed,      \* Server.closed
  once,        \* Server.once: unused, running or over
  closer,      \* where every caller of Close is
  snapshot     \* the connections that Close has still to close

accepting == <<loop, current>>
closing == <<listening, closed, once, closer, snapshot>>
vars == <<accepting, socket, handler, sem, conns, wg, store, closing>>

Init ==
  /\ loop = "accept" /\ current = None
  /\ socket = [c \in Conns |-> "new"]
  /\ handler = [c \in Conns |-> "none"]
  /\ sem = 0 /\ conns = {} /\ wg = 1 /\ store = None
  /\ listening = TRUE /\ closed = FALSE
  /\ once = "unused" /\ closer = [z \in Closers |-> "idle"] /\ snapshot = {}

-----------------------------------------------------------------------------
(* Clients and acceptLoop.                                                 *)

Connect(c) ==
  /\ listening /\ socket[c] = "new"
  /\ socket' = [socket EXCEPT ![c] = "pending"]
  /\ UNCHANGED <<accepting, handler, sem, conns, wg, store, closing>>

Accept(c) ==
  /\ loop = "accept" /\ listening /\ socket[c] = "pending"
  /\ socket' = [socket EXCEPT ![c] = "open"]
  /\ loop' = "admit" /\ current' = c
  /\ UNCHANGED <<handler, sem, conns, wg, store, closing>>

(* A listener that is closed or broken ends the loop.                      *)
AcceptFails ==
  /\ loop = "accept"
  /\ loop' = "exited" /\ wg' = wg - 1
  /\ UNCHANGED <<current, socket, handler, sem, conns, store, closing>>

AdmitAlways ==
  /\ loop = "admit"
  /\ sem' = IF MaxClients > 0 THEN sem + 1 ELSE sem
  /\ loop' = "register"
  /\ UNCHANGED <<current, socket, handler, conns, wg, store, closing>>

Admit ==
  /\ loop = "admit" /\ (MaxClients = 0 \/ sem < MaxClients)
  /\ sem' = IF MaxClients > 0 THEN sem + 1 ELSE sem
  /\ loop' = "register"
  /\ UNCHANGED <<current, socket, handler, conns, wg, store, closing>>

(* One client too many: it is told so and closed.                          *)
Refuse ==
  /\ loop = "admit" /\ MaxClients > 0 /\ sem = MaxClients
  /\ socket' = [socket EXCEPT ![current] = "closed"]
  /\ loop' = "accept" /\ current' = None
  /\ UNCHANGED <<handler, sem, conns, wg, store, closing>>

RegisterUnchecked ==
  /\ loop = "register"
  /\ conns' = conns \cup {current}
  /\ loop' = "spawn"
  /\ UNCHANGED <<current, socket, handler, sem, wg, store, closing>>

register ==
  /\ loop = "register" /\ ~closed
  /\ conns' = conns \cup {current}
  /\ loop' = "spawn"
  /\ UNCHANGED <<current, socket, handler, sem, wg, store, closing>>

RegisterFails ==
  /\ loop = "register" /\ closed
  /\ sem' = IF MaxClients > 0 THEN sem - 1 ELSE sem
  /\ socket' = [socket EXCEPT ![current] = "closed"]
  /\ loop' = "exited" /\ current' = None /\ wg' = wg - 1
  /\ UNCHANGED <<handler, conns, store, closing>>

Spawn ==
  /\ loop = "spawn"
  /\ wg' = wg + 1
  /\ handler' = [handler EXCEPT ![current] = "read"]
  /\ loop' = "accept" /\ current' = None
  /\ UNCHANGED <<socket, sem, conns, store, closing>>

-----------------------------------------------------------------------------
(* A handler: serveRedisConnection, then the deferred calls in the order   *)
(* in which they run.                                                      *)

Moves(c, from, to) == handler[c] = from /\ handler' = [handler EXCEPT ![c] = to]

ReadRequest(c) ==
  /\ socket[c] = "open" /\ Moves(c, "read", "lock")
  /\ UNCHANGED <<accepting, socket, sem, conns, wg, store, closing>>

(* Arguments that are no command are answered without the store.           *)
ReadMalformed(c) ==
  /\ socket[c] = "open" /\ Moves(c, "read", "write")
  /\ UNCHANGED <<accepting, socket, sem, conns, wg, store, closing>>

LockStore(c) ==
  /\ store = None /\ Moves(c, "lock", "dispatch")
  /\ store' = c
  /\ UNCHANGED <<accepting, socket, sem, conns, wg, closing>>

(* redisDispatch runs the command; the lock is released before the reply   *)
(* is written.                                                             *)
Dispatch(c) ==
  /\ Moves(c, "dispatch", "write")
  /\ store' = None
  /\ UNCHANGED <<accepting, socket, sem, conns, wg, closing>>

WriteReply(c) ==
  /\ socket[c] = "open" /\ Moves(c, "write", "read")
  /\ UNCHANGED <<accepting, socket, sem, conns, wg, store, closing>>

(* serveRedisConnection returns: the read or the write failed, because the *)
(* client went away or Close closed the socket, or the command was QUIT.   *)
ConnectionEnds(c) ==
  /\ Moves(c, "read", "release") \/ Moves(c, "write", "release")
  /\ UNCHANGED <<accepting, socket, sem, conns, wg, store, closing>>

UnregisterEarly(c) ==
  /\ Moves(c, "release", "close")
  /\ sem' = IF MaxClients > 0 THEN sem - 1 ELSE sem
  /\ conns' = conns \ {c}
  /\ UNCHANGED <<accepting, socket, wg, store, closing>>

ReleaseSem(c) ==
  /\ Moves(c, "release", "close")
  /\ sem' = IF MaxClients > 0 THEN sem - 1 ELSE sem
  /\ UNCHANGED <<accepting, socket, conns, wg, store, closing>>

CloseSocket(c) ==
  /\ Moves(c, "close", "unregister")
  /\ socket' = [socket EXCEPT ![c] = "closed"]
  /\ UNCHANGED <<accepting, sem, conns, wg, store, closing>>

unregister(c) ==
  /\ Moves(c, "unregister", "done")
  /\ conns' = conns \ {c}
  /\ UNCHANGED <<accepting, socket, sem, wg, store, closing>>

HandlerDone(c) ==
  /\ Moves(c, "done", "exited")
  /\ wg' = wg - 1
  /\ UNCHANGED <<accepting, socket, sem, conns, store, closing>>

-----------------------------------------------------------------------------
(* Server.Close.                                                           *)

CallerMoves(z, from, to) == closer[z] = from /\ closer' = [closer EXCEPT ![z] = to]

CallClose(z) ==
  /\ CallerMoves(z, "idle", "called")
  /\ UNCHANGED <<accepting, socket, handler, sem, conns, wg, store>>
  /\ UNCHANGED <<listening, closed, once, snapshot>>

EnterOnce(z) ==
  /\ once = "unused" /\ CallerMoves(z, "called", "mark")
  /\ once' = "running"
  /\ UNCHANGED <<accepting, socket, handler, sem, conns, wg, store>>
  /\ UNCHANGED <<listening, closed, snapshot>>

MarkClosed(z) ==
  /\ CallerMoves(z, "mark", "listener")
  /\ closed' = TRUE /\ snapshot' = conns
  /\ UNCHANGED <<accepting, socket, handler, sem, conns, wg, store, listening, once>>

(* Connections nobody accepted are reset with the listener.                *)
CloseListener(z) ==
  /\ CallerMoves(z, "listener", "sockets")
  /\ listening' = FALSE
  /\ socket' = [c \in Conns |-> IF socket[c] = "pending" THEN "closed" ELSE socket[c]]
  /\ UNCHANGED <<accepting, handler, sem, conns, wg, store, closed, once, snapshot>>

CloseOne(z, c) ==
  /\ closer[z] = "sockets" /\ c \in snapshot
  /\ socket' = [socket EXCEPT ![c] = "closed"]
  /\ snapshot' = snapshot \ {c}
  /\ UNCHANGED <<accepting, handler, sem, conns, wg, store, listening, closed, once, closer>>

AllClosed(z) ==
  /\ snapshot = {} /\ CallerMoves(z, "sockets", "wait")
  /\ UNCHANGED <<accepting, socket, handler, sem, conns, wg, store>>
  /\ UNCHANGED <<listening, closed, once, snapshot>>

WaitReturns(z) ==
  /\ wg = 0 /\ CallerMoves(z, "wait", "returned")
  /\ once' = "over"
  /\ UNCHANGED <<accepting, socket, handler, sem, conns, wg, store>>
  /\ UNCHANGED <<listening, closed, snapshot>>

ReturnAtOnce(z) ==
  /\ once # "unused" /\ CallerMoves(z, "called", "returned")
  /\ UNCHANGED <<accepting, socket, handler, sem, conns, wg, store>>
  /\ UNCHANGED <<listening, closed, once, snapshot>>

(* once.Do makes a later caller wait for the first one.                    *)
CloseAgain(z) ==
  /\ once = "over" /\ CallerMoves(z, "called", "returned")
  /\ UNCHANGED <<accepting, socket, handler, sem, conns, wg, store>>
  /\ UNCHANGED <<listening, closed, once, snapshot>>

-----------------------------------------------------------------------------
AcceptLoop ==
  \/ \E c \in Conns : Accept(c)
  \/ AcceptFails \/ Admit \/ Refuse \/ register \/ RegisterFails \/ Spawn

Handler(c) ==
  \/ ReadRequest(c) \/ ReadMalformed(c) \/ LockStore(c) \/ Dispatch(c) \/ WriteReply(c)
  \/ ConnectionEnds(c) \/ ReleaseSem(c) \/ CloseSocket(c) \/ unregister(c) \/ HandlerDone(c)

Closing(z) ==
  \/ CallClose(z) \/ EnterOnce(z) \/ MarkClosed(z) \/ CloseListener(z)
  \/ AllClosed(z) \/ WaitReturns(z) \/ CloseAgain(z)
  \/ \E c \in Conns : CloseOne(z, c)

(* All goroutines may come to rest: every caller of Close has returned and *)
(* nobody connects any more.                                               *)
Next ==
  \/ AcceptLoop
  \/ \E c \in Conns : Connect(c) \/ Handler(c)
  \/ \E z \in Closers : Closing(z)

Spec == Init /\ [][Next]_vars

(* Goroutines keep running.  Accept blocks as long as the listener is open *)
(* and a read or a write as long as the socket is; a goroutine that waits  *)
(* for the store lock gets it (Go's Mutex does not starve).  Nobody has to *)
(* call Close.                                                             *)
Fairness ==
  /\ WF_vars(AcceptLoop /\ (loop = "accept" => ~listening))
  /\ \A c \in Conns :
       /\ WF_vars(Handler(c) /\ (handler[c] \in {"read", "write"} => socket[c] = "closed"))
       /\ SF_vars(LockStore(c))
  /\ \A z \in Closers : WF_vars(Closing(z) /\ closer[z] # "idle")

FairSpec == Spec /\ Fairness

-----------------------------------------------------------------------------
LoopStates == {"accept", "admit", "register", "spawn", "exited"}
Serving == {"read", "lock", "dispatch", "write"}
HandlerStates == Serving \cup {"none", "release", "close", "unregister", "done", "exited"}
CloserStates == {"idle", "called", "mark", "listener", "sockets", "wait", "returned"}

(* Types; the counters never go below zero, which for the WaitGroup would  *)
(* be a panic.                                                             *)
TypeOK ==
  /\ loop \in LoopStates
  /\ current \in Conns \cup {None}
  /\ socket \in [Conns -> {"new", "pending", "open", "closed"}]
  /\ handler \in [Conns -> HandlerStates]
  /\ sem \in Nat /\ wg \in Nat
  /\ conns \in SUBSET Conns
  /\ store \in Conns \cup {None}
  /\ listening \in BOOLEAN /\ closed \in BOOLEAN
  /\ once \in {"unused", "running", "over"}
  /\ closer \in [Closers -> CloserStates]
  /\ snapshot \in SUBSET Conns

(* redis_server.go:43-44: "a positive value bounds active client           *)
(* connections": no more connections are being served than MaxClients,     *)
(* whatever the order in which handlers come and go.                       *)
ClientsBounded ==
  MaxClients > 0 => Cardinality({c \in Conns : handler[c] \in Serving}) <= MaxClients

(* redis_server.go:204: "Close stops the Redis listener and active         *)
(* clients": once any call of Close has returned, the first or a later     *)
(* one, no goroutine of the server runs, so none will use the DB, which    *)
(* the caller may close now, and no socket it accepted is left open.       *)
ClosedMeansQuiet ==
  (\E z \in Closers : closer[z] = "returned") =>
    /\ loop = "exited" /\ ~listening /\ store = None /\ conns = {}
    /\ \A c \in Conns : handler[c] \in {"none", "exited"} /\ socket[c] \in {"new", "closed"}

(* redis_server.go:183-226: a socket that the server holds open is always  *)
(* in somebody's hands: acceptLoop has it, or the registry has it, so that *)
(* Close finds it.                                                         *)
NoLostSocket ==
  \A c \in Conns : socket[c] = "open" => c = current \/ c \in conns

(* redis_server.go:206-226: every call of Close returns, even while        *)
(* clients stay connected and silent.                                      *)
CloseReturns == \A z \in Closers : closer[z] = "called" ~> closer[z] = "returned"
=============================================================================
