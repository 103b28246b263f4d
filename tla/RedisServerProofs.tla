-------------------------- MODULE RedisServerProofs --------------------------
(***************************************************************************)
(* Safety of the Redis endpoint for any finite number of connections, any  *)
(* number of callers of Close and any MaxClients.  The counters are what   *)
(* the proofs are about: the WaitGroup counts exactly the goroutines that  *)
(* run, the semaphore exactly the connections that have been admitted and  *)
(* have not given their token back.                                        *)
(***************************************************************************)
EXTENDS RedisServer, FiniteSetTheorems, TLAPS

Running(h) == {c \in Conns : h[c] \notin {"none", "exited"}}
Holders(h) == {c \in Conns : h[c] \in Serving \cup {"release"}}
Registered == {c \in Conns : handler[c] \in Serving \cup {"release", "close", "unregister"}}

Types ==
  /\ loop \in LoopStates
  /\ current \in Conns \cup {None}
  /\ socket \in [Conns -> {"new", "pending", "open", "closed"}]
  /\ handler \in [Conns -> HandlerStates]
  /\ sem \in Int /\ wg \in Int
  /\ conns \in SUBSET Conns
  /\ store \in Conns \cup {None}
  /\ listening \in BOOLEAN /\ closed \in BOOLEAN
  /\ once \in {"unused", "running", "over"}
  /\ closer \in [Closers -> CloserStates]
  /\ snapshot \in SUBSET Conns

WgCounts == wg = Cardinality(Running(handler)) + (IF loop = "exited" THEN 0 ELSE 1)

SemCounts ==
  MaxClients > 0 =>
    /\ sem = Cardinality(Holders(handler)) + (IF loop \in {"register", "spawn"} THEN 1 ELSE 0)
    /\ sem <= MaxClients

SemUnused == MaxClients = 0 => sem = 0

InHand == loop \in {"admit", "register", "spawn"}

CurrentInv ==
  /\ InHand => current \in Conns /\ handler[current] = "none" /\ socket[current] \in {"open", "closed"}
  /\ ~InHand => current = None

SocketInv ==
  \A c \in Conns :
    /\ handler[c] # "none" => socket[c] \in {"open", "closed"}
    /\ socket[c] = "pending" => listening
    /\ socket[c] = "open" => c = current \/ handler[c] \in Serving \cup {"release", "close"}

RegistryInv == conns = Registered \cup (IF loop = "spawn" THEN {current} ELSE {})

StoreInv ==
  /\ \A c \in Conns : handler[c] = "dispatch" => store = c
  /\ store # None => handler[store] = "dispatch"

CloserInv ==
  /\ \A z \in Closers :
       /\ closer[z] \in {"mark", "listener", "sockets", "wait"} => once = "running"
       /\ closer[z] \in {"sockets", "wait"} => ~listening
       /\ closer[z] = "returned" => once = "over"
  /\ \A y, z \in Closers :
       /\ closer[y] \in {"mark", "listener", "sockets", "wait"}
       /\ closer[z] \in {"mark", "listener", "sockets", "wait"}
       => y = z
  /\ once = "over" => wg = 0 /\ ~listening

ServerInv ==
  /\ Types /\ WgCounts /\ SemCounts /\ SemUnused /\ CurrentInv
  /\ SocketInv /\ RegistryInv /\ StoreInv /\ CloserInv

-----------------------------------------------------------------------------
(* How many goroutines run, and how many hold a token, after a handler has *)
(* moved from one place to another.                                        *)
LEMMA CountMove ==
  ASSUME NEW h \in [Conns -> HandlerStates], NEW c \in Conns, NEW to \in HandlerStates,
         NEW g, g = [h EXCEPT ![c] = to]
  PROVE  /\ Cardinality(Running(h)) \in Nat /\ Cardinality(Holders(h)) \in Nat
         /\ Cardinality(Running(g)) =
              IF to \in {"none", "exited"}
              THEN IF c \in Running(h) THEN Cardinality(Running(h)) - 1 ELSE Cardinality(Running(h))
              ELSE IF c \in Running(h) THEN Cardinality(Running(h)) ELSE Cardinality(Running(h)) + 1
         /\ Cardinality(Holders(g)) =
              IF to \notin Serving \cup {"release"}
              THEN IF c \in Holders(h) THEN Cardinality(Holders(h)) - 1 ELSE Cardinality(Holders(h))
              ELSE IF c \in Holders(h) THEN Cardinality(Holders(h)) ELSE Cardinality(Holders(h)) + 1
<1>1. IsFiniteSet(Running(h)) /\ IsFiniteSet(Holders(h))
  BY ServerAssumption, FS_Subset DEF Running, Holders
<1>2. Cardinality(Running(h)) \in Nat /\ Cardinality(Holders(h)) \in Nat
  BY <1>1, FS_CardinalityType
<1>3. Running(g) = IF to \in {"none", "exited"} THEN Running(h) \ {c} ELSE Running(h) \cup {c}
  BY DEF Running
<1>4. Holders(g) = IF to \notin Serving \cup {"release"} THEN Holders(h) \ {c} ELSE Holders(h) \cup {c}
  BY DEF Holders
<1>5. /\ Cardinality(Running(h) \cup {c}) =
            IF c \in Running(h) THEN Cardinality(Running(h)) ELSE Cardinality(Running(h)) + 1
      /\ Cardinality(Running(h) \ {c}) =
            IF c \in Running(h) THEN Cardinality(Running(h)) - 1 ELSE Cardinality(Running(h))
  BY <1>1, FS_AddElement, FS_RemoveElement
<1>6. /\ Cardinality(Holders(h) \cup {c}) =
            IF c \in Holders(h) THEN Cardinality(Holders(h)) ELSE Cardinality(Holders(h)) + 1
      /\ Cardinality(Holders(h) \ {c}) =
            IF c \in Holders(h) THEN Cardinality(Holders(h)) - 1 ELSE Cardinality(Holders(h))
  BY <1>1, FS_AddElement, FS_RemoveElement
<1>7. QED
  BY <1>2, <1>3, <1>4, <1>5, <1>6

LEMMA CountSpawn ==
  ASSUME NEW h \in [Conns -> HandlerStates], NEW c \in Conns, h[c] = "none",
         NEW g, g = [h EXCEPT ![c] = "read"]
  PROVE  /\ Cardinality(Running(g)) = Cardinality(Running(h)) + 1
         /\ Cardinality(Holders(g)) = Cardinality(Holders(h)) + 1
<1>1. IsFiniteSet(Running(h)) /\ IsFiniteSet(Holders(h))
  BY ServerAssumption, FS_Subset DEF Running, Holders
<1>2. Running(g) = Running(h) \cup {c} /\ c \notin Running(h)
  BY DEF Running
<1>3. Holders(g) = Holders(h) \cup {c} /\ c \notin Holders(h)
  BY DEF Holders, Serving
<1>4. QED
  BY <1>1, <1>2, <1>3, FS_AddElement

LEMMA CountsAreNatural ==
  ASSUME NEW h
  PROVE  Cardinality(Running(h)) \in Nat /\ Cardinality(Holders(h)) \in Nat
<1>1. IsFiniteSet(Running(h)) /\ IsFiniteSet(Holders(h))
  BY ServerAssumption, FS_Subset DEF Running, Holders
<1>2. QED
  BY <1>1, FS_CardinalityType

LEMMA InitInv == Init => ServerInv
<1> SUFFICES ASSUME Init PROVE ServerInv
  OBVIOUS
<1>1. Running(handler) = {} /\ Holders(handler) = {}
  BY DEF Init, Running, Holders, Serving
<1>2. Cardinality(Running(handler)) = 0 /\ Cardinality(Holders(handler)) = 0
  BY <1>1, FS_EmptySet
<1>3. Types
  <2>1. listening \in BOOLEAN /\ closed \in BOOLEAN
    BY Zenon DEF Init
  <2>2. socket \in [Conns -> {"new", "pending", "open", "closed"}]
    BY DEF Init
  <2>3. handler \in [Conns -> HandlerStates] /\ closer \in [Closers -> CloserStates]
    BY DEF Init, HandlerStates, CloserStates
  <2>4. QED
    BY <2>1, <2>2, <2>3 DEF Init, Types, LoopStates
<1>4. WgCounts /\ SemCounts /\ SemUnused
  BY <1>2, ServerAssumption DEF Init, WgCounts, SemCounts, SemUnused
<1>5. CurrentInv /\ SocketInv /\ RegistryInv /\ StoreInv /\ CloserInv
  BY DEF Init, CurrentInv, InHand, SocketInv, RegistryInv, Registered, Serving, StoreInv, CloserInv
<1>6. QED
  BY <1>3, <1>4, <1>5 DEF ServerInv

(* The steps of acceptLoop and of clients that connect.                    *)
LEMMA LoopKeepsInv ==
  ASSUME ServerInv, AcceptLoop \/ \E c \in Conns : Connect(c)
  PROVE  ServerInv'
<1> USE ServerAssumption DEF ServerInv, accepting, closing
<1>0. Cardinality(Running(handler)) \in Nat /\ Cardinality(Holders(handler)) \in Nat
  BY CountsAreNatural
<1>1. CASE \E c \in Conns : Connect(c)
  <2>1. Types'
    BY <1>1 DEF Connect, Types, LoopStates, HandlerStates, Serving, CloserStates
  <2>2. (WgCounts /\ SemCounts /\ SemUnused)'
    BY <1>1, <1>0 DEF Connect, WgCounts, SemCounts, SemUnused, Types, Running, Holders, Serving, CurrentInv, InHand
  <2>3. (CurrentInv /\ SocketInv)'
    BY <1>1 DEF Connect, CurrentInv, InHand, SocketInv, Types, LoopStates, HandlerStates, Serving, CloserStates
  <2>4. (RegistryInv /\ StoreInv)'
    BY <1>1 DEF Connect, RegistryInv, Registered, StoreInv, CurrentInv, InHand, Types, LoopStates, HandlerStates, Serving, CloserStates
  <2>5. CloserInv'
    BY <1>1, <1>0 DEF Connect, CloserInv, WgCounts, Running, Types, LoopStates, HandlerStates, Serving, CloserStates
  <2>6. QED
    BY <2>1, <2>2, <2>3, <2>4, <2>5
<1>2. CASE \E c \in Conns : Accept(c)
  <2>1. Types'
    BY <1>2 DEF Accept, Types, LoopStates, HandlerStates, Serving, CloserStates
  <2>2. (WgCounts /\ SemCounts /\ SemUnused)'
    BY <1>2, <1>0 DEF Accept, WgCounts, SemCounts, SemUnused, Types, Running, Holders, Serving, CurrentInv, InHand
  <2>3. (CurrentInv /\ SocketInv)'
    BY <1>2 DEF Accept, CurrentInv, InHand, SocketInv, Types, LoopStates, HandlerStates, Serving, CloserStates
  <2>4. (RegistryInv /\ StoreInv)'
    BY <1>2 DEF Accept, RegistryInv, Registered, StoreInv, CurrentInv, InHand, Types, LoopStates, HandlerStates, Serving, CloserStates
  <2>5. CloserInv'
    BY <1>2, <1>0 DEF Accept, CloserInv, WgCounts, Running, Types, LoopStates, HandlerStates, Serving, CloserStates
  <2>6. QED
    BY <2>1, <2>2, <2>3, <2>4, <2>5
<1>3. CASE AcceptFails
  <2>1. Types'
    BY <1>3 DEF AcceptFails, Types, LoopStates, HandlerStates, Serving, CloserStates
  <2>2. (WgCounts /\ SemCounts /\ SemUnused)'
    BY <1>3, <1>0 DEF AcceptFails, WgCounts, SemCounts, SemUnused, Types, Running, Holders, Serving, CurrentInv, InHand
  <2>3. (CurrentInv /\ SocketInv)'
    BY <1>3 DEF AcceptFails, CurrentInv, InHand, SocketInv, Types, LoopStates, HandlerStates, Serving, CloserStates
  <2>4. (RegistryInv /\ StoreInv)'
    BY <1>3 DEF AcceptFails, RegistryInv, Registered, StoreInv, CurrentInv, InHand, Types, LoopStates, HandlerStates, Serving, CloserStates
  <2>5. CloserInv'
    BY <1>3, <1>0 DEF AcceptFails, CloserInv, WgCounts, Running, Types, LoopStates, HandlerStates, Serving, CloserStates
  <2>6. QED
    BY <2>1, <2>2, <2>3, <2>4, <2>5
<1>4. CASE Admit
  <2>1. Types'
    BY <1>4 DEF Admit, Types, LoopStates, HandlerStates, Serving, CloserStates
  <2>2. (WgCounts /\ SemCounts /\ SemUnused)'
    BY <1>4, <1>0 DEF Admit, WgCounts, SemCounts, SemUnused, Types, Running, Holders, Serving, CurrentInv, InHand
  <2>3. (CurrentInv /\ SocketInv)'
    BY <1>4 DEF Admit, CurrentInv, InHand, SocketInv, Types, LoopStates, HandlerStates, Serving, CloserStates
  <2>4. (RegistryInv /\ StoreInv)'
    BY <1>4 DEF Admit, RegistryInv, Registered, StoreInv, CurrentInv, InHand, Types, LoopStates, HandlerStates, Serving, CloserStates
  <2>5. CloserInv'
    BY <1>4, <1>0 DEF Admit, CloserInv, WgCounts, Running, Types, LoopStates, HandlerStates, Serving, CloserStates
  <2>6. QED
    BY <2>1, <2>2, <2>3, <2>4, <2>5
<1>5. CASE Refuse
  <2>1. Types'
    BY <1>5 DEF Refuse, Types, LoopStates, HandlerStates, Serving, CloserStates
  <2>2. (WgCounts /\ SemCounts /\ SemUnused)'
    BY <1>5, <1>0 DEF Refuse, WgCounts, SemCounts, SemUnused, Types, Running, Holders, Serving, CurrentInv, InHand
  <2>3. (CurrentInv /\ SocketInv)'
    BY <1>5 DEF Refuse, CurrentInv, InHand, SocketInv, Types, LoopStates, HandlerStates, Serving, CloserStates
  <2>4. (RegistryInv /\ StoreInv)'
    BY <1>5 DEF Refuse, RegistryInv, Registered, StoreInv, CurrentInv, InHand, Types, LoopStates, HandlerStates, Serving, CloserStates
  <2>5. CloserInv'
    BY <1>5, <1>0 DEF Refuse, CloserInv, WgCounts, Running, Types, LoopStates, HandlerStates, Serving, CloserStates
  <2>6. QED
    BY <2>1, <2>2, <2>3, <2>4, <2>5
<1>6. CASE register
  <2>1. Types'
    BY <1>6 DEF register, CurrentInv, InHand, Types, LoopStates, HandlerStates, Serving, CloserStates
  <2>2. (WgCounts /\ SemCounts /\ SemUnused)'
    BY <1>6, <1>0 DEF register, WgCounts, SemCounts, SemUnused, Types, Running, Holders, Serving, CurrentInv, InHand
  <2>3. (CurrentInv /\ SocketInv)'
    BY <1>6 DEF register, CurrentInv, InHand, SocketInv, Types, LoopStates, HandlerStates, Serving, CloserStates
  <2>4. (RegistryInv /\ StoreInv)'
    BY <1>6 DEF register, RegistryInv, Registered, StoreInv, CurrentInv, InHand, Types, LoopStates, HandlerStates, Serving, CloserStates
  <2>5. CloserInv'
    BY <1>6, <1>0 DEF register, CloserInv, WgCounts, Running, Types, LoopStates, HandlerStates, Serving, CloserStates
  <2>6. QED
    BY <2>1, <2>2, <2>3, <2>4, <2>5
<1>7. CASE RegisterFails
  <2>1. Types'
    BY <1>7 DEF RegisterFails, CurrentInv, InHand, Types, LoopStates, HandlerStates, Serving, CloserStates
  <2>2. (WgCounts /\ SemCounts /\ SemUnused)'
    BY <1>7, <1>0 DEF RegisterFails, WgCounts, SemCounts, SemUnused, Types, Running, Holders, Serving, CurrentInv, InHand
  <2>3. (CurrentInv /\ SocketInv)'
    BY <1>7 DEF RegisterFails, CurrentInv, InHand, SocketInv, Types, LoopStates, HandlerStates, Serving, CloserStates
  <2>4. (RegistryInv /\ StoreInv)'
    BY <1>7 DEF RegisterFails, RegistryInv, Registered, StoreInv, CurrentInv, InHand, Types, LoopStates, HandlerStates, Serving, CloserStates
  <2>5. CloserInv'
    BY <1>7, <1>0 DEF RegisterFails, CloserInv, WgCounts, Running, Types, LoopStates, HandlerStates, Serving, CloserStates
  <2>6. QED
    BY <2>1, <2>2, <2>3, <2>4, <2>5
<1>8. CASE Spawn
  <2>1. Types'
    BY <1>8 DEF Spawn, CurrentInv, InHand, Types, LoopStates, HandlerStates, Serving, CloserStates
  <2>2. (WgCounts /\ SemCounts /\ SemUnused)'
    <3>1. PICK c \in Conns : /\ c = current /\ handler[c] = "none"
                             /\ handler' = [handler EXCEPT ![c] = "read"]
      BY <1>8 DEF Spawn, CurrentInv, InHand
    <3>2. /\ Cardinality(Running(handler')) = Cardinality(Running(handler)) + 1
          /\ Cardinality(Holders(handler')) = Cardinality(Holders(handler)) + 1
      BY <3>1, CountSpawn DEF Types
    <3>3. QED
      BY <1>8, <1>0, <3>2 DEF Spawn, WgCounts, SemCounts, SemUnused, Types
  <2>3. (CurrentInv /\ SocketInv)'
    BY <1>8 DEF Spawn, CurrentInv, InHand, SocketInv, Types, LoopStates, HandlerStates, Serving, CloserStates
  <2>4. (RegistryInv /\ StoreInv)'
    BY <1>8 DEF Spawn, RegistryInv, Registered, StoreInv, CurrentInv, InHand, Types, LoopStates, HandlerStates, Serving, CloserStates
  <2>5. CloserInv'
    BY <1>8, <1>0 DEF Spawn, CloserInv, WgCounts, Running, Types, LoopStates, HandlerStates, Serving, CloserStates
  <2>6. QED
    BY <2>1, <2>2, <2>3, <2>4, <2>5
<1>9. QED
  BY <1>1, <1>2, <1>3, <1>4, <1>5, <1>6, <1>7, <1>8 DEF AcceptLoop

(* The steps of a handler.                                                 *)
LEMMA HandlerKeepsInv ==
  ASSUME ServerInv, NEW c \in Conns, Handler(c)
  PROVE  ServerInv'
<1> USE ServerAssumption DEF ServerInv, accepting, closing
<1>0. Cardinality(Running(handler)) \in Nat /\ Cardinality(Holders(handler)) \in Nat
  BY CountsAreNatural
<1>1. CASE ReadRequest(c)
  <2>1. Types'
    BY <1>1 DEF ReadRequest, Moves, Types, LoopStates, HandlerStates, Serving, CloserStates
  <2>2. (WgCounts /\ SemCounts /\ SemUnused)'
    BY <1>1, <1>0 DEF ReadRequest, Moves, WgCounts, SemCounts, SemUnused, Types, Running, Holders, Serving, CurrentInv, InHand
  <2>3. (CurrentInv /\ SocketInv)'
    BY <1>1 DEF ReadRequest, Moves, CurrentInv, InHand, SocketInv, Types, LoopStates, HandlerStates, Serving, CloserStates
  <2>4. (RegistryInv /\ StoreInv)'
    BY <1>1 DEF ReadRequest, Moves, RegistryInv, Registered, StoreInv, CurrentInv, InHand, Types, LoopStates, HandlerStates, Serving, CloserStates
  <2>5. CloserInv'
    BY <1>1, <1>0 DEF ReadRequest, Moves, CloserInv, WgCounts, Running, Types, LoopStates, HandlerStates, Serving, CloserStates
  <2>6. QED
    BY <2>1, <2>2, <2>3, <2>4, <2>5
<1>2. CASE ReadMalformed(c)
  <2>1. Types'
    BY <1>2 DEF ReadMalformed, Moves, Types, LoopStates, HandlerStates, Serving, CloserStates
  <2>2. (WgCounts /\ SemCounts /\ SemUnused)'
    BY <1>2, <1>0 DEF ReadMalformed, Moves, WgCounts, SemCounts, SemUnused, Types, Running, Holders, Serving, CurrentInv, InHand
  <2>3. (CurrentInv /\ SocketInv)'
    BY <1>2 DEF ReadMalformed, Moves, CurrentInv, InHand, SocketInv, Types, LoopStates, HandlerStates, Serving, CloserStates
  <2>4. (RegistryInv /\ StoreInv)'
    BY <1>2 DEF ReadMalformed, Moves, RegistryInv, Registered, StoreInv, CurrentInv, InHand, Types, LoopStates, HandlerStates, Serving, CloserStates
  <2>5. CloserInv'
    BY <1>2, <1>0 DEF ReadMalformed, Moves, CloserInv, WgCounts, Running, Types, LoopStates, HandlerStates, Serving, CloserStates
  <2>6. QED
    BY <2>1, <2>2, <2>3, <2>4, <2>5
<1>3. CASE LockStore(c)
  <2>1. Types'
    BY <1>3 DEF LockStore, Moves, Types, LoopStates, HandlerStates, Serving, CloserStates
  <2>2. (WgCounts /\ SemCounts /\ SemUnused)'
    BY <1>3, <1>0 DEF LockStore, Moves, WgCounts, SemCounts, SemUnused, Types, Running, Holders, Serving, CurrentInv, InHand
  <2>3. (CurrentInv /\ SocketInv)'
    BY <1>3 DEF LockStore, Moves, CurrentInv, InHand, SocketInv, Types, LoopStates, HandlerStates, Serving, CloserStates
  <2>4. (RegistryInv /\ StoreInv)'
    BY <1>3 DEF LockStore, Moves, RegistryInv, Registered, StoreInv, CurrentInv, InHand, Types, LoopStates, HandlerStates, Serving, CloserStates
  <2>5. CloserInv'
    BY <1>3, <1>0 DEF LockStore, Moves, CloserInv, WgCounts, Running, Types, LoopStates, HandlerStates, Serving, CloserStates
  <2>6. QED
    BY <2>1, <2>2, <2>3, <2>4, <2>5
<1>4. CASE Dispatch(c)
  <2>1. Types'
    BY <1>4 DEF Dispatch, Moves, Types, LoopStates, HandlerStates, Serving, CloserStates
  <2>2. (WgCounts /\ SemCounts /\ SemUnused)'
    BY <1>4, <1>0 DEF Dispatch, Moves, WgCounts, SemCounts, SemUnused, Types, Running, Holders, Serving, CurrentInv, InHand
  <2>3. (CurrentInv /\ SocketInv)'
    BY <1>4 DEF Dispatch, Moves, CurrentInv, InHand, SocketInv, Types, LoopStates, HandlerStates, Serving, CloserStates
  <2>4. (RegistryInv /\ StoreInv)'
    BY <1>4 DEF Dispatch, Moves, RegistryInv, Registered, StoreInv, CurrentInv, InHand, Types, LoopStates, HandlerStates, Serving, CloserStates
  <2>5. CloserInv'
    BY <1>4, <1>0 DEF Dispatch, Moves, CloserInv, WgCounts, Running, Types, LoopStates, HandlerStates, Serving, CloserStates
  <2>6. QED
    BY <2>1, <2>2, <2>3, <2>4, <2>5
<1>5. CASE WriteReply(c)
  <2>1. Types'
    BY <1>5 DEF WriteReply, Moves, Types, LoopStates, HandlerStates, Serving, CloserStates
  <2>2. (WgCounts /\ SemCounts /\ SemUnused)'
    BY <1>5, <1>0 DEF WriteReply, Moves, WgCounts, SemCounts, SemUnused, Types, Running, Holders, Serving, CurrentInv, InHand
  <2>3. (CurrentInv /\ SocketInv)'
    BY <1>5 DEF WriteReply, Moves, CurrentInv, InHand, SocketInv, Types, LoopStates, HandlerStates, Serving, CloserStates
  <2>4. (RegistryInv /\ StoreInv)'
    BY <1>5 DEF WriteReply, Moves, RegistryInv, Registered, StoreInv, CurrentInv, InHand, Types, LoopStates, HandlerStates, Serving, CloserStates
  <2>5. CloserInv'
    BY <1>5, <1>0 DEF WriteReply, Moves, CloserInv, WgCounts, Running, Types, LoopStates, HandlerStates, Serving, CloserStates
  <2>6. QED
    BY <2>1, <2>2, <2>3, <2>4, <2>5
<1>6. CASE ConnectionEnds(c)
  <2>1. Types'
    BY <1>6 DEF ConnectionEnds, Moves, Types, LoopStates, HandlerStates, Serving, CloserStates
  <2>2. (WgCounts /\ SemCounts /\ SemUnused)'
    <3>1. Running(handler') = Running(handler) /\ Holders(handler') = Holders(handler)
      BY <1>6 DEF ConnectionEnds, Moves, Types, Running, Holders, Serving
    <3>2. QED
      BY <1>6, <3>1 DEF ConnectionEnds, WgCounts, SemCounts, SemUnused
  <2>3. (CurrentInv /\ SocketInv)'
    BY <1>6 DEF ConnectionEnds, Moves, CurrentInv, InHand, SocketInv, Types, LoopStates, HandlerStates, Serving, CloserStates
  <2>4. (RegistryInv /\ StoreInv)'
    BY <1>6 DEF ConnectionEnds, Moves, RegistryInv, Registered, StoreInv, CurrentInv, InHand, Types, LoopStates, HandlerStates, Serving, CloserStates
  <2>5. CloserInv'
    BY <1>6, <1>0 DEF ConnectionEnds, Moves, CloserInv, WgCounts, Running, Types, LoopStates, HandlerStates, Serving, CloserStates
  <2>6. QED
    BY <2>1, <2>2, <2>3, <2>4, <2>5
<1>7. CASE ReleaseSem(c)
  <2>1. Types'
    BY <1>7 DEF ReleaseSem, Moves, Types, LoopStates, HandlerStates, Serving, CloserStates
  <2>2. (WgCounts /\ SemCounts /\ SemUnused)'
    <3>1. /\ Cardinality(Running(handler')) = Cardinality(Running(handler))
          /\ Cardinality(Holders(handler')) = Cardinality(Holders(handler)) - 1
      <4>1. c \in Running(handler) /\ c \in Holders(handler)
        BY <1>7 DEF ReleaseSem, Moves, Running, Holders
      <4>2. /\ "close" \in HandlerStates /\ "close" \notin Serving \cup {"release"}
            /\ "close" \notin {"none", "exited"}
        BY DEF HandlerStates, Serving
      <4>3. QED
        BY <1>7, <4>1, <4>2, CountMove DEF ReleaseSem, Moves, Types
    <3>2. QED
      BY <1>7, <1>0, <3>1 DEF ReleaseSem, WgCounts, SemCounts, SemUnused, Types
  <2>3. (CurrentInv /\ SocketInv)'
    BY <1>7 DEF ReleaseSem, Moves, CurrentInv, InHand, SocketInv, Types, LoopStates, HandlerStates, Serving, CloserStates
  <2>4. (RegistryInv /\ StoreInv)'
    BY <1>7 DEF ReleaseSem, Moves, RegistryInv, Registered, StoreInv, CurrentInv, InHand, Types, LoopStates, HandlerStates, Serving, CloserStates
  <2>5. CloserInv'
    BY <1>7, <1>0 DEF ReleaseSem, Moves, CloserInv, WgCounts, Running, Types, LoopStates, HandlerStates, Serving, CloserStates
  <2>6. QED
    BY <2>1, <2>2, <2>3, <2>4, <2>5
<1>8. CASE CloseSocket(c)
  <2>1. Types'
    BY <1>8 DEF CloseSocket, Moves, Types, LoopStates, HandlerStates, Serving, CloserStates
  <2>2. (WgCounts /\ SemCounts /\ SemUnused)'
    BY <1>8, <1>0 DEF CloseSocket, Moves, WgCounts, SemCounts, SemUnused, Types, Running, Holders, Serving, CurrentInv, InHand
  <2>3. (CurrentInv /\ SocketInv)'
    BY <1>8 DEF CloseSocket, Moves, CurrentInv, InHand, SocketInv, Types, LoopStates, HandlerStates, Serving, CloserStates
  <2>4. (RegistryInv /\ StoreInv)'
    BY <1>8 DEF CloseSocket, Moves, RegistryInv, Registered, StoreInv, CurrentInv, InHand, Types, LoopStates, HandlerStates, Serving, CloserStates
  <2>5. CloserInv'
    BY <1>8, <1>0 DEF CloseSocket, Moves, CloserInv, WgCounts, Running, Types, LoopStates, HandlerStates, Serving, CloserStates
  <2>6. QED
    BY <2>1, <2>2, <2>3, <2>4, <2>5
<1>9. CASE unregister(c)
  <2>1. Types'
    BY <1>9 DEF unregister, Moves, Types, LoopStates, HandlerStates, Serving, CloserStates
  <2>2. (WgCounts /\ SemCounts /\ SemUnused)'
    BY <1>9, <1>0 DEF unregister, Moves, WgCounts, SemCounts, SemUnused, Types, Running, Holders, Serving, CurrentInv, InHand
  <2>3. (CurrentInv /\ SocketInv)'
    BY <1>9 DEF unregister, Moves, CurrentInv, InHand, SocketInv, Types, LoopStates, HandlerStates, Serving, CloserStates
  <2>4. (RegistryInv /\ StoreInv)'
    BY <1>9 DEF unregister, Moves, RegistryInv, Registered, StoreInv, CurrentInv, InHand, Types, LoopStates, HandlerStates, Serving, CloserStates
  <2>5. CloserInv'
    BY <1>9, <1>0 DEF unregister, Moves, CloserInv, WgCounts, Running, Types, LoopStates, HandlerStates, Serving, CloserStates
  <2>6. QED
    BY <2>1, <2>2, <2>3, <2>4, <2>5
<1>10. ASSUME HandlerDone(c)
       PROVE  /\ Cardinality(Running(handler')) = Cardinality(Running(handler)) - 1
              /\ Cardinality(Holders(handler')) = Cardinality(Holders(handler))
  <2>1. c \in Running(handler) /\ c \notin Holders(handler)
    BY <1>10 DEF HandlerDone, Moves, Running, Holders, Serving
  <2>2. "exited" \in HandlerStates /\ "exited" \notin Serving \cup {"release"}
    BY DEF HandlerStates, Serving
  <2>3. QED
    BY <1>10, <2>1, <2>2, CountMove DEF HandlerDone, Moves, Types
<1>11. CASE HandlerDone(c)
  <2>1. Types'
    BY <1>11 DEF HandlerDone, Moves, Types, LoopStates, HandlerStates, Serving, CloserStates
  <2>2. (WgCounts /\ SemCounts /\ SemUnused)'
    BY <1>11, <1>0, <1>10 DEF HandlerDone, WgCounts, SemCounts, SemUnused, Types
  <2>3. (CurrentInv /\ SocketInv)'
    BY <1>11 DEF HandlerDone, Moves, CurrentInv, InHand, SocketInv, Types, LoopStates, HandlerStates, Serving, CloserStates
  <2>4. (RegistryInv /\ StoreInv)'
    BY <1>11 DEF HandlerDone, Moves, RegistryInv, Registered, StoreInv, CurrentInv, InHand, Types, LoopStates, HandlerStates, Serving, CloserStates
  <2>5. CloserInv'
    <3>1. wg' # -1
      BY <2>2, CountsAreNatural DEF WgCounts
    <3>2. QED
      BY <1>11, <3>1 DEF HandlerDone, CloserInv, Types
  <2>6. QED
    BY <2>1, <2>2, <2>3, <2>4, <2>5
<1>12. QED
  BY <1>1, <1>2, <1>3, <1>4, <1>5, <1>6, <1>7, <1>8, <1>9, <1>11 DEF Handler

(* The steps of a caller of Close.                                         *)
LEMMA CloserKeepsInv ==
  ASSUME ServerInv, NEW z \in Closers, Closing(z)
  PROVE  ServerInv'
<1> USE ServerAssumption DEF ServerInv, accepting, closing
<1>0. Cardinality(Running(handler)) \in Nat /\ Cardinality(Holders(handler)) \in Nat
  BY CountsAreNatural
<1>1. CASE CallClose(z)
  <2>1. Types'
    BY <1>1 DEF CallClose, CallerMoves, Types, LoopStates, HandlerStates, Serving, CloserStates
  <2>2. (WgCounts /\ SemCounts /\ SemUnused)'
    BY <1>1, <1>0 DEF CallClose, CallerMoves, WgCounts, SemCounts, SemUnused, Types, Running, Holders, Serving, CurrentInv, InHand
  <2>3. (CurrentInv /\ SocketInv)'
    BY <1>1 DEF CallClose, CallerMoves, CurrentInv, InHand, SocketInv, Types, LoopStates, HandlerStates, Serving, CloserStates
  <2>4. (RegistryInv /\ StoreInv)'
    BY <1>1 DEF CallClose, CallerMoves, RegistryInv, Registered, StoreInv, CurrentInv, InHand, Types, LoopStates, HandlerStates, Serving, CloserStates
  <2>5. CloserInv'
    BY <1>1, <1>0 DEF CallClose, CallerMoves, CloserInv, WgCounts, Running, Types, LoopStates, HandlerStates, Serving, CloserStates
  <2>6. QED
    BY <2>1, <2>2, <2>3, <2>4, <2>5
<1>2. CASE EnterOnce(z)
  <2>1. Types'
    BY <1>2 DEF EnterOnce, CallerMoves, Types, LoopStates, HandlerStates, Serving, CloserStates
  <2>2. (WgCounts /\ SemCounts /\ SemUnused)'
    BY <1>2, <1>0 DEF EnterOnce, CallerMoves, WgCounts, SemCounts, SemUnused, Types, Running, Holders, Serving, CurrentInv, InHand
  <2>3. (CurrentInv /\ SocketInv)'
    BY <1>2 DEF EnterOnce, CallerMoves, CurrentInv, InHand, SocketInv, Types, LoopStates, HandlerStates, Serving, CloserStates
  <2>4. (RegistryInv /\ StoreInv)'
    BY <1>2 DEF EnterOnce, CallerMoves, RegistryInv, Registered, StoreInv, CurrentInv, InHand, Types, LoopStates, HandlerStates, Serving, CloserStates
  <2>5. CloserInv'
    BY <1>2, <1>0 DEF EnterOnce, CallerMoves, CloserInv, WgCounts, Running, Types, LoopStates, HandlerStates, Serving, CloserStates
  <2>6. QED
    BY <2>1, <2>2, <2>3, <2>4, <2>5
<1>3. CASE MarkClosed(z)
  <2>1. Types'
    BY <1>3 DEF MarkClosed, CallerMoves, Types, LoopStates, HandlerStates, Serving, CloserStates
  <2>2. (WgCounts /\ SemCounts /\ SemUnused)'
    BY <1>3, <1>0 DEF MarkClosed, CallerMoves, WgCounts, SemCounts, SemUnused, Types, Running, Holders, Serving, CurrentInv, InHand
  <2>3. (CurrentInv /\ SocketInv)'
    BY <1>3 DEF MarkClosed, CallerMoves, CurrentInv, InHand, SocketInv, Types, LoopStates, HandlerStates, Serving, CloserStates
  <2>4. (RegistryInv /\ StoreInv)'
    BY <1>3 DEF MarkClosed, CallerMoves, RegistryInv, Registered, StoreInv, CurrentInv, InHand, Types, LoopStates, HandlerStates, Serving, CloserStates
  <2>5. CloserInv'
    BY <1>3, <1>0 DEF MarkClosed, CallerMoves, CloserInv, WgCounts, Running, Types, LoopStates, HandlerStates, Serving, CloserStates
  <2>6. QED
    BY <2>1, <2>2, <2>3, <2>4, <2>5
<1>4. CASE CloseListener(z)
  <2>1. Types'
    BY <1>4 DEF CloseListener, CallerMoves, Types, LoopStates, HandlerStates, Serving, CloserStates
  <2>2. (WgCounts /\ SemCounts /\ SemUnused)'
    BY <1>4, <1>0 DEF CloseListener, CallerMoves, WgCounts, SemCounts, SemUnused, Types, Running, Holders, Serving, CurrentInv, InHand
  <2>3. (CurrentInv /\ SocketInv)'
    BY <1>4 DEF CloseListener, CallerMoves, CurrentInv, InHand, SocketInv, Types, LoopStates, HandlerStates, Serving, CloserStates
  <2>4. (RegistryInv /\ StoreInv)'
    BY <1>4 DEF CloseListener, CallerMoves, RegistryInv, Registered, StoreInv, CurrentInv, InHand, Types, LoopStates, HandlerStates, Serving, CloserStates
  <2>5. CloserInv'
    BY <1>4, <1>0 DEF CloseListener, CallerMoves, CloserInv, WgCounts, Running, Types, LoopStates, HandlerStates, Serving, CloserStates
  <2>6. QED
    BY <2>1, <2>2, <2>3, <2>4, <2>5
<1>5. CASE AllClosed(z)
  <2>1. Types'
    BY <1>5 DEF AllClosed, CallerMoves, Types, LoopStates, HandlerStates, Serving, CloserStates
  <2>2. (WgCounts /\ SemCounts /\ SemUnused)'
    BY <1>5, <1>0 DEF AllClosed, CallerMoves, WgCounts, SemCounts, SemUnused, Types, Running, Holders, Serving, CurrentInv, InHand
  <2>3. (CurrentInv /\ SocketInv)'
    BY <1>5 DEF AllClosed, CallerMoves, CurrentInv, InHand, SocketInv, Types, LoopStates, HandlerStates, Serving, CloserStates
  <2>4. (RegistryInv /\ StoreInv)'
    BY <1>5 DEF AllClosed, CallerMoves, RegistryInv, Registered, StoreInv, CurrentInv, InHand, Types, LoopStates, HandlerStates, Serving, CloserStates
  <2>5. CloserInv'
    BY <1>5, <1>0 DEF AllClosed, CallerMoves, CloserInv, WgCounts, Running, Types, LoopStates, HandlerStates, Serving, CloserStates
  <2>6. QED
    BY <2>1, <2>2, <2>3, <2>4, <2>5
<1>6. CASE WaitReturns(z)
  <2>1. Types'
    BY <1>6 DEF WaitReturns, CallerMoves, Types, LoopStates, HandlerStates, Serving, CloserStates
  <2>2. (WgCounts /\ SemCounts /\ SemUnused)'
    BY <1>6, <1>0 DEF WaitReturns, CallerMoves, WgCounts, SemCounts, SemUnused, Types, Running, Holders, Serving, CurrentInv, InHand
  <2>3. (CurrentInv /\ SocketInv)'
    BY <1>6 DEF WaitReturns, CallerMoves, CurrentInv, InHand, SocketInv, Types, LoopStates, HandlerStates, Serving, CloserStates
  <2>4. (RegistryInv /\ StoreInv)'
    BY <1>6 DEF WaitReturns, CallerMoves, RegistryInv, Registered, StoreInv, CurrentInv, InHand, Types, LoopStates, HandlerStates, Serving, CloserStates
  <2>5. CloserInv'
    BY <1>6, <1>0 DEF WaitReturns, CallerMoves, CloserInv, WgCounts, Running, Types, LoopStates, HandlerStates, Serving, CloserStates
  <2>6. QED
    BY <2>1, <2>2, <2>3, <2>4, <2>5
<1>7. CASE CloseAgain(z)
  <2>1. Types'
    BY <1>7 DEF CloseAgain, CallerMoves, Types, LoopStates, HandlerStates, Serving, CloserStates
  <2>2. (WgCounts /\ SemCounts /\ SemUnused)'
    BY <1>7, <1>0 DEF CloseAgain, CallerMoves, WgCounts, SemCounts, SemUnused, Types, Running, Holders, Serving, CurrentInv, InHand
  <2>3. (CurrentInv /\ SocketInv)'
    BY <1>7 DEF CloseAgain, CallerMoves, CurrentInv, InHand, SocketInv, Types, LoopStates, HandlerStates, Serving, CloserStates
  <2>4. (RegistryInv /\ StoreInv)'
    BY <1>7 DEF CloseAgain, CallerMoves, RegistryInv, Registered, StoreInv, CurrentInv, InHand, Types, LoopStates, HandlerStates, Serving, CloserStates
  <2>5. CloserInv'
    BY ZenonT(60), <1>7, <1>0 DEF CloseAgain, CallerMoves, CloserInv, WgCounts, Running, Types, LoopStates, HandlerStates, Serving, CloserStates
  <2>6. QED
    BY <2>1, <2>2, <2>3, <2>4, <2>5
<1>8. CASE \E c \in Conns : CloseOne(z, c)
  <2>1. Types'
    BY <1>8 DEF CloseOne, CallerMoves, Types, LoopStates, HandlerStates, Serving, CloserStates
  <2>2. (WgCounts /\ SemCounts /\ SemUnused)'
    BY <1>8, <1>0 DEF CloseOne, CallerMoves, WgCounts, SemCounts, SemUnused, Types, Running, Holders, Serving, CurrentInv, InHand
  <2>3. (CurrentInv /\ SocketInv)'
    BY <1>8 DEF CloseOne, CallerMoves, CurrentInv, InHand, SocketInv, Types, LoopStates, HandlerStates, Serving, CloserStates
  <2>4. (RegistryInv /\ StoreInv)'
    BY <1>8 DEF CloseOne, CallerMoves, RegistryInv, Registered, StoreInv, CurrentInv, InHand, Types, LoopStates, HandlerStates, Serving, CloserStates
  <2>5. CloserInv'
    BY <1>8, <1>0 DEF CloseOne, CallerMoves, CloserInv, WgCounts, Running, Types, LoopStates, HandlerStates, Serving, CloserStates
  <2>6. QED
    BY <2>1, <2>2, <2>3, <2>4, <2>5
<1>9. QED
  BY <1>1, <1>2, <1>3, <1>4, <1>5, <1>6, <1>7, <1>8 DEF Closing

LEMMA StepKeepsInv == ServerInv /\ [Next]_vars => ServerInv'
<1> SUFFICES ASSUME ServerInv, [Next]_vars PROVE ServerInv'
  OBVIOUS
<1>1. CASE AcceptLoop \/ \E c \in Conns : Connect(c)
  BY <1>1, LoopKeepsInv
<1>2. CASE \E c \in Conns : Handler(c)
  BY <1>2, HandlerKeepsInv
<1>3. CASE \E z \in Closers : Closing(z)
  BY <1>3, CloserKeepsInv
<1>4. CASE UNCHANGED vars
  BY SMTT(60), <1>4 DEF vars, accepting, closing, ServerInv, Types, WgCounts, SemCounts, SemUnused,
     CurrentInv, InHand, SocketInv, RegistryInv, Registered, StoreInv, CloserInv
<1>5. QED
  BY <1>1, <1>2, <1>3, <1>4 DEF Next

(* The inductive invariant: both counters are exact, the registry holds    *)
(* the connections whose handlers have not unregistered, and once.Do is    *)
(* over only when nothing runs any more.                                   *)
THEOREM ServerInvariant == Spec => []ServerInv
  BY InitInv, StepKeepsInv, PTL DEF Spec

(* redis_server.go:137-226: the state is well formed; in particular the    *)
(* WaitGroup never goes negative, which would be a panic.                  *)
THEOREM ServerTypeCorrect == Spec => []TypeOK
<1>1. ServerInv => TypeOK
  <2> SUFFICES ASSUME ServerInv PROVE TypeOK
    OBVIOUS
  <2>1. Cardinality(Running(handler)) \in Nat /\ Cardinality(Holders(handler)) \in Nat
    BY CountsAreNatural
  <2>2. wg \in Nat
    BY <2>1 DEF ServerInv, WgCounts
  <2>3. sem \in Nat
    BY <2>1, ServerAssumption DEF ServerInv, SemCounts, SemUnused
  <2>4. QED
    BY <2>2, <2>3 DEF ServerInv, Types, TypeOK
<1>2. QED
  BY <1>1, ServerInvariant, PTL

(* redis_server.go:43-44, 150-158: however many clients connect, at most   *)
(* MaxClients of them are served at a time.                                *)
THEOREM ServerBoundsClients == Spec => []ClientsBounded
<1>1. ServerInv => ClientsBounded
  <2> SUFFICES ASSUME ServerInv, MaxClients > 0
               PROVE  Cardinality({c \in Conns : handler[c] \in Serving}) <= MaxClients
    BY DEF ClientsBounded
  <2>1. IsFiniteSet(Holders(handler)) /\ Cardinality(Holders(handler)) \in Nat
    BY ServerAssumption, FS_Subset, CountsAreNatural DEF Holders
  <2>2. {c \in Conns : handler[c] \in Serving} \in SUBSET Holders(handler)
    BY DEF Holders
  <2>3. /\ IsFiniteSet({c \in Conns : handler[c] \in Serving})
        /\ Cardinality({c \in Conns : handler[c] \in Serving}) <= Cardinality(Holders(handler))
    BY <2>1, <2>2, FS_Subset
  <2>4. Cardinality({c \in Conns : handler[c] \in Serving}) \in Nat
    BY <2>3, FS_CardinalityType
  <2>5. Cardinality(Holders(handler)) <= sem /\ sem <= MaxClients /\ sem \in Int
    BY <2>1 DEF ServerInv, SemCounts, Types
  <2>6. QED
    BY <2>1, <2>3, <2>4, <2>5, ServerAssumption
<1>2. QED
  BY <1>1, ServerInvariant, PTL

(* redis_server.go:183-226: Close can always find a socket that the server *)
(* holds open.                                                             *)
THEOREM ServerKeepsSockets == Spec => []NoLostSocket
<1>1. ServerInv => NoLostSocket
  BY DEF ServerInv, SocketInv, RegistryInv, Registered, NoLostSocket
<1>2. QED
  BY <1>1, ServerInvariant, PTL

(* redis_server.go:204-226: when a call of Close has returned, nothing of  *)
(* the server runs and no accepted socket is open.                         *)
THEOREM ServerCloseIsFinal == Spec => []ClosedMeansQuiet
<1>1. ServerInv => ClosedMeansQuiet
  <2> SUFFICES ASSUME ServerInv, NEW z \in Closers, closer[z] = "returned"
               PROVE  /\ loop = "exited" /\ ~listening /\ store = None /\ conns = {}
                      /\ \A c \in Conns : /\ handler[c] \in {"none", "exited"}
                                          /\ socket[c] \in {"new", "closed"}
    BY DEF ClosedMeansQuiet
  <2>1. wg = 0 /\ ~listening
    BY DEF ServerInv, CloserInv
  <2>2. IsFiniteSet(Running(handler)) /\ Cardinality(Running(handler)) \in Nat
    BY ServerAssumption, FS_Subset, CountsAreNatural DEF Running
  <2>3. loop = "exited" /\ Cardinality(Running(handler)) = 0
    BY <2>1, <2>2 DEF ServerInv, WgCounts
  <2>4. Running(handler) = {}
    BY <2>2, <2>3, FS_EmptySet
  <2>5. \A c \in Conns : handler[c] \in {"none", "exited"}
    BY <2>4 DEF Running
  <2>6. conns = {}
    BY <2>3, <2>5 DEF ServerInv, RegistryInv, Registered, Serving
  <2>7. store = None
    BY <2>5 DEF ServerInv, StoreInv, Types
  <2>8. current = None
    BY <2>3 DEF ServerInv, CurrentInv, InHand
  <2>9. \A c \in Conns : socket[c] \in {"new", "closed"}
    <3> SUFFICES ASSUME NEW c \in Conns PROVE socket[c] \in {"new", "closed"}
      OBVIOUS
    <3>1. c # current
      BY <2>8, ServerAssumption
    <3>2. socket[c] \in {"new", "pending", "open", "closed"}
      BY DEF ServerInv, Types
    <3>3. QED
      BY <2>1, <2>5, <3>1, <3>2 DEF ServerInv, SocketInv, Serving
  <2>10. QED
    BY <2>1, <2>3, <2>5, <2>6, <2>7, <2>9
<1>2. QED
  BY <1>1, ServerInvariant, PTL
=============================================================================
