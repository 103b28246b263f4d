------------------------- MODULE ServeTopologyProofs -------------------------
(***************************************************************************)
(* The processes of `kvlite serve' for any number of handlers, auxiliary   *)
(* databases, signals and crashes: the owner's database is used as         *)
(* EngineGuard says, kvlite leaves no process behind, and its exit status  *)
(* tells the truth.                                                        *)
(***************************************************************************)
EXTENDS ServeTopology, TLAPS

-----------------------------------------------------------------------------
(* The engine guard, for any number of callers and closers: no engine call *)
(* is in flight once the engine has begun to close.                        *)

(* The lock's bookkeeping: who holds it for reading is what the program    *)
(* counters say, the closer in the critical section excludes all readers,  *)
(* the guard's flag is set for exactly as long as the engine is not open,  *)
(* and an operation under way has an engine call left to make.             *)
GuardInv ==
  /\ TypeOK
  /\ \A c \in Callers : c \in readers <=> pc[c] \in {"rlocked", "inner"}
  /\ \A z \in Closers : pc[z] \in {"pending", "closing"} => writer = z
  /\ (\E z \in Closers : pc[z] = "closing") => readers = {} /\ closed
  /\ \A c \in Callers : pc[c] \in {"open", "rlocked", "inner"} => left[c] # 0
  /\ closed <=> inner # "open"
  /\ NoCallRacesClose

LEMMA GuardInit == Init => GuardInv
<1> SUFFICES ASSUME Init  PROVE GuardInv
  OBVIOUS
<1>1. \A p \in Callers \cup Closers : pc[p] = "idle"
  BY DEF Init
<1>2. TypeOK
  <2>1. left \in [Callers -> 0..MaxCalls]
    BY ConstAssumption DEF Init
  <2>2. pc \in [Callers \cup Closers -> CallerPC \cup CloserPC]
    BY DEF Init, CallerPC, CloserPC
  <2>3. dbClosed \in BOOLEAN /\ closed \in BOOLEAN
    BY DEF Init
  <2>4. QED  BY <1>1, <2>1, <2>2, <2>3 DEF Init, TypeOK, CallerPC, CloserPC
<1>3. closed <=> inner # "open"
  BY Zenon DEF Init
<1>4. QED  BY <1>1, <1>2, <1>3 DEF Init, GuardInv, NoCallRacesClose

(* Each step of a caller keeps the guard's bookkeeping.                    *)
LEMMA CallerKeepsInv ==
  ASSUME GuardInv, NEW c \in Callers, ensureOpen(c) \/ CallerStep(c)
  PROVE  GuardInv'
<1> USE ConstAssumption DEF GuardInv, TypeOK, CallerPC, CloserPC, NoCallRacesClose, Goto
<1>1. CASE ensureOpen(c)  BY <1>1 DEF ensureOpen
<1>2. CASE RLock(c)  BY <1>2 DEF RLock
<1>3. CASE CallInner(c)  BY <1>3 DEF CallInner
<1>4. CASE InnerReturns(c)  BY <1>4 DEF InnerReturns
<1>5. CASE OpReturns(c)  BY <1>5 DEF OpReturns
<1>6. QED  BY <1>1, <1>2, <1>3, <1>4, <1>5 DEF CallerStep

(* Each step of a closer keeps the guard's bookkeeping.                    *)
LEMMA CloserKeepsInv ==
  ASSUME GuardInv, NEW z \in Closers, CloseDB(z) \/ CloserStep(z) \/ CloseAgain(z)
  PROVE  GuardInv'
<1> USE ConstAssumption DEF GuardInv, TypeOK, CallerPC, CloserPC, NoCallRacesClose, Goto
<1>1. CASE CloseDB(z)  BY <1>1 DEF CloseDB
<1>2. CASE AnnounceLock(z)  BY <1>2 DEF AnnounceLock
<1>3. CASE CloseInner(z)  BY <1>3 DEF CloseInner
<1>4. CASE InnerClosed(z)  BY <1>4 DEF InnerClosed
<1>5. CASE CloseAgain(z)  BY <1>5 DEF CloseAgain
<1>6. QED  BY <1>1, <1>2, <1>3, <1>4, <1>5 DEF CloserStep

LEMMA GuardStep == GuardInv /\ [Next]_vars => GuardInv'
<1> SUFFICES ASSUME GuardInv, [Next]_vars  PROVE GuardInv'
  OBVIOUS
<1>1. CASE UNCHANGED vars
  BY <1>1 DEF GuardInv, TypeOK, NoCallRacesClose, vars
<1>2. CASE Next
  BY <1>2, CallerKeepsInv, CloserKeepsInv DEF Next
<1>3. QED  BY <1>1, <1>2

(* Every reachable state of the guard is well typed; in particular an      *)
(* operation never returns from more engine calls than it makes.           *)
THEOREM GuardTypeCorrect == Spec => []TypeOK
<1>1. GuardInv => TypeOK
  BY DEF GuardInv
<1>2. QED  BY GuardInit, GuardStep, <1>1, PTL DEF Spec

(* engine.go:26: for every number of goroutines and of engine calls per    *)
(* operation, guardedEngine keeps Close from racing an in-flight call.     *)
THEOREM GuardExcludesClose == Spec => []NoCallRacesClose
<1>1. GuardInv => NoCallRacesClose
  BY DEF GuardInv
<1>2. QED  BY GuardInit, GuardStep, <1>1, PTL DEF Spec

-----------------------------------------------------------------------------
(* The processes only ever use the database the way EngineGuard describes. *)

LEMMA ServingLeavesDB ==
  ASSUME NEW p \in Processes, Serving(p) \/ Crash(p) \/ Stop({p}) \/ Stop(Processes)
  PROVE  UNCHANGED vars
BY DEF Serving, Acquire, AcquireFails, Ready, TakeSignal, Release, Exit, Crash, Stop

LEMMA SupervisingLeavesDB == Supervising => UNCHANGED vars
BY DEF Supervising, StartOwner, StartOwnerFails, Served, CheckOwner, Poll, GiveUp,
       StartAttached, StartAttachedFails, Watch, Forward, OwnerExited, AttachedExited,
       ModuleExited, ReapAttached, ReapOwner

LEMMA TopologyStepIsGuardStep == [TopologyNext]_allVars => [Next]_vars
<1> SUFFICES ASSUME [TopologyNext]_allVars  PROVE [Next]_vars
  OBVIOUS
<1>1. CASE UNCHANGED allVars
  BY <1>1 DEF allVars
<1>2. ASSUME NEW c \in Callers, (Accepting /\ ensureOpen(c)) \/ Handling(c)  PROVE Next
  BY <1>2 DEF Handling, Next, CallerStep
<1>3. ASSUME Closing  PROVE [Next]_vars
  <2>1. CASE Shutdown  BY <2>1 DEF Shutdown
  <2>2. CASE CloseDB(Main) \/ CloserStep(Main)
    BY <2>2, TopologyAssumption DEF Next
  <2>3. QED  BY <1>3, <2>1, <2>2 DEF Closing, CloserStep
<1>4. CASE TopologyNext
  BY <1>2, <1>3, <1>4, ServingLeavesDB, SupervisingLeavesDB DEF TopologyNext, Processes
<1>5. QED  BY <1>1, <1>4

(* The composition implements the component: handlers that Shutdown did    *)
(* not wait for, db.Close and the end of the owner are all behaviours of   *)
(* the guarded engine.                                                     *)
THEOREM TopologyUsesGuard == TopologySpec => Spec
<1>1. TopologyInit => Init
  BY DEF TopologyInit
<1>2. QED  BY <1>1, TopologyStepIsGuardStep, PTL DEF TopologySpec, Spec

(* engine.go:26 in the owner of `kvlite serve': whatever is killed, and    *)
(* whenever Shutdown gives up, no handler is inside the engine when it is  *)
(* being closed.                                                           *)
THEOREM TopologyGuarded == TopologySpec => []NoCallRacesClose
BY TopologyUsesGuard, GuardExcludesClose, PTL

-----------------------------------------------------------------------------
(* Nothing is left behind.  Children are started only by a kvlite that is  *)
(* starting, in the order in which `at' walks through the code; what a     *)
(* state of kvlite has waited for is gone for good.                        *)
NoChildAlive == ~Alive("owner") /\ ~Alive("attached")

LeftInv ==
  /\ mode \in AllModes
  /\ phase \in [Processes -> Live \cup {"none", "exited"}]
  /\ held \in [Processes -> Nat]
  /\ code \in [Processes -> Int]
  /\ phase["kvlite"] # "none"
  /\ Owner = "owner" => held["kvlite"] = 0 /\ phase["kvlite"] # "stopping"
  /\ Owner = "kvlite" => phase["owner"] = "none"
  /\ mode \in {"linked", "module"} => phase["attached"] = "none"
  /\ at = "start" => phase["owner"] = "none"
  /\ at \in {"start", "health", "poll", "spawn"} => phase["attached"] = "none"
  /\ at \in {"health", "poll", "reapOwner", "reapAttached"} => mode = "standalone"
  /\ at = "spawn" => mode \in {"mixed", "standalone"}
  /\ at # "start" /\ phase["kvlite"] = "starting" => held["kvlite"] = Len(Plan("kvlite"))
  /\ at = "reapAttached" => phase["owner"] = "exited"
  /\ at = "reapOwner" => phase["attached"] \in {"none", "exited"}
  /\ phase["kvlite"] = "stopping" => NoChildAlive
  /\ phase["kvlite"] = "exited" /\ code["kvlite"] # Killed => NoChildAlive

LEMMA ModeIsFixed ==
  ASSUME mode' = mode
  PROVE  Owner' = Owner /\ Plan("kvlite")' = Plan("kvlite")
BY DEF Owner, Plan, OwnerPlan

LEMMA LeftInit == TopologyInit => LeftInv
BY TopologyAssumption
   DEF TopologyInit, LeftInv, NoChildAlive, Alive, Live, Processes, AllModes

(* A process that serves by itself: the phases of the others stay, and     *)
(* kvlite begins to stop only before it has started a child, or without.   *)
LEMMA ServingKeepsLeft ==
  ASSUME LeftInv, NEW p \in Processes, Serving(p)
  PROVE  LeftInv'
<1> USE DEF LeftInv, NoChildAlive, Alive, Live, Processes, AllModes
<1>1. mode' = mode /\ at' = at
  BY DEF Serving, Acquire, AcquireFails, Ready, TakeSignal, Release, Exit
<1>2. Owner' = Owner /\ Plan("kvlite")' = Plan("kvlite")
  BY <1>1, ModeIsFixed
<1>3. CASE Acquire(p)
  <2>1. p = "kvlite" => at = "start" /\ Owner = "kvlite"
    BY <1>3 DEF Acquire, Plan, Owner
  <2>2. QED  BY <1>1, <1>2, <1>3, <2>1 DEF Acquire
<1>4. CASE AcquireFails(p)
  <2>1. p = "kvlite" => at = "start" /\ Owner = "kvlite"
    BY <1>4 DEF AcquireFails, Plan, Owner
  <2>2. QED  BY <1>1, <1>2, <1>4, <2>1 DEF AcquireFails, Ends, Enters
<1>5. CASE Ready(p)
  BY <1>1, <1>2, <1>5 DEF Ready, Enters, Children
<1>6. CASE TakeSignal(p)
  <2>1. p = "kvlite" => mode = "linked" /\ Owner = "kvlite"
    BY <1>6 DEF TakeSignal, Children, Owner
  <2>2. QED  BY <1>1, <1>2, <1>6, <2>1 DEF TakeSignal, Ends, Enters
<1>7. CASE Release(p)
  BY <1>1, <1>2, <1>7 DEF Release
<1>8. CASE Exit(p)
  BY <1>1, <1>2, <1>8 DEF Exit, Enters
<1>9. QED  BY <1>3, <1>4, <1>5, <1>6, <1>7, <1>8 DEF Serving

(* A signal, a crash or Process.Kill only ends processes; what a signal    *)
(* ends counts as killed.                                                  *)
LEMMA DeliverKeepsLeft ==
  ASSUME LeftInv, NEW ps, NEW box, Deliver(ps, box), UNCHANGED <<mode, at, held>>
  PROVE  LeftInv'
<1> USE DEF LeftInv, NoChildAlive, Alive, Live, Processes, AllModes, Killed
<1>1. Owner' = Owner /\ Plan("kvlite")' = Plan("kvlite")
  BY ModeIsFixed
<1>2. QED  BY <1>1 DEF Deliver

LEMMA EnvironmentKeepsLeft ==
  ASSUME LeftInv,
         Stop(Processes) \/ (\E p \in Processes : Stop({p}) \/ Crash(p))
  PROVE  LeftInv'
<1>1. ASSUME NEW ps, Stop(ps)  PROVE LeftInv'
  BY <1>1, DeliverKeepsLeft DEF Stop
<1>2. ASSUME NEW p \in Processes, Crash(p)  PROVE LeftInv'
  <2>1. Owner' = Owner /\ Plan("kvlite")' = Plan("kvlite")
    BY <1>2, ModeIsFixed DEF Crash
  <2>2. QED
    BY <1>2, <2>1 DEF Crash, Ends, Enters, LeftInv, NoChildAlive, Alive, Live,
                      Processes, AllModes, Killed
<1>3. QED  BY <1>1, <1>2

(* The steps of kvlite up to signal.Notify.                                *)
LEMMA StartingKeepsLeft ==
  ASSUME LeftInv,
         \/ StartOwner \/ StartOwnerFails \/ Served \/ CheckOwner \/ Poll \/ GiveUp
         \/ StartAttached \/ StartAttachedFails \/ Watch
  PROVE  LeftInv'
<1> USE DEF LeftInv, NoChildAlive, Alive, Live, Processes, AllModes
<1>1. mode' = mode /\ held' = held
  BY DEF StartOwner, StartOwnerFails, Served, CheckOwner, Poll, GiveUp,
         StartAttached, StartAttachedFails, Watch
<1>2. Owner' = Owner /\ Plan("kvlite")' = Plan("kvlite")
  BY <1>1, ModeIsFixed
<1>3. mode \in {"module", "standalone"} => Owner = "owner" /\ Len(Plan("kvlite")) = 0
  BY DEF Owner, Plan
<1>4. mode \in {"linked", "mixed"} => Owner = "kvlite"
  BY DEF Owner
<1>5. CASE StartOwner
  BY <1>1, <1>2, <1>3, <1>5 DEF StartOwner, Enters
<1>6. CASE StartOwnerFails
  BY <1>1, <1>2, <1>3, <1>6 DEF StartOwnerFails, Finish, Ends, Enters
<1>7. CASE Served
  BY <1>1, <1>2, <1>7 DEF Served
<1>8. CASE CheckOwner \/ Poll
  BY <1>1, <1>2, <1>8 DEF CheckOwner, Poll
<1>9. CASE GiveUp
  BY <1>1, <1>2, <1>9 DEF GiveUp, Kill, Ends, Enters, Killed
<1>10. CASE StartAttached
  BY <1>1, <1>2, <1>3, <1>4, <1>10 DEF StartAttached, Enters
<1>11. CASE StartAttachedFails
  BY <1>1, <1>2, <1>3, <1>4, <1>11 DEF StartAttachedFails, Finish, Kill, Ends, Enters, Killed
<1>12. CASE Watch
  BY <1>1, <1>2, <1>12 DEF Watch, Enters
<1>13. QED  BY <1>5, <1>6, <1>7, <1>8, <1>9, <1>10, <1>11, <1>12

(* The steps of kvlite from then on.                                       *)
LEMMA WatchingKeepsLeft ==
  ASSUME LeftInv,
         Forward \/ OwnerExited \/ AttachedExited \/ ModuleExited \/ ReapAttached \/ ReapOwner
  PROVE  LeftInv'
<1> USE DEF LeftInv, NoChildAlive, Alive, Live, Processes, AllModes
<1>1. mode' = mode /\ held' = held
  BY DEF Forward, OwnerExited, AttachedExited, ModuleExited, ReapAttached, ReapOwner
<1>2. Owner' = Owner /\ Plan("kvlite")' = Plan("kvlite")
  BY <1>1, ModeIsFixed
<1>3. mode \in {"module", "standalone"} => Owner = "owner"
  BY DEF Owner
<1>4. mode \in {"linked", "mixed"} => Owner = "kvlite"
  BY DEF Owner
<1>5. \A status \in Int : ExitStatus(status) \in Int
  BY DEF ExitStatus
<1>6. CASE Forward
  BY <1>6, DeliverKeepsLeft DEF Forward
<1>7. CASE OwnerExited
  BY <1>1, <1>2, <1>3, <1>7 DEF OwnerExited, Kill, Ends, Enters, Killed
<1>8. CASE AttachedExited
  <2>1. CASE mode = "standalone"
    BY <1>1, <1>2, <1>3, <1>8, <2>1 DEF AttachedExited, Kill, Ends, Enters, Killed
  <2>2. CASE mode = "mixed"
    <3> DEFINE status == ExitStatus(code["attached"])
    <3>1. status \in Int
      BY <1>5
    <3>2. /\ phase' = [phase EXCEPT !["kvlite"] = "stopping"]
          /\ code' = [code EXCEPT !["kvlite"] = status]
          /\ at' = "done" /\ phase["attached"] = "exited"
      BY <1>4, <1>8, <2>2 DEF AttachedExited, Finish, Ends, Enters
    <3> HIDE DEF status
    <3>3. QED  BY <1>1, <1>2, <1>4, <2>2, <3>1, <3>2
  <2>3. QED  BY <1>8, <2>1, <2>2 DEF AttachedExited
<1>9. CASE ModuleExited
  BY <1>1, <1>2, <1>3, <1>5, <1>9 DEF ModuleExited, Finish, Ends, Enters
<1>10. CASE ReapAttached
  BY <1>1, <1>2, <1>3, <1>10 DEF ReapAttached, Finish, Ends, Enters
<1>11. CASE ReapOwner
  <2> DEFINE status == IF phase["attached"] = "none" THEN 1 ELSE ExitStatus(code["attached"])
  <2>1. status \in Int
    BY <1>5
  <2>2. /\ phase' = [phase EXCEPT !["kvlite"] = "exited"]
        /\ code' = [code EXCEPT !["kvlite"] = status]
        /\ at' = "done" /\ phase["owner"] = "exited"
    BY <1>3, <1>11 DEF ReapOwner, Finish, Ends, Enters
  <2> HIDE DEF status
  <2>3. QED  BY <1>1, <1>2, <1>3, <1>11, <2>1, <2>2 DEF ReapOwner
<1>12. QED  BY <1>6, <1>7, <1>8, <1>9, <1>10, <1>11

LEMMA LeftStep == LeftInv /\ [TopologyNext]_allVars => LeftInv'
<1> SUFFICES ASSUME LeftInv, [TopologyNext]_allVars  PROVE LeftInv'
  OBVIOUS
<1>1. ASSUME UNCHANGED <<mode, phase, held, code, at>>  PROVE LeftInv'
  <2>1. Owner' = Owner /\ Plan("kvlite")' = Plan("kvlite")
    BY <1>1, ModeIsFixed
  <2>2. QED  BY <1>1, <2>1 DEF LeftInv, NoChildAlive, Alive
<1>2. ASSUME NEW c \in Callers, (Accepting /\ ensureOpen(c)) \/ Handling(c)  PROVE LeftInv'
  BY <1>1, <1>2 DEF Handling, Accepting, Running, procVars
<1>3. CASE Closing
  BY <1>1, <1>3 DEF Closing, Shutdown, ClosingDB, procVars
<1>4. CASE UNCHANGED allVars
  BY <1>1, <1>4 DEF allVars, procVars
<1>5. CASE Supervising
  BY <1>5, StartingKeepsLeft, WatchingKeepsLeft DEF Supervising
<1>6. QED
  BY <1>2, <1>3, <1>4, <1>5, ServingKeepsLeft, EnvironmentKeepsLeft DEF TopologyNext

(* cmd/kvlite/main.go: when kvlite returns, none of its children runs, for *)
(* every number of handlers, signals and crashes.                          *)
THEOREM TopologyLeavesNothing == TopologySpec => []NothingLeftBehind
<1>1. LeftInv => NothingLeftBehind
  BY DEF LeftInv, NothingLeftBehind, NoChildAlive
<1>2. QED  BY LeftInit, LeftStep, <1>1, PTL DEF TopologySpec

-----------------------------------------------------------------------------
(* The exit status.  A process returns 0 only for a signal it was sent; a  *)
(* status that kvlite has taken over is that of a process which is gone.   *)
AskedInv ==
  /\ inbox = [p \in Processes |-> inbox[p]]
  /\ signals \in Nat
  /\ \A p \in Processes : inbox[p] => signals > 0
  /\ \A p \in Processes :
       phase[p] \in {"stopping", "exited"} /\ code[p] = 0 => signals > 0
  /\ phase["kvlite"] \in {"stopping", "exited"} /\ code["kvlite"] = 0 /\ mode # "linked"
     => phase[Reported] = "exited" /\ code[Reported] = 0

LEMMA AskedInit == TopologyInit => AskedInv
BY DEF TopologyInit, AskedInv, Processes

LEMMA ServingKeepsAsked ==
  ASSUME LeftInv, AskedInv, NEW p \in Processes, Serving(p)
  PROVE  AskedInv'
<1> USE DEF LeftInv, AskedInv, Live, Processes, Reported
<1>1. mode' = mode /\ signals' = signals
  BY DEF Serving, Acquire, AcquireFails, Ready, TakeSignal, Release, Exit
<1>2. CASE Acquire(p) \/ Release(p)
  BY <1>1, <1>2 DEF Acquire, Release
<1>3. CASE AcquireFails(p)
  BY <1>1, <1>3 DEF AcquireFails, Ends, Enters
<1>4. CASE Ready(p)
  BY <1>1, <1>4 DEF Ready, Enters
<1>5. CASE TakeSignal(p)
  <2>1. p = "kvlite" => mode = "linked"
    BY <1>5 DEF TakeSignal, Children
  <2>2. QED  BY <1>1, <1>5, <2>1 DEF TakeSignal, Ends, Enters
<1>6. CASE Exit(p)
  BY <1>1, <1>6 DEF Exit, Enters
<1>7. QED  BY <1>2, <1>3, <1>4, <1>5, <1>6 DEF Serving

(* A signal that was sent, or is forwarded.                                *)
LEMMA DeliverKeepsAsked ==
  ASSUME LeftInv, AskedInv, NEW ps, NEW box, Deliver(ps, box), mode' = mode,
         signals' \in Nat, signals' > 0
  PROVE  AskedInv'
BY DEF LeftInv, AskedInv, Live, Processes, Reported, Deliver, Killed

LEMMA CrashKeepsAsked ==
  ASSUME LeftInv, AskedInv, NEW p \in Processes, Crash(p)
  PROVE  AskedInv'
BY DEF LeftInv, AskedInv, Live, Processes, Reported, Crash, Ends, Enters, Killed, Alive

(* kvlite ends with a status that is not 0, or 0 for a reason.             *)
LEMMA FinishKeepsAsked ==
  ASSUME LeftInv, AskedInv, NEW status, Finish(status), Alive("kvlite"),
         UNCHANGED <<mode, signals, inbox>>,
         status = 0 => mode # "linked" /\ phase[Reported] = "exited" /\ code[Reported] = 0
  PROVE  AskedInv'
BY DEF LeftInv, AskedInv, Live, Processes, Reported, Finish, Ends, Enters, Alive

LEMMA SupervisingKeepsAsked ==
  ASSUME LeftInv, AskedInv, Supervising
  PROVE  AskedInv'
<1> USE DEF LeftInv, Live, Processes, Reported
<1>1. \A status \in Int : ExitStatus(status) = 0 => status = 0
  BY DEF ExitStatus
<1>2. ASSUME NEW p \in {"owner", "attached"}, Kill(p), UNCHANGED <<mode, signals, inbox>>
      PROVE  AskedInv'
  BY <1>2 DEF AskedInv, Kill, Ends, Enters, Killed, Alive
<1>3. CASE StartOwner \/ Served \/ CheckOwner \/ Poll \/ StartAttached \/ Watch
  BY <1>3 DEF AskedInv, StartOwner, Served, CheckOwner, Poll, StartAttached, Watch, Enters
<1>4. CASE StartOwnerFails \/ (StartAttachedFails /\ Finish(1))
  BY <1>4, FinishKeepsAsked DEF StartOwnerFails, StartAttachedFails, Alive
<1>5. CASE GiveUp \/ OwnerExited \/ (StartAttachedFails /\ Kill("owner"))
           \/ (AttachedExited /\ Kill("owner"))
  BY <1>2, <1>5 DEF GiveUp, OwnerExited, StartAttachedFails, AttachedExited
<1>6. CASE AttachedExited /\ mode = "mixed"
  BY <1>1, <1>6, FinishKeepsAsked DEF AttachedExited, Alive
<1>7. CASE ModuleExited
  BY <1>1, <1>7, FinishKeepsAsked DEF ModuleExited, Alive
<1>8. CASE ReapAttached
  BY <1>8, FinishKeepsAsked DEF ReapAttached
<1>9. CASE ReapOwner
  BY <1>1, <1>9, FinishKeepsAsked DEF ReapOwner
<1>10. CASE Forward
  BY <1>10, DeliverKeepsAsked DEF Forward, AskedInv
<1>11. QED
  BY <1>3, <1>4, <1>5, <1>6, <1>7, <1>8, <1>9, <1>10
     DEF Supervising, StartAttachedFails, AttachedExited

LEMMA AskedStep == LeftInv /\ AskedInv /\ [TopologyNext]_allVars => AskedInv'
<1> SUFFICES ASSUME LeftInv, AskedInv, [TopologyNext]_allVars  PROVE AskedInv'
  OBVIOUS
<1>1. ASSUME UNCHANGED <<mode, phase, inbox, code, signals>>  PROVE AskedInv'
  BY <1>1 DEF AskedInv, Reported
<1>2. ASSUME NEW c \in Callers, (Accepting /\ ensureOpen(c)) \/ Handling(c)  PROVE AskedInv'
  BY <1>1, <1>2 DEF Handling, Accepting, Running, procVars
<1>3. CASE Closing
  BY <1>1, <1>3 DEF Closing, Shutdown, ClosingDB, procVars
<1>4. CASE UNCHANGED allVars
  BY <1>1, <1>4 DEF allVars, procVars
<1>5. ASSUME NEW ps, Stop(ps)  PROVE AskedInv'
  BY <1>5, DeliverKeepsAsked DEF Stop, AskedInv
<1>6. QED
  BY <1>2, <1>3, <1>4, <1>5, ServingKeepsAsked, CrashKeepsAsked, SupervisingKeepsAsked
     DEF TopologyNext

(* MODULES.md:168: kvlite returns 0 only after a stop was asked for and    *)
(* when the process it reports on returned 0, for every number of          *)
(* handlers, signals and crashes.                                          *)
THEOREM TopologyStatusIsTrue == TopologySpec => []ZeroMeansAsked
<1>1. AskedInv => ZeroMeansAsked
  BY DEF AskedInv, ZeroMeansAsked, Processes
<1>2. QED  BY LeftInit, LeftStep, AskedInit, AskedStep, <1>1, PTL DEF TopologySpec

-----------------------------------------------------------------------------
(* A clean exit has closed the database.                                   *)

(* The owner acquires the database before anything else.                   *)
LEMMA OwnerPlanBegins ==
  ASSUME mode \in AllModes
  PROVE  Len(Plan(Owner)) \in Nat /\ Len(Plan(Owner)) >= 1 /\ Plan(Owner)[1] = "db"
<1>1. Plan(Owner) = OwnerPlan
  BY DEF Plan, Owner
<1>2. CASE mode = "linked"
  <2>1. <<"db", "redis">> \o Auxiliaries \in Seq({"db", "redis", "auxiliary"})
    BY TopologyAssumption
  <2>2. Len(<<"db", "redis">> \o Auxiliaries) >= 2 /\ (<<"db", "redis">> \o Auxiliaries)[1] = "db"
    BY TopologyAssumption
  <2>3. QED  BY <1>1, <1>2, <2>1, <2>2 DEF OwnerPlan
<1>3. CASE mode = "mixed"
  <2>1. <<"db">> \o Auxiliaries \in Seq({"db", "auxiliary"})
    BY TopologyAssumption
  <2>2. Len(<<"db">> \o Auxiliaries) >= 1 /\ (<<"db">> \o Auxiliaries)[1] = "db"
    BY TopologyAssumption
  <2>3. QED  BY <1>1, <1>3, <2>1, <2>2 DEF OwnerPlan
<1>4. CASE mode \in {"module", "standalone"}
  BY <1>1, <1>4 DEF OwnerPlan
<1>5. QED  BY <1>2, <1>3, <1>4 DEF AllModes

(* Main is the only closer and runs DB.Close once, so that it has closed   *)
(* the engine itself when it returns.                                      *)
MainInv ==
  /\ pc \in [Callers \cup Closers -> CallerPC \cup CloserPC]
  /\ pc[Main] \in CloserPC
  /\ pc[Main] = "idle" => ~dbClosed
  /\ pc[Main] \in {"idle", "flagged", "pending"} => ~closed
  /\ pc[Main] = "returned" => inner = "closed"

LEMMA MainInit == Init => MainInv
BY TopologyAssumption DEF Init, MainInv, CallerPC, CloserPC

LEMMA MainStep == MainInv /\ [TopologyNext]_allVars => MainInv'
<1> SUFFICES ASSUME MainInv, [TopologyNext]_allVars  PROVE MainInv'
  OBVIOUS
<1> USE TopologyAssumption, ConstAssumption DEF MainInv, CallerPC, CloserPC, Goto
<1>1. CASE UNCHANGED vars
  BY <1>1 DEF vars
<1>2. ASSUME NEW c \in Callers, (Accepting /\ ensureOpen(c)) \/ Handling(c)  PROVE MainInv'
  <2>1. c # Main
    OBVIOUS
  <2>2. CASE ensureOpen(c)  BY <2>1, <2>2 DEF ensureOpen
  <2>3. CASE RLock(c)  BY <2>1, <2>3 DEF RLock
  <2>4. CASE CallInner(c)  BY <2>1, <2>4 DEF CallInner
  <2>5. CASE InnerReturns(c)  BY <2>1, <2>5 DEF InnerReturns
  <2>6. CASE OpReturns(c)  BY <2>1, <2>6 DEF OpReturns
  <2>7. QED  BY <1>2, <2>2, <2>3, <2>4, <2>5, <2>6 DEF Handling
<1>3. CASE Closing
  <2>1. CASE Shutdown  BY <1>1, <2>1 DEF Shutdown
  <2>2. CASE CloseDB(Main)  BY <2>2 DEF CloseDB
  <2>3. CASE AnnounceLock(Main)  BY <2>3 DEF AnnounceLock
  <2>4. CASE CloseInner(Main)  BY <2>4 DEF CloseInner
  <2>5. CASE InnerClosed(Main)  BY <2>5 DEF InnerClosed
  <2>6. QED  BY <1>3, <2>1, <2>2, <2>3, <2>4, <2>5 DEF Closing
<1>4. QED
  BY <1>1, <1>2, <1>3, ServingLeavesDB, SupervisingLeavesDB
     DEF TopologyNext, allVars, Processes

(* The status 0 is decided by a process that still holds its database,     *)
(* which it gives back only once Main has returned from DB.Close.          *)
ClosedInv ==
  /\ MainInv
  /\ phase[Owner] = "serving" => held[Owner] >= 1
  /\ phase[Owner] = "stopping" /\ code[Owner] = 0 /\ held[Owner] = 0 => inner = "closed"
  /\ phase[Owner] = "exited" /\ code[Owner] = 0 => inner = "closed"

LEMMA OwnerIsProcess == Owner \in {"kvlite", "owner"} /\ Owner \in Processes
BY DEF Owner, Processes

LEMMA OwnerIsFixed ==
  ASSUME mode' = mode
  PROVE  Owner' = Owner /\ Plan(Owner)' = Plan(Owner)
BY DEF Owner, Plan, OwnerPlan

LEMMA ClosedInit == TopologyInit => ClosedInv
<1> SUFFICES ASSUME TopologyInit  PROVE ClosedInv
  OBVIOUS
<1>1. MainInv
  BY MainInit DEF TopologyInit
<1>2. QED  BY <1>1, OwnerIsProcess DEF TopologyInit, ClosedInv, Processes

(* The steps that leave the database alone.                                *)
LEMMA ServingKeepsClosed ==
  ASSUME LeftInv, ClosedInv, NEW p \in Processes, Serving(p), MainInv'
  PROVE  ClosedInv'
<1> USE OwnerIsProcess DEF ClosedInv
<1>1. mode' = mode /\ inner' = inner
  BY DEF Serving, Acquire, AcquireFails, Ready, TakeSignal, Release, Exit, vars
<1>2. Owner' = Owner
  BY <1>1, OwnerIsFixed
<1>3. phase \in [Processes -> Live \cup {"none", "exited"}] /\ held \in [Processes -> Nat]
      /\ code \in [Processes -> Int] /\ mode \in AllModes
  BY DEF LeftInv
<1>4. CASE Acquire(p)
  BY <1>1, <1>2, <1>3, <1>4 DEF Acquire
<1>5. CASE AcquireFails(p)
  BY <1>1, <1>2, <1>3, <1>5 DEF AcquireFails, Ends, Enters
<1>6. CASE Ready(p)
  BY <1>1, <1>2, <1>3, <1>6, OwnerPlanBegins DEF Ready, Enters
<1>7. CASE TakeSignal(p)
  BY <1>1, <1>2, <1>3, <1>7 DEF TakeSignal, Ends, Enters
<1>8. CASE Release(p)
  <2>1. p = Owner /\ held[Owner] = 1 => inner = "closed"
    BY <1>3, <1>8, OwnerPlanBegins DEF Release, MainInv
  <2>2. QED  BY <1>1, <1>2, <1>3, <1>8, <2>1 DEF Release
<1>9. CASE Exit(p)
  BY <1>1, <1>2, <1>3, <1>9 DEF Exit, Enters
<1>10. QED  BY <1>4, <1>5, <1>6, <1>7, <1>8, <1>9 DEF Serving

LEMMA EndingKeepsClosed ==
  ASSUME LeftInv, ClosedInv, MainInv', UNCHANGED <<mode, held, inner>>,
         \/ \E ps, box : Deliver(ps, box)
         \/ \E p \in Processes : Kill(p) \/ Crash(p)
  PROVE  ClosedInv'
<1> USE OwnerIsProcess DEF ClosedInv
<1>1. Owner' = Owner
  BY OwnerIsFixed
<1>2. phase \in [Processes -> Live \cup {"none", "exited"}] /\ code \in [Processes -> Int]
  BY DEF LeftInv
<1>3. ASSUME NEW ps, NEW box, Deliver(ps, box)  PROVE ClosedInv'
  BY <1>1, <1>2, <1>3 DEF Deliver, Killed
<1>4. ASSUME NEW p \in Processes, Kill(p)  PROVE ClosedInv'
  BY <1>1, <1>2, <1>4 DEF Kill, Ends, Enters, Killed
<1>5. ASSUME NEW p \in Processes, Crash(p)  PROVE ClosedInv'
  BY <1>1, <1>2, <1>5 DEF Crash, Ends, Enters, Killed
<1>6. QED  BY <1>3, <1>4, <1>5

LEMMA SupervisingKeepsClosed ==
  ASSUME LeftInv, ClosedInv, Supervising, MainInv'
  PROVE  ClosedInv'
<1> USE OwnerIsProcess
<1>1. mode' = mode /\ held' = held /\ inner' = inner
  BY SupervisingLeavesDB
     DEF Supervising, StartOwner, StartOwnerFails, Served, CheckOwner, Poll, GiveUp,
         StartAttached, StartAttachedFails, Watch, Forward, OwnerExited, AttachedExited,
         ModuleExited, ReapAttached, ReapOwner, vars
<1>2. Owner' = Owner
  BY <1>1, OwnerIsFixed
<1>3. phase \in [Processes -> Live \cup {"none", "exited"}] /\ held \in [Processes -> Nat]
      /\ code \in [Processes -> Int] /\ mode \in AllModes
  BY DEF LeftInv
<1>4. mode \in {"module", "standalone"} => Owner = "owner"
  BY DEF Owner
<1>5. ASSUME NEW status, Finish(status), Owner = "owner" \/ phase["kvlite"] = "serving" \/ status # 0
      PROVE  ClosedInv'
  BY <1>1, <1>2, <1>3, <1>5 DEF ClosedInv, Finish, Ends, Enters, Processes
<1>6. ASSUME NEW p \in {"owner", "attached"}, Kill(p)  PROVE ClosedInv'
  BY <1>1, <1>6, EndingKeepsClosed DEF Processes
<1>7. ASSUME NEW p \in {"owner", "attached"}, Enters(p, "starting"), code' = code  PROVE ClosedInv'
  BY <1>1, <1>2, <1>3, <1>7 DEF ClosedInv, Enters, Processes
<1>8. CASE StartOwner \/ StartAttached
  BY <1>7, <1>8 DEF StartOwner, StartAttached
<1>9. CASE StartOwnerFails \/ ModuleExited
  BY <1>4, <1>5, <1>9 DEF StartOwnerFails, ModuleExited
<1>10. CASE Served \/ CheckOwner \/ Poll
  BY <1>1, <1>2, <1>10 DEF ClosedInv, Served, CheckOwner, Poll
<1>11. CASE GiveUp \/ OwnerExited
  BY <1>6, <1>11 DEF GiveUp, OwnerExited
<1>12. CASE StartAttachedFails \/ AttachedExited
  BY <1>5, <1>6, <1>12 DEF StartAttachedFails, AttachedExited
<1>13. CASE Watch
  <2>1. Owner = "kvlite" => held[Owner] >= 1
    BY <1>3, <1>13, OwnerPlanBegins DEF Watch, LeftInv
  <2>2. QED  BY <1>1, <1>2, <1>3, <1>13, <2>1 DEF ClosedInv, Watch, Enters, Processes
<1>14. CASE Forward
  BY <1>1, <1>14, EndingKeepsClosed DEF Forward
<1>15. CASE ReapAttached \/ ReapOwner
  <2>1. Owner = "owner"
    BY <1>4, <1>15 DEF ReapAttached, ReapOwner, LeftInv
  <2>2. QED  BY <1>5, <1>15, <2>1 DEF ReapAttached, ReapOwner
<1>16. QED
  BY <1>8, <1>9, <1>10, <1>11, <1>12, <1>13, <1>14, <1>15 DEF Supervising

LEMMA ClosedStep == LeftInv /\ ClosedInv /\ [TopologyNext]_allVars => ClosedInv'
<1> SUFFICES ASSUME LeftInv, ClosedInv, [TopologyNext]_allVars  PROVE ClosedInv'
  OBVIOUS
<1>1. MainInv'
  BY MainStep DEF ClosedInv
<1>2. ASSUME UNCHANGED <<mode, phase, held, code, inner>>  PROVE ClosedInv'
  BY <1>1, <1>2, OwnerIsFixed DEF ClosedInv
<1>3. ASSUME NEW c \in Callers, (Accepting /\ ensureOpen(c)) \/ Handling(c)  PROVE ClosedInv'
  BY <1>2, <1>3
     DEF Handling, Accepting, Running, procVars, ensureOpen, RLock, CallInner, InnerReturns, OpReturns
<1>4. CASE Closing
  <2>1. CASE Shutdown
    BY <1>2, <2>1 DEF Shutdown, vars
  <2>2. CASE ClosingDB
    <3>1. /\ phase[Owner] = "stopping" /\ held[Owner] = 1
          /\ mode' = mode /\ phase' = phase /\ held' = held
      BY <2>2 DEF ClosingDB, procVars
    <3>2. phase'[Owner'] = "stopping" /\ held'[Owner'] = 1
      BY <3>1, OwnerIsFixed
    <3>3. QED  BY <1>1, <3>2 DEF ClosedInv
  <2>3. QED  BY <1>4, <2>1, <2>2 DEF Closing
<1>5. CASE UNCHANGED allVars
  BY <1>2, <1>5 DEF allVars, procVars, vars
<1>6. ASSUME NEW ps, Stop(ps)  PROVE ClosedInv'
  BY <1>1, <1>6, EndingKeepsClosed DEF Stop, vars
<1>7. ASSUME NEW p \in Processes, Crash(p)  PROVE ClosedInv'
  BY <1>1, <1>7, EndingKeepsClosed DEF Crash, vars
<1>8. QED
  BY <1>1, <1>3, <1>4, <1>5, <1>6, <1>7, ServingKeepsClosed, SupervisingKeepsClosed
     DEF TopologyNext

(* http.go:651 and db.go:390: an owner that returned 0 has closed its      *)
(* database, for every number of handlers, engine calls, auxiliary         *)
(* databases, signals and crashes.                                         *)
THEOREM TopologyClosesDatabase == TopologySpec => []CleanExitClosed
<1>1. ClosedInv => CleanExitClosed
  BY DEF ClosedInv, CleanExitClosed
<1>2. QED  BY LeftInit, LeftStep, ClosedInit, ClosedStep, <1>1, PTL DEF TopologySpec
=============================================================================
