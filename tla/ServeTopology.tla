---------------------------- MODULE ServeTopology ----------------------------
(***************************************************************************)
(* The processes behind `kvlite serve' and `kvlite module run'             *)
(* (cmd/kvlite/main.go), from the first Open to the last exit: the kvlite  *)
(* process, a kvlite-http process that owns the database, and a            *)
(* kvlite-redis process that is attached to the owner.  Which of them      *)
(* there are depends on the mode:                                          *)
(*                                                                         *)
(*   linked      kvlite owns the database and serves HTTP and Redis (run)  *)
(*   mixed       kvlite owns it and serves HTTP, Redis is attached         *)
(*               (runServeLinkedHTTPWithAttachedRedis)                     *)
(*   module      kvlite waits for one module process, a kvlite-http that   *)
(*               owns the database (runModuleRun)                          *)
(*   standalone  kvlite supervises an owner and an attached process        *)
(*               (runServeStandaloneBoth)                                  *)
(*                                                                         *)
(* Every process runs through the same life: it acquires what it serves    *)
(* from, in order; it asks for signals; it waits; its deferred calls give  *)
(* everything back in the opposite order.  Until it asks for signals, and  *)
(* again as soon as the deferred signal.Stop has run, a signal ends it on  *)
(* the spot.  The database of the owner is the one of EngineGuard: the     *)
(* callers are the handlers of its HTTP server, and Main closes it.        *)
(***************************************************************************)
EXTENDS EngineGuard, Integers, Sequences

CONSTANTS Modes,          \* the modes that are run
          Auxiliaries,    \* the databases of --driver-path, in the order of opening
          Main,           \* the goroutine of the owner that closes the database
          MaxSignals,     \* bound: times the user asks to stop
          MaxCrashes      \* bound: child processes that fail by themselves

Processes == {"kvlite", "owner", "attached"}
AllModes == {"linked", "mixed", "module", "standalone"}

ASSUME TopologyAssumption ==
  /\ Modes \subseteq AllModes
  /\ Auxiliaries \in Seq({"auxiliary"})
  /\ Main \in Closers
  /\ MaxSignals \in Nat /\ MaxCrashes \in Nat

VARIABLES mode,
          stale,       \* an owner left by an earlier run answers at the address
          phase,       \* of each process
          held,        \* how much of its plan the process has acquired
          listening,   \* the listener of the owner's HTTP server is open
          inbox,       \* the channel of signal.Notify, with room for one signal
          code,        \* the exit status of a process, once it is decided
          at,          \* where kvlite is
          stopping,    \* kvlite has forwarded a signal
          signals, crashes

procVars == <<mode, stale, phase, held, listening, inbox, code, at, stopping, signals, crashes>>
allVars == <<vars, procVars>>

(* ProcessState.ExitCode of a process that a signal ended.                 *)
Killed == -1

Live == {"starting", "serving", "stopping"}
Alive(p) == phase[p] \in Live

Owner == IF mode \in {"module", "standalone"} THEN "owner" ELSE "kvlite"
Children == CASE mode = "linked" -> {}
              [] mode = "mixed" -> {"attached"}
              [] mode = "module" -> {"owner"}
              [] OTHER -> {"owner", "attached"}

(* What a process acquires.  Serve of the HTTP extension opens the         *)
(* auxiliary databases before it listens.                                  *)
OwnerPlan ==
  CASE mode = "linked" -> <<"db", "redis">> \o Auxiliaries \o <<"http">>
    [] mode = "mixed" -> <<"db">> \o Auxiliaries \o <<"http">>
    [] OTHER -> <<"db", "http">>
Plan(p) == CASE p = Owner -> OwnerPlan
             [] p = "attached" -> <<"remote", "redis">>
             [] OTHER -> <<>>

(* GET /v1/health is answered with 200.                                    *)
Answers == stale \/ (listening /\ Alive(Owner))

TopologyInit ==
  /\ Init
  /\ mode \in Modes
  /\ stale \in IF mode = "standalone" THEN BOOLEAN ELSE {FALSE}
  /\ phase = [p \in Processes |-> IF p = "kvlite" THEN "starting" ELSE "none"]
  /\ held = [p \in Processes |-> 0]
  /\ listening = FALSE
  /\ inbox = [p \in Processes |-> FALSE]
  /\ code = [p \in Processes |-> 0]
  /\ at = "start"
  /\ stopping = FALSE
  /\ signals = 0 /\ crashes = 0

-----------------------------------------------------------------------------
(* What happens to processes.                                              *)

Enters(p, ph) == phase' = [phase EXCEPT ![p] = ph]
Ends(p, ph, status) == Enters(p, ph) /\ code' = [code EXCEPT ![p] = status]

(* A signal reaches the processes of ps; box is what they have not read.   *)
Deliver(ps, box) ==
  LET dies(p) == p \in ps /\ phase[p] \in {"starting", "stopping"}
  IN /\ phase' = [p \in Processes |-> IF dies(p) THEN "exited" ELSE phase[p]]
     /\ code' = [p \in Processes |-> IF dies(p) THEN Killed ELSE code[p]]
     /\ inbox' = [p \in Processes |-> box[p] \/ (p \in ps /\ phase[p] = "serving")]

KillIgnored(p) == UNCHANGED <<phase, code>>
(* Process.Kill.                                                           *)
Kill(p) == IF Alive(p) THEN Ends(p, "exited", Killed) ELSE UNCHANGED <<phase, code>>

-----------------------------------------------------------------------------
(* The life of a process that serves.                                      *)

Wants(p, r) == held[p] < Len(Plan(p)) /\ Plan(p)[held[p] + 1] = r

(* The address of an earlier owner is taken; a client finds the owner by   *)
(* its health endpoint (checkOwnerHealth).                                 *)
Acquire(p) ==
  /\ phase[p] = "starting" /\ held[p] < Len(Plan(p))
  /\ Wants(p, "http") => ~stale
  /\ Wants(p, "remote") => Answers
  /\ held' = [held EXCEPT ![p] = @ + 1]
  /\ listening' = (listening \/ Wants(p, "http"))
  /\ UNCHANGED <<vars, mode, stale, phase, inbox, code, at, stopping, signals, crashes>>

AcquireFails(p) ==
  /\ phase[p] = "starting" /\ held[p] < Len(Plan(p))
  /\ Ends(p, "stopping", 1)
  /\ UNCHANGED <<vars, mode, stale, held, listening, inbox, at, stopping, signals, crashes>>

(* signal.Notify of a child.                                               *)
Ready(p) ==
  /\ p \in Children /\ phase[p] = "starting" /\ held[p] = Len(Plan(p))
  /\ Enters(p, "serving")
  /\ UNCHANGED <<vars, mode, stale, held, listening, inbox, code, at, stopping, signals, crashes>>

(* `<-signals; return 0'.                                                  *)
TakeSignal(p) ==
  /\ p \in Children \/ mode = "linked"
  /\ phase[p] = "serving" /\ inbox[p]
  /\ Ends(p, "stopping", 0)
  /\ inbox' = [inbox EXCEPT ![p] = FALSE]
  /\ UNCHANGED <<vars, mode, stale, held, listening, at, stopping, signals, crashes>>

(* server.Close: Shutdown closes the listener and waits for the handlers,  *)
(* five seconds at most, so that it can return before they do.             *)
Shutdown ==
  /\ phase[Owner] = "stopping" /\ listening
  /\ listening' = FALSE
  /\ UNCHANGED <<vars, mode, stale, phase, held, inbox, code, at, stopping, signals, crashes>>

ReleaseWithoutClose(p) ==
  /\ phase[p] = "stopping" /\ held[p] > 0
  /\ Plan(p)[held[p]] = "http" => ~listening
  /\ held' = [held EXCEPT ![p] = @ - 1]
  /\ UNCHANGED <<vars, mode, stale, phase, listening, inbox, code, at, stopping, signals, crashes>>

(* The deferred calls, the last one first: each has closed what it is for. *)
Release(p) ==
  /\ phase[p] = "stopping" /\ held[p] > 0
  /\ Plan(p)[held[p]] = "http" => ~listening
  /\ Plan(p)[held[p]] = "db" => pc[Main] = "returned"
  /\ held' = [held EXCEPT ![p] = @ - 1]
  /\ UNCHANGED <<vars, mode, stale, phase, listening, inbox, code, at, stopping, signals, crashes>>

Exit(p) ==
  /\ phase[p] = "stopping" /\ held[p] = 0
  /\ Enters(p, "exited")
  /\ UNCHANGED <<vars, mode, stale, held, listening, inbox, code, at, stopping, signals, crashes>>

(* While the owner runs, its handlers do, and start with every request     *)
(* that the listener accepts; db.Close is the last of its deferred calls.  *)
Running == Alive(Owner) /\ UNCHANGED procVars
Accepting == listening /\ Running
ClosingDB == phase[Owner] = "stopping" /\ held[Owner] = 1 /\ UNCHANGED procVars

-----------------------------------------------------------------------------
(* kvlite.                                                                 *)

(* How kvlite ends: at once, or through its own deferred calls.            *)
Finish(status) ==
  /\ at' = "done"
  /\ Ends("kvlite", IF Owner = "kvlite" THEN "stopping" ELSE "exited", status)

(* The value `kvlite' returns for the exit status of a child.              *)
KilledIsZero(status) == IF status > 0 THEN status ELSE 0
ExitStatus(status) == IF status >= 0 THEN status ELSE 1

StartOwner ==
  /\ at = "start" /\ phase["kvlite"] = "starting" /\ mode \in {"module", "standalone"}
  /\ at' = IF mode = "standalone" THEN "health" ELSE "notify"
  /\ Enters("owner", "starting")
  /\ UNCHANGED <<vars, mode, stale, held, listening, inbox, code, stopping, signals, crashes>>

StartOwnerFails ==
  /\ at = "start" /\ phase["kvlite"] = "starting" /\ mode \in {"module", "standalone"}
  /\ Finish(1)
  /\ UNCHANGED <<vars, mode, stale, held, listening, inbox, stopping, signals, crashes>>

(* run and runServeLinkedHTTPWithAttachedRedis: everything is served.      *)
Served ==
  /\ at = "start" /\ phase["kvlite"] = "starting" /\ Owner = "kvlite"
  /\ held["kvlite"] = Len(Plan("kvlite"))
  /\ at' = IF mode = "mixed" THEN "spawn" ELSE "notify"
  /\ UNCHANGED <<vars, mode, stale, phase, held, listening, inbox, code, stopping, signals, crashes>>

(* waitForOwnerHealth: look for the exit of the owner, send a request,     *)
(* look again; after 30 seconds, give up.                                  *)
CheckOwner ==
  /\ at = "health" /\ phase["kvlite"] = "starting" /\ Alive("owner")
  /\ at' = "poll"
  /\ UNCHANGED <<vars, mode, stale, phase, held, listening, inbox, code, stopping, signals, crashes>>

Poll ==
  /\ at = "poll" /\ phase["kvlite"] = "starting"
  /\ at' = IF Answers THEN "spawn" ELSE "health"
  /\ UNCHANGED <<vars, mode, stale, phase, held, listening, inbox, code, stopping, signals, crashes>>

(* The owner has exited or the time is up: Kill, and wait for it.          *)
GiveUp ==
  /\ at = "health" /\ phase["kvlite"] = "starting"
  /\ at' = "reapOwner"
  /\ Kill("owner")
  /\ UNCHANGED <<vars, mode, stale, held, listening, inbox, stopping, signals, crashes>>

StartAttached ==
  /\ at = "spawn" /\ phase["kvlite"] = "starting"
  /\ at' = "notify"
  /\ Enters("attached", "starting")
  /\ UNCHANGED <<vars, mode, stale, held, listening, inbox, code, stopping, signals, crashes>>

AttachedMissing ==
  /\ at = "spawn" /\ phase["kvlite"] = "starting"
  /\ Finish(1)
  /\ UNCHANGED <<vars, mode, stale, held, listening, inbox, stopping, signals, crashes>>

StartAttachedFails ==
  /\ at = "spawn" /\ phase["kvlite"] = "starting"
  /\ IF mode = "mixed" THEN Finish(1) ELSE at' = "reapOwner" /\ Kill("owner")
  /\ UNCHANGED <<vars, mode, stale, held, listening, inbox, stopping, signals, crashes>>

(* signal.Notify of kvlite.                                                *)
Watch ==
  /\ at = "notify" /\ phase["kvlite"] = "starting"
  /\ at' = "watch"
  /\ Enters("kvlite", "serving")
  /\ UNCHANGED <<vars, mode, stale, held, listening, inbox, code, stopping, signals, crashes>>

(* The user presses Ctrl-C, or signals one process.                        *)
Stop(ps) ==
  /\ signals < MaxSignals /\ \E p \in ps : Alive(p)
  /\ Deliver(ps, inbox)
  /\ signals' = signals + 1
  /\ UNCHANGED <<vars, mode, stale, held, listening, at, stopping, crashes>>

(* A child panics, or the system kills it.                                 *)
Crash(p) ==
  /\ crashes < MaxCrashes /\ p # "kvlite" /\ Alive(p)
  /\ \E status \in {2, Killed} : Ends(p, "exited", status)
  /\ crashes' = crashes + 1
  /\ UNCHANGED <<vars, mode, stale, held, listening, inbox, at, stopping, signals>>

-----------------------------------------------------------------------------
(* kvlite watches: select of waitForAttachedModule, or attached.Wait with  *)
(* a goroutine that forwards one signal.                                   *)

ForwardLost ==
  /\ at = "watch" /\ phase["kvlite"] = "serving" /\ inbox["kvlite"] /\ mode # "linked"
  /\ stopping' = TRUE
  /\ inbox' = [inbox EXCEPT !["kvlite"] = FALSE]
  /\ UNCHANGED <<vars, mode, stale, phase, held, listening, code, at, signals, crashes>>

Forward ==
  /\ at = "watch" /\ phase["kvlite"] = "serving" /\ inbox["kvlite"]
  /\ mode = "standalone" \/ (mode \in {"mixed", "module"} /\ ~stopping)
  /\ stopping' = TRUE
  /\ Deliver(Children, [inbox EXCEPT !["kvlite"] = FALSE])
  /\ UNCHANGED <<vars, mode, stale, held, listening, at, signals, crashes>>

OwnerExitSeenLate ==
  /\ at = "watch" /\ phase["kvlite"] = "serving" /\ mode = "standalone"
  /\ phase["owner"] = "exited" /\ phase["attached"] = "exited"
  /\ at' = "reapAttached"
  /\ Kill("attached")
  /\ UNCHANGED <<vars, mode, stale, held, listening, inbox, stopping, signals, crashes>>

OwnerExited ==
  /\ at = "watch" /\ phase["kvlite"] = "serving" /\ mode = "standalone"
  /\ phase["owner"] = "exited"
  /\ at' = "reapAttached"
  /\ Kill("attached")
  /\ UNCHANGED <<vars, mode, stale, held, listening, inbox, stopping, signals, crashes>>

AttachedExited ==
  /\ at = "watch" /\ phase["kvlite"] = "serving" /\ phase["attached"] = "exited"
  /\ \/ /\ mode = "standalone"
        /\ at' = "reapOwner"
        /\ Kill("owner")
     \/ /\ mode = "mixed"
        /\ Finish(ExitStatus(code["attached"]))
  /\ UNCHANGED <<vars, mode, stale, held, listening, inbox, stopping, signals, crashes>>

ModuleExited ==
  /\ at = "watch" /\ phase["kvlite"] = "serving" /\ mode = "module"
  /\ phase["owner"] = "exited"
  /\ Finish(ExitStatus(code["owner"]))
  /\ UNCHANGED <<vars, mode, stale, held, listening, inbox, stopping, signals, crashes>>

(* The process that was killed is gone.                                    *)
ReapAttached ==
  /\ at = "reapAttached" /\ Alive("kvlite") /\ phase["attached"] = "exited"
  /\ Finish(IF stopping /\ code["attached"] = 0 THEN 0 ELSE 1)
  /\ UNCHANGED <<vars, mode, stale, held, listening, inbox, stopping, signals, crashes>>

ReapOwner ==
  /\ at = "reapOwner" /\ Alive("kvlite") /\ phase["owner"] = "exited"
  /\ Finish(IF phase["attached"] = "none" THEN 1 ELSE ExitStatus(code["attached"]))
  /\ UNCHANGED <<vars, mode, stale, held, listening, inbox, stopping, signals, crashes>>

-----------------------------------------------------------------------------
Handling(c) ==
  \/ Running /\ RLock(c)
  \/ Running /\ CallInner(c)
  \/ Running /\ InnerReturns(c)
  \/ Running /\ OpReturns(c)

(* What a process does without anybody asking it to.                       *)
Serving(p) ==
  \/ Acquire(p) \/ AcquireFails(p) \/ Ready(p) \/ TakeSignal(p)
  \/ Release(p) \/ Exit(p)

Closing ==
  \/ Shutdown
  \/ ClosingDB /\ CloseDB(Main)
  \/ ClosingDB /\ AnnounceLock(Main)
  \/ ClosingDB /\ CloseInner(Main)
  \/ ClosingDB /\ InnerClosed(Main)

Supervising ==
  \/ StartOwner \/ StartOwnerFails \/ Served \/ CheckOwner \/ Poll \/ GiveUp
  \/ StartAttached \/ StartAttachedFails \/ Watch
  \/ Forward \/ OwnerExited \/ AttachedExited \/ ModuleExited
  \/ ReapAttached \/ ReapOwner

TopologyNext ==
  \/ \E c \in Callers : (Accepting /\ ensureOpen(c)) \/ Handling(c)
  \/ \E p \in Processes : Serving(p) \/ Crash(p)
  \/ Closing \/ Supervising
  \/ Stop(Processes)
  \/ \E p \in Processes : Stop({p})

TopologySpec == TopologyInit /\ [][TopologyNext]_allVars

(* Processes and goroutines that can go on do; nobody is obliged to send a *)
(* request or a signal, and no child to crash.                             *)
FairTopology ==
  /\ TopologySpec
  /\ \A c \in Callers : WF_allVars(Handling(c))
  /\ \A p \in Processes : WF_allVars(Serving(p))
  /\ WF_allVars(Closing) /\ WF_allVars(Supervising)

-----------------------------------------------------------------------------
TopologyTypeOK ==
  /\ mode \in AllModes /\ stale \in BOOLEAN
  /\ phase \in [Processes -> Live \cup {"none", "exited"}]
  /\ held \in [Processes -> Nat]
  /\ listening \in BOOLEAN /\ stopping \in BOOLEAN
  /\ inbox \in [Processes -> BOOLEAN]
  /\ code \in [Processes -> Int]
  /\ at \in {"start", "health", "poll", "spawn", "notify", "watch",
             "reapOwner", "reapAttached", "done"}
  /\ signals \in Nat /\ crashes \in Nat

(* cmd/kvlite/main.go:301-366,494-532: when kvlite returns, whatever       *)
(* failed or was asked of it on the way, none of the processes it started  *)
(* is left running.  (A signal that ends kvlite before it asked for        *)
(* signals does leave them.)                                               *)
NothingLeftBehind ==
  phase["kvlite"] = "exited" /\ code["kvlite"] # Killed
  => \A p \in {"owner", "attached"} : ~Alive(p)

(* The process whose exit status kvlite reports.                           *)
Reported == IF mode = "module" THEN "owner" ELSE "attached"

(* MODULES.md:168 "exits with an error if its HTTP owner dies": kvlite     *)
(* returns 0 only if somebody asked for a stop, and only if the process    *)
(* whose status it reports returned 0 as well.                             *)
ZeroMeansAsked ==
  phase["kvlite"] = "exited" /\ code["kvlite"] = 0
  => /\ signals > 0
     /\ mode # "linked" => phase[Reported] = "exited" /\ code[Reported] = 0

(* http.go:651 and db.go:390: an owner that exits with 0 has closed its    *)
(* database completely, even when Shutdown stopped waiting for a handler   *)
(* that was inside the engine.                                             *)
CleanExitClosed ==
  phase[Owner] = "exited" /\ code[Owner] = 0 => inner = "closed"

(* main.go:491-493: "If the owner exits first, Redis is stopped so it      *)
(* cannot keep accepting requests for a database that no longer has an     *)
(* owner."                                                                 *)
OwnerDeathStopsRedis ==
  (at = "watch" /\ mode = "standalone" /\ phase["owner"] = "exited")
  ~> (phase["attached"] = "exited" /\ phase["kvlite"] = "exited")

(* A stop that kvlite was told of while it serves ends every process:      *)
(* kvlite, and with it what it started, also when the signal reaches the   *)
(* children while they start or while they stop already, and when handlers *)
(* of the owner are under way.                                             *)
StopIsObeyed ==
  (at = "watch" /\ inbox["kvlite"]) ~> (\A p \in Processes : ~Alive(p))

(* waitForOwnerHealth can take an owner of an earlier run, at the same     *)
(* address, for its own: kvlite never settles on it, but ends by itself,   *)
(* and with an error unless a stop comes first.                            *)
StaleOwnerRefused ==
  stale ~> (phase["kvlite"] = "exited" /\ (code["kvlite"] # 0 \/ signals > 0))

(* A request that a handler has begun finishes, with a result or with      *)
(* ErrClosed, also when db.Close overtakes it between two of its engine    *)
(* calls, unless the process ends before it.                               *)
HandlersFinish ==
  \A c \in Callers : (pc[c] = "open") ~> (pc[c] = "idle" \/ ~Alive(Owner))
=============================================================================
