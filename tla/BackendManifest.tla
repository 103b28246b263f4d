--------------------------- MODULE BackendManifest ---------------------------
(***************************************************************************)
(* Opening one database directory (openConfiguredEngine in backend.go and  *)
(* backend_manifest.go): processes that read, create and validate          *)
(* KVLITE-MANIFEST.json around the opening of the storage engine, one file *)
(* system call per step, with crashes in between.                          *)
(*                                                                         *)
(* A driver stands for the identity that a manifest records (backend,      *)
(* implementation and format).  A linked driver consults the manifest      *)
(* first and opens the engine then; a native module opens the engine first *)
(* and, because loading it registers its driver, counts as linked for the  *)
(* rest of the process.                                                    *)
(***************************************************************************)
EXTENDS Integers, FiniteSets

CONSTANTS Processes,
          Linked,        \* drivers linked into the processes
          Native,        \* drivers installed as native modules
          OnDisk,        \* drivers whose engine leaves files in the directory
          RocksDB,       \* DriverRocksDB, the default
          Selections,    \* the opens: [driver, explicit]
          Legacy,        \* whether the directory may hold old RocksDB files
          MaxFaults,     \* bound: crashes and failed writes
          Absent, Torn   \* no manifest; one that was created and not written

Drivers == Linked \cup Native

ASSUME ManifestAssumption ==
  /\ RocksDB \in Linked /\ Linked \cap Native = {} /\ OnDisk \subseteq Drivers
  /\ Selections \subseteq [driver : Drivers, explicit : BOOLEAN]
  /\ Legacy \in BOOLEAN /\ MaxFaults \in Nat
  /\ Absent # Torn /\ {Absent, Torn} \cap Drivers = {}

VARIABLES manifest,   \* the manifest file
          files,      \* the engines that have put files into the directory
          pc, choice, \* where each process is, and what it opens
          loaded,     \* native drivers that the process has registered
          faults

vars == <<manifest, files, pc, choice, loaded, faults>>

Init ==
  /\ manifest = Absent
  /\ files \in IF Legacy THEN {{}, {RocksDB}} ELSE {{}}
  /\ pc = [p \in Processes |-> "idle"]
  /\ choice \in [Processes -> Selections]
  /\ loaded = [p \in Processes |-> {}]
  /\ faults = 0

Goto(p, from, to) == pc[p] = from /\ pc' = [pc EXCEPT ![p] = to]

Driver(p) == choice[p].driver
EmptyDirectory == manifest = Absent /\ files = {}

(* What an engine leaves behind.                                           *)
Touch(p) == files' = IF Driver(p) \in OnDisk THEN files \cup {Driver(p)} ELSE files

validateBackendManifest(p) == manifest = Driver(p)

-----------------------------------------------------------------------------
(* resolveLinkedDriverOrReportModule: the registry decides the path.       *)
Open(p) ==
  /\ \E s \in Selections :
       /\ choice' = [choice EXCEPT ![p] = s]
       /\ Goto(p, "idle", IF s.driver \in Linked \cup loaded[p] THEN "read" ELSE "load")
  /\ UNCHANGED <<manifest, files, loaded, faults>>

(* prepareBackendManifest: readBackendManifest, then os.ReadDir.           *)
Read(p) ==
  /\ Goto(p, "read", IF manifest = Absent THEN "list"
                     ELSE IF validateBackendManifest(p) THEN "open" ELSE "idle")
  /\ UNCHANGED <<manifest, files, choice, loaded, faults>>

AdoptsLegacy(p) == ~choice[p].explicit /\ Driver(p) = RocksDB

List(p) ==
  /\ Goto(p, "list", IF EmptyDirectory THEN "create"
                     ELSE IF AdoptsLegacy(p) THEN "adopt" ELSE "idle")
  /\ UNCHANGED <<manifest, files, choice, loaded, faults>>

(* createBackendManifest: O_EXCL creates an empty file or finds one, which *)
(* is then read and validated.  What comes after it depends on the caller: *)
(* the engine is still to be opened, or open already.                      *)
Creating == {"create", "createLate"}
Writing(at) == IF at = "create" THEN "write" ELSE "writeLate"
Checking(at) == IF at = "create" THEN "check" ELSE "checkLate"
Created(at) == IF at \in {"write", "check"} THEN "open" ELSE "opened"

CreateTruncates(p) ==
  /\ pc[p] \in Creating
  /\ pc' = [pc EXCEPT ![p] = Writing(@)]
  /\ manifest' = Torn
  /\ UNCHANGED <<files, choice, loaded, faults>>

Create(p) ==
  /\ pc[p] \in Creating
  /\ pc' = [pc EXCEPT ![p] = IF manifest = Absent THEN Writing(@) ELSE Checking(@)]
  /\ manifest' = IF manifest = Absent THEN Torn ELSE manifest
  /\ UNCHANGED <<files, choice, loaded, faults>>

WriteDefault(p) ==
  /\ pc[p] \in {"write", "writeLate"}
  /\ pc' = [pc EXCEPT ![p] = Created(@)]
  /\ manifest' = RocksDB
  /\ UNCHANGED <<files, choice, loaded, faults>>

Write(p) ==
  /\ pc[p] \in {"write", "writeLate"}
  /\ pc' = [pc EXCEPT ![p] = Created(@)]
  /\ manifest' = Driver(p)
  /\ UNCHANGED <<files, choice, loaded, faults>>

WriteFails(p) ==
  /\ pc[p] \in {"write", "writeLate"} /\ faults < MaxFaults
  /\ pc' = [pc EXCEPT ![p] = "idle"]
  /\ faults' = faults + 1
  /\ UNCHANGED <<manifest, files, choice, loaded>>

Check(p) ==
  /\ pc[p] \in {"check", "checkLate"}
  /\ pc' = [pc EXCEPT ![p] = IF validateBackendManifest(p) THEN Created(@) ELSE "idle"]
  /\ UNCHANGED <<manifest, files, choice, loaded, faults>>

(* driver.Open of the engine: it may fail, and files of it may be there    *)
(* even then.  A legacy directory gets its manifest afterwards.            *)
OpenEngine(p) ==
  /\ \/ Goto(p, "open", "opened")
     \/ Goto(p, "adopt", "createLate")
     \/ Goto(p, "open", "idle")
     \/ Goto(p, "adopt", "idle")
  /\ Touch(p)
  /\ UNCHANGED <<manifest, choice, loaded, faults>>

(* openNativeModuleDriver registers the driver and opens the engine; only  *)
(* then createBackendManifestIfNotExists looks at the directory.           *)
LoadNative(p) ==
  /\ Goto(p, "load", "readLate") \/ Goto(p, "load", "idle")
  /\ loaded' = [loaded EXCEPT ![p] = @ \cup {Driver(p)}]
  /\ Touch(p)
  /\ UNCHANGED <<manifest, choice, faults>>

ReadLate(p) ==
  /\ Goto(p, "readLate", CASE manifest = Absent -> "listLate"
                           [] manifest = Torn -> "idle"
                           [] OTHER -> "opened")
  /\ UNCHANGED <<manifest, files, choice, loaded, faults>>

ListLate(p) ==
  /\ Goto(p, "listLate", IF EmptyDirectory THEN "createLate" ELSE "idle")
  /\ UNCHANGED <<manifest, files, choice, loaded, faults>>

Close(p) ==
  /\ Goto(p, "opened", "idle")
  /\ UNCHANGED <<manifest, files, choice, loaded, faults>>

(* The process dies anywhere, and a new one takes its place.               *)
Crash(p) ==
  /\ faults < MaxFaults /\ pc[p] # "idle"
  /\ pc' = [pc EXCEPT ![p] = "idle"]
  /\ loaded' = [loaded EXCEPT ![p] = {}]
  /\ faults' = faults + 1
  /\ UNCHANGED <<manifest, files, choice>>

Next ==
  \E p \in Processes :
    \/ Open(p) \/ Read(p) \/ List(p) \/ Create(p) \/ Write(p) \/ WriteFails(p)
    \/ Check(p) \/ OpenEngine(p) \/ Close(p) \/ Crash(p)
    \/ LoadNative(p) \/ ReadLate(p) \/ ListLate(p)

Spec == Init /\ [][Next]_vars

-----------------------------------------------------------------------------
TypeOK ==
  /\ manifest \in Drivers \cup {Absent, Torn}
  /\ files \subseteq OnDisk
  /\ pc \in [Processes -> {"idle", "read", "list", "create", "write", "check",
                           "open", "adopt", "opened", "createLate", "writeLate",
                           "checkLate", "load", "readLate", "listLate"}]
  /\ choice \in [Processes -> Selections]
  /\ loaded \in [Processes -> SUBSET Native]
  /\ faults \in 0..MaxFaults

(* HANDOFF.md:64: the manifest "persists that choice and rejects a         *)
(* different engine on reopen": whatever races and crashes came before, a  *)
(* database that was opened with a linked driver by its name is open with  *)
(* the driver that the manifest names, and stays so while default opens    *)
(* and native modules work on the same directory.                          *)
OpenMatchesManifest ==
  \A p \in Processes :
    pc[p] = "opened" /\ choice[p].explicit /\ Driver(p) \in Linked => manifest = Driver(p)

(* README.md:34-35: the manifest "prevents one engine from accidentally    *)
(* opening a KVLite directory initialized for another engine": no          *)
(* directory ever holds the files of two engines.                          *)
OneEnginePerDirectory == Cardinality(files) <= 1

(* A crash or a failed write can leave a manifest that no Open accepts any *)
(* more (readBackendManifest reports ErrBackendManifestInvalid); no engine *)
(* has put data into such a directory, so that removing it loses nothing.  *)
TornOnlyWhenEmpty == manifest = Torn => files = {}

(* README.md:276-278: the manifest is written on first open and later      *)
(* opens must select the same target: no opener, late or crashed, ever     *)
(* replaces a manifest that names a driver.                                *)
ManifestIsForever == [][(manifest \in Drivers) => UNCHANGED manifest]_vars
=============================================================================
