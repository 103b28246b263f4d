---------------------------- MODULE ModuleCatalog ----------------------------
(***************************************************************************)
(* The catalogue of installed modules (module.go): discovery under the     *)
(* search path, and the choice of the executable that `kvlite serve' and   *)
(* `kvlite module run' start.                                              *)
(*                                                                         *)
(* A directory is a sequence of names.  The rules of Validate that concern *)
(* one field at a time are the Boolean `sound' of a manifest; what an      *)
(* artifact's file is like on disk is part of the artifact.  Modules are   *)
(* installed, and roots are appended to the search path.                   *)
(***************************************************************************)
EXTENDS Integers, Sequences, FiniteSetsExt, SequencesExt

CONSTANTS Directories,     \* where modules can be installed, sorted by name
          Manifests,       \* what can be installed
          Roots,           \* entries of the search path; <<>> is a blank one
          Missing,         \* roots that do not exist
          NotDirectories,  \* roots that are files
          LinkedModules,   \* names of the modules linked into the process
          Platform,        \* runtime.GOOS and GOARCH
          MaxInstalled,    \* bound: modules
          MaxRoots         \* bound: entries of the search path

VARIABLES installed,   \* the manifest of every directory that has one
          paths        \* the search path

catalog == <<installed, paths>>

Grouping == {"drivers", "modules"}

-----------------------------------------------------------------------------
(* A result is a list, or an error.                                        *)
Found(list) == [err |-> "none", list |-> list]
Error(err) == [err |-> err, list |-> <<>>]

Validate(manifest) ==
  /\ manifest.sound
  /\ \A i, j \in DOMAIN manifest.artifacts :
       /\ manifest.artifacts[i].platform = manifest.artifacts[j].platform
       /\ manifest.artifacts[i].kind = manifest.artifacts[j].kind
       => i = j

(* readModuleAt of several directories, one after the other: the first     *)
(* invalid manifest ends discovery.                                        *)
readModulesAt(directories) ==
  LET present == SelectSeq(directories, LAMBDA d : d \in DOMAIN installed)
  IN  IF \E d \in ToSet(present) : ~Validate(installed[d]) THEN Error("invalid")
      ELSE Found([i \in DOMAIN present |->
                    [name |-> installed[present[i]].name, directory |-> present[i]]])

(* os.ReadDir.                                                             *)
Below(directory) ==
  SelectSeq(Directories, LAMBDA d : Len(d) = Len(directory) + 1 /\ IsPrefix(directory, d))

(* A child without a manifest is searched when it is a grouping directory. *)
Searched(root) ==
  LET children == Below(root)
      nested(child) == child \notin DOMAIN installed /\ Last(child) \in Grouping
  IN  FlattenSeq([i \in DOMAIN children |->
        IF nested(children[i]) THEN Below(children[i]) ELSE <<children[i]>>])

discoverModulesAt(root) ==
  CASE root \in Missing -> Found(<<>>)
    [] root \in NotDirectories -> Error("invalid")
    [] root \notin Missing \cup NotDirectories ->
         readModulesAt(IF root \in DOMAIN installed THEN <<root>> ELSE Searched(root))

(* filepath.Clean.                                                         *)
Clean(path) == SelectSeq(path, LAMBDA name : name # ".")

(* Blank and repeated entries are dropped, the first of each is kept.      *)
uniqueModulePaths(list) ==
  LET root(i) == Clean(list[i])
      kept == {i \in DOMAIN list : list[i] # <<>> /\ \A j \in 1..(i - 1) : root(j) # root(i)}
      at == SetToSortSeq(kept, LAMBDA i, j : i < j)
  IN  [n \in DOMAIN at |-> root(at[n])]

Shadow(before, items) ==
  Found(SelectSeq(before, LAMBDA b : \A i \in DOMAIN items : items[i].name # b.name) \o items)

(* The modules of one more root; no name may appear twice.                 *)
Merge(before, items) ==
  LET all == before \o items
  IN  IF \E i, j \in DOMAIN all : i # j /\ all[i].name = all[j].name THEN Error("conflict")
      ELSE Found(all)

(* The result is sorted by name, and every name in it is unique.           *)
DiscoverModules ==
  LET roots == uniqueModulePaths(paths)
      found[n \in 0..Len(roots)] ==
        IF n = 0 THEN Found(<<>>)
        ELSE IF found[n - 1].err # "none" THEN found[n - 1]
        ELSE LET at == discoverModulesAt(roots[n])
             IN  IF at.err # "none" THEN at ELSE Merge(found[n - 1].list, at.list)
  IN  found[Len(roots)]

FindInstalledModule(name) ==
  LET modules == DiscoverModules
      named == SelectSeq(modules.list, LAMBDA module : module.name = name)
  IN  IF modules.err # "none" THEN modules
      ELSE IF named = <<>> THEN Error("notInstalled") ELSE Found(<<Head(named)>>)

(* An installed module is preferred; a linked one has nothing to execute.  *)
ResolveModule(name) ==
  LET found == FindInstalledModule(name)
  IN  IF found.err = "notInstalled" /\ name \in LinkedModules
      THEN Found(<<[name |-> name, directory |-> <<>>]>>) ELSE found

ArtifactForCurrentPlatform(directory, kind) ==
  SelectSeq(installed[directory].artifacts,
            LAMBDA artifact : artifact.platform = Platform /\ artifact.kind = kind)

(* Module.Verify: every artifact is there, with the digest it is listed    *)
(* with.                                                                   *)
Verify(directory) ==
  \A i \in DOMAIN installed[directory].artifacts :
    installed[directory].artifacts[i].file = "intact"

ResolveModuleExecutable(name) ==
  LET found == ResolveModule(name)
      directory == found.list[1].directory
      artifacts == ArtifactForCurrentPlatform(directory, "executable")
  IN  IF found.err # "none" THEN found
      ELSE IF directory = <<>> THEN Error("noExecutable")
      ELSE IF artifacts = <<>> THEN Error("noExecutable")
      ELSE IF ~Verify(directory) THEN Error("integrity")
      ELSE Found(<<[directory |-> directory, artifact |-> Head(artifacts)]>>)

-----------------------------------------------------------------------------
CatalogInit == installed = <<>> /\ paths = <<>>

Install(directory, manifest) ==
  /\ paths = <<>> /\ Cardinality(DOMAIN installed) < MaxInstalled
  /\ directory \notin DOMAIN installed
  /\ installed' = [d \in DOMAIN installed \cup {directory} |->
                     IF d = directory THEN manifest ELSE installed[d]]
  /\ UNCHANGED paths

Search(root) ==
  /\ Len(paths) < MaxRoots
  /\ paths' = Append(paths, root)
  /\ UNCHANGED installed

GrowCatalog ==
  \/ \E d \in ToSet(Directories), m \in Manifests : Install(d, m)
  \/ \E r \in Roots : Search(r)

-----------------------------------------------------------------------------
(* Where the modules of a root are: in it, below it, or below a grouping   *)
(* directory below it, but nowhere below a module.                         *)
VisibleFrom(root) ==
  {d \in DOMAIN installed :
     /\ IsPrefix(root, d) /\ Len(d) <= Len(root) + 2
     /\ Len(d) = Len(root) + 2 => d[Len(d) - 1] \in Grouping
     /\ \A e \in DOMAIN installed : IsStrictPrefix(e, d) => ~IsPrefix(root, e)}

(* What ought to be started for a name: the only executable for the        *)
(* platform in the only directory that offers the name, if its artifacts   *)
(* are intact, and if every module in sight is valid and has a name of its *)
(* own.                                                                    *)
Startable(name, directory, artifact) ==
  LET roots == {Clean(paths[i]) : i \in DOMAIN paths} \ (Missing \cup {<<>>})
      seen == {<<r, d>> \in roots \X DOMAIN installed : d \in VisibleFrom(r)}
      artifacts == ToSet(installed[directory].artifacts)
  IN  /\ \E s \in seen : s[2] = directory /\ installed[directory].name = name
      /\ {a \in artifacts : a.platform = Platform /\ a.kind = "executable"} = {artifact}
      /\ \A a \in artifacts : a.file = "intact"
      /\ \A s, t \in seen : installed[s[2]].name = installed[t[2]].name => s = t
      /\ \A s \in seen : Validate(installed[s[2]])
      /\ roots \cap NotDirectories = {}

(* module.go:243-329: the executable that is started for a name depends on *)
(* the order neither of the search path nor of a manifest; where two       *)
(* installations could be meant, none is started.                          *)
ExecutableIsUnique ==
  \A name \in {m.name : m \in Manifests} :
    LET resolved == ResolveModuleExecutable(name).list
    IN  \A directory \in DOMAIN installed :
          \A artifact \in ToSet(installed[directory].artifacts) :
            resolved = <<[directory |-> directory, artifact |-> artifact]>>
            <=> Startable(name, directory, artifact)
=============================================================================
