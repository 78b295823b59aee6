------------------------------ MODULE WheelBuild ------------------------------
(***************************************************************************)
(* The build of one wheel: the Makefile of its component, make's rule that  *)
(* a target older than a prerequisite is made again, and the collection of  *)
(* the root Makefile into dist/.                                            *)
(*                                                                          *)
(* A make ends early in two ways.  When a recipe fails, or make itself is   *)
(* killed, every file stays as it is: no Makefile has .DELETE_ON_ERROR.     *)
(* When make is interrupted by a signal, it deletes the target of the       *)
(* recipe it was in, if that has been touched, and no other file.           *)
(***************************************************************************)
EXTENDS Naturals, FiniteSets

CONSTANTS
  Versions,         \* versions of the package, in the order of their release
  Settings,         \* components and what may befall them, see below
  MaxMakes          \* bound: runs of make

\* How the Makefiles differ: regex (and pyyaml), cffi, pydantic-core (and
\* cryptography).
Components == {"regex", "cffi", "pydantic"}

ASSUME VersionAssumption == Versions \subseteq Nat \ {0} /\ MaxMakes \in Nat
ASSUME SettingsAssumption ==
  Settings \subseteq
    [component : Components,
     downgrades : BOOLEAN,  \* an older version may be checked out again
     tarMayFail : BOOLEAN,  \* tar may fail or be killed half-way
     packMayFail : BOOLEAN] \* zip-wheel.go or "wheel tags" may

Modes == {"release", "debug"}
Goals == {"component", "wheels", "all"}

\* Files; at: the time of modification, 0 if there is none.
NoSource == [whole |-> FALSE, at |-> 0]
NoModule == [ver |-> 0, mode |-> "release", at |-> 0]
NoWheel  == [ver |-> 0, mode |-> "release", whole |-> FALSE, at |-> 0]

VARIABLES
  setting,            \* one of Settings, for good
  pc,                 \* the rule make is at; "idle" between two runs
  run,                \* [goal, mode]: the goal and DEBUG of the command line
  makes, now,         \* runs so far; the clock of the file system
  version,            \* the version the Makefile names
  tarball,            \* of each version
  source,             \* its tree; at: of the file that is make's target in it
  patched,            \* cffi's .particle-patched in that tree
  stamp,              \* [mode, at]: .build-mode
  module,             \* the compiled module in the build directory
  out,                \* the component's out/
  copied, copying,    \* wheels in dist/ by now; the one being copied, or 0
  dist, sums, index,  \* dist/, SHA256SUMS in it, simple/
  done                \* the last run came to its end

given == <<setting, run, makes>>
sources == <<tarball, source, patched>>
build == <<stamp, module>>
collection == <<copied, copying>>
published == <<dist, sums, index>>
vars == <<given, pc, now, version, sources, build, out, collection, published,
          done>>

Stamped   == setting.component # "pydantic"
OrderOnly == setting.component \in {"regex", "cffi"}
Patches   == setting.component = "cffi"

Init ==
  /\ setting \in Settings
  /\ pc = "idle" /\ run = [goal |-> "component", mode |-> "release"]
  /\ makes = 0 /\ now = 1 /\ done = FALSE
  /\ version \in Versions
  /\ tarball = [v \in Versions |-> 0] /\ patched = tarball
  /\ source = [v \in Versions |-> NoSource]
  /\ stamp = [mode |-> "none", at |-> 0] /\ module = NoModule
  /\ out = [v \in Versions |-> NoWheel] /\ copied = {} /\ copying = 0
  /\ dist = out /\ sums = out /\ index = out

------------------------------------------------------------------------------
(* Between two runs: another version, a fresh checkout, and a make. *)

CheckOut(v) ==
  /\ pc = "idle" /\ v # version /\ (setting.downgrades \/ version < v)
  /\ version' = v /\ done' = FALSE
  /\ UNCHANGED <<given, pc, now, sources, build, out, collection, published>>

\* .cache/ is in the tree; what was unpacked and built is elsewhere and stays.
LoseTarballs ==
  /\ pc = "idle" /\ tarball' = [v \in Versions |-> 0]
  /\ UNCHANGED <<given, pc, now, version, source, patched, build, out,
                 collection, published, done>>

Make(goal, mode) ==
  /\ pc = "idle" /\ makes < MaxMakes
  /\ makes' = makes + 1 /\ run' = [goal |-> goal, mode |-> mode]
  /\ pc' = "tarball" /\ copied' = {} /\ done' = FALSE
  /\ UNCHANGED <<setting, now, version, sources, build, out, copying, published>>

\* A file is written at now'.
Tick == now' = now + 1

\* A recipe fails, or make is stopped, with the target as it was.  A wheel that
\* was being copied to dist/ is not a target: it stays cut off.
Stop ==
  /\ pc \notin {"idle", "untar", "touch", "packing"} /\ pc' = "idle"
  /\ copying' = 0
  /\ UNCHANGED <<given, now, version, sources, build, out, copied, published,
                 done>>

------------------------------------------------------------------------------
(* The sources. *)

Fetch ==
  /\ pc = "tarball" /\ pc' = "source"
  /\ IF tarball[version] = 0
     THEN Tick /\ tarball' = [tarball EXCEPT ![version] = now']
     ELSE UNCHANGED <<now, tarball>>
  /\ UNCHANGED <<given, version, source, patched, build, out, collection,
                 published, done>>

\* Where the tarball is an order-only prerequisite, any setup.py will do.
SourceOutdated ==
  \/ source[version].at = 0
  \/ ~OrderOnly /\ source[version].at < tarball[version]

RuleAfterSource ==
  CASE Patches -> "patch" [] ~Stamped -> "maturin" [] OTHER -> "stamp"

\* rm -rf; tar is started.
Unpack ==
  /\ pc = "source"
  /\ IF SourceOutdated
     THEN /\ pc' = "untar"
          /\ source' = [source EXCEPT ![version] = NoSource]
          /\ patched' = [patched EXCEPT ![version] = 0]
     ELSE pc' = RuleAfterSource /\ UNCHANGED <<source, patched>>
  /\ UNCHANGED <<given, now, version, tarball, build, out, collection,
                 published, done>>

\* tar gives a file the time it has in the archive, some time before it was
\* downloaded.
ArchiveTimes == {at \in 1..now : at < tarball[version]}
Unpacked(whole, at) ==
  source' = [source EXCEPT ![version] = [whole |-> whole, at |-> at]]

Untar ==
  /\ pc = "untar" /\ pc' = "touch"
  /\ \E at \in ArchiveTimes : Unpacked(TRUE, at)
  /\ UNCHANGED <<given, now, version, tarball, patched, build, out, collection,
                 published, done>>

\* Half of the tree is there, with or without the target.
TarFails ==
  /\ pc \in {"untar", "touch"} /\ setting.tarMayFail /\ pc' = "idle"
  /\ \/ pc = "untar" /\ \E at \in ArchiveTimes \cup {0} : Unpacked(FALSE, at)
     \/ pc = "touch" /\ UNCHANGED source
  /\ UNCHANGED <<given, now, version, tarball, patched, build, out, collection,
                 published, done>>

UntarInterrupted ==
  /\ pc \in {"untar", "touch"} /\ pc' = "idle" /\ Unpacked(FALSE, 0)
  /\ UNCHANGED <<given, now, version, tarball, patched, build, out, collection,
                 published, done>>

Touch ==
  /\ pc = "touch" /\ pc' = RuleAfterSource
  /\ Tick /\ source' = [source EXCEPT ![version].at = now']
  /\ UNCHANGED <<given, version, tarball, patched, build, out, collection,
                 published, done>>

Patch ==
  /\ pc = "patch" /\ pc' = "stamp"
  /\ IF patched[version] = 0 \/ patched[version] < source[version].at
     THEN Tick /\ patched' = [patched EXCEPT ![version] = now']
     ELSE UNCHANGED <<now, patched>>
  /\ UNCHANGED <<given, version, tarball, source, build, out, collection,
                 published, done>>

------------------------------------------------------------------------------
(* The mode and the module. *)

BuildMode(mode) == mode

\* Faulty variant: written only when there is none.
StampMissing(mode) == stamp.at = 0
StampDiffers(mode) == stamp.mode # BuildMode(mode)

Stamp ==
  /\ pc = "stamp" /\ pc' = "module"
  /\ IF StampDiffers(run.mode)
     THEN Tick /\ stamp' = [mode |-> BuildMode(run.mode), at |-> now']
     ELSE UNCHANGED <<now, stamp>>
  /\ UNCHANGED <<given, version, sources, module, out, collection, published,
                 done>>

\* The stamp is left empty, or make deletes it.
StampStops ==
  /\ pc = "stamp" /\ StampDiffers(run.mode) /\ pc' = "idle" /\ Tick
  /\ stamp' \in {[mode |-> "none", at |-> at] : at \in {0, now'}}
  /\ UNCHANGED <<given, version, sources, module, out, collection, published,
                 done>>

\* What the module is compiled from.
Prepared == IF Patches THEN patched[version] ELSE source[version].at

\* Faulty variant: the sources are an order-only prerequisite.
ModuleOlderThanStamp == module.at = 0 \/ module.at < stamp.at
ModuleOutdated ==
  module.at = 0 \/ module.at < stamp.at \/ module.at < Prepared

Compile ==
  /\ pc = "module" /\ pc' = "wheel"
  /\ IF ModuleOutdated
     THEN /\ Tick
          /\ module' = [ver |-> version, mode |-> run.mode, at |-> now']
     ELSE UNCHANGED <<now, module>>
  /\ UNCHANGED <<given, version, sources, stamp, out, collection, published,
                 done>>

\* The linker puts a file in place when it is finished; clang, or make, may
\* delete the one that was there.
CompileStops ==
  /\ pc = "module" /\ ModuleOutdated /\ pc' = "idle" /\ module' = NoModule
  /\ UNCHANGED <<given, now, version, sources, stamp, out, collection,
                 published, done>>

------------------------------------------------------------------------------
(* The wheel, which zip-wheel.go or "wheel tags" writes under its own name. *)

Assembled ==
  /\ pc' = IF run.goal = "component" THEN "idle" ELSE "collect"
  /\ done' = (run.goal = "component")

Begin(ver, mode) ==
  /\ Tick /\ pc' = "packing" /\ UNCHANGED done
  /\ out' = [out EXCEPT ![version] =
               [ver |-> ver, mode |-> mode, whole |-> FALSE, at |-> now']]

WheelOutdated ==
  out[version].at < module.at \/ out[version].at < source[version].at

\* The stage is filled, and zip-wheel.go makes the archive.
Pack ==
  /\ pc = "wheel"
  /\ IF WheelOutdated
     THEN Begin(module.ver, module.mode)
     ELSE Assembled /\ UNCHANGED <<now, out>>
  /\ UNCHANGED <<given, version, sources, build, collection, published>>

\* maturin has built a wheel of another name, which "wheel tags" copies.
Maturin ==
  /\ pc = "maturin"
  /\ IF out[version].at < source[version].at
     THEN Begin(version, run.mode)
     ELSE Assembled /\ UNCHANGED <<now, out>>
  /\ UNCHANGED <<given, version, sources, build, collection, published>>

Closed(wheel) == [wheel EXCEPT !.whole = source[version].whole]

Packed ==
  /\ pc = "packing" /\ Assembled
  /\ out' = [out EXCEPT ![version] = Closed(@)]
  /\ UNCHANGED <<given, now, version, sources, build, collection, published>>

\* The program reports an error or is killed: make stops, and keeps the target,
\* which is newer than its prerequisites.
PackFails ==
  /\ pc = "packing" /\ setting.packMayFail /\ pc' = "idle"
  /\ UNCHANGED <<given, now, version, sources, build, out, collection,
                 published, done>>

\* zip-wheel.go closes the writers by defer, and nobody looks at what Close
\* returns: the archive's last bytes are lost and make goes on.
CloseFails ==
  /\ pc = "packing" /\ Stamped /\ setting.packMayFail /\ Assembled
  /\ UNCHANGED <<given, now, version, sources, build, out, collection,
                 published>>

PackInterrupted ==
  /\ pc = "packing" /\ pc' = "idle"
  /\ out' = [out EXCEPT ![version] = NoWheel]
  /\ UNCHANGED <<given, now, version, sources, build, collection, published,
                 done>>

------------------------------------------------------------------------------
(* The root Makefile: one recipe, whose target is .collected, then index. *)

Wheels(dir) == {v \in Versions : dir[v].at # 0}

\* Faulty variant: wheels that dist/ has already are left out.
NotThere == Wheels(out) \ (copied \cup Wheels(dist))
ToCopy   == Wheels(out) \ copied

CopyBegins(v) ==
  /\ pc = "collect" /\ copying = 0 /\ v \in ToCopy
  /\ copying' = v /\ dist' = [dist EXCEPT ![v] = [out[v] EXCEPT !.whole = FALSE]]
  /\ UNCHANGED <<given, pc, now, version, sources, build, out, copied, sums,
                 index, done>>

Copied ==
  /\ pc = "collect" /\ copying # 0
  /\ copying' = 0 /\ copied' = copied \cup {copying}
  /\ dist' = [dist EXCEPT ![copying] = out[copying]]
  /\ UNCHANGED <<given, pc, now, version, sources, build, out, sums, index, done>>

\* Faulty variant: only the wheel the run was for.
SumsOfBuilt == [v \in Versions |-> IF v = version THEN dist[v] ELSE NoWheel]
SumsOfAll   == dist

AtSums == pc = "collect" /\ copying = 0 /\ ToCopy = {}

Sum ==
  /\ AtSums /\ sums' = SumsOfAll
  /\ pc' = IF run.goal = "all" THEN "index" ELSE "idle"
  /\ done' = (run.goal # "all")
  /\ UNCHANGED <<given, now, version, sources, build, out, collection, dist,
                 index>>

Index ==
  /\ pc = "index" /\ pc' = "idle" /\ index' = dist /\ done' = TRUE
  /\ UNCHANGED <<given, now, version, sources, build, out, collection, dist,
                 sums>>

\* Neither is deleted when its recipe stops, and both are cleared as it begins.
Empty == [v \in Versions |-> NoWheel]
PublishStops ==
  /\ \/ AtSums /\ sums' = Empty /\ UNCHANGED index
     \/ pc = "index" /\ index' = Empty /\ UNCHANGED sums
  /\ pc' = "idle"
  /\ UNCHANGED <<given, now, version, sources, build, out, collection, dist,
                 done>>

Next ==
  \/ \E v \in Versions : CheckOut(v) \/ CopyBegins(v)
  \/ \E goal \in Goals, mode \in Modes : Make(goal, mode)
  \/ LoseTarballs \/ Stop
  \/ Fetch \/ Unpack \/ Untar \/ TarFails \/ UntarInterrupted \/ Touch \/ Patch
  \/ Stamp \/ StampStops \/ Compile \/ CompileStops
  \/ Pack \/ Maturin \/ Packed \/ PackFails \/ CloseFails \/ PackInterrupted
  \/ Copied \/ Sum \/ Index \/ PublishStops
Spec == Init /\ [][Next]_vars

------------------------------------------------------------------------------
\* "Toggling DEBUG forces the relevant objects to recompile": a make that came
\* to its end leaves the wheel of its DEBUG in out/, whatever runs were stopped
\* before it (the .build-mode stamp; cargo's components have none).
BuiltAsAsked == done /\ Stamped => out[version].mode = run.mode

\* It leaves the module of the checked-out version in the wheel of that name,
\* unless versions that share a build directory go back, or tar fails where
\* nothing but the archive's own time vouches for what was unpacked: cffi has
\* .particle-patched, and the tarballs of cargo's are normal prerequisites.
BuiltFromVersion ==
  /\ done
  /\ Stamped => ~setting.downgrades
  /\ setting.component = "regex" => ~setting.tarMayFail
  => out[version].ver = version

\* A collection that came to its end has each wheel of out/ in dist/ with all it
\* should hold, whatever packing, unpacking or copying was cut off before it;
\* unless zip-wheel.go or "wheel tags" failed, or tar did where half a tree is
\* taken for unpacked.
DistWhole ==
  /\ done /\ run.goal # "component"
  /\ ~setting.packMayFail /\ (OrderOnly => ~setting.tarMayFail)
  => \A v \in Wheels(out) : dist[v].whole

\* It has the wheel just built there, and SHA256SUMS and simple/ tell the truth
\* of every file in dist/, those left from other versions included.
Published ==
  done /\ run.goal # "component" =>
    /\ dist[version] = out[version] /\ sums = dist
    /\ run.goal = "all" => index = dist
==============================================================================
