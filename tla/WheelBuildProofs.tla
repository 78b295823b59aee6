--------------------------- MODULE WheelBuildProofs ---------------------------
(***************************************************************************)
(* Theorems about the build of a wheel, for any versions, settings and      *)
(* number of makes, failed and interrupted ones among them.                 *)
(***************************************************************************)
EXTENDS WheelBuild, TLAPS

WheelSet  == [ver : Nat, mode : Modes, whole : BOOLEAN, at : Nat]
ModuleSet == [ver : Nat, mode : Modes, at : Nat]
SourceSet == [whole : BOOLEAN, at : Nat]

Types ==
  /\ setting \in Settings
  /\ pc \in {"idle", "tarball", "source", "untar", "touch", "patch", "stamp",
             "module", "wheel", "maturin", "packing", "collect", "index"}
  /\ run \in [goal : Goals, mode : Modes] /\ now \in Nat \ {0}
  /\ version \in Versions
  /\ tarball \in [Versions -> Nat] /\ source \in [Versions -> SourceSet]
  /\ patched \in [Versions -> Nat]
  /\ stamp \in [mode : Modes \cup {"none"}, at : Nat] /\ module \in ModuleSet
  /\ out \in [Versions -> WheelSet] /\ dist \in [Versions -> WheelSet]
  /\ copying \in Versions \cup {0} /\ done \in BOOLEAN

(* No file is from the future.                                               *)
Clock ==
  /\ stamp.at <= now /\ module.at <= now
  /\ \A v \in Versions : /\ tarball[v] <= now /\ source[v].at <= now
                         /\ patched[v] <= now /\ out[v].at <= now

(* What make is through with when it is at a rule.                           *)
Collecting  == {"collect", "index"}
AfterStamp  == {"module", "wheel", "packing"} \cup Collecting
AfterSource == {"patch", "stamp", "maturin"} \cup AfterStamp
Control ==
  /\ done => pc = "idle"
  /\ pc = "patch" => Patches
  /\ pc \in {"stamp", "module", "wheel"} => Stamped
  /\ pc = "maturin" => ~Stamped
  /\ pc \in Collecting => run.goal # "component"
  /\ pc = "index" => run.goal = "all"
  /\ pc \in AfterStamp /\ Stamped => stamp.mode = run.mode

(* What the sources are when make is through with their rule: those of an    *)
(* archive that was not cut off, if tar did not fail or their target is not  *)
(* older than the tarball.                                                   *)
SourceInv ==
  /\ pc \in {"source", "untar", "touch"} \cup AfterSource => tarball[version] # 0
  /\ pc \in AfterSource =>
       /\ source[version].at # 0
       /\ ~OrderOnly => source[version].at >= tarball[version]
  /\ pc \in AfterSource \ {"patch"} /\ Patches => patched[version] # 0
  /\ pc = "touch" => source[version].whole
  /\ \A v \in Versions : source[v].at # 0 =>
       \/ source[v].whole
       \/ setting.tarMayFail /\ source[v].at < tarball[v]
       \/ setting.tarMayFail /\ tarball[v] = 0
       \/ setting.tarMayFail /\ OrderOnly

(* A module that is not older than the stamp has its mode.  One that is not  *)
(* older than what it is compiled from is of that version, if versions only  *)
(* go up: what is touched or patched for a later version is so after it was  *)
(* compiled.                                                                 *)
Foreign(v) == module.at # 0 /\ module.ver # v
Onward ==
  /\ \A v \in Versions : v > version => source[v].at = 0 /\ patched[v] = 0
  /\ module.at # 0 => module.ver <= version
  /\ Foreign(version) =>
       /\ patched[version] # 0 => patched[version] > module.at
       /\ ~setting.tarMayFail /\ pc # "touch" /\ source[version].at # 0 =>
            source[version].at > module.at
ModuleInv ==
  /\ stamp.mode # "none" /\ module.at # 0 /\ module.at >= stamp.at =>
       module.mode = stamp.mode
  /\ pc = "wheel" \/ (pc = "packing" /\ Stamped) =>
       module.at # 0 /\ module.at >= stamp.at /\ module.at >= Prepared
  /\ ~setting.downgrades => Onward

(* A wheel that is not older than the module was packed from it; the wheel   *)
(* of the checked-out version is, when make is through with it.              *)
Vouched == /\ Stamped => ~setting.downgrades
           /\ setting.component = "regex" => ~setting.tarMayFail
Finished ==
  /\ out[version].at # 0
  /\ Stamped => out[version].mode = run.mode
  /\ Vouched => out[version].ver = version
WheelInv ==
  /\ ~Stamped => module.at = 0
  /\ ~Stamped => \A v \in Versions : out[v].at # 0 => out[v].ver = v
  /\ \A v \in Versions : module.at # 0 /\ out[v].at >= module.at =>
       out[v].mode = module.mode /\ out[v].ver = module.ver
  /\ pc = "packing" => out[version].at # 0
  /\ pc = "packing" /\ Stamped => out[version].at >= module.at
  /\ pc \in Collecting \/ done => Finished

(* Only the archive that is being packed is not whole, and dist/ has what    *)
(* was copied.                                                               *)
Sound == ~setting.packMayFail /\ (OrderOnly => ~setting.tarMayFail)
InDist == \A v \in Wheels(out) : dist[v] = out[v]
PublishInv ==
  /\ Sound => \A v \in Wheels(out) : (pc = "packing" /\ v = version) \/ out[v].whole
  /\ copying # 0 => pc = "collect" /\ copying \in ToCopy
  /\ pc \notin {"idle"} \cup Collecting => copied = {}
  /\ pc = "collect" => \A v \in Wheels(out) \cap copied : dist[v] = out[v]
  /\ pc = "index" => InDist /\ sums = dist
  /\ done /\ run.goal # "component" =>
       InDist /\ sums = dist /\ (run.goal = "all" => index = dist)

Inv == Types /\ Clock /\ Control /\ SourceInv /\ ModuleInv /\ WheelInv /\ PublishInv

(* What stands for a missing file is of the type of the file.               *)
LEMMA NoFiles == NoSource \in SourceSet /\ NoWheel \in WheelSet /\ NoModule \in ModuleSet
BY DEF NoSource, NoWheel, NoModule, SourceSet, WheelSet, ModuleSet, Modes

LEMMA InitInv == Init => Inv
<1> SUFFICES ASSUME Init PROVE Inv
  OBVIOUS
<1> USE DEF Init, NoWheel, NoModule, NoSource
<1>1. Types
  <2>1. /\ out \in [Versions -> WheelSet] /\ dist \in [Versions -> WheelSet]
        /\ source \in [Versions -> SourceSet] /\ module \in ModuleSet
    BY NoFiles
  <2>2. /\ tarball \in [Versions -> Nat] /\ patched \in [Versions -> Nat]
        /\ stamp \in [mode : Modes \cup {"none"}, at : Nat]
    OBVIOUS
  <2>3. run \in [goal : Goals, mode : Modes] /\ now \in Nat \ {0}
    BY DEF Modes, Goals
  <2>4. setting \in Settings /\ pc = "idle" /\ version \in Versions /\ copying = 0
        /\ done = FALSE
    OBVIOUS
  <2> HIDE DEF Init, NoWheel, NoModule, NoSource
  <2> QED BY <2>1, <2>2, <2>3, <2>4 DEF Types
<1>2. Clock /\ Control /\ SourceInv /\ ModuleInv /\ WheelInv
  BY DEF Clock, Control, SourceInv, ModuleInv, Onward, Foreign, WheelInv,
         Collecting, AfterStamp, AfterSource
<1>3. PublishInv
  BY DEF PublishInv, Wheels
<1> QED
  BY <1>1, <1>2, <1>3 DEF Inv

(* Numbers that the arithmetic of the steps below needs.                     *)
LEMMA Numbers ==
  ASSUME Inv
  PROVE  /\ now \in Nat /\ now # 0 /\ stamp.at \in Nat /\ module.at \in Nat
         /\ module.ver \in Nat /\ version \in Nat /\ version \in Versions
         /\ \A v \in Versions : /\ v \in Nat /\ v # 0 /\ tarball[v] \in Nat
                                /\ source[v].at \in Nat /\ patched[v] \in Nat
                                /\ out[v].at \in Nat
         /\ stamp.at <= now /\ module.at <= now
         /\ \A v \in Versions : /\ tarball[v] <= now /\ source[v].at <= now
                                /\ patched[v] <= now /\ out[v].at <= now
         /\ NoModule.at = 0 /\ NoWheel.at = 0 /\ NoSource.at = 0
         /\ NoModule.ver = 0
<1> USE DEF Inv, Types, Clock
<1>1. /\ now \in Nat /\ now # 0 /\ version \in Nat /\ version \in Versions
      /\ stamp.at <= now /\ module.at <= now
  BY VersionAssumption
<1>6. stamp.at \in Nat /\ module.at \in Nat /\ module.ver \in Nat
  BY DEF ModuleSet
<1>2. \A v \in Versions : /\ v \in Nat /\ v # 0 /\ tarball[v] \in Nat
                          /\ patched[v] \in Nat
  BY VersionAssumption
<1>3. \A v \in Versions : source[v].at \in Nat /\ out[v].at \in Nat
  BY DEF SourceSet, WheelSet
<1>4. \A v \in Versions : /\ tarball[v] <= now /\ source[v].at <= now
                          /\ patched[v] <= now /\ out[v].at <= now
  OBVIOUS
<1>5. /\ NoModule.at = 0 /\ NoWheel.at = 0 /\ NoSource.at = 0
      /\ NoModule.ver = 0
  BY DEF NoModule, NoWheel, NoSource
<1> HIDE DEF Inv, Types, Clock
<1> QED BY <1>1, <1>2, <1>3, <1>4, <1>5, <1>6

(* One entry of a function of the versions is written, the others are kept.  *)
LEMMA TarballWritten ==
  ASSUME Types, NEW t \in Nat, tarball' = [tarball EXCEPT ![version] = t]
  PROVE  /\ tarball' \in [Versions -> Nat] /\ tarball'[version] = t
         /\ \A v \in Versions : v # version => tarball'[v] = tarball[v]
BY DEF Types

LEMMA PatchedWritten ==
  ASSUME Types, NEW t \in Nat, patched' = [patched EXCEPT ![version] = t]
  PROVE  /\ patched' \in [Versions -> Nat] /\ patched'[version] = t
         /\ \A v \in Versions : v # version => patched'[v] = patched[v]
BY DEF Types

LEMMA SourceWritten ==
  ASSUME Types, NEW s \in SourceSet, source' = [source EXCEPT ![version] = s]
  PROVE  /\ source' \in [Versions -> SourceSet] /\ source'[version] = s
         /\ \A v \in Versions : v # version => source'[v] = source[v]
BY DEF Types

LEMMA WheelWritten ==
  ASSUME Types, NEW w \in WheelSet, out' = [out EXCEPT ![version] = w]
  PROVE  /\ out' \in [Versions -> WheelSet] /\ out'[version] = w
         /\ \A v \in Versions : v # version => out'[v] = out[v]
BY DEF Types

(* What each rule of the sources does to the entry of the checked-out        *)
(* version.                                                                  *)
LEMMA FetchDoes ==
  ASSUME Inv, Fetch
  PROVE  /\ pc = "tarball" /\ pc' = "source"
         /\ \/ tarball[version] # 0 /\ UNCHANGED <<now, tarball>>
            \/ /\ tarball[version] = 0 /\ now' = now + 1
               /\ tarball' \in [Versions -> Nat] /\ tarball'[version] = now + 1
               /\ \A v \in Versions : v # version => tarball'[v] = tarball[v]
<1>0. Types /\ now + 1 \in Nat
  BY Numbers DEF Inv
<1>1. CASE tarball[version] = 0
  <2>1. now' = now + 1 /\ tarball' = [tarball EXCEPT ![version] = now + 1]
    BY <1>1 DEF Fetch, Tick
  <2>2. /\ tarball' \in [Versions -> Nat] /\ tarball'[version] = now + 1
        /\ \A v \in Versions : v # version => tarball'[v] = tarball[v]
    BY <1>0, <2>1, TarballWritten
  <2> QED BY <1>1, <2>1, <2>2 DEF Fetch
<1>2. CASE tarball[version] # 0
  BY <1>2 DEF Fetch
<1> QED BY <1>1, <1>2

LEMMA UnpackDoes ==
  ASSUME Inv, Unpack
  PROVE  /\ pc = "source"
         /\ \/ /\ ~SourceOutdated /\ UNCHANGED <<source, patched>>
               /\ pc' = RuleAfterSource
            \/ /\ pc' = "untar" /\ source' \in [Versions -> SourceSet]
               /\ source'[version] = NoSource
               /\ \A v \in Versions : v # version => source'[v] = source[v]
               /\ patched' \in [Versions -> Nat] /\ patched'[version] = 0
               /\ \A v \in Versions : v # version => patched'[v] = patched[v]
<1>1. CASE SourceOutdated
  <2>1. /\ pc = "source" /\ pc' = "untar"
        /\ source' = [source EXCEPT ![version] = NoSource]
        /\ patched' = [patched EXCEPT ![version] = 0]
    BY <1>1 DEF Unpack
  <2> QED BY <2>1, SourceWritten, PatchedWritten, NoFiles DEF Inv
<1>2. CASE ~SourceOutdated
  BY <1>2 DEF Unpack
<1> QED BY <1>1, <1>2

(* tar, and what remains of a tree when it fails or is interrupted.          *)
LEMMA UntarDoes ==
  ASSUME Inv, Untar \/ TarFails \/ UntarInterrupted
  PROVE  /\ pc \in {"untar", "touch"} /\ pc' \in {"idle", "touch"}
         /\ pc' = "touch" => pc = "untar" /\ source'[version].whole
         /\ \/ pc' = "idle" /\ setting.tarMayFail /\ source' = source
            \/ /\ source' \in [Versions -> SourceSet]
               /\ \A v \in Versions : v # version => source'[v] = source[v]
               /\ \/ pc' = "idle" /\ source'[version].at = 0
                  \/ /\ source'[version].at \in 1..now
                     /\ source'[version].at < tarball[version]
                     /\ pc' = "touch" \/ setting.tarMayFail
<1>1. ASSUME NEW whole \in BOOLEAN, NEW at \in Nat, Unpacked(whole, at)
      PROVE  /\ source' \in [Versions -> SourceSet]
             /\ source'[version] = [whole |-> whole, at |-> at]
             /\ \A v \in Versions : v # version => source'[v] = source[v]
  <2>1. [whole |-> whole, at |-> at] \in SourceSet
    BY DEF SourceSet
  <2> QED BY <1>1, <2>1, SourceWritten DEF Unpacked, Inv
<1>2. \A at \in ArchiveTimes : at \in Nat /\ at \in 1..now /\ at < tarball[version]
  BY Numbers DEF ArchiveTimes
<1>3. CASE Untar
  <2>1. PICK at \in ArchiveTimes : Unpacked(TRUE, at)
    BY <1>3 DEF Untar
  <2>2. /\ source' \in [Versions -> SourceSet]
        /\ source'[version] = [whole |-> TRUE, at |-> at]
        /\ \A v \in Versions : v # version => source'[v] = source[v]
    BY <1>1, <1>2, <2>1
  <2>3. pc = "untar" /\ pc' = "touch"
    BY <1>3 DEF Untar
  <2>4. source'[version].whole /\ source'[version].at = at
    BY <2>2
  <2> QED BY <1>2, <2>2, <2>3, <2>4
<1>4. CASE TarFails
  <2>0. pc \in {"untar", "touch"} /\ pc' = "idle" /\ setting.tarMayFail
    BY <1>4 DEF TarFails
  <2>1. CASE pc = "untar"
    <3>1. PICK at \in ArchiveTimes \cup {0} : Unpacked(FALSE, at)
      BY <1>4, <2>1 DEF TarFails
    <3>2. at \in Nat /\ (at # 0 => at \in 1..now /\ at < tarball[version])
      BY <1>2, <3>1
    <3>3. /\ source' \in [Versions -> SourceSet]
          /\ source'[version] = [whole |-> FALSE, at |-> at]
          /\ \A v \in Versions : v # version => source'[v] = source[v]
      BY <1>1, <3>1, <3>2
    <3>4. source'[version].at = at
      BY <3>3
    <3> QED BY <2>0, <3>2, <3>3, <3>4
  <2>2. CASE pc = "touch"
    <3>1. source' = source
      BY <1>4, <2>2 DEF TarFails
    <3> QED BY <2>0, <3>1
  <2> QED BY <2>0, <2>1, <2>2
<1>5. CASE UntarInterrupted
  <2>0. pc \in {"untar", "touch"} /\ pc' = "idle" /\ Unpacked(FALSE, 0)
    BY <1>5 DEF UntarInterrupted
  <2>1. /\ source' \in [Versions -> SourceSet]
        /\ source'[version] = [whole |-> FALSE, at |-> 0]
        /\ \A v \in Versions : v # version => source'[v] = source[v]
    BY <1>1, <2>0
  <2> QED BY <2>0, <2>1
<1> QED BY <1>3, <1>4, <1>5

LEMMA TouchDoes ==
  ASSUME Inv, Touch
  PROVE  /\ pc = "touch" /\ pc' = RuleAfterSource /\ now' = now + 1
         /\ source' \in [Versions -> SourceSet]
         /\ source'[version].at = now + 1
         /\ source'[version].whole = source[version].whole
         /\ \A v \in Versions : v # version => source'[v] = source[v]
<1> DEFINE s == [source[version] EXCEPT !.at = now + 1]
<1>1. source[version] \in SourceSet /\ now + 1 \in Nat
  BY Numbers DEF Inv, Types
<1>2. s \in SourceSet /\ s.at = now + 1 /\ s.whole = source[version].whole
  BY <1>1 DEF SourceSet
<1>3. source' = [source EXCEPT ![version] = s]
  BY DEF Touch, Tick
<1> HIDE DEF s
<1> QED BY <1>2, <1>3, SourceWritten DEF Touch, Tick, Inv

LEMMA PatchDoes ==
  ASSUME Inv, Patch
  PROVE  /\ pc = "patch" /\ pc' = "stamp"
         /\ \/ patched[version] # 0 /\ UNCHANGED <<now, patched>>
            \/ /\ now' = now + 1
               /\ patched' \in [Versions -> Nat] /\ patched'[version] = now + 1
               /\ \A v \in Versions : v # version => patched'[v] = patched[v]
<1>0. Types /\ now + 1 \in Nat
  BY Numbers DEF Inv
<1>1. CASE patched[version] = 0 \/ patched[version] < source[version].at
  <2>1. now' = now + 1 /\ patched' = [patched EXCEPT ![version] = now + 1]
    BY <1>1 DEF Patch, Tick
  <2>2. /\ patched' \in [Versions -> Nat] /\ patched'[version] = now + 1
        /\ \A v \in Versions : v # version => patched'[v] = patched[v]
    BY <1>0, <2>1, PatchedWritten
  <2> QED BY <2>1, <2>2 DEF Patch
<1>2. CASE ~(patched[version] = 0 \/ patched[version] < source[version].at)
  BY <1>2 DEF Patch
<1> QED BY <1>1, <1>2

(* The steps that write the wheel of the checked-out version.                *)
LEMMA BeginDoes ==
  ASSUME Inv, NEW ver \in Nat, NEW mode \in Modes, Begin(ver, mode)
  PROVE  /\ pc' = "packing" /\ now' = now + 1 /\ done' = done
         /\ out' \in [Versions -> WheelSet]
         /\ out'[version].at = now + 1 /\ out'[version].ver = ver
         /\ out'[version].mode = mode
         /\ \A v \in Versions : v # version => out'[v] = out[v]
<1> DEFINE w == [ver |-> ver, mode |-> mode, whole |-> FALSE, at |-> now + 1]
<1>1. w \in WheelSet /\ w.at = now + 1 /\ w.ver = ver /\ w.mode = mode
  BY Numbers DEF WheelSet
<1>2. out' = [out EXCEPT ![version] = w] /\ pc' = "packing" /\ now' = now + 1
      /\ done' = done
  BY DEF Begin, Tick
<1> HIDE DEF w
<1> QED BY <1>1, <1>2, WheelWritten DEF Inv

LEMMA PackedDoes ==
  ASSUME Inv, Packed
  PROVE  /\ out' \in [Versions -> WheelSet]
         /\ out'[version].at = out[version].at
         /\ out'[version].ver = out[version].ver
         /\ out'[version].mode = out[version].mode
         /\ out'[version].whole = source[version].whole
         /\ \A v \in Versions : v # version => out'[v] = out[v]
<1> DEFINE w == Closed(out[version])
<1>1. out[version] \in WheelSet /\ source[version].whole \in BOOLEAN
  BY DEF Inv, Types, SourceSet
<1>2. /\ w \in WheelSet /\ w.at = out[version].at /\ w.ver = out[version].ver
      /\ w.mode = out[version].mode /\ w.whole = source[version].whole
  BY <1>1 DEF Closed, WheelSet
<1>3. out' = [out EXCEPT ![version] = w]
  BY DEF Packed
<1> HIDE DEF w
<1> QED BY <1>2, <1>3, WheelWritten DEF Inv

LEMMA AssembledDoes ==
  ASSUME Assembled
  PROVE  /\ pc' \in {"idle", "collect"}
         /\ pc' = "idle" <=> run.goal = "component"
         /\ done' <=> run.goal = "component"
         /\ done' \in BOOLEAN
BY DEF Assembled

(* The rule after the sources, by component.                                 *)
LEMMA NextRule ==
  /\ Patches => Stamped /\ OrderOnly /\ RuleAfterSource = "patch"
  /\ ~Stamped => ~Patches /\ ~OrderOnly /\ RuleAfterSource = "maturin"
  /\ Stamped /\ ~Patches => RuleAfterSource = "stamp"
BY DEF Patches, Stamped, OrderOnly, RuleAfterSource

LEMMA TypesStep == Inv /\ [Next]_vars => Types'
<1> SUFFICES ASSUME Inv, [Next]_vars PROVE Types'
  OBVIOUS
<1>0. Types /\ NoModule \in ModuleSet /\ NoWheel \in WheelSet
      /\ RuleAfterSource \in {"patch", "stamp", "maturin"} /\ now + 1 \in Nat \ {0}
  BY NextRule, NoFiles, Numbers DEF Inv
<1> USE DEF Types, given, sources, build, collection, published
<1>1. ASSUME NEW v \in Versions, CheckOut(v) PROVE Types'
  BY <1>0, <1>1 DEF CheckOut
<1>2. ASSUME NEW goal \in Goals, NEW mode \in Modes, Make(goal, mode) PROVE Types'
  BY <1>0, <1>2 DEF Make
<1>3. CASE LoseTarballs \/ Stop
  BY <1>0, <1>3 DEF LoseTarballs, Stop
<1>4. CASE Fetch
  <2>1. tarball' \in [Versions -> Nat] /\ now' \in {now, now + 1} /\ pc' = "source"
    BY <1>0, <1>4, FetchDoes
  <2> QED BY <1>0, <1>4, <2>1 DEF Fetch
<1>5. CASE Unpack
  <2>1. /\ source' \in [Versions -> SourceSet] /\ patched' \in [Versions -> Nat]
        /\ pc' \in {"patch", "stamp", "maturin", "untar"}
    BY <1>0, <1>5, UnpackDoes
  <2> QED BY <1>0, <1>5, <2>1 DEF Unpack
<1>6. CASE Untar \/ TarFails \/ UntarInterrupted
  <2>1. source' \in [Versions -> SourceSet] /\ pc' \in {"idle", "touch"}
    BY <1>0, <1>6, UntarDoes
  <2> QED BY <1>0, <1>6, <2>1 DEF Untar, TarFails, UntarInterrupted
<1>7. CASE Touch
  <2>1. /\ source' \in [Versions -> SourceSet] /\ now' = now + 1
        /\ pc' \in {"patch", "stamp", "maturin"}
    BY <1>0, <1>7, TouchDoes
  <2> QED BY <1>0, <1>7, <2>1 DEF Touch
<1>8. CASE Patch
  <2>1. patched' \in [Versions -> Nat] /\ now' \in {now, now + 1} /\ pc' = "stamp"
    BY <1>0, <1>8, PatchDoes
  <2> QED BY <1>0, <1>8, <2>1 DEF Patch
<1>9. CASE Stamp
  BY <1>0, <1>9 DEF Stamp, StampDiffers, BuildMode, Tick
<1>10. CASE StampStops
  BY <1>0, <1>10 DEF StampStops, Tick
<1>11. CASE Compile
  <2>1. version \in Nat
    BY Numbers
  <2> QED BY <1>0, <1>11, <2>1 DEF Compile, ModuleSet, Tick
<1>12. CASE CompileStops
  BY <1>0, <1>12 DEF CompileStops
<1>13. CASE Pack \/ Maturin
  <2>1. ASSUME NEW ver \in Nat, NEW mode \in Modes, Begin(ver, mode)
        PROVE  /\ out' \in [Versions -> WheelSet] /\ now' = now + 1
               /\ pc' = "packing" /\ done' = done
    BY <2>1, BeginDoes
  <2>2. module.ver \in Nat /\ module.mode \in Modes /\ version \in Nat
        /\ run.mode \in Modes
    BY <1>0, Numbers DEF ModuleSet
  <2>3. \/ /\ out' \in [Versions -> WheelSet] /\ now' = now + 1
           /\ pc' = "packing" /\ done' = done
        \/ Assembled /\ UNCHANGED <<now, out>>
    BY <1>13, <2>1, <2>2 DEF Pack, Maturin
  <2> QED BY <1>0, <1>13, <2>3, AssembledDoes DEF Pack, Maturin
<1>14. CASE Packed
  <2>1. out' \in [Versions -> WheelSet]
    BY <1>14, PackedDoes
  <2> QED BY <1>0, <1>14, <2>1, AssembledDoes DEF Packed
<1>15. CASE PackFails \/ PackInterrupted
  BY <1>0, <1>15 DEF PackFails, PackInterrupted
<1>16. CASE CloseFails
  BY <1>0, <1>16, AssembledDoes DEF CloseFails
<1>17. ASSUME NEW v \in Versions, CopyBegins(v) PROVE Types'
  <2>1. [out[v] EXCEPT !.whole = FALSE] \in WheelSet
    BY <1>0 DEF WheelSet
  <2> QED BY <1>0, <1>17, <2>1 DEF CopyBegins
<1>18. CASE Copied
  <2>1. copying \in Versions
    BY <1>0, <1>18 DEF Copied
  <2> QED BY <1>0, <1>18, <2>1 DEF Copied
<1>19. CASE Sum \/ Index \/ PublishStops
  BY <1>0, <1>19 DEF Sum, Index, PublishStops
<1>20. CASE UNCHANGED vars
  BY <1>0, <1>20 DEF vars
<1> QED
  BY <1>1, <1>2, <1>3, <1>4, <1>5, <1>6, <1>7, <1>8, <1>9, <1>10, <1>11, <1>12,
     <1>13, <1>14, <1>15, <1>16, <1>17, <1>18, <1>19, <1>20 DEF Next

(* Every file is written at a later time than those before it.               *)
LEMMA ClockStep == Inv /\ [Next]_vars => Clock'
<1> SUFFICES ASSUME Inv, [Next]_vars PROVE Clock'
  OBVIOUS
<1> USE DEF Clock, given, sources, build, collection, published
<1>0. Clock
  BY DEF Inv
<1>1. ASSUME NEW v \in Versions, CheckOut(v) \/ CopyBegins(v) PROVE Clock'
  BY <1>0, <1>1 DEF CheckOut, CopyBegins
<1>2. ASSUME NEW goal, NEW mode, Make(goal, mode) PROVE Clock'
  BY <1>0, <1>2 DEF Make
<1>3. CASE Stop \/ PackFails \/ CloseFails \/ Copied \/ Sum \/ Index \/ PublishStops
  BY <1>0, <1>3 DEF Stop, PackFails, CloseFails, Copied, Sum, Index, PublishStops
<1>4. CASE LoseTarballs
  BY <1>0, <1>4, Numbers DEF LoseTarballs
<1>5. CASE Fetch
  <2>1. /\ now' \in {now, now + 1}
        /\ \A v \in Versions : tarball'[v] = tarball[v] \/ tarball'[v] = now'
    BY <1>5, FetchDoes
  <2> QED BY <1>5, <2>1, Numbers DEF Fetch
<1>6. CASE Unpack
  <2>1. \A v \in Versions : /\ source'[v] = source[v] \/ source'[v] = NoSource
                            /\ patched'[v] = patched[v] \/ patched'[v] = 0
    BY <1>6, UnpackDoes
  <2> QED BY <1>6, <2>1, Numbers DEF Unpack
<1>7. CASE Untar \/ TarFails \/ UntarInterrupted
  <2>1. \A v \in Versions : \/ source'[v] = source[v] \/ source'[v].at = 0
                            \/ source'[v].at \in 1..now
    BY <1>7, UntarDoes
  <2>2. \A v \in Versions : source'[v].at <= now
    BY <2>1, Numbers
  <2>3. UNCHANGED <<now, stamp, module, tarball, patched, out>>
    BY <1>7 DEF Untar, TarFails, UntarInterrupted
  <2> QED BY <1>0, <2>2, <2>3
<1>8. CASE Touch
  <2>1. /\ now' = now + 1
        /\ \A v \in Versions : source'[v] = source[v] \/ source'[v].at = now'
    BY <1>8, TouchDoes
  <2> QED BY <1>8, <2>1, Numbers DEF Touch
<1>9. CASE Patch
  <2>1. /\ now' \in {now, now + 1}
        /\ \A v \in Versions : patched'[v] = patched[v] \/ patched'[v] = now'
    BY <1>9, PatchDoes
  <2> QED BY <1>9, <2>1, Numbers DEF Patch
<1>10. CASE Stamp \/ StampStops
  BY <1>10, Numbers DEF Stamp, StampStops, Tick
<1>11. CASE Compile \/ CompileStops
  BY <1>11, Numbers DEF Compile, CompileStops, Tick
<1>12. CASE Pack \/ Maturin
  <2>1. ASSUME NEW ver \in Nat, NEW mode \in Modes, Begin(ver, mode)
        PROVE  /\ now' = now + 1
               /\ \A v \in Versions : out'[v] = out[v] \/ out'[v].at = now'
    BY <2>1, BeginDoes
  <2>2. module.ver \in Nat /\ module.mode \in Modes /\ version \in Nat
        /\ run.mode \in Modes
    BY Numbers DEF Inv, Types, ModuleSet
  <2>3. \/ /\ now' = now + 1
           /\ \A v \in Versions : out'[v] = out[v] \/ out'[v].at = now'
        \/ UNCHANGED <<now, out>>
    BY <1>12, <2>1, <2>2 DEF Pack, Maturin
  <2> QED BY <1>12, <2>3, Numbers DEF Pack, Maturin
<1>13. CASE Packed
  <2>1. \A v \in Versions : out'[v].at = out[v].at
    BY <1>13, PackedDoes
  <2> QED BY <1>0, <1>13, <2>1 DEF Packed
<1>14. CASE PackInterrupted
  <2>1. \A v \in Versions : out'[v] = out[v] \/ out'[v] = NoWheel
    BY <1>14 DEF PackInterrupted, Inv, Types
  <2> QED BY <1>14, <2>1, Numbers DEF PackInterrupted
<1>15. CASE UNCHANGED vars
  BY <1>0, <1>15 DEF vars
<1> QED
  BY <1>1, <1>2, <1>3, <1>4, <1>5, <1>6, <1>7, <1>8, <1>9, <1>10, <1>11, <1>12,
     <1>13, <1>14, <1>15 DEF Next

LEMMA ControlStep == Inv /\ [Next]_vars => Control'
<1> SUFFICES ASSUME Inv, [Next]_vars PROVE Control'
  OBVIOUS
<1> USE DEF Control, AfterStamp, Collecting, given, sources, build, collection,
            published, Stamped, Patches
<1>0. Control /\ run.goal \in Goals
  BY DEF Inv, Types
<1>1. ASSUME NEW v \in Versions, CheckOut(v) \/ CopyBegins(v) PROVE Control'
  BY <1>0, <1>1 DEF CheckOut, CopyBegins
<1>2. ASSUME NEW goal, NEW mode, Make(goal, mode) PROVE Control'
  BY <1>0, <1>2 DEF Make
<1>3. CASE LoseTarballs \/ Stop \/ CompileStops \/ PackFails \/ PackInterrupted
  BY <1>0, <1>3
     DEF LoseTarballs, Stop, CompileStops, PackFails, PackInterrupted
<1>4. CASE Fetch
  BY <1>0, <1>4 DEF Fetch
<1>5. CASE Unpack \/ Touch
  <2>1. pc' \in {"untar", RuleAfterSource} /\ ~done' /\ UNCHANGED <<setting, run>>
    BY <1>0, <1>5 DEF Unpack, Touch
  <2>2. pc' = "stamp" => Stamped
    BY <2>1, NextRule
  <2>3. (pc' = "maturin" => ~Stamped) /\ (pc' = "patch" => Patches)
    BY <2>1, NextRule
  <2>4. pc' \in {"untar", "patch", "stamp", "maturin"}
    BY <2>1, NextRule
  <2> QED BY <2>1, <2>2, <2>3, <2>4
<1>6. CASE Untar \/ TarFails \/ UntarInterrupted
  <2>1. pc \in {"untar", "touch"} /\ pc' \in {"idle", "touch"}
    BY <1>6, UntarDoes
  <2>2. done' = done
    BY <1>6 DEF Untar, TarFails, UntarInterrupted
  <2> QED BY <1>0, <2>1, <2>2
<1>7. CASE Patch
  <2>1. Stamped
    BY <1>0, <1>7 DEF Patch
  <2> QED BY <1>0, <1>7, <2>1 DEF Patch
<1>8. CASE Stamp
  <2>1. stamp'.mode = run.mode /\ pc' = "module"
    BY <1>8 DEF Stamp, StampDiffers, BuildMode
  <2> QED BY <1>0, <1>8, <2>1 DEF Stamp
<1>9. CASE StampStops
  BY <1>0, <1>9 DEF StampStops
<1>10. CASE Compile
  BY <1>0, <1>10 DEF Compile
<1>11. CASE Pack \/ Maturin
  <2>1. \/ pc' = "packing" /\ done' = done
        \/ Assembled
    BY <1>11 DEF Pack, Maturin, Begin
  <2>2. /\ pc \in {"wheel", "maturin"} /\ UNCHANGED <<setting, run, stamp>>
        /\ ~done
    BY <1>0, <1>11 DEF Pack, Maturin
  <2> QED BY <1>0, <2>1, <2>2, AssembledDoes
<1>12. CASE Packed \/ CloseFails
  BY <1>0, <1>12, AssembledDoes DEF Packed, CloseFails
<1>13. CASE Copied \/ Index \/ PublishStops
  BY <1>0, <1>13 DEF Copied, Index, PublishStops, AtSums
<1>14. CASE Sum
  BY <1>0, <1>14 DEF Sum, AtSums
<1>15. CASE UNCHANGED vars
  BY <1>0, <1>15 DEF vars
<1> QED
  BY <1>1, <1>2, <1>3, <1>4, <1>5, <1>6, <1>7, <1>8, <1>9, <1>10, <1>11, <1>12,
     <1>13, <1>14, <1>15 DEF Next

(* A step that leaves the sources alone and does not come to them.           *)
LEMMA SourcesKept ==
  ASSUME Inv, UNCHANGED <<setting, version, sources>>,
         \/ pc' \in {"idle", "tarball"}
         \/ pc' = pc
         \/ /\ pc \in AfterSource \ {"patch"}
            /\ pc' \in AfterSource \ {"patch"}
  PROVE  SourceInv'
BY DEF Inv, SourceInv, AfterSource, AfterStamp, Collecting, sources, OrderOnly,
       Patches

LEMMA SourceStep == Inv /\ [Next]_vars => SourceInv'
<1> SUFFICES ASSUME Inv, [Next]_vars PROVE SourceInv'
  OBVIOUS
<1>0. SourceInv
  BY DEF Inv
<1> USE DEF given, build, collection, published
<1>1. ASSUME NEW v \in Versions, CheckOut(v) PROVE SourceInv'
  BY <1>0, <1>1
     DEF CheckOut, SourceInv, AfterSource, AfterStamp, Collecting, sources,
         OrderOnly
<1>2. ASSUME NEW goal, NEW mode, Make(goal, mode) PROVE SourceInv'
  BY <1>2, SourcesKept DEF Make
<1>3. CASE LoseTarballs
  <2>1. /\ pc' = "idle" /\ UNCHANGED <<setting, source>>
        /\ \A v \in Versions : tarball'[v] = 0
    BY <1>3 DEF LoseTarballs
  <2> QED BY <1>0, <2>1
          DEF SourceInv, AfterSource, AfterStamp, Collecting, OrderOnly
<1>4. CASE Fetch
  <2>1. pc' = "source" /\ UNCHANGED <<setting, version, source>>
    BY <1>4 DEF Fetch
  <2>2. /\ tarball'[version] # 0
        /\ \A v \in Versions : \/ tarball'[v] = tarball[v]
                              \/ tarball'[v] = now + 1
    BY <1>4, FetchDoes, Numbers
  <2>3. \A v \in Versions : source[v].at < now + 1
    BY Numbers
  <2> QED BY <1>0, <2>1, <2>2, <2>3
          DEF SourceInv, AfterSource, AfterStamp, Collecting, OrderOnly
<1>5. CASE Unpack
  <2>1. /\ pc = "source" /\ UNCHANGED <<setting, version, tarball>>
        /\ tarball[version] # 0
    BY <1>0, <1>5 DEF Unpack, SourceInv
  <2>2. CASE ~SourceOutdated /\ UNCHANGED <<source, patched>> /\ pc' = RuleAfterSource
    <3>1. /\ source[version].at # 0
          /\ ~OrderOnly => source[version].at >= tarball[version]
      BY <2>2, Numbers DEF SourceOutdated
    <3>2. pc' \in {"patch", "stamp", "maturin"} /\ (Patches => pc' = "patch")
      BY <2>2, NextRule
    <3> QED BY <1>0, <2>1, <2>2, <3>1, <3>2
            DEF SourceInv, AfterSource, AfterStamp, Collecting, OrderOnly, Patches
  <2>3. CASE pc' = "untar" /\ \A v \in Versions : source'[v] \in {source[v], NoSource}
    BY <1>0, <2>1, <2>3, Numbers
       DEF SourceInv, AfterSource, AfterStamp, Collecting, OrderOnly
  <2> QED BY <1>5, <2>2, <2>3, UnpackDoes
<1>6. CASE Untar \/ TarFails \/ UntarInterrupted
  <2>1. /\ UNCHANGED <<setting, version, tarball, patched>>
        /\ pc' \in {"idle", "touch"} /\ (pc' = "touch" => source'[version].whole)
        /\ tarball[version] # 0
    BY <1>0, <1>6, UntarDoes DEF Untar, TarFails, UntarInterrupted, SourceInv
  <2>2. \A v \in Versions : \/ source'[v] = source[v] \/ source'[v].at = 0
                            \/ source'[v].whole
                            \/ setting.tarMayFail /\ source'[v].at < tarball[v]
    BY <1>6, UntarDoes
  <2> QED BY <1>0, <2>1, <2>2
          DEF SourceInv, AfterSource, AfterStamp, Collecting, OrderOnly
<1>7. CASE Touch
  <2>1. /\ UNCHANGED <<setting, version, tarball>>
        /\ tarball[version] # 0 /\ source[version].whole
    BY <1>0, <1>7, TouchDoes DEF Touch, SourceInv
  <2>2. /\ pc' \in {"patch", "stamp", "maturin"} /\ (Patches => pc' = "patch")
        /\ source'[version].at = now + 1 /\ source'[version].whole
        /\ \A v \in Versions : v # version => source'[v] = source[v]
    BY <1>7, <2>1, NextRule, TouchDoes
  <2>3. source'[version].at # 0 /\ source'[version].at >= tarball[version]
    BY <2>2, Numbers
  <2> QED BY <1>0, <2>1, <2>2, <2>3
          DEF SourceInv, AfterSource, AfterStamp, Collecting, OrderOnly, Patches
<1>8. CASE Patch
  <2>1. /\ UNCHANGED <<setting, version, tarball, source>> /\ pc = "patch"
        /\ pc' = "stamp" /\ patched'[version] # 0
    BY <1>8, PatchDoes, Numbers DEF Patch
  <2> QED BY <1>0, <2>1
          DEF SourceInv, AfterSource, AfterStamp, Collecting, OrderOnly, Patches
<1>9. CASE \/ Stop \/ StampStops \/ CompileStops \/ PackFails \/ PackInterrupted
           \/ PublishStops
  BY <1>9, SourcesKept
     DEF Stop, StampStops, CompileStops, PackFails, PackInterrupted, PublishStops
<1>10. CASE Stamp \/ Compile
  BY <1>10, SourcesKept DEF Stamp, Compile, AfterSource, AfterStamp
<1>11. CASE Pack \/ Maturin \/ Packed \/ CloseFails
  <2>1. /\ pc \in {"wheel", "maturin", "packing"}
        /\ UNCHANGED <<setting, version, sources>>
    BY <1>11 DEF Pack, Maturin, Packed, CloseFails
  <2>2. pc' = "packing" \/ Assembled
    BY <1>11 DEF Pack, Maturin, Packed, CloseFails, Begin
  <2>3. pc' \in {"idle", "packing", "collect"}
    BY <2>2, AssembledDoes
  <2> QED BY <2>1, <2>3, SourcesKept DEF AfterSource, AfterStamp, Collecting
<1>12. CASE Copied \/ Index \/ \E v \in Versions : CopyBegins(v)
  BY <1>12, SourcesKept DEF Copied, Index, CopyBegins
<1>13. CASE Sum
  BY <1>13, SourcesKept DEF Sum, AtSums, AfterSource, AfterStamp, Collecting
<1>14. CASE UNCHANGED vars
  BY <1>14, SourcesKept DEF vars
<1> QED
  BY <1>1, <1>2, <1>3, <1>4, <1>5, <1>6, <1>7, <1>8, <1>9, <1>10, <1>11, <1>12,
     <1>13, <1>14 DEF Next

(* A step that leaves everything that vouches for the module alone, but for  *)
(* a stop that deletes the module.                                           *)
LEMMA ModuleKept ==
  ASSUME Inv, UNCHANGED <<setting, version, stamp, sources>>,
         module' \in {module, NoModule}, pc # "touch",
         pc' = "wheel" \/ (pc' = "packing" /\ Stamped) =>
           (pc = "wheel" \/ (pc = "packing" /\ Stamped)) /\ module' = module
  PROVE  ModuleInv'
<1>1. module' = module \/ module'.at = 0
  BY Numbers
<1> QED BY <1>1 DEF Inv, ModuleInv, Onward, Foreign, Prepared, Patches, Stamped, sources

(* A step of the sources' rules: what it writes is newer than the module.    *)
LEMMA SourcesNewer ==
  ASSUME Inv, UNCHANGED <<setting, version, stamp, module>>,
         pc' \notin {"wheel", "packing"},
         \A v \in Versions : v # version =>
           source'[v] = source[v] /\ patched'[v] = patched[v],
         patched'[version] \in {patched[version], 0, now + 1},
         \/ source'[version] = source[version] /\ pc # "touch"
         \/ source'[version].at \in {0, now + 1}
         \/ pc' = "touch"
         \/ setting.tarMayFail
  PROVE  ModuleInv'
<1>1. ASSUME ~setting.downgrades PROVE Onward'
  <2>1. Onward
    BY <1>1 DEF Inv, ModuleInv
  <2>2. \A v \in Versions : v > version => v # version
    BY Numbers
  <2>3. \A v \in Versions : v > version =>
          source'[v].at = 0 /\ patched'[v] = 0
    BY <2>1, <2>2 DEF Onward
  <2>4. module.at < now + 1
    BY Numbers
  <2>5. ASSUME Foreign(version)
        PROVE  /\ patched'[version] # 0 => patched'[version] > module.at
               /\ ~setting.tarMayFail /\ pc' # "touch" /\ source'[version].at # 0 =>
                    source'[version].at > module.at
    BY <2>1, <2>4, <2>5, Numbers DEF Onward
  <2> QED BY <2>1, <2>3, <2>5 DEF Onward, Foreign
<1> QED BY <1>1 DEF Inv, ModuleInv

LEMMA ModuleStep == Inv /\ [Next]_vars => ModuleInv'
<1> SUFFICES ASSUME Inv, [Next]_vars PROVE ModuleInv'
  OBVIOUS
<1> USE DEF given, build, collection, published
<1>1. ASSUME NEW v \in Versions, CheckOut(v) PROVE ModuleInv'
  <2>1. /\ pc' = "idle" /\ version' = v /\ (setting.downgrades \/ version < v)
        /\ UNCHANGED <<setting, stamp, sources, module>>
    BY <1>1 DEF CheckOut
  <2>2. ASSUME ~setting.downgrades PROVE Onward'
    <3>1. Onward /\ version < v
      BY <2>1, <2>2 DEF Inv, ModuleInv
    <3>2. \A u \in Versions : u >= v =>
            source[u].at = 0 /\ patched[u] = 0
      BY <3>1, Numbers DEF Onward
    <3>3. module.at # 0 => module.ver <= v
      BY <3>1, Numbers DEF Onward
    <3> QED BY <2>1, <3>2, <3>3, Numbers DEF Onward, sources
  <2> QED BY <2>1, <2>2 DEF Inv, ModuleInv
<1>2. ASSUME NEW goal, NEW mode, Make(goal, mode) PROVE ModuleInv'
  BY <1>2, ModuleKept DEF Make
<1>3. CASE LoseTarballs
  <2>1. /\ pc = "idle" /\ pc' = "idle" /\ \A v \in Versions : tarball'[v] = 0
        /\ UNCHANGED <<setting, version, stamp, module, source, patched>>
    BY <1>3 DEF LoseTarballs
  <2>2. ASSUME ~setting.downgrades PROVE Onward'
    BY <2>1, <2>2, Numbers DEF Inv, ModuleInv, Onward, Foreign
  <2> QED BY <2>1, <2>2 DEF Inv, ModuleInv
<1>4. CASE Fetch
  <2>1. /\ pc = "tarball" /\ pc' = "source"
        /\ UNCHANGED <<setting, version, stamp, module, source, patched>>
    BY <1>4 DEF Fetch
  <2> QED BY <2>1, SourcesNewer
<1>5. CASE Unpack
  <2>1. /\ \A v \in Versions : v # version =>
             source'[v] = source[v] /\ patched'[v] = patched[v]
        /\ source'[version] = source[version] \/ source'[version].at = 0
        /\ patched'[version] \in {patched[version], 0}
        /\ pc' \in {RuleAfterSource, "untar"} /\ pc = "source"
    BY <1>5, UnpackDoes, Numbers
  <2>2. UNCHANGED <<setting, version, stamp, module>>
    BY <1>5 DEF Unpack
  <2>3. pc' \notin {"wheel", "packing"}
    BY <2>1, NextRule
  <2> QED BY <2>1, <2>2, <2>3, SourcesNewer
<1>6. CASE Untar \/ TarFails \/ UntarInterrupted
  <2>1. /\ \A v \in Versions : v # version => source'[v] = source[v]
        /\ \/ source'[version].at = 0 \/ pc' = "touch" \/ setting.tarMayFail
        /\ pc' \in {"idle", "touch"}
    BY <1>6, UntarDoes
  <2>2. UNCHANGED <<setting, version, stamp, module, patched>>
    BY <1>6 DEF Untar, TarFails, UntarInterrupted
  <2> QED BY <2>1, <2>2, SourcesNewer
<1>7. CASE Touch
  <2>1. /\ \A v \in Versions : v # version => source'[v] = source[v]
        /\ source'[version].at = now + 1 /\ pc' = RuleAfterSource
    BY <1>7, TouchDoes
  <2>2. UNCHANGED <<setting, version, stamp, module, patched>>
    BY <1>7 DEF Touch
  <2>3. pc' \notin {"wheel", "packing"}
    BY <2>1, NextRule
  <2> QED BY <2>1, <2>2, <2>3, SourcesNewer
<1>8. CASE Patch
  <2>1. /\ \A v \in Versions : v # version => patched'[v] = patched[v]
        /\ patched'[version] \in {patched[version], now + 1}
        /\ pc = "patch" /\ pc' = "stamp"
    BY <1>8, PatchDoes
  <2>2. UNCHANGED <<setting, version, stamp, module, source>>
    BY <1>8 DEF Patch
  <2> QED BY <2>1, <2>2, SourcesNewer
<1>9. CASE Stamp \/ StampStops
  <2>1. /\ pc = "stamp" /\ pc' \in {"module", "idle"}
        /\ UNCHANGED <<setting, version, sources, module>>
        /\ stamp' = stamp \/ stamp'.at = now + 1 \/ stamp'.mode = "none"
    BY <1>9 DEF Stamp, StampStops, Tick
  <2> QED BY <2>1, Numbers DEF Inv, ModuleInv, Onward, Foreign, sources
<1>10. CASE Compile
  <2>0. /\ pc = "module" /\ pc' = "wheel" /\ stamp.mode = run.mode
        /\ UNCHANGED <<setting, version, stamp, sources>>
    BY <1>10 DEF Compile, Inv, Control, AfterStamp
  <2>1. Prepared' = Prepared /\ Prepared <= now
    BY <2>0, Numbers DEF Prepared, Patches, sources
  <2>2. CASE ModuleOutdated
    <3>1. module' = [ver |-> version, mode |-> run.mode, at |-> now + 1]
      BY <1>10, <2>2 DEF Compile, Tick
    <3>2. module'.ver = version /\ module'.mode = run.mode /\ module'.at = now + 1
      BY <3>1
    <3>3. ~setting.downgrades => Onward'
      BY <2>0, <3>2, Numbers DEF Inv, ModuleInv, Onward, Foreign, sources
    <3>4. module'.at >= Prepared'
      BY <2>1, <3>2, Numbers DEF Prepared
    <3> QED BY <2>0, <3>2, <3>3, <3>4, Numbers DEF ModuleInv
  <2>3. CASE ~ModuleOutdated
    <3>1. module' = module /\ module.at # 0 /\ ~(module.at < stamp.at)
          /\ ~(module.at < Prepared)
      BY <1>10, <2>3 DEF Compile, ModuleOutdated
    <3>2. module.at >= stamp.at /\ module.at >= Prepared
      BY <3>1, Numbers DEF Prepared
    <3>3. ~setting.downgrades => Onward'
      BY <2>0, <3>1 DEF Inv, ModuleInv, Onward, Foreign, sources
    <3> QED BY <2>0, <2>1, <3>1, <3>2, <3>3 DEF Inv, ModuleInv
  <2> QED BY <2>2, <2>3
<1>11. CASE Stop \/ CompileStops \/ PackFails \/ PackInterrupted \/ PublishStops
  BY <1>11, ModuleKept
     DEF Stop, CompileStops, PackFails, PackInterrupted, PublishStops, AtSums
<1>12. CASE Pack
  BY <1>12, ModuleKept DEF Pack
<1>13. CASE Maturin
  <2>1. ~Stamped /\ pc = "maturin"
    BY <1>13 DEF Maturin, Inv, Control
  <2>2. pc' = "packing" \/ Assembled
    BY <1>13 DEF Maturin, Begin
  <2>3. UNCHANGED <<setting, version, stamp, sources, module>>
    BY <1>13 DEF Maturin
  <2> QED BY <2>1, <2>2, <2>3, AssembledDoes, ModuleKept
<1>14. CASE Packed \/ CloseFails
  <2>1. pc = "packing" /\ pc' \in {"idle", "collect"}
        /\ UNCHANGED <<setting, version, stamp, sources, module>>
    BY <1>14, AssembledDoes DEF Packed, CloseFails
  <2> QED BY <2>1, ModuleKept
<1>15. CASE Copied \/ Sum \/ Index \/ \E v \in Versions : CopyBegins(v)
  BY <1>15, ModuleKept DEF Copied, Sum, Index, CopyBegins, AtSums
<1>16. CASE UNCHANGED vars
  BY <1>16
     DEF vars, Inv, ModuleInv, Onward, Foreign, Prepared, Patches, Stamped, sources
<1> QED
  BY <1>1, <1>2, <1>3, <1>4, <1>5, <1>6, <1>7, <1>8, <1>9, <1>10, <1>11, <1>12,
     <1>13, <1>14, <1>15, <1>16 DEF Next

(* The module that is packed is of the checked-out version.                  *)
LEMMA ModuleFromVersion ==
  ASSUME Inv, pc = "wheel" \/ (pc = "packing" /\ Stamped), Vouched
  PROVE  module.ver = version
<1>0. /\ Stamped /\ ~setting.downgrades
      /\ setting.component = "regex" => ~setting.tarMayFail
  BY DEF Inv, Control, Vouched
<1>1. /\ module.at # 0 /\ module.at >= Prepared
      /\ Onward
  BY <1>0 DEF Inv, ModuleInv
<1>2. source[version].at # 0 /\ (Patches => patched[version] # 0)
  BY DEF Inv, SourceInv, AfterSource, AfterStamp
<1>3. SUFFICES ASSUME Foreign(version) PROVE FALSE
  BY <1>1 DEF Foreign
<1>4. CASE Patches
  <2>1. patched[version] > module.at
    BY <1>1, <1>2, <1>3, <1>4 DEF Onward
  <2> QED BY <1>1, <1>4, <2>1, Numbers DEF Prepared
<1>5. CASE ~Patches
  <2>1. ~setting.tarMayFail
    BY <1>0, <1>5, SettingsAssumption DEF Components, Stamped, Patches, Inv, Types
  <2>2. source[version].at > module.at
    BY <1>1, <1>2, <1>3, <2>1 DEF Onward
  <2> QED BY <1>1, <1>5, <2>2, Numbers DEF Prepared
<1> QED BY <1>4, <1>5

(* The wheel of the checked-out version, if it is not older than the module  *)
(* that the rule for it was given, is the one asked for.                     *)
LEMMA PackedIsFinished ==
  ASSUME Inv, pc = "wheel" \/ (pc = "packing" /\ Stamped),
         out[version].at >= module.at
  PROVE  Finished
<1>1. Stamped /\ stamp.mode = run.mode /\ run.mode \in Modes
  BY DEF Inv, Types, Control, AfterStamp
<1>2. module.at # 0 /\ module.at >= stamp.at
  BY DEF Inv, ModuleInv
<1>3. out[version].mode = module.mode /\ out[version].ver = module.ver
  BY <1>2, Numbers DEF Inv, WheelInv
<1>4. module.mode = run.mode
  BY <1>1, <1>2 DEF Inv, ModuleInv, Modes
<1>5. out[version].at # 0
  BY <1>2, Numbers
<1> QED BY <1>3, <1>4, <1>5, ModuleFromVersion DEF Finished

LEMMA PackingIsFinished ==
  ASSUME Inv, pc = "packing"
  PROVE  Finished
<1>1. CASE Stamped
  BY <1>1, PackedIsFinished DEF Inv, WheelInv
<1>2. CASE ~Stamped
  BY <1>2, Numbers DEF Inv, WheelInv, Finished
<1> QED BY <1>1, <1>2

(* A step that touches neither the wheels nor the module, but for a stop.    *)
LEMMA WheelsKept ==
  ASSUME Inv, UNCHANGED <<setting, out>>, module' \in {module, NoModule},
         pc' = "packing" => pc = "packing" /\ UNCHANGED <<version, module>>,
         pc' \in Collecting \/ done' =>
           (pc \in Collecting \/ done) /\ UNCHANGED <<version, run>>
  PROVE  WheelInv'
<1>1. module' = module \/ module'.at = 0
  BY Numbers
<1> QED BY <1>1 DEF Inv, WheelInv, Finished, Stamped, Vouched

(* A step that ends with the wheel finished.                                 *)
LEMMA WheelDone ==
  ASSUME Inv, Finished, UNCHANGED <<setting, version, run, module>>,
         pc' # "packing",
         \A v \in Versions : /\ out'[v].at = out[v].at /\ out'[v].ver = out[v].ver
                             /\ out'[v].mode = out[v].mode
  PROVE  WheelInv'
BY Numbers DEF Inv, WheelInv, Finished, Stamped, Vouched

(* A wheel is begun, from the module or by maturin.                          *)
LEMMA WheelBegun ==
  ASSUME Inv, UNCHANGED <<setting, version, module>>, pc' = "packing", ~done',
         out'[version].at = now + 1,
         \A v \in Versions : v # version => out'[v] = out[v],
         \/ /\ Stamped /\ out'[version].mode = module.mode
            /\ out'[version].ver = module.ver
         \/ ~Stamped /\ out'[version].ver = version
  PROVE  WheelInv'
<1>1. now + 1 # 0 /\ now + 1 >= module.at
  BY Numbers
<1>2. ~Stamped => module.at = 0
  BY DEF Inv, WheelInv
<1> QED BY <1>1, <1>2, Numbers DEF Inv, WheelInv, Finished, Stamped, Vouched, Collecting

LEMMA WheelStep == Inv /\ [Next]_vars => WheelInv'
<1> SUFFICES ASSUME Inv, [Next]_vars PROVE WheelInv'
  OBVIOUS
<1> USE DEF given, build, collection, published
<1>0. done => pc = "idle"
  BY DEF Inv, Control
<1>1. ASSUME NEW v \in Versions, CheckOut(v) PROVE WheelInv'
  BY <1>1, WheelsKept DEF CheckOut, Collecting
<1>2. ASSUME NEW goal, NEW mode, Make(goal, mode) PROVE WheelInv'
  BY <1>2, WheelsKept DEF Make, Collecting
<1>3. CASE \/ LoseTarballs \/ Stop \/ StampStops \/ CompileStops \/ PackFails
           \/ PublishStops
  BY <1>0, <1>3, WheelsKept
     DEF LoseTarballs, Stop, StampStops, CompileStops, PackFails, PublishStops,
         AtSums, Collecting
<1>4. CASE Fetch
  BY <1>0, <1>4, WheelsKept DEF Fetch, Collecting
<1>5. CASE Unpack \/ Touch
  <2>1. pc \in {"source", "touch"} /\ pc' \in {"untar", RuleAfterSource}
        /\ UNCHANGED <<setting, version, out, module, done>>
    BY <1>5 DEF Unpack, Touch
  <2>2. pc' \in {"untar", "patch", "stamp", "maturin"}
    BY <2>1, NextRule
  <2> QED BY <1>0, <2>1, <2>2, WheelsKept DEF Collecting
<1>6. CASE Untar \/ TarFails \/ UntarInterrupted
  <2>1. pc \in {"untar", "touch"} /\ pc' \in {"idle", "touch"}
    BY <1>6, UntarDoes
  <2>2. UNCHANGED <<setting, version, out, module, done>>
    BY <1>6 DEF Untar, TarFails, UntarInterrupted
  <2> QED BY <1>0, <2>1, <2>2, WheelsKept DEF Collecting
<1>7. CASE Patch \/ Stamp
  BY <1>0, <1>7, WheelsKept DEF Patch, Stamp, Collecting
<1>8. CASE Compile
  <2>1. ~done /\ Stamped
    BY <1>8 DEF Compile, Inv, Control
  <2>2. CASE ModuleOutdated
    <3>1. /\ module'.at = now + 1 /\ pc' = "wheel" /\ ~done'
          /\ UNCHANGED <<setting, out>>
      BY <1>8, <2>1, <2>2 DEF Compile, Tick
    <3> QED BY <2>1, <3>1, Numbers DEF WheelInv, Collecting, Stamped
  <2>3. CASE ~ModuleOutdated
    BY <1>8, <2>1, <2>3, WheelsKept DEF Compile, Collecting
  <2> QED BY <2>2, <2>3
<1>9. CASE Pack
  <2>1. Stamped /\ ~done /\ pc = "wheel"
    BY <1>9 DEF Pack, Inv, Control
  <2>2. CASE WheelOutdated
    <3>1. Begin(module.ver, module.mode) /\ module.ver \in Nat /\ module.mode \in Modes
      BY <1>9, <2>2 DEF Pack, Inv, Types, ModuleSet
    <3>2. UNCHANGED <<setting, version, module>>
      BY <1>9 DEF Pack
    <3> QED BY <2>1, <3>1, <3>2, BeginDoes, WheelBegun
  <2>3. CASE ~WheelOutdated
    <3>1. out[version].at >= module.at
      BY <2>3, Numbers DEF WheelOutdated
    <3>2. Finished
      BY <2>1, <3>1, PackedIsFinished
    <3>3. Assembled /\ UNCHANGED <<setting, version, run, module, out>>
      BY <1>9, <2>3 DEF Pack
    <3> QED BY <3>2, <3>3, AssembledDoes, WheelDone
  <2> QED BY <2>2, <2>3
<1>10. CASE Maturin
  <2>1. ~Stamped /\ ~done /\ pc = "maturin" /\ source[version].at # 0
    BY <1>10 DEF Maturin, Inv, Control, SourceInv, AfterSource
  <2>2. CASE out[version].at < source[version].at
    <3>1. Begin(version, run.mode) /\ version \in Nat /\ run.mode \in Modes
      BY <1>10, <2>2, Numbers DEF Maturin, Inv, Types
    <3>2. UNCHANGED <<setting, version, module>>
      BY <1>10 DEF Maturin
    <3> QED BY <2>1, <3>1, <3>2, BeginDoes, WheelBegun
  <2>3. CASE ~(out[version].at < source[version].at)
    <3>1. out[version].at # 0
      BY <2>1, <2>3, Numbers
    <3>2. Finished
      BY <2>1, <3>1, Numbers DEF Inv, WheelInv, Finished
    <3>3. Assembled /\ UNCHANGED <<setting, version, run, module, out>>
      BY <1>10, <2>3 DEF Maturin
    <3> QED BY <3>2, <3>3, AssembledDoes, WheelDone
  <2> QED BY <2>2, <2>3
<1>11. CASE Packed
  <2>1. Finished /\ Assembled /\ UNCHANGED <<setting, version, run, module>>
    BY <1>11, PackingIsFinished DEF Packed
  <2>2. \A v \in Versions : /\ out'[v].at = out[v].at /\ out'[v].ver = out[v].ver
                            /\ out'[v].mode = out[v].mode
    BY <1>11, PackedDoes
  <2> QED BY <2>1, <2>2, AssembledDoes, WheelDone
<1>12. CASE CloseFails
  <2>1. Finished /\ Assembled /\ UNCHANGED <<setting, version, run, module, out>>
    BY <1>12, PackingIsFinished DEF CloseFails
  <2> QED BY <2>1, AssembledDoes, WheelDone
<1>13. CASE PackInterrupted
  <2>1. pc' = "idle" /\ ~done' /\ UNCHANGED <<setting, version, module>>
    BY <1>0, <1>13 DEF PackInterrupted
  <2>2. \A v \in Versions : out'[v] = out[v] \/ out'[v].at = 0
    BY <1>13, Numbers DEF PackInterrupted, Inv, Types
  <2> QED BY <2>1, <2>2, Numbers DEF Inv, WheelInv, Collecting, Stamped
<1>14. CASE Copied \/ Sum \/ Index \/ \E v \in Versions : CopyBegins(v)
  BY <1>14, WheelsKept DEF Copied, Sum, Index, CopyBegins, AtSums, Collecting
<1>15. CASE UNCHANGED vars
  BY <1>15, WheelsKept DEF vars
<1> QED
  BY <1>1, <1>2, <1>3, <1>4, <1>5, <1>6, <1>7, <1>8, <1>9, <1>10, <1>11, <1>12,
     <1>13, <1>14, <1>15 DEF Next

(* A step that leaves the collection alone, or leaves it.                    *)
LEMMA NotPublishing ==
  ASSUME Inv, UNCHANGED setting, pc' \notin Collecting, copying' = 0,
         pc' # "idle" => copied' = {}, done' => run'.goal = "component",
         Sound => \A v \in Wheels(out)' :
                    (pc' = "packing" /\ v = version') \/ out'[v].whole
  PROVE  PublishInv'
BY DEF PublishInv, Collecting, Sound, OrderOnly

(* A step that leaves every wheel as it is, before the collection.           *)
LEMMA OutKept ==
  ASSUME Inv, UNCHANGED <<setting, version, out, copied>>,
         pc # "packing", pc' \notin Collecting, copying' = 0,
         pc' # "idle" => copied = {}, done' => run'.goal = "component"
  PROVE  PublishInv'
<1>1. Sound => \A v \in Wheels(out) : out[v].whole
  BY DEF Inv, PublishInv
<1> QED BY <1>1, NotPublishing DEF Wheels

(* The wheel of the checked-out version is assembled: the last it was of the *)
(* component, or the collection begins.                                      *)
LEMMA ThenCollect ==
  ASSUME Inv, UNCHANGED <<setting, run, copied, copying>>, Assembled,
         copied = {}, copying = 0, Sound => \A v \in Wheels(out)' : out'[v].whole
  PROVE  PublishInv'
BY AssembledDoes DEF PublishInv, Collecting, Sound, OrderOnly, ToCopy

(* What is packed from is whole, where no tar and no pack fails.             *)
LEMMA SourceWhole ==
  ASSUME Inv, pc = "packing", Sound
  PROVE  source[version].whole
<1>1. source[version].at # 0 /\ tarball[version] # 0 /\ version \in Versions
  BY Numbers DEF Inv, SourceInv, AfterSource, AfterStamp
<1>2. ~OrderOnly => source[version].at >= tarball[version]
  BY DEF Inv, SourceInv, AfterSource, AfterStamp
<1>3. ~OrderOnly => ~(source[version].at < tarball[version])
  BY <1>1, <1>2, Numbers
<1>4. OrderOnly => ~setting.tarMayFail
  BY DEF Sound
<1>5. \A v \in Versions : source[v].at # 0 =>
        \/ source[v].whole
        \/ setting.tarMayFail /\ source[v].at < tarball[v]
        \/ setting.tarMayFail /\ tarball[v] = 0
        \/ setting.tarMayFail /\ OrderOnly
  BY DEF Inv, SourceInv
<1> QED BY <1>1, <1>3, <1>4, <1>5, Zenon

LEMMA PublishStep == Inv /\ [Next]_vars => PublishInv'
<1> SUFFICES ASSUME Inv, [Next]_vars PROVE PublishInv'
  OBVIOUS
<1> USE DEF given, build, collection, published
<1>0. /\ done => pc = "idle"
      /\ pc # "collect" => copying = 0
      /\ pc \notin {"idle"} \cup Collecting => copied = {}
      /\ Sound => \A v \in Wheels(out) : (pc = "packing" /\ v = version) \/ out[v].whole
      /\ version \in Versions /\ out \in [Versions -> WheelSet]
      /\ dist \in [Versions -> WheelSet]
  BY DEF Inv, PublishInv, Control, Types
<1>1. ASSUME NEW v \in Versions, CheckOut(v) PROVE PublishInv'
  <2>1. /\ pc = "idle" /\ pc' = "idle" /\ copying' = 0 /\ ~done'
        /\ UNCHANGED <<setting, out>>
    BY <1>0, <1>1 DEF CheckOut
  <2> QED BY <1>0, <2>1, NotPublishing DEF Collecting, Wheels
<1>2. ASSUME NEW goal, NEW mode, Make(goal, mode) PROVE PublishInv'
  <2>1. /\ pc = "idle" /\ pc' = "tarball" /\ copying' = 0 /\ ~done' /\ copied' = {}
        /\ UNCHANGED <<setting, out>>
    BY <1>0, <1>2 DEF Make
  <2> QED BY <1>0, <2>1, NotPublishing DEF Collecting, Wheels
<1>3. CASE LoseTarballs
  <2>1. UNCHANGED <<setting, pc, version, run, out, collection, published, done>>
    BY <1>3 DEF LoseTarballs
  <2> QED BY <2>1 DEF Inv, PublishInv, Wheels, ToCopy, InDist, Sound, OrderOnly
<1>4. CASE Stop \/ StampStops \/ CompileStops \/ PublishStops
  BY <1>0, <1>4, OutKept
     DEF Stop, StampStops, CompileStops, PublishStops, AtSums, Collecting
<1>5. CASE Fetch \/ Patch \/ Stamp \/ Compile
  BY <1>0, <1>5, OutKept DEF Fetch, Patch, Stamp, Compile, Collecting
<1>6. CASE Unpack \/ Touch
  <2>1. pc \in {"source", "touch"} /\ pc' \in {"untar", "patch", "stamp", "maturin"}
    BY <1>6, NextRule DEF Unpack, Touch
  <2>2. UNCHANGED <<setting, version, out, copied, copying, run, done>>
    BY <1>6 DEF Unpack, Touch
  <2> QED BY <1>0, <2>1, <2>2, OutKept DEF Collecting
<1>7. CASE Untar \/ TarFails \/ UntarInterrupted
  <2>1. pc \in {"untar", "touch"} /\ pc' \in {"idle", "touch"}
    BY <1>7, UntarDoes
  <2>2. UNCHANGED <<setting, version, out, copied, copying, run, done>>
    BY <1>7 DEF Untar, TarFails, UntarInterrupted
  <2> QED BY <1>0, <2>1, <2>2, OutKept DEF Collecting
<1>8. CASE Pack \/ Maturin
  <2>0. /\ pc \in {"wheel", "maturin"} /\ ~done /\ copying = 0 /\ copied = {}
        /\ UNCHANGED <<setting, run, version, copied, copying>>
    BY <1>0, <1>8 DEF Pack, Maturin, Collecting
  <2>1. ASSUME NEW ver \in Nat, NEW mode \in Modes, Begin(ver, mode)
        PROVE  PublishInv'
    <3>1. /\ pc' = "packing" /\ ~done'
          /\ \A v \in Versions : v # version => out'[v] = out[v]
      BY <2>0, <2>1, BeginDoes
    <3>2. Sound => \A v \in Wheels(out)' : v = version' \/ out'[v].whole
      BY <1>0, <2>0, <3>1 DEF Wheels
    <3> QED BY <2>0, <3>1, <3>2, NotPublishing DEF Collecting
  <2>2. ASSUME Assembled, UNCHANGED out PROVE PublishInv'
    <3>1. Sound => \A v \in Wheels(out)' : out'[v].whole
      BY <1>0, <2>0, <2>2 DEF Wheels
    <3> QED BY <2>0, <2>2, <3>1, ThenCollect
  <2>3. module.ver \in Nat /\ module.mode \in Modes /\ version \in Nat
        /\ run.mode \in Modes
    BY Numbers DEF Inv, Types, ModuleSet
  <2> QED BY <1>8, <2>1, <2>2, <2>3 DEF Pack, Maturin
<1>9. CASE Packed
  <2>1. /\ pc = "packing" /\ Assembled /\ UNCHANGED <<setting, run, copied, copying>>
    BY <1>9 DEF Packed
  <2>2. /\ out'[version].whole = source[version].whole
        /\ \A v \in Versions : v # version => out'[v] = out[v]
    BY <1>9, PackedDoes
  <2>3. Sound => \A v \in Wheels(out)' : out'[v].whole
    BY <1>0, <2>1, <2>2, SourceWhole DEF Wheels
  <2> QED BY <1>0, <2>1, <2>3, ThenCollect DEF Collecting
<1>10. CASE PackFails
  <2>1. /\ pc = "packing" /\ pc' = "idle" /\ ~Sound /\ ~done'
        /\ UNCHANGED <<setting, copying>>
    BY <1>0, <1>10 DEF PackFails, Sound
  <2> QED BY <1>0, <2>1, NotPublishing DEF Collecting
<1>11. CASE CloseFails
  <2>1. /\ pc = "packing" /\ Assembled /\ UNCHANGED <<setting, run, copied, copying>>
        /\ ~Sound
    BY <1>11 DEF CloseFails, Sound
  <2> QED BY <1>0, <2>1, ThenCollect DEF Collecting
<1>12. CASE PackInterrupted
  <2>1. /\ pc = "packing" /\ pc' = "idle" /\ copying' = 0 /\ ~done'
        /\ UNCHANGED <<setting, version>>
        /\ out' = [out EXCEPT ![version] = NoWheel]
    BY <1>0, <1>12 DEF PackInterrupted
  <2>2. /\ out'[version].at = 0
        /\ \A v \in Versions : v # version => out'[v] = out[v]
    BY <1>0, <2>1, Numbers
  <2>3. Sound => \A v \in Wheels(out)' : out'[v].whole
    BY <1>0, <2>1, <2>2 DEF Wheels
  <2> QED BY <2>1, <2>3, NotPublishing DEF Collecting
<1>13. ASSUME NEW v \in Versions, CopyBegins(v) PROVE PublishInv'
  <2>1. /\ pc = "collect" /\ pc' = "collect" /\ v \in ToCopy /\ copying' = v
        /\ UNCHANGED <<setting, version, out, copied, done>>
        /\ \A u \in Versions : u # v => dist'[u] = dist[u]
    BY <1>0, <1>13 DEF CopyBegins
  <2>2. \A u \in Wheels(out) \cap copied : dist'[u] = out[u]
    BY <2>1 DEF Inv, PublishInv, ToCopy, Wheels
  <2> QED BY <1>0, <2>1, <2>2
          DEF PublishInv, Wheels, ToCopy, Sound, OrderOnly, Collecting
<1>14. CASE Copied
  <2>1. /\ pc = "collect" /\ pc' = "collect" /\ copying' = 0
        /\ copied' = copied \cup {copying} /\ copying \in Versions
        /\ UNCHANGED <<setting, version, out, done>>
        /\ dist'[copying] = out[copying]
        /\ \A u \in Versions : u # copying => dist'[u] = dist[u]
    BY <1>0, <1>14 DEF Copied, Inv, Types
  <2>2. \A u \in Wheels(out) \cap copied' : dist'[u] = out[u]
    BY <2>1 DEF Inv, PublishInv, Wheels
  <2> QED BY <1>0, <2>1, <2>2
          DEF PublishInv, Wheels, ToCopy, Sound, OrderOnly, Collecting
<1>15. CASE Sum
  <2>1. /\ sums' = dist /\ pc = "collect" /\ copying' = 0 /\ Wheels(out) \subseteq copied
        /\ UNCHANGED <<setting, run, version, out, copied, dist>>
        /\ pc' = IF run.goal = "all" THEN "index" ELSE "idle"
        /\ done' = (run.goal # "all")
    BY <1>15 DEF Sum, SumsOfAll, AtSums, ToCopy
  <2>2. InDist'
    BY <2>1 DEF Inv, PublishInv, InDist, Wheels
  <2> QED BY <1>0, <2>1, <2>2 DEF PublishInv, Wheels, Sound, OrderOnly, Collecting
<1>16. CASE Index
  <2>1. /\ index' = dist /\ pc = "index" /\ pc' = "idle" /\ copying' = 0
        /\ UNCHANGED <<setting, run, version, out, dist, sums>>
    BY <1>0, <1>16 DEF Index
  <2>2. InDist' /\ sums' = dist'
    BY <2>1 DEF Inv, PublishInv, InDist, Wheels
  <2> QED BY <1>0, <2>1, <2>2 DEF PublishInv, Wheels, Sound, OrderOnly, Collecting
<1>17. CASE UNCHANGED vars
  BY <1>17 DEF vars, Inv, PublishInv, Wheels, ToCopy, InDist, Sound, OrderOnly
<1> QED
  BY <1>1, <1>2, <1>3, <1>4, <1>5, <1>6, <1>7, <1>8, <1>9, <1>10, <1>11, <1>12,
     <1>13, <1>14, <1>15, <1>16, <1>17 DEF Next

LEMMA InvHolds == Spec => []Inv
<1>1. Inv /\ [Next]_vars => Inv'
  BY TypesStep, ClockStep, ControlStep, SourceStep, ModuleStep, WheelStep,
     PublishStep DEF Inv
<1> QED BY InitInv, <1>1, PTL DEF Spec

(* A make that came to its end leaves the wheel of its own DEBUG in out/,    *)
(* whatever runs failed or were interrupted before it.                       *)
THEOREM AlwaysAsAsked == Spec => []BuiltAsAsked
<1>1. Inv => BuiltAsAsked
  BY DEF Inv, WheelInv, Finished, BuiltAsAsked
<1> QED BY <1>1, InvHolds, PTL

(* The wheel of the checked-out version holds the module of that version:    *)
(* where versions share a build directory, if they only go up, and where the *)
(* archive's own times are trusted, if tar does not fail.                    *)
THEOREM AlwaysFromVersion == Spec => []BuiltFromVersion
<1>1. Inv => BuiltFromVersion
  BY DEF Inv, WheelInv, Finished, Vouched, BuiltFromVersion
<1> QED BY <1>1, InvHolds, PTL

(* A collection that came to its end has every wheel of out/ whole in dist/, *)
(* whatever unpacking, packing or copying was cut off in earlier runs.       *)
THEOREM DistAlwaysWhole == Spec => []DistWhole
<1>1. ASSUME Inv, done, run.goal # "component", Sound
      PROVE  \A v \in Wheels(out) : dist[v].whole
  BY <1>1 DEF Inv, Control, PublishInv, InDist
<1>2. Inv => DistWhole
  BY <1>1 DEF DistWhole, Sound
<1> QED BY <1>2, InvHolds, PTL

(* It has the wheel just built in dist/, and SHA256SUMS and simple/ are of   *)
(* what dist/ holds.                                                         *)
THEOREM AlwaysPublished == Spec => []Published
<1>1. Inv => Published
  BY DEF Inv, Types, WheelInv, Finished, PublishInv, InDist, Wheels, Published
<1> QED BY <1>1, InvHolds, PTL
==============================================================================
