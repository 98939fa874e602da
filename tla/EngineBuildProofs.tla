--------------------------- MODULE EngineBuildProofs ---------------------------
(***************************************************************************)
(* Proofs, for any precisions, versions, runs and kills, of what the       *)
(* export tools of EngineBuild leave on disk and what a frontend loads.    *)
(***************************************************************************)
EXTENDS EngineBuild, SequenceTheorems, TLAPS

Onnxes == {Onnx(name) : name \in Engines}

\* The steps that the tools after fetch_model are made of.
Loads  == [op : {"load"}, file : {Checkpoint}]
Writes == [op : {"write"}, file : Onnxes \cup {Manifest}]
Builds == [op : {"build"}, file : Plans]
Reads  == [op : {"read"}, file : Plans \cup {Manifest}]
Noises == [op : {"noise"}, file : Onnxes \cup Plans]
Steps  == Loads \cup Writes \cup Builds \cup Reads \cup Noises

Later == {"export_onnx", "export_frontend_onnx", "build_trt", "build_trt_frontend"}

LEMMA Paths ==
    /\ Onnxes \subseteq Files \ {Checkpoint} /\ Manifest \in Files \ {Checkpoint}
    /\ Plans \subseteq Files \ {Checkpoint} /\ Checkpoint \in Files
    /\ \A name \in Engines : Onnx(name) \in Onnxes
    /\ \A name \in Engines : \A tag \in Range(Tags) : Plan(name, tag) \in Plans
    /\ \A p \in Plans : Source(p) \in Onnxes
BY DEF Onnxes, Files, Plans, Manifest, Checkpoint, Onnx, Plan, Source

LEMMA Tag ==
    /\ Len(Tags) \in Nat
    /\ \A i \in 1..Len(Tags) : Tags[i] \in Range(Tags)
BY TagsAssumption DEF Range

LEMMA Kinds ==
    /\ Do("load", Checkpoint) \in Steps
    /\ Do("write", Manifest) \in Steps /\ Do("read", Manifest) \in Steps
    /\ \A f \in Onnxes : Do("write", f) \in Steps /\ Do("noise", f) \in Steps
    /\ \A f \in Plans : Do("build", f) \in Steps /\ Do("read", f) \in Steps /\ Do("noise", f) \in Steps
BY DEF Do, Steps, Loads, Writes, Builds, Reads, Noises

\* What build_trt and build_trt_frontend are put together from.
Built == [i \in 1..(2 * Len(Tags)) |->
            Do("build", Plan(IF i % 2 = 1 THEN "decoder" ELSE "encoder", Tags[(i + 1) \div 2]))]
Tried == [i \in 1..Len(Tags) |-> Do("read", Plan("decoder", Tags[i]))]
BuiltFor(name) == [i \in 1..Len(Tags) |-> Do("build", Plan(name, Tags[i]))]
Trial == <<Do("read", Plan("duration", Served)), Do("noise", Plan("duration", Served)),
           Do("read", Plan("flow", Served))>>

LEMMA Parts ==
    /\ <<Do("read", Manifest)>> \in Seq(Steps) /\ <<Do("load", Checkpoint)>> \in Seq(Steps)
    /\ Built \in Seq(Steps) /\ Len(Built) = 2 * Len(Tags)
    /\ Tried \in Seq(Steps) /\ Len(Tried) = Len(Tags)
    /\ \A name \in {"duration", "flow"} :
         BuiltFor(name) \in Seq(Steps) /\ Len(BuiltFor(name)) = Len(Tags)
    /\ Trial \in Seq(Steps) /\ Len(Trial) = 3
<1> DEFINE B(i) == Do("build", Plan(IF i % 2 = 1 THEN "decoder" ELSE "encoder", Tags[(i + 1) \div 2]))
           R(i) == Do("read", Plan("decoder", Tags[i]))
           U(name, i) == Do("build", Plan(name, Tags[i]))
<1>1. \A i \in 1..Len(Tags) :
        R(i) \in Steps /\ \A name \in {"duration", "flow"} : U(name, i) \in Steps
  BY Tag, Paths, Kinds DEF Engines
<1>2. \A i \in 1..(2 * Len(Tags)) : B(i) \in Steps
  <2> TAKE i \in 1..(2 * Len(Tags))
  <2>1. (i + 1) \div 2 \in 1..Len(Tags)
    BY Tag
  <2> QED BY <2>1, Tag, Paths, Kinds DEF Engines
<1>3. /\ Built = [i \in 1..(2 * Len(Tags)) |-> B(i)] /\ Tried = [i \in 1..Len(Tags) |-> R(i)]
      /\ \A name : BuiltFor(name) = [i \in 1..Len(Tags) |-> U(name, i)]
  BY DEF Built, Tried, BuiltFor
<1>4. Plan("duration", Served) \in Plans /\ Plan("flow", Served) \in Plans
  BY TagsAssumption, Paths DEF Engines
<1>5. /\ <<Do("read", Manifest)>> \in Seq(Steps) /\ <<Do("load", Checkpoint)>> \in Seq(Steps)
      /\ Trial \in Seq(Steps) /\ Len(Trial) = 3
  BY Kinds, <1>4 DEF Trial
<1>6. Len(Tags) \in Nat
  BY Tag
<1> HIDE DEF B, R, U
<1>7. Built \in Seq(Steps) /\ Len(Built) = 2 * Len(Tags)
  BY <1>2, <1>3, <1>6
<1>8. Tried \in Seq(Steps) /\ Len(Tried) = Len(Tags)
  BY <1>1, <1>3, <1>6
<1>9. ASSUME NEW name \in {"duration", "flow"}
      PROVE  BuiltFor(name) \in Seq(Steps) /\ Len(BuiltFor(name)) = Len(Tags)
  BY <1>1, <1>3, <1>6
<1> QED BY <1>5, <1>7, <1>8, <1>9

LEMMA Assembled ==
    /\ BuildTrt = ((<<Do("read", Manifest)>> \o Built) \o <<Do("load", Checkpoint)>>) \o Tried
    /\ BuildTrtFrontend =
         ((<<Do("load", Checkpoint)>> \o BuiltFor("duration")) \o BuiltFor("flow")) \o Trial
BY DEF BuildTrt, BuildTrtFrontend, Built, Tried, BuiltFor, Trial

\* What one list of steps is behind another.
LEMMA Behind ==
    \A s \in Seq(Steps) : \A t \in Seq(Steps) :
      /\ s \o t \in Seq(Steps) /\ Len(s \o t) = Len(s) + Len(t)
      /\ \A k \in 1..Len(t) : (s \o t)[Len(s) + k] = t[k]
<1> TAKE s \in Seq(Steps)
<1> TAKE t \in Seq(Steps)
<1>1. Len(s) \in Nat /\ Len(t) \in Nat
  OBVIOUS
<1> QED BY <1>1, ConcatProperties

LEMMA Programs ==
    /\ ExportOnnx \in Seq(Steps) /\ ExportFrontendOnnx \in Seq(Steps)
    /\ BuildTrt \in Seq(Steps) /\ BuildTrtFrontend \in Seq(Steps)
<1>1. ExportOnnx \in Seq(Steps) /\ ExportFrontendOnnx \in Seq(Steps)
  <2>1. \A name \in Engines : Do("write", Onnx(name)) \in Steps /\ Do("noise", Onnx(name)) \in Steps
    BY Paths, Kinds
  <2>2. {"encoder", "decoder", "duration", "flow"} = Engines
    BY DEF Engines
  <2> QED BY <2>1, <2>2, Kinds DEF ExportOnnx, ExportFrontendOnnx
<1>2. BuildTrt \in Seq(Steps) /\ BuildTrtFrontend \in Seq(Steps)
  BY Parts, Behind, Assembled
<1> QED BY <1>1, <1>2

\* What a running tool's step can be.
LEMMA StepOf ==
    ASSUME tool.step \in Nat \ {0}, NEW op, At(op), tool.name \in DOMAIN Program \cup {"none"}
    PROVE  /\ tool.name \in Later \cup {"fetch_model"}
           /\ Step.op = op
           /\ tool.name \in Later => Step \in Steps
           /\ tool.name = "fetch_model" =>
                \/ tool.step = 1 /\ Step = Do("mkdir", Checkpoint)
                \/ tool.step = 2 /\ Step = Do("download", Checkpoint)
                \/ tool.step = 3 /\ Step = Do("write", Checkpoint)
<1>1. tool.name \in Later \cup {"fetch_model"} /\ Step.op = op
      /\ tool.step \in 1..Len(Program[tool.name])
  <2>1. tool.name \in Later \cup {"fetch_model"} /\ Step.op = op /\ ~(tool.step > Len(Program[tool.name]))
    BY DEF At, Running, AtEnd, Program, Later
  <2>2. Program[tool.name] \in Seq(Steps) \/ Program[tool.name] = Fetch
    BY <2>1, Programs DEF Program, Later
  <2>3. Len(Program[tool.name]) \in Nat
    BY <2>2 DEF Fetch
  <2> QED BY <2>1, <2>3
<1>2. ASSUME tool.name \in Later PROVE Step \in Steps
  <2>1. Program[tool.name] \in Seq(Steps)
    BY <1>2, Programs DEF Program, Later
  <2> QED BY <1>1, <2>1 DEF Step
<1>3. ASSUME tool.name = "fetch_model"
      PROVE  \/ tool.step = 1 /\ Step = Do("mkdir", Checkpoint)
             \/ tool.step = 2 /\ Step = Do("download", Checkpoint)
             \/ tool.step = 3 /\ Step = Do("write", Checkpoint)
  <2>1. Program[tool.name] = Fetch
    BY <1>3 DEF Program
  <2>2. Len(Fetch) = 3 /\ Fetch[1] = Do("mkdir", Checkpoint)
        /\ Fetch[2] = Do("download", Checkpoint) /\ Fetch[3] = Do("write", Checkpoint)
    BY DEF Fetch
  <2> QED BY <1>1, <2>1, <2>2 DEF Step
<1> QED BY <1>1, <1>2, <1>3

LEMMA Ops ==
    /\ \A d \in Steps :
         /\ d.op \in {"load", "write", "build", "read", "noise"}
         /\ d.op = "write" => d.file \in Files \ {Checkpoint}
         /\ d.op = "build" => d.file \in Plans
    /\ \A op, f : Do(op, f).op = op /\ Do(op, f).file = f
<1>1. \A d \in Steps :
         /\ d.op \in {"load", "write", "build", "read", "noise"}
         /\ d.op = "write" => d.file \in Onnxes \cup {Manifest}
         /\ d.op = "build" => d.file \in Plans
  BY DEF Steps, Loads, Writes, Builds, Reads, Noises
<1>2. \A op, f : Do(op, f).op = op /\ Do(op, f).file = f
  BY DEF Do
<1> QED BY <1>1, <1>2, Paths
-----------------------------------------------------------------------------
(* What is of another version than the checkpoint. *)

Others == Files \ {Checkpoint}

Entry == [state : {"absent", "partial", "whole"}, ver : Nat, live : BOOLEAN]

Names == DOMAIN Program \cup {"none"}

Tool == [name : Names, step : Nat \ {0}, ver : Nat, open : BOOLEAN]

\* x is unfinished or of the checkpoint's version.
OfCheckpoint(x) == x \in {0, disk[Checkpoint].ver}

\* Nothing is newer than the hub; beside a whole checkpoint, what is not stale, and
\* what a tool but fetch_model has loaded, is of its version.
Versions ==
    /\ hub \in Nat
    /\ disk \in [Files -> Entry] /\ stale \in SUBSET Files
    /\ tool \in Tool
    /\ \A f \in Files : disk[f].ver <= hub
    /\ tool.ver <= hub
    /\ IsWhole(Checkpoint) =>
         /\ \A f \in Others \ stale : OfCheckpoint(disk[f].ver)
         /\ tool.name \in Later => OfCheckpoint(tool.ver)

LEMMA Entries ==
    /\ Absent \in Entry /\ Partial \in Entry
    /\ Absent.ver = 0 /\ Partial.ver = 0 /\ Absent.state = "absent" /\ Partial.state = "partial"
    /\ \A v \in Nat : \A live \in BOOLEAN :
         Whole(v, live) \in Entry /\ Whole(v, live).ver = v /\ Whole(v, live).state = "whole"
         /\ Whole(v, live).live = live
BY DEF Absent, Partial, Whole, Entry

LEMMA Idle == NoTool \in Tool /\ NoTool.name = "none" /\ NoTool.ver = 0 /\ NoTool.step = 1
BY DEF Tool, NoTool, Names

LEMMA NewTool ==
    ASSUME NEW name \in Names, NEW t, t = [NoTool EXCEPT !.name = name]
    PROVE  t \in Tool /\ t.name = name /\ t.ver = 0 /\ t.step = 1
<1>1. NoTool \in Tool
  BY Idle
<1>2. t.name = name /\ t.ver = 0 /\ t.step = 1
  BY DEF NoTool
<1>3. t \in Tool
  BY <1>1 DEF Tool
<1> QED BY <1>2, <1>3

LEMMA ToolFields ==
    ASSUME NEW t \in Tool
    PROVE  t.name \in Names /\ t.step \in Nat \ {0} /\ t.ver \in Nat /\ t.open \in BOOLEAN
BY DEF Tool

LEMMA NextTool ==
    ASSUME NEW t \in Tool, NEW u, u = [t EXCEPT !.step = @ + 1, !.open = FALSE]
    PROVE  u \in Tool /\ u.name = t.name /\ u.ver = t.ver /\ u.step = t.step + 1
<1>1. u \in Tool
  <2>1. t.step + 1 \in Nat \ {0} /\ FALSE \in BOOLEAN
    BY DEF Tool
  <2>2. [t EXCEPT !.step = t.step + 1, !.open = FALSE] \in Tool
    BY <2>1, Zenon DEF Tool
  <2> QED BY <2>2
<1>2. u.name = t.name
  BY DEF Tool
<1>3. u.ver = t.ver
  BY DEF Tool
<1>4. u.step = t.step + 1
  BY DEF Tool
<1> QED BY <1>1, <1>2, <1>3, <1>4

LEMMA OpenTool ==
    ASSUME NEW t \in Tool, NEW u, u = [t EXCEPT !.open = TRUE]
    PROVE  u \in Tool /\ u.name = t.name /\ u.ver = t.ver /\ u.step = t.step
BY DEF Tool

\* u is what becomes of t when it has loaded v.
Loaded(t, u, v) ==
    u \in Tool /\ u.name = t.name /\ u.ver = v /\ u.step = t.step + 1

LEMMA LoadedTool ==
    ASSUME NEW t \in Tool, NEW v \in Nat, NEW u, u = [t EXCEPT !.step = @ + 1, !.ver = v]
    PROVE  Loaded(t, u, v)
<1>1. u \in Tool
  <2>1. t.step + 1 \in Nat \ {0} /\ v \in Nat
    BY DEF Tool
  <2>2. [t EXCEPT !.step = t.step + 1, !.ver = v] \in Tool
    BY <2>1, Zenon DEF Tool
  <2> QED BY <2>2
<1>2. u.name = t.name
  BY DEF Tool
<1>3. u.ver = v
  BY DEF Tool
<1>4. u.step = t.step + 1
  BY DEF Tool
<1> QED BY <1>1, <1>2, <1>3, <1>4 DEF Loaded

LEMMA InitVersions == BuildInit => Versions
<1> SUFFICES ASSUME BuildInit PROVE Versions
  OBVIOUS
<1>1. \A f \in Files : disk[f] = Absent
  BY DEF BuildInit
<1>2. disk \in [Files -> Entry]
  BY Entries DEF BuildInit
<1>3. Checkpoint \in Files
  BY Paths
<1>4. tool \in Tool /\ tool.ver = 0 /\ tool.name = "none" /\ hub = 1
  BY Idle DEF BuildInit
<1>5. \A f \in Files : disk[f].ver = 0 /\ disk[f].state # "whole"
  BY <1>1, Entries
<1>6. stale \in SUBSET Files
  BY DEF BuildInit
<1> QED BY <1>2, <1>3, <1>4, <1>5, <1>6 DEF Versions, IsWhole

\* The tool is given up, or another is started.
LEMMA IdleVersions ==
    ASSUME Versions, tool' \in Tool, tool'.ver = 0, UNCHANGED <<hub, disk, stale>>
    PROVE  Versions'
BY DEF Versions, IsWhole, OfCheckpoint

\* The tool goes on to its next step and nothing else.
LEMMA AdvanceVersions ==
    ASSUME Versions, Advance, UNCHANGED <<hub, disk, stale>>
    PROVE  Versions'
<1>1. tool' \in Tool /\ tool'.name = tool.name /\ tool'.ver = tool.ver
  BY NextTool, ToolFields DEF Advance, Versions
<1> QED BY <1>1 DEF Versions, IsWhole, OfCheckpoint

\* A file other than the checkpoint is begun, or finished from what the tool has
\* loaded, or from another file.
Written(f, x) ==
    \/ x.ver = 0 /\ stale' = stale
    \/ x.ver = tool.ver /\ stale' = stale \ {f}
    \/ \E g \in Others : /\ x.ver = disk[g].ver
                         /\ stale' = IF g \in stale THEN stale \cup {f} ELSE stale \ {f}

LEMMA WriteVersions ==
    ASSUME Versions, tool.name \in Later, NEW f \in Others, NEW x \in Entry,
           disk' = [disk EXCEPT ![f] = x], hub' = hub, Written(f, x),
           tool' \in Tool,
           tool'.name = tool.name, tool'.ver = tool.ver
    PROVE  Versions'
<1>1. x.ver \in Nat /\ f \in Files /\ Checkpoint \in Files /\ f # Checkpoint
  BY Paths DEF Entry, Others
<1>2. disk' \in [Files -> Entry] /\ disk'[Checkpoint] = disk[Checkpoint]
      /\ disk'[f] = x /\ \A g \in Files : g # f => disk'[g] = disk[g]
  BY <1>1 DEF Versions
<1>3. x.ver <= hub
  <2>1. hub \in Nat /\ \A g \in Others : disk[g].ver \in Nat /\ disk[g].ver <= hub
    BY DEF Versions, Entry, Others
  <2>2. tool.ver \in Nat /\ tool.ver <= hub
    BY ToolFields DEF Versions
  <2> QED BY <1>1, <2>1, <2>2 DEF Written
<1>4. stale' \in SUBSET Files /\ stale \subseteq stale' \cup {f} /\ stale' \subseteq stale \cup {f}
  BY <1>1 DEF Versions, Written
<1>6. \A g \in Files : disk'[g].ver <= hub
  BY <1>2, <1>3 DEF Versions
<1>7. ASSUME IsWhole(Checkpoint)'
      PROVE  /\ \A g \in Others \ stale' : OfCheckpoint(disk'[g].ver)
             /\ tool'.name \in Later => OfCheckpoint(tool'.ver)
  <2>0. IsWhole(Checkpoint)
    BY <1>2, <1>7 DEF IsWhole
  <2>1. OfCheckpoint(tool.ver) /\ \A g \in Others \ stale : OfCheckpoint(disk[g].ver)
    BY <2>0 DEF Versions
  <2>2. f \notin stale' => OfCheckpoint(x.ver) \/ (x.ver = 0 /\ stale' = stale)
    BY <2>1 DEF Written
  <2>3. OfCheckpoint(0)
    BY DEF OfCheckpoint
  <2>4. ASSUME NEW g \in Others \ stale' PROVE OfCheckpoint(disk'[g].ver)
    <3>1. CASE g = f
      BY <1>2, <2>2, <2>3, <2>4, <3>1
    <3>2. CASE g # f
      BY <1>2, <1>4, <2>1, <2>4, <3>2 DEF Others
    <3> QED BY <3>1, <3>2
  <2> QED BY <2>1, <2>4
<1>8. \A y : OfCheckpoint(y)' <=> OfCheckpoint(y)
  BY <1>2 DEF OfCheckpoint
<1>9. IsWhole(Checkpoint)' => /\ \A g \in Others \ stale' : disk'[g].ver \in {0, disk'[Checkpoint].ver}
                              /\ tool'.name \in Later => tool'.ver \in {0, disk'[Checkpoint].ver}
  BY <1>2, <1>7 DEF OfCheckpoint
<1>10. tool'.ver <= hub /\ hub \in Nat
  BY DEF Versions
<1> QED BY <1>2, <1>4, <1>6, <1>9, <1>10 DEF Versions, OfCheckpoint

\* fetch_model writes the checkpoint, and what is beside it is stale.
LEMMA FetchVersions ==
    ASSUME Versions, tool.name = "fetch_model", NEW x \in Entry,
           disk' = [disk EXCEPT ![Checkpoint] = x], hub' = hub, x.ver <= hub,
           \/ x.state # "whole" /\ stale' = stale
           \/ stale' = Others,
           tool' \in Tool,
           tool'.name = tool.name, tool'.ver = tool.ver
    PROVE  Versions'
<1>1. Checkpoint \in Files /\ Checkpoint \notin Others /\ Others \subseteq Files
  BY Paths DEF Others
<1>2. disk' \in [Files -> Entry] /\ disk'[Checkpoint] = x
      /\ \A g \in Files : g # Checkpoint => disk'[g] = disk[g]
  BY <1>1 DEF Versions
<1>3. tool'.name \notin Later
  BY DEF Later
<1>4. \A g \in Files : disk'[g].ver <= hub
  BY <1>2 DEF Versions
<1>5. stale' \in SUBSET Files
  BY <1>1 DEF Versions
<1>6. IsWhole(Checkpoint)' => Others \ stale' = {}
  BY <1>2 DEF IsWhole
<1> QED BY <1>2, <1>3, <1>4, <1>5, <1>6 DEF Versions

LEMMA ToolVersions ==
    ASSUME Versions, ToolStep
    PROVE  Versions'
<1> USE DEF Later
<1>0. /\ tool \in Tool /\ tool.step \in Nat \ {0} /\ tool.name \in DOMAIN Program \cup {"none"}
      /\ tool.ver \in Nat /\ hub \in Nat
      /\ \A f \in Files : disk[f] \in Entry /\ disk[f].ver \in Nat
  BY ToolFields DEF Versions, Names, Entry
<1>i. ASSUME Raise, UNCHANGED <<hub, disk, stale>> PROVE Versions'
  BY <1>i, Idle, IdleVersions DEF Raise
<1>1. CASE Mkdir
  <2>1. tool.name = "fetch_model" /\ tool.step = 1
    BY <1>0, <1>1, StepOf, Ops DEF Mkdir
  <2>2. tool' \in Tool /\ tool'.name = tool.name /\ tool'.ver = tool.ver /\ tool'.step = 2
    <3>1. tool' = [tool EXCEPT !.step = @ + 1, !.open = FALSE]
      BY <1>1 DEF Mkdir, Advance
    <3>2. tool' \in Tool /\ tool'.name = tool.name /\ tool'.ver = tool.ver
          /\ tool'.step = tool.step + 1
      BY <1>0, <3>1, NextTool, Zenon
    <3> QED BY <2>1, <3>2
  <2>3. CASE disk[Checkpoint] = Absent
    <3>1. disk' = [disk EXCEPT ![Checkpoint] = Partial] /\ hub' = hub /\ stale' = stale
      BY <1>1, <2>3 DEF Mkdir
    <3>2. Partial \in Entry /\ Partial.ver <= hub /\ Partial.state # "whole"
      BY <1>0, Entries
    <3> QED BY <2>1, <2>2, <3>1, <3>2, FetchVersions
  <2>4. CASE disk[Checkpoint] # Absent
    BY <1>1, <2>1, <2>4, AdvanceVersions DEF Mkdir
  <2> QED BY <2>3, <2>4
<1>2. CASE Download
  <2>1. tool.name = "fetch_model" /\ tool.step = 2
    <3>1. At("download")
      BY <1>2 DEF Download
    <3> QED BY <1>0, <3>1, StepOf, Ops
  <2>2. ASSUME NEW v \in 1..hub, tool' = [tool EXCEPT !.step = @ + 1, !.ver = v]
        PROVE  Versions'
    <3>2. v \in Nat
      BY <1>0
    <3>0. Loaded(tool, tool', v)
      BY <1>0, <2>2, <3>2, LoadedTool, Zenon
    <3>1. tool' \in Tool /\ tool'.name = tool.name /\ tool'.ver = v /\ v <= hub
      BY <1>0, <3>0 DEF Loaded
    <3> QED BY <1>0, <1>2, <2>1, <3>1 DEF Download, Versions, IsWhole, OfCheckpoint
  <2> QED BY <1>2, <1>i, <2>2 DEF Download
<1>3. CASE Load
  <2>1. tool.name \in Later
    <3>1. At("load")
      BY <1>3 DEF Load
    <3> QED BY <1>0, <3>1, StepOf, Ops
  <2>2. ASSUME NEW v \in Resolved, tool' = [tool EXCEPT !.step = @ + 1, !.ver = v]
        PROVE  Versions'
    <3>1. v \in Nat /\ v <= hub /\ (IsWhole(Checkpoint) => v = disk[Checkpoint].ver)
      BY <1>0, Paths, <2>2 DEF Resolved, Entry, Versions, IsWhole
    <3>0. Loaded(tool, tool', v)
      BY <1>0, <2>2, <3>1, LoadedTool, Zenon
    <3>2. tool' \in Tool /\ tool'.name = tool.name /\ tool'.ver = v
      BY <3>0 DEF Loaded
    <3>3. hub' = hub /\ disk' = disk /\ stale' = stale
      BY <1>3 DEF Load
    <3> QED BY <2>1, <3>1, <3>2, <3>3 DEF Versions, IsWhole, OfCheckpoint
  <2> QED BY <1>3, <1>i, <2>2 DEF Load
<1>4. CASE Open
  <2>1. tool' \in Tool /\ tool'.name = tool.name /\ tool'.ver = tool.ver /\ tool'.step = tool.step
    BY <1>0, <1>4, OpenTool DEF Open
  <2>2. CASE tool.name = "fetch_model"
    <3>1. Step.file = Checkpoint
      <4>1. At("write")
        BY <1>4 DEF Open
      <4> QED BY <1>0, <4>1, <2>2, StepOf, Ops
    <3>2. disk' = [disk EXCEPT ![Checkpoint] = Partial] /\ hub' = hub /\ stale' = stale
      BY <1>4, <3>1 DEF Open
    <3>3. Partial \in Entry /\ Partial.ver <= hub /\ Partial.state # "whole"
      BY <1>0, Entries
    <3> QED BY <2>1, <2>2, <3>2, <3>3, FetchVersions
  <2>3. CASE tool.name \in Later
    <3>1. Step.file \in Others
      BY <1>0, <1>4, <2>3, StepOf, Ops DEF Open, Others
    <3>2. Written(Step.file, Partial)
      BY <1>4, Entries DEF Open, Written
    <3> QED BY <1>0, <1>4, <2>1, <2>3, <3>1, <3>2, Entries, WriteVersions DEF Open
  <2> QED BY <1>0, <1>4, <2>2, <2>3, StepOf DEF Open
<1>5. CASE Close
  <2>1. tool' \in Tool /\ tool'.name = tool.name /\ tool'.ver = tool.ver /\ tool'.step = tool.step + 1
    BY <1>0, <1>5, NextTool DEF Close, Advance
  <2>2. PICK live \in BOOLEAN : disk' = [disk EXCEPT ![Step.file] = Whole(tool.ver, live)]
    BY <1>5 DEF Close
  <2>3. Whole(tool.ver, live) \in Entry /\ Whole(tool.ver, live).ver = tool.ver
    BY <1>0, Entries
  <2>4. CASE tool.name = "fetch_model"
    <3>1. Step.file = Checkpoint /\ tool.step = 3
      BY <1>0, <1>5, <2>4, StepOf, Ops DEF Close
    <3>2. tool.ver <= hub
      BY DEF Versions
    <3>3. stale' = Others /\ hub' = hub
      BY <1>5, <3>1 DEF Close, Others
    <3> QED BY <2>1, <2>2, <2>3, <2>4, <3>1, <3>2, <3>3, FetchVersions
  <2>5. CASE tool.name \in Later
    <3>1. Step.file \in Others
      <4>1. At("write")
        BY <1>5 DEF Close
      <4> QED BY <1>0, <4>1, <2>5, StepOf, Ops DEF Others
    <3>2. hub' = hub
      BY <1>5 DEF Close
    <3>3. Written(Step.file, Whole(tool.ver, live))
      <4>1. stale' = stale \ {Step.file}
        BY <1>5, <3>1 DEF Close, Others
      <4> QED BY <2>3, <4>1 DEF Written
    <3> QED BY <2>1, <2>2, <2>3, <2>5, <3>1, <3>2, <3>3, WriteVersions
  <2> QED BY <1>0, <1>5, <2>4, <2>5, StepOf DEF Close
<1>6. CASE Skip
  <2>1. tool.name \in Later
    BY <1>0, <1>6, StepOf, Ops DEF Skip
  <2> QED BY <1>6, <2>1, AdvanceVersions DEF Skip
<1>7. CASE OpenPlan
  <2>1. tool.name \in Later /\ Step.file \in Others
    BY <1>0, <1>7, StepOf, Ops, Paths DEF OpenPlan, Others
  <2>2. CASE tool' = [tool EXCEPT !.open = TRUE] /\ disk' = [disk EXCEPT ![Step.file] = Partial]
    <3>1. tool' \in Tool /\ tool'.name = tool.name /\ tool'.ver = tool.ver
      BY <1>0, <2>2, OpenTool
    <3>2. Written(Step.file, Partial)
      BY <1>7, Entries DEF OpenPlan, Written
    <3> QED BY <1>7, <2>1, <2>2, <3>1, <3>2, Entries, WriteVersions DEF OpenPlan
  <2> QED BY <1>7, <1>i, <2>2 DEF OpenPlan
<1>8. CASE ClosePlan
  <2>1. tool.name \in Later /\ Step.file \in Plans /\ Step.file \in Others
    BY <1>0, <1>8, StepOf, Ops, Paths DEF ClosePlan, Others
  <2>2. tool' \in Tool /\ tool'.name = tool.name /\ tool'.ver = tool.ver
    BY <1>0, <1>8, NextTool DEF ClosePlan, Advance
  <2>3. Source(Step.file) \in Others
    BY <2>1, Paths DEF Others
  <2>4. PICK live \in BOOLEAN :
          disk' = [disk EXCEPT ![Step.file] = Whole(disk[Source(Step.file)].ver, live)]
    BY <1>8 DEF ClosePlan
  <2>5. disk[Source(Step.file)].ver \in Nat
    BY <1>0, <2>3 DEF Others
  <2>6. /\ Whole(disk[Source(Step.file)].ver, live) \in Entry
        /\ Whole(disk[Source(Step.file)].ver, live).ver = disk[Source(Step.file)].ver
    BY <2>5, Entries
  <2>7. Written(Step.file, Whole(disk[Source(Step.file)].ver, live))
    BY <1>8, <2>3, <2>6 DEF ClosePlan, Written
  <2> QED BY <1>8, <2>1, <2>2, <2>4, <2>6, <2>7, WriteVersions DEF ClosePlan
<1>9. CASE Read
  <2>1. tool.name \in Later
    BY <1>0, <1>9, StepOf, Ops DEF Read
  <2> QED BY <1>9, <1>i, <2>1, AdvanceVersions DEF Read
<1>10. CASE Noise
  <2>1. tool.name \in Later
    BY <1>0, <1>10, StepOf, Ops DEF Noise
  <2> QED BY <1>10, <1>i, <2>1, AdvanceVersions DEF Noise
<1>11. CASE Finish
  BY <1>11, <1>i DEF Finish, Raise
<1> QED BY <1>1, <1>2, <1>3, <1>4, <1>5, <1>6, <1>7, <1>8, <1>9, <1>10, <1>11 DEF ToolStep

LEMMA NextVersions == Versions /\ [BuildNext]_buildVars => Versions'
<1> SUFFICES ASSUME Versions, [BuildNext]_buildVars PROVE Versions'
  OBVIOUS
<1>1. ASSUME NEW name \in DOMAIN Program, Start(name) PROVE Versions'
  <2>1. tool' \in Tool /\ tool'.ver = 0
    BY <1>1, NewTool DEF Start, Names
  <2> QED BY <1>1, <2>1, IdleVersions DEF Start
<1>2. CASE Kill
  BY <1>2, Idle, IdleVersions DEF Kill
<1>3. CASE Push
  <2>1. hub \in Nat /\ hub' = hub + 1 /\ disk' = disk /\ tool' = tool /\ stale' = stale
        /\ \A f \in Files : disk[f].ver \in Nat
    BY <1>3 DEF Push, Versions, Entry
  <2>2. tool.ver \in Nat
    BY ToolFields DEF Versions
  <2> QED BY <2>1, <2>2 DEF Versions, IsWhole, OfCheckpoint
<1>4. ASSUME UNCHANGED <<hub, disk, stale, tool>> PROVE Versions'
  BY <1>4 DEF Versions, IsWhole, OfCheckpoint
<1> QED BY <1>1, <1>2, <1>3, <1>4, ToolVersions
        DEF BuildNext, StartServer, ServerStep, LoadEngine, FallBack, WarmUp, StopServer, buildVars

\* What the tools make once a revision has been fetched is of that revision, whatever
\* the hub does and wherever a tool is killed: all but what was there before and what
\* is built from it (Pinned).
THEOREM OneVersion == BuildSpec => []Pinned
<1>1. Versions => Pinned
  BY DEF Versions, Pinned, Others, OfCheckpoint
<1> QED BY <1>1, InitVersions, NextVersions, PTL DEF BuildSpec
-----------------------------------------------------------------------------
(* What a frontend has loaded. *)

ServerInv ==
    /\ disk \in [Files -> Entry]
    /\ server.loaded \in Seq(Entry)
    /\ \A i \in 1..Len(server.loaded) : server.loaded[i].state = "whole"
    /\ server.pc = "loading" => Len(server.loaded) <= 2
    /\ server.pc \in {"warming", "up"} => Len(server.loaded) \in {0, 3}

LEMMA InitServer == BuildInit => ServerInv
BY Entries DEF BuildInit, ServerInv, Down

LEMMA ServerEmpty ==
    ASSUME ServerInv, disk' \in [Files -> Entry], server'.loaded = <<>>
    PROVE  ServerInv'
BY DEF ServerInv

LEMMA NextServer == Versions' /\ ServerInv /\ [BuildNext]_buildVars => ServerInv'
<1> SUFFICES ASSUME Versions', ServerInv, [BuildNext]_buildVars PROVE ServerInv'
  OBVIOUS
<1>0. disk' \in [Files -> Entry]
  BY DEF Versions
<1>1. CASE StartServer
  <2>1. server'.loaded = <<>>
    BY <1>1 DEF StartServer
  <2> QED BY <1>0, <2>1, ServerEmpty
<1>2. CASE LoadEngine
  <2> DEFINE n == Len(server.loaded)
             e == disk[Wanted[n + 1]]
  <2>1. n \in 0..2 /\ n + 1 \in 1..3
    <3>1. server.loaded \in Seq(Entry) /\ n <= 2
      BY <1>2 DEF LoadEngine, ServerInv
    <3>2. n \in Nat
      BY <3>1
    <3> HIDE DEF n
    <3>3. n <= 2
      BY <3>1
    <3> QED BY <3>2, <3>3
  <2>2. \A i \in 1..3 : Wanted[i] \in Files
    <3>1. \A name \in Engines : Plan(name, Served) \in Files
      BY TagsAssumption, Paths
    <3> QED BY <3>1 DEF Wanted, Engines
  <2>3. e \in Entry /\ e.state = "whole"
    BY <1>2, <2>1, <2>2 DEF LoadEngine, ServerInv, IsWhole
  <2>4. /\ server'.pc = IF n = 2 THEN "warming" ELSE "loading"
        /\ server'.loaded = Append(server.loaded, e)
    BY <1>2 DEF LoadEngine
  <2>5. server.loaded \in Seq(Entry) /\ \A i \in 1..n : server.loaded[i].state = "whole"
    BY DEF ServerInv
  <2> HIDE DEF e
  <2>6. /\ server'.loaded \in Seq(Entry) /\ Len(server'.loaded) = n + 1
        /\ \A i \in 1..(n + 1) :
             server'.loaded[i] = IF i = n + 1 THEN e ELSE server.loaded[i]
    BY <2>3, <2>4, <2>5, AppendProperties
  <2> HIDE DEF n
  <2>7. \A i \in 1..Len(server'.loaded) : server'.loaded[i].state = "whole"
    BY <2>1, <2>3, <2>5, <2>6
  <2> QED BY <1>0, <2>1, <2>4, <2>6, <2>7 DEF ServerInv
<1>3. CASE FallBack
  <2>1. server'.loaded = <<>>
    BY <1>3 DEF FallBack
  <2> QED BY <1>0, <2>1, ServerEmpty
<1>4. CASE WarmUp
  <2>1. server'.loaded = server.loaded /\ server'.pc = "up" /\ server.pc = "warming"
    BY <1>4 DEF WarmUp
  <2> QED BY <1>0, <2>1 DEF ServerInv
<1>5. CASE StopServer
  <2>1. server'.loaded = <<>>
    BY <1>5 DEF StopServer, Down
  <2> QED BY <1>0, <2>1, ServerEmpty
<1>6. ASSUME UNCHANGED server PROVE ServerInv'
  BY <1>0, <1>6 DEF ServerInv
<1> QED BY <1>1, <1>2, <1>3, <1>4, <1>5, <1>6
        DEF BuildNext, Start, ToolStep, Mkdir, Download, Load, Open, Close, Skip, OpenPlan,
            ClosePlan, Read, Noise, Finish, Kill, Push, ServerStep, buildVars

\* A frontend that is up speaks through all three engines or none, and through
\* whole ones, though the tools may be writing them (NoHalfEngines).
THEOREM AllOrNothing == BuildSpec => []NoHalfEngines
<1>1. ServerInv => NoHalfEngines
  BY DEF ServerInv, NoHalfEngines
<1>2. Versions /\ ServerInv /\ [BuildNext]_buildVars => (Versions /\ ServerInv)'
  BY NextVersions, NextServer
<1> QED BY <1>1, <1>2, InitVersions, InitServer, PTL DEF BuildSpec
-----------------------------------------------------------------------------
(* What a report of a tool says at its end. *)

\* The programs that build, from the steps that their reports depend on.
LEMMA Ends ==
    /\ Len(BuildTrt) = 3 * Len(Tags) + 2
    /\ \A k \in 1..Len(Tags) :
         BuildTrt[2 * Len(Tags) + 2 + k] = Do("read", Plan("decoder", Tags[k]))
    /\ Len(BuildTrtFrontend) = 2 * Len(Tags) + 4
    /\ BuildTrtFrontend[2 * Len(Tags) + 2] = Do("read", Plan("duration", Served))
    /\ BuildTrtFrontend[2 * Len(Tags) + 3] = Do("noise", Plan("duration", Served))
    /\ BuildTrtFrontend[2 * Len(Tags) + 4] = Do("read", Plan("flow", Served))
<1> DEFINE n == Len(Tags)
           P == (<<Do("read", Manifest)>> \o Built) \o <<Do("load", Checkpoint)>>
           Q == (<<Do("load", Checkpoint)>> \o BuiltFor("duration")) \o BuiltFor("flow")
<1>1. n \in Nat
  BY Tag
<1>3. P \in Seq(Steps) /\ Len(P) = 2 * n + 2
  <2> DEFINE M == <<Do("read", Manifest)>>
             L == <<Do("load", Checkpoint)>>
  <2>1. M \in Seq(Steps) /\ L \in Seq(Steps) /\ Built \in Seq(Steps) /\ Len(Built) = 2 * n
        /\ Len(M) = 1 /\ Len(L) = 1
    BY Parts
  <2> HIDE DEF M, L, n
  <2>2. M \o Built \in Seq(Steps) /\ Len(M \o Built) = Len(M) + Len(Built)
    BY <2>1, Behind, Zenon
  <2>3. /\ (M \o Built) \o L \in Seq(Steps)
        /\ Len((M \o Built) \o L) = Len(M \o Built) + Len(L)
    BY <2>1, <2>2, Behind, Zenon
  <2>4. Len((M \o Built) \o L) = 2 * n + 2
    BY <1>1, <2>1, <2>2, <2>3
  <2> QED BY <2>3, <2>4 DEF M, L
<1>4. Q \in Seq(Steps) /\ Len(Q) = 2 * n + 1
  <2> DEFINE L == <<Do("load", Checkpoint)>>
             D == BuiltFor("duration")
             F == BuiltFor("flow")
  <2>1. L \in Seq(Steps) /\ D \in Seq(Steps) /\ F \in Seq(Steps)
        /\ Len(L) = 1 /\ Len(D) = n /\ Len(F) = n
    BY Parts
  <2> HIDE DEF L, D, F, n
  <2>2. L \o D \in Seq(Steps) /\ Len(L \o D) = Len(L) + Len(D)
    BY <2>1, Behind, Zenon
  <2>3. (L \o D) \o F \in Seq(Steps) /\ Len((L \o D) \o F) = Len(L \o D) + Len(F)
    BY <2>1, <2>2, Behind, Zenon
  <2>4. Len((L \o D) \o F) = 2 * n + 1
    BY <1>1, <2>1, <2>2, <2>3
  <2> QED BY <2>3, <2>4 DEF L, D, F
<1>5. BuildTrt = P \o Tried /\ BuildTrtFrontend = Q \o Trial
  BY Assembled
<1>6. \A k \in 1..n : Tried[k] = Do("read", Plan("decoder", Tags[k]))
  BY DEF Tried
<1>7. /\ Trial[1] = Do("read", Plan("duration", Served))
      /\ Trial[2] = Do("noise", Plan("duration", Served))
      /\ Trial[3] = Do("read", Plan("flow", Served))
  BY DEF Trial
<1> HIDE DEF P, Q, n
<1>8. Len(Tried) = n /\ Len(Trial) = 3 /\ Tried \in Seq(Steps) /\ Trial \in Seq(Steps)
  BY Parts DEF n
<1>9. /\ Len(BuildTrt) = 3 * n + 2
      /\ \A k \in 1..n : BuildTrt[2 * n + 2 + k] = Tried[k]
  <2>1. Len(BuildTrt) = (2 * n + 2) + n /\ \A k \in 1..n : BuildTrt[(2 * n + 2) + k] = Tried[k]
    <3>1. Len(P \o Tried) = Len(P) + Len(Tried)
          /\ \A k \in 1..Len(Tried) : (P \o Tried)[Len(P) + k] = Tried[k]
      BY <1>3, <1>8, Behind, Zenon
    <3> QED BY <1>3, <1>5, <1>8, <3>1
  <2> QED BY <1>1, <2>1
<1>10. /\ Len(BuildTrtFrontend) = 2 * n + 4
       /\ BuildTrtFrontend[2 * n + 2] = Trial[1] /\ BuildTrtFrontend[2 * n + 3] = Trial[2]
       /\ BuildTrtFrontend[2 * n + 4] = Trial[3]
  <2>1. /\ Len(BuildTrtFrontend) = (2 * n + 1) + 3
        /\ \A k \in 1..3 : BuildTrtFrontend[(2 * n + 1) + k] = Trial[k]
    <3>1. Len(Q \o Trial) = Len(Q) + Len(Trial)
          /\ \A k \in 1..Len(Trial) : (Q \o Trial)[Len(Q) + k] = Trial[k]
      BY <1>4, <1>8, Behind, Zenon
    <3> QED BY <1>4, <1>5, <1>8, <3>1
  <2>2. (2 * n + 1) + 1 = 2 * n + 2 /\ (2 * n + 1) + 2 = 2 * n + 3 /\ (2 * n + 1) + 3 = 2 * n + 4
    BY <1>1
  <2>3. 1 \in 1..3 /\ 2 \in 1..3 /\ 3 \in 1..3
    OBVIOUS
  <2> QED BY <2>1, <2>2, <2>3
<1> QED BY <1>6, <1>7, <1>9, <1>10 DEF n

\* The step that a tool is at, as far as a report depends on it.
LEMMA Table ==
    ASSUME tool.step \in Nat \ {0}, NEW op, At(op)
    PROVE  /\ Step.op = op
           /\ tool.name = "export_onnx" =>
                \/ tool.step = 1 /\ Step = Do("load", Checkpoint)
                \/ tool.step = 2 /\ Step = Do("write", Onnx("encoder"))
                \/ tool.step = 3 /\ Step = Do("write", Onnx("decoder"))
                \/ tool.step = 4 /\ Step = Do("write", Manifest)
           /\ tool.name = "export_frontend_onnx" =>
                \/ tool.step = 1 /\ Step = Do("load", Checkpoint)
                \/ tool.step = 2 /\ Step = Do("write", Onnx("duration"))
                \/ tool.step = 3 /\ Step = Do("noise", Onnx("duration"))
                \/ tool.step = 4 /\ Step = Do("write", Onnx("flow"))
           /\ tool.name = "build_trt" /\ tool.step > 2 * Len(Tags) + 2 =>
                \E k \in 1..Len(Tags) :
                  /\ tool.step = 2 * Len(Tags) + 2 + k
                  /\ Step = Do("read", Plan("decoder", Tags[k]))
           /\ tool.name = "build_trt_frontend" /\ tool.step > 2 * Len(Tags) + 1 =>
                \/ tool.step = 2 * Len(Tags) + 2 /\ Step = Do("read", Plan("duration", Served))
                \/ tool.step = 2 * Len(Tags) + 3 /\ Step = Do("noise", Plan("duration", Served))
                \/ tool.step = 2 * Len(Tags) + 4 /\ Step = Do("read", Plan("flow", Served))
<1>1. Step.op = op /\ ~(tool.step > Len(Program[tool.name]))
  BY DEF At, AtEnd
<1>2. Step = Program[tool.name][tool.step]
  BY DEF Step
<1> HIDE DEF Step
<1>3. ASSUME tool.name = "export_onnx"
      PROVE  \/ tool.step = 1 /\ Step = Do("load", Checkpoint)
             \/ tool.step = 2 /\ Step = Do("write", Onnx("encoder"))
             \/ tool.step = 3 /\ Step = Do("write", Onnx("decoder"))
             \/ tool.step = 4 /\ Step = Do("write", Manifest)
  <2>1. Program[tool.name] = ExportOnnx
    BY <1>3 DEF Program
  <2>2. /\ Len(ExportOnnx) = 4
        /\ ExportOnnx[1] = Do("load", Checkpoint) /\ ExportOnnx[2] = Do("write", Onnx("encoder"))
        /\ ExportOnnx[3] = Do("write", Onnx("decoder")) /\ ExportOnnx[4] = Do("write", Manifest)
    BY DEF ExportOnnx
  <2> QED BY <1>1, <1>2, <2>1, <2>2
<1>4. ASSUME tool.name = "export_frontend_onnx"
      PROVE  \/ tool.step = 1 /\ Step = Do("load", Checkpoint)
             \/ tool.step = 2 /\ Step = Do("write", Onnx("duration"))
             \/ tool.step = 3 /\ Step = Do("noise", Onnx("duration"))
             \/ tool.step = 4 /\ Step = Do("write", Onnx("flow"))
  <2>1. Program[tool.name] = ExportFrontendOnnx
    BY <1>4 DEF Program
  <2>2. /\ Len(ExportFrontendOnnx) = 4
        /\ ExportFrontendOnnx[1] = Do("load", Checkpoint)
        /\ ExportFrontendOnnx[2] = Do("write", Onnx("duration"))
        /\ ExportFrontendOnnx[3] = Do("noise", Onnx("duration"))
        /\ ExportFrontendOnnx[4] = Do("write", Onnx("flow"))
    BY DEF ExportFrontendOnnx
  <2> QED BY <1>1, <1>2, <2>1, <2>2
<1>5. ASSUME tool.name = "build_trt", tool.step > 2 * Len(Tags) + 2
      PROVE  \E k \in 1..Len(Tags) : /\ tool.step = 2 * Len(Tags) + 2 + k
                                     /\ Step = Do("read", Plan("decoder", Tags[k]))
  <2> DEFINE k == tool.step - (2 * Len(Tags) + 2)
  <2>1. Program[tool.name] = BuildTrt
    BY <1>5 DEF Program
  <2>2. k \in 1..Len(Tags) /\ tool.step = 2 * Len(Tags) + 2 + k
    BY <1>1, <1>5, <2>1, Tag, Ends
  <2>3. Step = BuildTrt[2 * Len(Tags) + 2 + k]
    BY <1>2, <2>1, <2>2
  <2>4. Step = Do("read", Plan("decoder", Tags[k]))
    BY <2>2, <2>3, Ends, Zenon
  <2> HIDE DEF k
  <2> QED BY <2>2, <2>4
<1>6. ASSUME tool.name = "build_trt_frontend", tool.step > 2 * Len(Tags) + 1
      PROVE  \/ tool.step = 2 * Len(Tags) + 2 /\ Step = Do("read", Plan("duration", Served))
             \/ tool.step = 2 * Len(Tags) + 3 /\ Step = Do("noise", Plan("duration", Served))
             \/ tool.step = 2 * Len(Tags) + 4 /\ Step = Do("read", Plan("flow", Served))
  <2>1. Program[tool.name] = BuildTrtFrontend
    BY <1>6 DEF Program
  <2>2. \/ tool.step = 2 * Len(Tags) + 2 \/ tool.step = 2 * Len(Tags) + 3
        \/ tool.step = 2 * Len(Tags) + 4
    <3> DEFINE m == 2 * Len(Tags)
    <3>1. m \in Nat /\ tool.step > m + 1
      BY <1>6, Tag
    <3>2. ~(tool.step > m + 4)
      BY <1>1, <2>1, Ends
    <3> HIDE DEF m
    <3>3. tool.step = m + 2 \/ tool.step = m + 3 \/ tool.step = m + 4
      BY <3>1, <3>2
    <3> QED BY <3>3 DEF m
  <2> QED BY <1>2, <2>1, <2>2, Ends, Zenon
<1> QED BY <1>1, <1>3, <1>4, <1>5, <1>6

\* The ways in which a tool after fetch_model goes on.
Goes(s, v) == tool'.name = tool.name /\ tool'.step = s /\ tool'.ver = v

Moves ==
    \/ At("load") /\ disk' = disk /\ \E v \in Nat : Goes(tool.step + 1, v)
    \/ /\ At("write") \/ At("build")
       /\ Goes(tool.step, tool.ver)
       /\ \A f \in Files : f # Step.file => disk'[f] = disk[f]
    \/ At("build") /\ Goes(tool.step + 1, tool.ver)
    \/ /\ At("write") /\ Goes(tool.step + 1, tool.ver)
       /\ \E live \in BOOLEAN :
            /\ Step.file # Onnx("duration") => live
            /\ disk'[Step.file] = Whole(tool.ver, live)
       /\ \A f \in Files : f # Step.file => disk'[f] = disk[f]
    \/ At("read") /\ IsWhole(Step.file) /\ disk' = disk /\ Goes(tool.step + 1, tool.ver)
    \/ At("noise") /\ disk[Step.file].live /\ disk' = disk /\ Goes(tool.step + 1, tool.ver)

LEMMA ToolMoves ==
    ASSUME Versions, ToolStep
    PROVE  \/ tool'.name \in {"none", "fetch_model"}
           \/ tool.name \in Later /\ Moves
<1>0. /\ tool \in Tool /\ tool.step \in Nat \ {0} /\ tool.name \in DOMAIN Program \cup {"none"}
      /\ tool.ver \in Nat /\ hub \in Nat /\ disk \in [Files -> Entry]
      /\ \A f \in Files : disk[f].ver \in Nat
  BY ToolFields DEF Versions, Names, Entry
<1>r. ASSUME Raise PROVE tool'.name = "none"
  BY <1>r, Idle DEF Raise
<1>n. ASSUME Advance PROVE Goes(tool.step + 1, tool.ver)
  BY <1>0, <1>n, NextTool DEF Advance, Goes
<1>f. ASSUME tool.name = "fetch_model", tool'.name = tool.name PROVE tool'.name = "fetch_model"
  BY <1>f
<1>1. CASE Mkdir \/ Download
  <2>1. tool.name = "fetch_model"
    BY <1>0, <1>1, StepOf, Ops, ZenonT(40) DEF Mkdir, Download, Later
  <2>2. tool'.name = tool.name \/ tool'.name = "none"
    BY <1>0, <1>1, <1>r, <1>n DEF Mkdir, Download, Tool, Goes
  <2> QED BY <2>1, <2>2
<1>3. CASE Load
  <2>1. tool.name \in Later /\ At("load") /\ disk' = disk
    <3>1. At("load") /\ disk' = disk
      BY <1>3 DEF Load
    <3> QED BY <1>0, <3>1, StepOf, Ops
  <2>2. ASSUME NEW v \in Resolved, tool' = [tool EXCEPT !.step = @ + 1, !.ver = v]
        PROVE  Moves
    <3>1. v \in Nat
      BY <1>0, Paths, <2>2 DEF Resolved, Entry
    <3>2. Loaded(tool, tool', v)
      BY <1>0, <2>2, <3>1, LoadedTool, Zenon
    <3> QED BY <2>1, <3>1, <3>2 DEF Moves, Goes, Loaded
  <2> QED BY <1>3, <1>r, <2>1, <2>2 DEF Load
<1>4. CASE Open
  <2>1. Goes(tool.step, tool.ver) /\ At("write")
    BY <1>0, <1>4, OpenTool DEF Open, Goes
  <2>2. \A f \in Files : f # Step.file => disk'[f] = disk[f]
    BY <1>0, <1>4 DEF Open
  <2>3. tool.name \in Later \cup {"fetch_model"}
    BY <1>0, <2>1, StepOf
  <2> QED BY <2>1, <2>2, <2>3 DEF Moves, Goes
<1>5. CASE Close
  <2>1. Goes(tool.step + 1, tool.ver) /\ At("write")
    BY <1>5, <1>n DEF Close
  <2>2. PICK live \in BOOLEAN : /\ Step.file # Onnx("duration") => live
                                /\ disk' = [disk EXCEPT ![Step.file] = Whole(tool.ver, live)]
    BY <1>5 DEF Close
  <2>3. tool.name \in Later \cup {"fetch_model"}
    BY <1>0, <2>1, StepOf
  <2>4. CASE tool.name \in Later
    <3>1. Step.file \in Files
      BY <1>0, <2>1, <2>4, StepOf, Ops
    <3>2. /\ disk'[Step.file] = Whole(tool.ver, live)
          /\ \A f \in Files : f # Step.file => disk'[f] = disk[f]
      BY <1>0, <2>2, <3>1
    <3> QED BY <2>1, <2>2, <2>4, <3>2 DEF Moves
  <2> QED BY <2>1, <2>3, <2>4 DEF Goes
<1>6. CASE Skip
  <2>1. Goes(tool.step + 1, tool.ver) /\ At("build")
    BY <1>6, <1>n DEF Skip
  <2>2. tool.name \in Later
    BY <1>0, <2>1, StepOf, Ops
  <2> QED BY <2>1, <2>2 DEF Moves
<1>7. CASE OpenPlan
  <2>1. At("build")
    BY <1>7 DEF OpenPlan
  <2>2. tool.name \in Later
    BY <1>0, <2>1, StepOf, Ops
  <2>3. CASE tool' = [tool EXCEPT !.open = TRUE] /\ disk' = [disk EXCEPT ![Step.file] = Partial]
    <3>1. Goes(tool.step, tool.ver)
      BY <1>0, <2>3, OpenTool DEF Goes
    <3>2. \A f \in Files : f # Step.file => disk'[f] = disk[f]
      BY <1>0, <2>3
    <3> QED BY <2>1, <2>2, <3>1, <3>2 DEF Moves
  <2> QED BY <1>7, <1>r, <2>3 DEF OpenPlan
<1>8. CASE ClosePlan
  <2>1. Goes(tool.step + 1, tool.ver) /\ At("build")
    BY <1>8, <1>n DEF ClosePlan
  <2>2. tool.name \in Later
    BY <1>0, <2>1, StepOf, Ops
  <2> QED BY <2>1, <2>2 DEF Moves
<1>9. CASE Read
  <2>1. At("read") /\ disk' = disk
    BY <1>9 DEF Read
  <2>2. tool.name \in Later
    BY <1>0, <2>1, StepOf, Ops
  <2> QED BY <1>9, <1>r, <1>n, <2>1, <2>2 DEF Read, Moves
<1>10. CASE Noise
  <2>1. At("noise") /\ disk' = disk
    BY <1>10 DEF Noise
  <2>2. tool.name \in Later
    BY <1>0, <2>1, StepOf, Ops
  <2> QED BY <1>10, <1>r, <1>n, <2>1, <2>2 DEF Noise, Moves
<1>11. CASE Finish
  BY <1>11, Idle DEF Finish
<1> QED BY <1>1, <1>3, <1>4, <1>5, <1>6, <1>7, <1>8, <1>9, <1>10, <1>11 DEF ToolStep

\* What the tool has earned so far.
Earned ==
    /\ tool.name = "export_onnx" =>
         /\ tool.step > 2 => disk[Onnx("encoder")] = Whole(tool.ver, TRUE)
         /\ tool.step > 3 => disk[Onnx("decoder")] = Whole(tool.ver, TRUE)
    /\ tool.name = "export_frontend_onnx" =>
         /\ tool.step > 2 =>
              \E live \in BOOLEAN : disk[Onnx("duration")] = Whole(tool.ver, live)
         /\ tool.step > 3 => disk[Onnx("duration")].live
         /\ tool.step > 4 => disk[Onnx("flow")] = Whole(tool.ver, TRUE)
    /\ tool.name = "build_trt" =>
         \A k \in 1..Len(Tags) :
           tool.step > 2 * Len(Tags) + 2 + k => IsWhole(Plan("decoder", Tags[k]))
    /\ tool.name = "build_trt_frontend" =>
         /\ tool.step > 2 * Len(Tags) + 2 => IsWhole(Plan("duration", Served))
         /\ tool.step > 2 * Len(Tags) + 3 => disk[Plan("duration", Served)].live
         /\ tool.step > 2 * Len(Tags) + 4 => IsWhole(Plan("flow", Served))

\* The files of the reports are different ones.
LEMMA Apart ==
    /\ \A a, b \in Engines : Onnx(a) = Onnx(b) <=> a = b
    /\ \A a \in Engines : Onnx(a) \in Files /\ Onnx(a) # Manifest
    /\ {"encoder", "decoder", "duration", "flow"} = Engines
BY Paths DEF Onnx, Manifest, Engines

LEMMA ExportEarns ==
    ASSUME Versions, Earned, Moves, tool.name = "export_onnx"
    PROVE  Earned'
<1> DEFINE e == Onnx("encoder")
           d == Onnx("decoder")
<1>0. tool.step \in Nat \ {0} /\ tool.ver \in Nat
  BY ToolFields DEF Versions
<1>1. tool'.name = "export_onnx"
  BY DEF Moves, Goes
<1>s. SUFFICES /\ tool'.step > 2 => disk'[e] = Whole(tool'.ver, TRUE)
               /\ tool'.step > 3 => disk'[d] = Whole(tool'.ver, TRUE)
  BY <1>1 DEF Earned
<1>2. /\ tool.step > 2 => disk[e] = Whole(tool.ver, TRUE)
      /\ tool.step > 3 => disk[d] = Whole(tool.ver, TRUE)
  BY DEF Earned
<1>t. \A op : At(op) =>
        \/ tool.step = 1 /\ op = "load"
        \/ tool.step = 2 /\ op = "write" /\ Step.file = e
        \/ tool.step = 3 /\ op = "write" /\ Step.file = d
        \/ tool.step = 4 /\ op = "write" /\ Step.file = Manifest
  BY <1>0, Table, Ops
<1>a. /\ e \in Files /\ d \in Files /\ e # d /\ e # Manifest /\ d # Manifest
      /\ e # Onnx("duration") /\ d # Onnx("duration")
  BY Apart
<1> HIDE DEF e, d
<1>3. CASE At("load") /\ disk' = disk /\ \E v \in Nat : Goes(tool.step + 1, v)
  <2>1. tool.step = 1 /\ tool'.step = 2
    <3>1. tool'.step = tool.step + 1
      BY <1>3 DEF Goes
    <3>2. tool.step = 1
      BY <1>3, <1>t
    <3> QED BY <3>1, <3>2
  <2> QED BY <2>1
<1>4. CASE /\ At("write") \/ At("build")
           /\ Goes(tool.step, tool.ver)
           /\ \A f \in Files : f # Step.file => disk'[f] = disk[f]
  <2>1. /\ tool.step > 2 => Step.file # e
        /\ tool.step > 3 => Step.file # d
    BY <1>4, <1>t, <1>a
  <2> QED BY <1>2, <1>4, <1>a, <2>1 DEF Goes
<1>5. CASE /\ At("write") /\ Goes(tool.step + 1, tool.ver)
           /\ \E live \in BOOLEAN : /\ Step.file # Onnx("duration") => live
                                    /\ disk'[Step.file] = Whole(tool.ver, live)
           /\ \A f \in Files : f # Step.file => disk'[f] = disk[f]
  <2>1. \/ tool.step = 2 /\ Step.file = e
        \/ tool.step = 3 /\ Step.file = d
        \/ tool.step = 4 /\ Step.file = Manifest
    BY <1>5, <1>t
  <2>2. Step.file \in {e, d} => disk'[Step.file] = Whole(tool.ver, TRUE)
    BY <1>5, <1>a
  <2>3. tool'.ver = tool.ver /\ tool'.step = tool.step + 1
    BY <1>5 DEF Goes
  <2> DEFINE w == Whole(tool.ver, TRUE)
  <2>v. Whole(tool'.ver, TRUE) = w
    BY <2>3
  <2>4. CASE tool.step = 2 /\ Step.file = e
    <3>1. disk'[e] = w
      BY <2>2, <2>4
    <3>2. ~(tool'.step > 3)
      BY <2>3, <2>4
    <3> QED BY <2>v, <3>1, <3>2
  <2>5. CASE tool.step = 3 /\ Step.file = d
    <3>1. disk[e] = w
      <4>1. tool.step > 2
        BY <2>5
      <4> QED BY <1>2, <4>1
    <3>2. disk'[e] = disk[e]
      BY <1>5, <1>a, <2>5
    <3>3. disk'[d] = w
      BY <2>2, <2>5
    <3> QED BY <2>v, <3>1, <3>2, <3>3
  <2>6. CASE tool.step = 4 /\ Step.file = Manifest
    <3>1. disk[e] = w /\ disk[d] = w
      <4>1. tool.step > 2 /\ tool.step > 3
        BY <2>6
      <4> QED BY <1>2, <4>1
    <3>2. disk'[e] = disk[e] /\ disk'[d] = disk[d]
      BY <1>5, <1>a, <2>6
    <3> QED BY <2>v, <3>1, <3>2
  <2> QED BY <2>1, <2>4, <2>5, <2>6
<1>6. ~At("build") /\ ~At("read") /\ ~At("noise")
  BY <1>t
<1> QED BY <1>3, <1>4, <1>5, <1>6 DEF Moves

LEMMA FrontendExportEarns ==
    ASSUME Versions, Earned, Moves, tool.name = "export_frontend_onnx"
    PROVE  Earned'
<1> DEFINE d == Onnx("duration")
           f == Onnx("flow")
<1>0. tool.step \in Nat \ {0} /\ tool.ver \in Nat
  BY ToolFields DEF Versions
<1>1. tool'.name = "export_frontend_onnx"
  BY DEF Moves, Goes
<1>s. SUFFICES /\ tool'.step > 2 => \E live \in BOOLEAN : disk'[d] = Whole(tool'.ver, live)
               /\ tool'.step > 3 => disk'[d].live
               /\ tool'.step > 4 => disk'[f] = Whole(tool'.ver, TRUE)
  BY <1>1 DEF Earned
<1>2. /\ tool.step > 2 => \E live \in BOOLEAN : disk[d] = Whole(tool.ver, live)
      /\ tool.step > 3 => disk[d].live
      /\ tool.step > 4 => disk[f] = Whole(tool.ver, TRUE)
  BY DEF Earned
<1>t. \A op : At(op) =>
        \/ tool.step = 1 /\ op = "load"
        \/ tool.step = 2 /\ op = "write" /\ Step.file = d
        \/ tool.step = 3 /\ op = "noise" /\ Step.file = d
        \/ tool.step = 4 /\ op = "write" /\ Step.file = f
  BY <1>0, Table, Ops
<1>a. d \in Files /\ f \in Files /\ d # f
  BY Apart
<1>d. d = Onnx("duration")
  OBVIOUS
<1> HIDE DEF d, f
<1>3. CASE At("load") /\ disk' = disk /\ \E v \in Nat : Goes(tool.step + 1, v)
  <2>1. tool.step = 1 /\ tool'.step = 2
    <3>1. tool'.step = tool.step + 1
      BY <1>3 DEF Goes
    <3>2. tool.step = 1
      BY <1>3, <1>t
    <3> QED BY <3>1, <3>2
  <2> QED BY <2>1
<1>4. CASE /\ At("write") \/ At("build")
           /\ Goes(tool.step, tool.ver)
           /\ \A g \in Files : g # Step.file => disk'[g] = disk[g]
  <2>1. /\ tool.step > 2 => Step.file # d
        /\ ~(tool.step > 4)
    BY <1>4, <1>t, <1>a
  <2>2. tool.step > 2 => disk'[d] = disk[d]
    BY <1>4, <1>a, <2>1
  <2>3. tool'.step = tool.step /\ tool'.ver = tool.ver
    BY <1>4 DEF Goes
  <2>4. tool.step > 3 => tool.step > 2
    BY <1>0
  <2>5. tool'.step > 2 => \E live \in BOOLEAN : disk'[d] = Whole(tool'.ver, live)
    BY <1>2, <2>2, <2>3
  <2>6. tool'.step > 3 => disk'[d].live
    BY <1>2, <2>2, <2>3, <2>4
  <2>7. ~(tool'.step > 4)
    BY <2>1, <2>3
  <2> QED BY <2>5, <2>6, <2>7
<1>5. CASE /\ At("write") /\ Goes(tool.step + 1, tool.ver)
           /\ \E live \in BOOLEAN : /\ Step.file # Onnx("duration") => live
                                    /\ disk'[Step.file] = Whole(tool.ver, live)
           /\ \A g \in Files : g # Step.file => disk'[g] = disk[g]
  <2>0. tool'.ver = tool.ver /\ tool'.step = tool.step + 1
    BY <1>5 DEF Goes
  <2>1. CASE tool.step = 2 /\ Step.file = d
    <3>1. \E live \in BOOLEAN : disk'[d] = Whole(tool.ver, live)
      BY <1>5, <2>1
    <3>2. \E live \in BOOLEAN : disk'[d] = Whole(tool'.ver, live)
      BY <2>0, <3>1
    <3>3. ~(tool'.step > 3) /\ ~(tool'.step > 4)
      BY <2>0, <2>1
    <3> QED BY <3>2, <3>3
  <2>2. CASE tool.step = 4 /\ Step.file = f
    <3>1. disk'[d] = disk[d] /\ disk'[f] = Whole(tool.ver, TRUE)
      BY <1>5, <1>a, <1>d, <2>2
    <3>2. disk'[f] = Whole(tool'.ver, TRUE)
      BY <2>0, <3>1
    <3>3. disk[d].live /\ \E live \in BOOLEAN : disk[d] = Whole(tool.ver, live)
      <4>1. tool.step > 2 /\ tool.step > 3
        BY <2>2
      <4> QED BY <1>2, <4>1
    <3>4. disk'[d].live /\ \E live \in BOOLEAN : disk'[d] = Whole(tool'.ver, live)
      BY <2>0, <3>1, <3>3
    <3> QED BY <3>2, <3>4
  <2> QED BY <1>5, <1>t, <2>1, <2>2
<1>6. CASE At("noise") /\ disk[Step.file].live /\ disk' = disk /\ Goes(tool.step + 1, tool.ver)
  <2>1. tool.step = 3 /\ Step.file = d
    BY <1>6, <1>t
  <2> QED BY <1>2, <1>6, <2>1 DEF Goes
<1>7. ~At("build") /\ ~At("read")
  BY <1>t
<1> QED BY <1>3, <1>4, <1>5, <1>6, <1>7 DEF Moves

LEMMA BuildEarns ==
    ASSUME Versions, Earned, Moves, tool.name = "build_trt"
    PROVE  Earned'
<1> DEFINE m == 2 * Len(Tags) + 2
<1>0. tool.step \in Nat \ {0} /\ m \in Nat /\ Len(Tags) \in Nat
  BY ToolFields, Tag DEF Versions
<1>1. tool'.name = "build_trt" /\ tool'.step \in {tool.step, tool.step + 1}
  BY DEF Moves, Goes
<1>2. SUFFICES ASSUME NEW k \in 1..Len(Tags), tool'.step > m + k
               PROVE  disk'[Plan("decoder", Tags[k])].state = "whole"
  BY <1>1 DEF Earned, IsWhole
<1>3. tool.step > m + k => IsWhole(Plan("decoder", Tags[k]))
  BY DEF Earned
<1>4. CASE tool.step > m
  <2>1. \A op : At(op) =>
          \E j \in 1..Len(Tags) : tool.step = m + j /\ Step = Do("read", Plan("decoder", Tags[j]))
                                  /\ op = "read"
    BY <1>0, <1>4, Table, Ops
  <2> HIDE DEF m
  <2>2. At("read") /\ IsWhole(Step.file) /\ disk' = disk /\ Goes(tool.step + 1, tool.ver)
    BY <2>1 DEF Moves
  <2>3. PICK j \in 1..Len(Tags) : tool.step = m + j /\ Step = Do("read", Plan("decoder", Tags[j]))
    BY <2>1, <2>2
  <2>4. IsWhole(Plan("decoder", Tags[j])) /\ tool'.step = m + j + 1
    BY <2>2, <2>3, Ops DEF Goes
  <2>5. k = j \/ tool.step > m + k
    BY <1>0, <1>2, <2>3, <2>4
  <2> QED BY <1>3, <2>2, <2>4, <2>5 DEF IsWhole
<1>5. CASE ~(tool.step > m)
  BY <1>0, <1>1, <1>2, <1>5
<1> QED BY <1>4, <1>5

LEMMA FrontendBuildEarns ==
    ASSUME Versions, Earned, Moves, tool.name = "build_trt_frontend"
    PROVE  Earned'
<1> DEFINE m == 2 * Len(Tags)
           d == Plan("duration", Served)
           f == Plan("flow", Served)
<1>0. tool.step \in Nat \ {0} /\ m \in Nat
  BY ToolFields, Tag DEF Versions
<1>1. tool'.name = "build_trt_frontend" /\ tool'.step \in {tool.step, tool.step + 1}
  BY DEF Moves, Goes
<1>2. SUFFICES /\ tool'.step > m + 2 => disk'[d].state = "whole"
               /\ tool'.step > m + 3 => disk'[d].live
               /\ tool'.step > m + 4 => disk'[f].state = "whole"
  BY <1>1 DEF Earned, IsWhole
<1>3. /\ tool.step > m + 2 => IsWhole(d)
      /\ tool.step > m + 3 => disk[d].live
      /\ tool.step > m + 4 => IsWhole(f)
  BY DEF Earned
<1>4. CASE tool.step > m + 1
  <2>1. \A op : At(op) =>
          \/ tool.step = m + 2 /\ Step.file = d /\ op = "read"
          \/ tool.step = m + 3 /\ Step.file = d /\ op = "noise"
          \/ tool.step = m + 4 /\ Step.file = f /\ op = "read"
    BY <1>0, <1>4, Table, Ops
  <2> HIDE DEF m, d, f
  <2>2. /\ disk' = disk /\ tool'.step = tool.step + 1
        /\ \/ tool.step = m + 2 /\ IsWhole(d)
           \/ tool.step = m + 3 /\ disk[d].live
           \/ tool.step = m + 4 /\ IsWhole(f)
    BY <2>1 DEF Moves, Goes
  <2> QED BY <1>0, <1>3, <2>2 DEF IsWhole
<1>5. CASE ~(tool.step > m + 1)
  <2> HIDE DEF m
  <2>1. ~(tool'.step > m + 2)
    BY <1>0, <1>1, <1>5
  <2> QED BY <1>0, <1>1, <2>1
<1> QED BY <1>4, <1>5

LEMMA NextEarned == Versions /\ Earned /\ [BuildNext]_buildVars => Earned'
<1> SUFFICES ASSUME Versions, Earned, [BuildNext]_buildVars PROVE Earned'
  OBVIOUS
<1>n. ASSUME tool'.name \in {"none", "fetch_model"} PROVE Earned'
  BY <1>n DEF Earned
<1>1. ASSUME NEW name \in DOMAIN Program, Start(name) PROVE Earned'
  <2>1. tool'.step = 1
    BY <1>1, NewTool DEF Start, Names
  <2> QED BY <2>1, Tag DEF Earned
<1>2. CASE ToolStep
  <2>1. ASSUME tool.name \in Later, Moves PROVE Earned'
    BY <2>1, ExportEarns, FrontendExportEarns, BuildEarns, FrontendBuildEarns DEF Later
  <2> QED BY <1>2, <1>n, <2>1, ToolMoves
<1>3. CASE Kill
  BY <1>3, <1>n, Idle DEF Kill
<1>4. ASSUME UNCHANGED <<disk, tool>> PROVE Earned'
  BY <1>4 DEF Earned, IsWhole
<1> QED BY <1>1, <1>2, <1>3, <1>4
        DEF BuildNext, Push, StartServer, ServerStep, LoadEngine, FallBack, WarmUp, StopServer,
            buildVars

LEMMA InitEarned == BuildInit => Earned
BY Idle DEF BuildInit, Earned

\* Nothing that a frontend has loaded is newer than the hub.
Limits ==
    /\ hub \in 1..MaxVersion
    /\ server.pc \in {"down", "failed", "loading", "warming", "up"}
    /\ Len(server.loaded) <= 3
    /\ \A i \in 1..Len(server.loaded) : server.loaded[i].ver <= hub

LEMMA InitLimits == BuildInit => Limits
BY BoundsAssumption DEF BuildInit, Limits, Down

LEMMA LoadedEntries ==
    ASSUME ServerInv
    PROVE  /\ server.loaded \in Seq(Entry) /\ Len(server.loaded) \in Nat
           /\ \A i \in 1..Len(server.loaded) : server.loaded[i] \in Entry
<1> DEFINE l == server.loaded
<1>1. l \in Seq(Entry)
  BY DEF ServerInv
<1> HIDE DEF l
<1>2. Len(l) \in Nat /\ \A i \in 1..Len(l) : l[i] \in Entry
  BY <1>1
<1> QED BY <1>1, <1>2 DEF l

LEMMA NextLimits == Versions /\ ServerInv /\ Limits /\ [BuildNext]_buildVars => Limits'
<1> SUFFICES ASSUME Versions, ServerInv, Limits, [BuildNext]_buildVars PROVE Limits'
  OBVIOUS
<1>0. hub \in 1..MaxVersion /\ MaxVersion \in Nat /\ server.loaded \in Seq(Entry)
  BY BoundsAssumption DEF Limits, ServerInv
<1>1. CASE Push
  <2>1. hub' \in 1..MaxVersion /\ hub' = hub + 1 /\ server' = server
    BY <1>0, <1>1 DEF Push
  <2>2. \A i \in 1..Len(server.loaded) : server.loaded[i].ver \in Nat
    BY LoadedEntries DEF Entry
  <2> QED BY <1>0, <2>1, <2>2 DEF Limits
<1>2. CASE LoadEngine
  <2> DEFINE f == Wanted[Len(server.loaded) + 1]
  <2>1. Len(server.loaded) \in 0..2
    <3>1. Len(server.loaded) <= 2
      BY <1>2 DEF LoadEngine, ServerInv
    <3>2. Len(server.loaded) \in Nat
      BY LoadedEntries
    <3>3. \A n \in Nat : n <= 2 => n \in 0..2
      OBVIOUS
    <3> QED BY <3>1, <3>2, <3>3
  <2>2. f \in Files
    <3>1. /\ Plan("encoder", Served) \in Files /\ Plan("duration", Served) \in Files
          /\ Plan("flow", Served) \in Files
      BY TagsAssumption, Paths DEF Engines
    <3>2. \A i \in 1..3 : Wanted[i] \in Files
      BY <3>1 DEF Wanted
    <3>3. Len(server.loaded) + 1 \in 1..3
      <4>1. \A n \in 0..2 : n + 1 \in 1..3
        OBVIOUS
      <4> QED BY <2>1, <4>1
    <3> QED BY <3>2, <3>3, Zenon
  <2> HIDE DEF f
  <2>3. disk[f] \in Entry /\ disk[f].ver <= hub
    BY <2>2 DEF Versions
  <2>4. /\ server'.pc \in {"loading", "warming"}
        /\ server'.loaded = Append(server.loaded, disk[f]) /\ hub' = hub
    BY <1>2 DEF LoadEngine, f
  <2>5. /\ Len(server'.loaded) = Len(server.loaded) + 1
        /\ \A i \in 1..Len(server'.loaded) :
             server'.loaded[i] = IF i <= Len(server.loaded) THEN server.loaded[i] ELSE disk[f]
    BY <1>0, <2>3, <2>4
  <2>6. Len(server'.loaded) <= 3
    <3>1. \A n \in 0..2 : n + 1 <= 3
      OBVIOUS
    <3> QED BY <2>1, <2>5, <3>1
  <2>7. \A i \in 1..Len(server'.loaded) : server'.loaded[i].ver <= hub
    BY <1>0, <2>1, <2>3, <2>5 DEF Limits
  <2> QED BY <1>0, <2>4, <2>6, <2>7 DEF Limits
<1>3. CASE WarmUp
  <2>1. server'.pc = "up" /\ server'.loaded = server.loaded /\ hub' = hub
    BY <1>3 DEF WarmUp, Limits, ServerInv
  <2> QED BY <2>1 DEF Limits
<1>4. ASSUME hub' = hub, server'.loaded = <<>>,
             server'.pc \in {"down", "failed", "loading", "warming", "up"}
      PROVE  Limits'
  BY <1>4 DEF Limits
<1>5. CASE StartServer \/ FallBack \/ StopServer
  BY <1>4, <1>5 DEF StartServer, FallBack, StopServer, Down
<1>6. ASSUME UNCHANGED <<hub, server>> PROVE Limits'
  BY <1>6 DEF Limits
<1> QED BY <1>1, <1>2, <1>3, <1>5, <1>6
        DEF BuildNext, Start, ToolStep, Mkdir, Download, Load, Open, Close, Skip, OpenPlan,
            ClosePlan, Read, Noise, Finish, Kill, ServerStep, buildVars

LEMMA TypesHold == Versions /\ ServerInv /\ Limits => TypeOK
<1> SUFFICES ASSUME Versions, ServerInv, Limits PROVE TypeOK
  OBVIOUS
<1>0. hub \in 1..MaxVersion /\ MaxVersion \in Nat
  BY BoundsAssumption DEF Limits
<1>1. \A x \in Entry : x.ver <= hub => x \in File
  BY <1>0 DEF Entry, File
<1>2. disk \in [Files -> File] /\ stale \in SUBSET Files
  BY <1>1 DEF Versions
<1>3. tool.name \in DOMAIN Program \cup {"none"} /\ tool.ver \in 0..MaxVersion
  BY <1>0, ToolFields DEF Versions, Names
<1>4. server.loaded \in SeqOf(File, 3)
  <2> DEFINE n == Len(server.loaded)
  <2>1. n \in 0..3 /\ server.loaded \in Seq(Entry)
    <3>1. n <= 3
      BY DEF Limits
    <3>2. n \in Nat /\ server.loaded \in Seq(Entry)
      BY LoadedEntries
    <3> HIDE DEF n
    <3> QED BY <3>1, <3>2
  <2>2. \A i \in 1..n : server.loaded[i] \in File
    BY <1>1, <2>1 DEF Limits
  <2>3. server.loaded \in [1..n -> File]
    BY <2>1, <2>2
  <2> HIDE DEF n
  <2> QED BY <2>1, <2>3 DEF SeqOf
<1> QED BY <1>0, <1>2, <1>3, <1>4 DEF TypeOK, Limits

\* What a tool has earned at its end is what it reports.
LEMMA EarnedReports == Versions /\ Earned /\ TypeOK => ReportsAreEarned
<1> SUFFICES ASSUME Versions, Earned, TypeOK PROVE ReportsAreEarned
  OBVIOUS
<1>0. tool.step \in Nat \ {0} /\ Len(Tags) \in Nat
  BY ToolFields, Tag DEF Versions
<1>1. ASSUME AtEnd("export_onnx")
      PROVE  \A name \in {"encoder", "decoder"} : disk[Onnx(name)] = Whole(tool.ver, TRUE)
  <2>1. Len(Program["export_onnx"]) = 4
    BY DEF Program, ExportOnnx
  <2>2. tool.name = "export_onnx" /\ tool.step > 2 /\ tool.step > 3
    BY <1>0, <1>1, <2>1 DEF AtEnd
  <2> QED BY <2>2 DEF Earned
<1>2. ASSUME AtEnd("export_frontend_onnx")
      PROVE  \A name \in {"duration", "flow"} : disk[Onnx(name)] = Whole(tool.ver, TRUE)
  <2>1. Len(Program["export_frontend_onnx"]) = 4
    BY DEF Program, ExportFrontendOnnx
  <2>2. /\ tool.name = "export_frontend_onnx"
        /\ tool.step > 2 /\ tool.step > 3 /\ tool.step > 4
    BY <1>0, <1>2, <2>1 DEF AtEnd
  <2>3. PICK live \in BOOLEAN : disk[Onnx("duration")] = Whole(tool.ver, live)
    BY <2>2 DEF Earned
  <2>4. live
    <3>1. disk[Onnx("duration")].live
      BY <2>2 DEF Earned
    <3>2. tool.ver \in Nat
      BY ToolFields DEF Versions
    <3> QED BY <2>3, <3>1, <3>2, Entries
  <2>5. disk[Onnx("duration")] = Whole(tool.ver, TRUE)
    BY <2>3, <2>4
  <2>6. disk[Onnx("flow")] = Whole(tool.ver, TRUE)
    BY <2>2 DEF Earned
  <2> QED BY <2>5, <2>6
<1>3. ASSUME AtEnd("build_trt")
      PROVE  \A tag \in Range(Tags) : IsWhole(Plan("decoder", tag))
  <2>1. Len(Program["build_trt"]) = 3 * Len(Tags) + 2
    BY Ends DEF Program
  <2>2. tool.name = "build_trt" /\ tool.step > 3 * Len(Tags) + 2
    BY <1>3, <2>1 DEF AtEnd
  <2>3. \A k \in 1..Len(Tags) : tool.step > 2 * Len(Tags) + 2 + k
    BY <1>0, <2>2
  <2>4. \A k \in 1..Len(Tags) : IsWhole(Plan("decoder", Tags[k]))
    BY <2>2, <2>3 DEF Earned
  <2>5. \A tag \in Range(Tags) : \E k \in 1..Len(Tags) : tag = Tags[k]
    BY TagsAssumption DEF Range
  <2> QED BY <2>4, <2>5
<1>4. ASSUME AtEnd("build_trt_frontend")
      PROVE  /\ IsWhole(Plan("duration", Served)) /\ disk[Plan("duration", Served)].live
             /\ IsWhole(Plan("flow", Served))
  <2>1. Len(Program["build_trt_frontend"]) = 2 * Len(Tags) + 4
    BY Ends DEF Program
  <2>2. tool.name = "build_trt_frontend" /\ tool.step > 2 * Len(Tags) + 4
    BY <1>4, <2>1 DEF AtEnd
  <2>3. tool.step > 2 * Len(Tags) + 2 /\ tool.step > 2 * Len(Tags) + 3
    BY <1>0, <2>2
  <2> QED BY <2>2, <2>3 DEF Earned
<1> QED BY <1>1, <1>2, <1>3, <1>4 DEF ReportsAreEarned

\* A tool that gets to its end has earned its report, whatever earlier runs, killed
\* or raised, have left on disk (ReportsAreEarned).
THEOREM ReportsEarned == BuildSpec => []ReportsAreEarned
<1> DEFINE IInv == Versions /\ ServerInv /\ Earned /\ Limits
<1>1. IInv => ReportsAreEarned
  BY TypesHold, EarnedReports
<1>2. BuildInit => IInv
  BY InitVersions, InitServer, InitEarned, InitLimits
<1>3. IInv /\ [BuildNext]_buildVars => IInv'
  BY NextVersions, NextServer, NextEarned, NextLimits
<1> QED BY <1>1, <1>2, <1>3, PTL DEF BuildSpec
=============================================================================
