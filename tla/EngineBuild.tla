----------------------------- MODULE EngineBuild -----------------------------
(***************************************************************************)
(* From a checkpoint on the hub to the engines an acoustic frontend loads: *)
(* the tools of export/, run by hand one after another over one directory  *)
(* of files, and the start of a vits_frontend instance on the same files.  *)
(*                                                                         *)
(* A tool is a list of steps.  A file is on disk from the moment it is     *)
(* opened for writing, and whole when the write has ended; a tool that is  *)
(* killed, or raises, leaves what it has written.  build_trt and           *)
(* build_trt_frontend skip a plan that exists.                             *)
(*                                                                         *)
(* What a file holds is reduced to the version of the weights it was made  *)
(* from and to whether noise is still an input of it.  Benchmarks, parity  *)
(* figures and the JSON reports, which no later tool reads, are left out.  *)
(***************************************************************************)
EXTENDS Integers, Sequences, SequencesExt

CONSTANTS
    Tags,         \* precisions a plan is built in, in build_trt's order
    Served,       \* the one whose plans the frontend loads
    MaxVersion,   \* bound on the versions the hub goes through
    MaxRuns,      \* bound on the number of times a tool is started
    MaxKills      \* bound on the number of tools and servers that are killed

ASSUME TagsAssumption == Tags \in Seq(STRING) /\ Served \in Range(Tags)
ASSUME BoundsAssumption == MaxVersion \in Nat \ {0} /\ MaxRuns \in Nat /\ MaxKills \in Nat

VARIABLES
    hub,      \* external: the version the revision "main" names
    disk,     \* the files
    stale,    \* history: those made from anything older than the checkpoint on disk
    tool,     \* the tool that runs, the step it is at, the version it loaded
    server,   \* the vits_frontend instance
    runs,     \* tools started
    kills     \* tools and servers killed

buildVars == <<hub, disk, stale, tool, server, runs, kills>>

Onnx(name) == <<name, "onnx">>
Plan(name, tag) == <<name, tag>>
Checkpoint == <<"checkpoint">>
Manifest == <<"manifest">>

Engines == {"encoder", "decoder", "duration", "flow"}
Plans == {Plan(name, tag) : name \in Engines, tag \in Range(Tags)}
Files == {Checkpoint, Manifest} \cup {Onnx(name) : name \in Engines} \cup Plans

Absent == [state |-> "absent", ver |-> 0, live |-> TRUE]
Partial == [Absent EXCEPT !.state = "partial"]
Whole(v, live) == [state |-> "whole", ver |-> v, live |-> live]

IsWhole(f) == disk[f].state = "whole"
-----------------------------------------------------------------------------
(* The tools. *)

Do(op, file) == [op |-> op, file |-> file]

Fetch == <<Do("mkdir", Checkpoint), Do("download", Checkpoint), Do("write", Checkpoint)>>

ExportOnnx ==
    <<Do("load", Checkpoint), Do("write", Onnx("encoder")), Do("write", Onnx("decoder")),
      Do("write", Manifest)>>

ExportFrontendOnnx ==
    <<Do("load", Checkpoint), Do("write", Onnx("duration")), Do("noise", Onnx("duration")),
      Do("write", Onnx("flow"))>>

BuildTrt ==
    <<Do("read", Manifest)>>
    \o [i \in 1..(2 * Len(Tags)) |->   \* each precision in turn, the decoder first
          Do("build", Plan(IF i % 2 = 1 THEN "decoder" ELSE "encoder", Tags[(i + 1) \div 2]))]
    \o <<Do("load", Checkpoint)>>
    \o [i \in 1..Len(Tags) |-> Do("read", Plan("decoder", Tags[i]))]

BuildTrtFrontend ==
    <<Do("load", Checkpoint)>>
    \o [i \in 1..Len(Tags) |-> Do("build", Plan("duration", Tags[i]))]
    \o [i \in 1..Len(Tags) |-> Do("build", Plan("flow", Tags[i]))]
    \o <<Do("read", Plan("duration", Served)), Do("noise", Plan("duration", Served)),
         Do("read", Plan("flow", Served))>>

Program ==
    [fetch_model |-> Fetch, export_onnx |-> ExportOnnx,
     export_frontend_onnx |-> ExportFrontendOnnx,
     build_trt |-> BuildTrt, build_trt_frontend |-> BuildTrtFrontend]

NoTool == [name |-> "none", step |-> 1, ver |-> 0, open |-> FALSE]

Down == [pc |-> "down", loaded |-> <<>>]

BuildInit ==
    /\ hub = 1
    /\ disk = [f \in Files |-> Absent] /\ stale = {}
    /\ tool = NoTool /\ server = Down
    /\ runs = 0 /\ kills = 0

Running == tool.name # "none"
AtEnd(name) == tool.name = name /\ tool.step > Len(Program[name])
Step == Program[tool.name][tool.step]
At(op) == Running /\ ~AtEnd(tool.name) /\ Step.op = op

Advance == tool' = [tool EXCEPT !.step = @ + 1, !.open = FALSE]
Raise == tool' = NoTool

Start(name) ==
    /\ ~Running /\ runs < MaxRuns
    /\ tool' = [NoTool EXCEPT !.name = name]
    /\ runs' = runs + 1
    /\ UNCHANGED <<hub, disk, stale, server, kills>>

\* OUT.mkdir(exist_ok=True)
Mkdir ==
    /\ At("mkdir")
    /\ disk' = IF disk[Checkpoint] = Absent
                 THEN [disk EXCEPT ![Checkpoint] = Partial] ELSE disk
    /\ Advance
    /\ UNCHANGED <<hub, stale, server, runs, kills>>

\* from_pretrained of the id and TTS_MODEL_REVISION: what "main" is now, or any
\* commit before; or no network.
Download ==
    /\ At("download")
    /\ \/ \E v \in 1..hub : tool' = [tool EXCEPT !.step = @ + 1, !.ver = v]
       \/ Raise
    /\ UNCHANGED <<hub, disk, stale, server, runs, kills>>

\* Faulty Resolved: the id, wherever there is one.
ResolvedOnline == {hub}

\* The versions that from_pretrained(resolve()) can load: the local directory if
\* it exists, in whatever state, and the hub's "main" only otherwise: the revision
\* is fetch_model's alone.
Resolved ==
    CASE disk[Checkpoint].state = "whole"   -> {disk[Checkpoint].ver}
      [] disk[Checkpoint].state = "absent"  -> {hub}
      [] disk[Checkpoint].state = "partial" -> {}

Load ==
    /\ At("load")
    /\ IF Resolved = {}
         THEN Raise
         ELSE \E v \in Resolved : tool' = [tool EXCEPT !.step = @ + 1, !.ver = v]
    /\ UNCHANGED <<hub, disk, stale, server, runs, kills>>

\* A file is opened and written; a model whose randn calls were not replaced
\* while it was traced has its noise baked in.
Open ==
    /\ At("write") /\ ~tool.open
    /\ disk' = [disk EXCEPT ![Step.file] = Partial]
    /\ tool' = [tool EXCEPT !.open = TRUE]
    /\ UNCHANGED <<hub, stale, server, runs, kills>>

Close ==
    /\ At("write") /\ tool.open
    /\ \E live \in BOOLEAN :
         /\ Step.file # Onnx("duration") => live
         /\ disk' = [disk EXCEPT ![Step.file] = Whole(tool.ver, live)]
    /\ stale' = IF Step.file = Checkpoint THEN Files \ {Checkpoint} ELSE stale \ {Step.file}
    /\ Advance
    /\ UNCHANGED <<hub, server, runs, kills>>

\* "exists, skipping build"
Skip ==
    /\ At("build") /\ ~tool.open
    /\ disk[Step.file] # Absent
    /\ Advance
    /\ UNCHANGED <<hub, disk, stale, server, runs, kills>>

Source(plan) == Onnx(plan[1])

\* build_engine: the parser reads the whole ONNX file, or the tool raises.
OpenPlan ==
    /\ At("build") /\ ~tool.open
    /\ disk[Step.file] = Absent
    /\ IF IsWhole(Source(Step.file))
         THEN disk' = [disk EXCEPT ![Step.file] = Partial]
              /\ tool' = [tool EXCEPT !.open = TRUE]
         ELSE Raise /\ UNCHANGED disk
    /\ UNCHANGED <<hub, stale, server, runs, kills>>

\* TensorRT may fold a live noise input into a constant.
ClosePlan ==
    /\ At("build") /\ tool.open
    /\ \E live \in BOOLEAN :
         /\ live => disk[Source(Step.file)].live
         /\ Step.file[1] # "duration" => live
         /\ disk' = [disk EXCEPT ![Step.file] = Whole(disk[Source(Step.file)].ver, live)]
    /\ stale' = IF Source(Step.file) \in stale THEN stale \cup {Step.file}
                ELSE stale \ {Step.file}
    /\ Advance
    /\ UNCHANGED <<hub, server, runs, kills>>

\* json.loads, or TRTRunner: half a file raises.
Read ==
    /\ At("read")
    /\ IF IsWhole(Step.file) THEN Advance ELSE Raise
    /\ UNCHANGED <<hub, disk, stale, server, runs, kills>>

\* Faulty Noise: the spread is reported only.
NoiseReported ==
    /\ At("noise")
    /\ Advance
    /\ UNCHANGED <<hub, disk, stale, server, runs, kills>>

\* Two draws of noise must give two durations; the file is there already.
Noise ==
    /\ At("noise")
    /\ IF disk[Step.file].live THEN Advance ELSE Raise
    /\ UNCHANGED <<hub, disk, stale, server, runs, kills>>

Finish ==
    /\ Running /\ AtEnd(tool.name)
    /\ tool' = NoTool
    /\ UNCHANGED <<hub, disk, stale, server, runs, kills>>

Kill ==
    /\ Running /\ kills < MaxKills
    /\ tool' = NoTool
    /\ kills' = kills + 1
    /\ UNCHANGED <<hub, disk, stale, server, runs>>

ToolStep ==
    \/ Mkdir \/ Download \/ Load \/ Open \/ Close
    \/ Skip \/ OpenPlan \/ ClosePlan \/ Read \/ Noise \/ Finish

\* The id's revision is the branch "main", which its owner may push to.
Push ==
    /\ hub < MaxVersion
    /\ hub' = hub + 1
    /\ UNCHANGED <<disk, stale, tool, server, runs, kills>>
-----------------------------------------------------------------------------
(* TritonPythonModel.initialize, while the tools may be running. *)

\* The engines TRTFrontend loads, in its order.
Wanted == <<Plan("encoder", Served), Plan("duration", Served), Plan("flow", Served)>>

\* The PyTorch model first: without a whole checkpoint the model fails to load.
\* The parameter `backend` says whether the engines are tried at all.
StartServer ==
    /\ server.pc \in {"down", "failed"}
    /\ \E pc \in IF IsWhole(Checkpoint) THEN {"loading", "warming"} ELSE {"failed"} :
         server' = [pc |-> pc, loaded |-> <<>>]
    /\ server' # server
    /\ UNCHANGED <<hub, disk, stale, tool, runs, kills>>

LoadEngine ==
    /\ server.pc = "loading"
    /\ IsWhole(Wanted[Len(server.loaded) + 1])
    /\ server' = [pc |-> IF Len(server.loaded) = 2 THEN "warming" ELSE "loading",
                  loaded |-> Append(server.loaded, disk[Wanted[Len(server.loaded) + 1]])]
    /\ UNCHANGED <<hub, disk, stale, tool, runs, kills>>

\* Faulty FallBack: what has been loaded is used.
FallBackKeeping ==
    /\ server.pc = "loading"
    /\ server' = [server EXCEPT !.pc = "warming"]
    /\ UNCHANGED <<hub, disk, stale, tool, runs, kills>>

\* Faulty FallBack: the exception is not caught.
FallBackNever ==
    /\ server.pc = "loading"
    /\ server' = [pc |-> "failed", loaded |-> <<>>]
    /\ UNCHANGED <<hub, disk, stale, tool, runs, kills>>

\* A plan is missing, cut short or made for another architecture: self.trt = None.
FallBack ==
    /\ server.pc = "loading"
    /\ server' = [pc |-> "warming", loaded |-> <<>>]
    /\ UNCHANGED <<hub, disk, stale, tool, runs, kills>>

\* The warm-up calls; what they raise is swallowed.  A device that faults, where the
\* try does not reach, is left out.
WarmUp ==
    /\ server.pc = "warming"
    /\ server' = [server EXCEPT !.pc = "up"]
    /\ UNCHANGED <<hub, disk, stale, tool, runs, kills>>

StopServer ==
    /\ server.pc \in {"loading", "warming", "up"} /\ kills < MaxKills
    /\ server' = Down
    /\ kills' = kills + 1
    /\ UNCHANGED <<hub, disk, stale, tool, runs>>

ServerStep == LoadEngine \/ FallBack \/ WarmUp

BuildNext ==
    \/ \E name \in DOMAIN Program : Start(name)
    \/ ToolStep \/ Kill \/ Push
    \/ StartServer \/ ServerStep \/ StopServer

BuildSpec == BuildInit /\ [][BuildNext]_buildVars

\* An instance that has begun to start goes on.  Nothing is assumed of the tools.
FairBuild == BuildSpec /\ WF_buildVars(ServerStep)
-----------------------------------------------------------------------------
(* Properties. *)

File == [state : {"absent", "partial", "whole"}, ver : 0..MaxVersion, live : BOOLEAN]

TypeOK ==
    /\ hub \in 1..MaxVersion
    /\ disk \in [Files -> File] /\ stale \in SUBSET Files
    /\ tool.name \in DOMAIN Program \cup {"none"} /\ tool.ver \in 0..MaxVersion
    /\ server.pc \in {"down", "failed", "loading", "warming", "up"}
    /\ server.loaded \in SeqOf(File, 3)

\* A tool that gets to its end has earned its report, over whatever files earlier
\* runs, killed runs and runs that raised have left: exports are of the model just
\* loaded, and the plans that are tried are whole and the durations' noise live.
\* build_trt tries the decoder's plans only, so the encoder's may be half a file.
ReportsAreEarned ==
    /\ TypeOK
    /\ AtEnd("export_onnx") =>
         \A name \in {"encoder", "decoder"} :
           disk[Onnx(name)] = Whole(tool.ver, TRUE)
    /\ AtEnd("export_frontend_onnx") =>
         \A name \in {"duration", "flow"} :
           disk[Onnx(name)] = Whole(tool.ver, TRUE)
    /\ AtEnd("build_trt") =>
         \A tag \in Range(Tags) : IsWhole(Plan("decoder", tag))
    /\ AtEnd("build_trt_frontend") =>
         /\ IsWhole(Plan("duration", Served)) /\ disk[Plan("duration", Served)].live
         /\ IsWhole(Plan("flow", Served))

\* Once a revision has been fetched, newer or older than what was there, whatever
\* the hub does, whatever is killed and whatever is left of earlier checkpoints:
\* what is exported, and built from such an export, is of that revision: "every
\* later step works offline and against a pinned revision" (fetch_model.py:2).
\* Only what was there before, and plans built from exports that were there before,
\* may be of another.  (Versions count from 1; an unfinished file has none.)
Pinned ==
    IsWhole(Checkpoint) =>
      \A f \in Files \ stale : disk[f].ver \in {0, disk[Checkpoint].ver}

\* A frontend speaks through all three engines or through none, and through whole
\* ones, even if it started while the tools were writing them.
NoHalfEngines ==
    server.pc = "up" =>
      /\ Len(server.loaded) \in {0, 3}
      /\ \A i \in 1..Len(server.loaded) : server.loaded[i].state = "whole"

\* "A slower correct answer beats refusing to load" (model.py:56): an instance that
\* has its checkpoint and a working device comes up, unless it is stopped, whatever
\* the engines are.
FallsBack == (server.pc = "loading") ~> (server.pc \in {"up", "down"})
=============================================================================
