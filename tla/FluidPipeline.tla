--------------------------- MODULE FluidPipeline ----------------------------
(***************************************************************************)
(* A frame of the simulation (fluid_cpu.c): fluidServerOnFrame and         *)
(* fluidAdvanceASync add the frame's tasks, each a kernel run once per row *)
(* of the fluid with the dependency its builder states; the workers run    *)
(* them in any order the scheduler allows (TaskGrid); fluidAdvanceSync     *)
(* waits for all of them.  Nothing but the stated dependencies keeps one   *)
(* kernel from overwriting a row another still has to read.                *)
(***************************************************************************)
EXTENDS Integers, Sequences

CONSTANTS
  NData,        (* rows of the fluid: fieldHeight of its fields *)
  AdvectDist,   (* ADVECT_DIST *)
  MaxTasks,     (* the tasks mpCCreate is asked for: 128 *)
  Settings      (* what messages, clients and the build may ask of a frame *)

ASSUME NDataAssumption == NData \in Nat \ {0}
ASSUME AdvectDistAssumption == AdvectDist \in Nat
ASSUME SettingsAssumption ==
  Settings \subseteq [
    altivec : BOOLEAN,       (* the build: __APPLE_ALTIVEC__ *)
    out : Nat,               (* height of the velocities sent out, 0 if no client *)
    velIn : BOOLEAN,         (* velocities come in *)
    densIn : BOOLEAN,        (* densities come in, and blend *)
    vorticity : BOOLEAN,     (* m_vorticity >= 0.001 *)
    fadeDens : BOOLEAN,      (* m_fadeDens is neither 0 nor 1 *)
    fadeVel : BOOLEAN,       (* m_fadeVel is neither 0 nor 1 *)
    temperature : BOOLEAN,   (* m_gravity or m_heatSpeed is not 0 *)
    viscosity : Nat,         (* its iterations, 0 if m_viscosity < 0.001 *)
    pressure : Nat,          (* m_pressureAccuracy *)
    freeSurface : BOOLEAN,   (* FLUID_SIMPLEFREE *)
    density : BOOLEAN]       (* FLUID_DENSITY *)

VARIABLES
  settings,      (* of this frame *)
  stage,         (* the next call of the main thread *)
  r,             (* the fields behind r_velocityX, r_velocityY, ... *)
  rows,          (* the tasks added, in order *)
  begun, done    (* pieces <<task, row of the fluid>> *)

vars == <<settings, stage, r, rows, begun, done>>

Grid == INSTANCE TaskGrid WITH Descriptions <- {}

Pointers == {"velocityX", "velocityY", "tmpVelX", "tmpVelY", "density", "density_swap"}
Fields == Pointers \cup {"pressure", "reposX", "reposY", "vidOutput", "velOut"}
Stages == {"idle", "velocityOut", "velocityIn", "densityIn", "vorticity", "dampenDensity",
           "dampenVelocityX", "dampenVelocityY", "temperature", "viscosity", "pressure",
           "corrector", "advectDensity", "advectVelocity", "video", "flood", "run"}

Init ==
  /\ settings \in Settings
  /\ stage = "idle"
  /\ r = [p \in Pointers |-> p]
  /\ rows = <<>> /\ begun = {} /\ done = {}

-----------------------------------------------------------------------------
(* The kernels: the fields each touches for row k of the fluid, and which  *)
(* rows of them.                                                           *)

Piece == 0 .. NData - 1
Inside(k) == k # 0 /\ k # NData - 1

(* Only the first and the last row are not Inside.  Next to them a kernel  *)
(* reads what is there: a band at the edge is the row and its one          *)
(* neighbour.  An advected row is found up to AdvectDist rows away, and    *)
(* interpolated with the row after it.                                     *)
Span(how, k) ==
  CASE how = "own"         -> {k}
    [] how = "band"        -> (k - 1 .. k + 1) \cap Piece
    [] how = "window"      -> (k - AdvectDist .. k + AdvectDist + 1) \cap Piece
    [] how = "inner"       -> IF Inside(k) THEN {k} ELSE {}
    [] how = "innerBand"   -> IF Inside(k) THEN k - 1 .. k + 1 ELSE {}
    [] how = "innerSides"  -> IF Inside(k) THEN {k - 1, k + 1} ELSE {}
    [] how = "curlEdge"    -> IF Inside(k) \/ settings.altivec THEN {k} ELSE {0}
    [] how = "scaled"      -> {(k * NData) \div settings.out} \cap Piece

Kernel(fn, reads, writes) == [fn |-> fn, reads |-> reads, writes |-> writes]
VelocitiesIn(how) == {<<r["velocityX"], how>>, <<r["velocityY"], how>>}

(* The velocities go out at the height asked for: row k of them is the     *)
(* fluid's row k * h / h2.                                                 *)
fluid_input_vel2float ==
  Kernel("vel2float", VelocitiesIn("scaled"), {<<"velOut", "own">>})

fluid_input_float2vel == Kernel("float2vel", VelocitiesIn("own"), VelocitiesIn("own"))

fluid_input_char2dens ==
  Kernel("char2dens", {<<r["density"], "own">>}, {<<r["density"], "own">>})

(* At the first and last rows the build without AltiVec leaves y * sy out: *)
(* it reads row 0 of velY.                                                 *)
fluid_vorticity_curl ==
  Kernel("vorticity_curl",
         {<<r["velocityX"], "innerSides">>, <<r["velocityY"], "curlEdge">>},
         {<<r["tmpVelX"], "own">>})

fluid_vorticity_apply ==
  Kernel("vorticity_apply",
         {<<r["tmpVelX"], "innerBand">>} \cup VelocitiesIn("inner"), VelocitiesIn("inner"))

fluid_dampen(dst) == Kernel("dampen", {<<dst, "own">>}, {<<dst, "own">>})

fluid_force_heat ==
  Kernel("force_heat", {<<r["density"], "own">>} \cup VelocitiesIn("own"), VelocitiesIn("own"))

fluid_viscosity == Kernel("viscosity", VelocitiesIn("band"), VelocitiesIn("own"))

fluid_genPressure ==
  Kernel("genPressure",
         {<<"pressure", "band">>, <<r["velocityX"], "inner">>, <<r["velocityY"], "innerSides">>},
         {<<"pressure", "own">>})

fluid_genPressure_dens ==
  [fluid_genPressure EXCEPT !.fn = "genPressure_dens",
                            !.reads = @ \cup {<<r["density"], "inner">>}]

fluid_genPressure_densfix ==
  Kernel("genPressure_densfix", {<<r["density"], "own">>}, {<<r["density"], "own">>})

fluid_applyPressure ==
  Kernel("applyPressure",
         {<<"pressure", "innerBand">>} \cup VelocitiesIn("inner"), VelocitiesIn("inner"))

fluid_advection_mccormack_repos ==
  Kernel("mccormack_repos", VelocitiesIn("window"), {<<"reposX", "own">>, <<"reposY", "own">>})

Repos == {<<"reposX", "own">>, <<"reposY", "own">>}

fluid_repos ==
  Kernel("repos", Repos \cup {<<r["density"], "window">>}, {<<r["density_swap"], "own">>})

fluid_reposVel ==
  Kernel("reposVel", Repos \cup VelocitiesIn("window"),
         {<<r["tmpVelX"], "own">>, <<r["tmpVelY"], "own">>})

(* To the temperatures' colors or the densities': either reads the row.    *)
fluid_video_dens2char ==
  Kernel("video_dens2char", {<<r["density"], "own">>}, {<<"vidOutput", "own">>})

-----------------------------------------------------------------------------
(* The main thread adds the tasks.                                         *)

Goes(from, to) == stage = from /\ stage' = to
Swap(p, q) == r' = [r EXCEPT ![p] = r[q], ![q] = r[p]]
When(condition, passes) == IF condition THEN passes ELSE <<>>

(* reach adds up, over the tasks so far, how far to the right each waits   *)
(* for the one above it.  (The code has no such sum: see Compatible.)      *)
LastReach == IF rows = <<>> THEN 0 ELSE rows[Len(rows)].reach

(* fluidAddTask for each pass in turn.                                     *)
Adds(passes, depend, bottom) ==
  rows' = rows \o [i \in 1 .. Len(passes) |->
                     [fn |-> passes[i].fn, reads |-> passes[i].reads,
                      writes |-> passes[i].writes, depend |-> depend,
                      bottom |-> bottom, reach |-> LastReach + i * bottom]]

(* fluidServerOnFrame, and the messages handled since the last frame.      *)
OnFrame(s) ==
  /\ Goes("idle", "velocityOut")
  /\ s.altivec = settings.altivec
  /\ settings' = s
  /\ UNCHANGED <<r, rows, begun, done>>

VideoVelocityOut ==
  /\ Goes("velocityOut", "velocityIn")
  /\ Adds(When(settings.out # 0, <<fluid_input_vel2float>>), "any", 0)
  /\ UNCHANGED <<settings, r, begun, done>>

VelocityBlendIn ==
  /\ Goes("velocityIn", "densityIn")
  /\ Adds(When(settings.velIn, <<fluid_input_float2vel>>), "any", 0)
  /\ UNCHANGED <<settings, r, begun, done>>

VideoBlendIn ==
  /\ Goes("densityIn", "vorticity")
  /\ Adds(When(settings.densIn, <<fluid_input_char2dens>>), "any", 0)
  /\ UNCHANGED <<settings, r, begun, done>>

TaskVorticity ==
  /\ Goes("vorticity", "dampenDensity")
  /\ Adds(When(settings.vorticity, <<fluid_vorticity_curl, fluid_vorticity_apply>>), "any", 1)
  /\ UNCHANGED <<settings, r, begun, done>>

TaskDampen ==
  /\ \/ /\ Goes("dampenDensity", "dampenVelocityX")
        /\ Adds(When(settings.fadeDens, <<fluid_dampen(r["density"])>>), "any", 0)
     \/ /\ Goes("dampenVelocityX", "dampenVelocityY")
        /\ Adds(When(settings.fadeVel, <<fluid_dampen(r["velocityX"])>>), "any", 0)
     \/ /\ Goes("dampenVelocityY", "temperature")
        /\ Adds(When(settings.fadeVel, <<fluid_dampen(r["velocityY"])>>), "any", 0)
  /\ UNCHANGED <<settings, r, begun, done>>

TaskTemperature ==
  /\ Goes("temperature", "viscosity")
  /\ Adds(When(settings.density /\ settings.temperature, <<fluid_force_heat>>), "any", 0)
  /\ UNCHANGED <<settings, r, begun, done>>

(* Mistake: the iterations may take the rows in any order.                 *)
TaskViscosity_AnyOrder ==
  /\ Goes("viscosity", "pressure")
  /\ Adds([i \in 1 .. settings.viscosity |-> fluid_viscosity], "any", 1)
  /\ UNCHANGED <<settings, r, begun, done>>

TaskViscosity ==
  /\ Goes("viscosity", "pressure")
  /\ Adds([i \in 1 .. settings.viscosity |-> fluid_viscosity], "inorder", 1)
  /\ UNCHANGED <<settings, r, begun, done>>

(* Heavier and lighter fluid is told apart only with a free surface, and   *)
(* only where there are densities.                                         *)
PressurePasses ==
  IF settings.freeSurface /\ settings.density
    THEN <<fluid_genPressure_densfix>>
           \o [i \in 1 .. settings.pressure |-> fluid_genPressure_dens]
    ELSE [i \in 1 .. settings.pressure |-> fluid_genPressure]

(* Mistake: a row waits only for the same row of the iteration before.     *)
TaskPressure_NoRight ==
  /\ Goes("pressure", "corrector")
  /\ Adds(Append(PressurePasses, fluid_applyPressure), "inorder", 0)
  /\ UNCHANGED <<settings, r, begun, done>>

TaskPressure ==
  /\ Goes("pressure", "corrector")
  /\ Adds(Append(PressurePasses, fluid_applyPressure), "inorder", 1)
  /\ UNCHANGED <<settings, r, begun, done>>

TaskCorrectorRepos ==
  /\ Goes("corrector", "advectDensity")
  /\ Adds(<<fluid_advection_mccormack_repos>>, "any", AdvectDist + 1)
  /\ UNCHANGED <<settings, r, begun, done>>

(* Mistake: the pointers are not exchanged once the task is added.         *)
TaskAdvectDensity_NoSwap ==
  /\ Goes("advectDensity", "advectVelocity")
  /\ Adds(When(settings.density, <<fluid_repos>>), "any", AdvectDist + 1)
  /\ UNCHANGED <<settings, r, begun, done>>

TaskAdvectDensity ==
  /\ Goes("advectDensity", "advectVelocity")
  /\ Adds(When(settings.density, <<fluid_repos>>), "any", AdvectDist + 1)
  /\ IF settings.density THEN Swap("density", "density_swap") ELSE UNCHANGED r
  /\ UNCHANGED <<settings, begun, done>>

TaskAdvectVelocity ==
  /\ Goes("advectVelocity", "video")
  /\ Adds(<<fluid_reposVel>>, "any", AdvectDist + 1)
  /\ r' = [r EXCEPT !["velocityX"] = r["tmpVelX"], !["tmpVelX"] = r["velocityX"],
                    !["velocityY"] = r["tmpVelY"], !["tmpVelY"] = r["velocityY"]]
  /\ UNCHANGED <<settings, begun, done>>

TaskVideoDensity2Char ==
  /\ Goes("video", "flood")
  /\ Adds(When(settings.density, <<fluid_video_dens2char>>), "any", 0)
  /\ UNCHANGED <<settings, r, begun, done>>

(* mpTaskFlood: fluidMP on every worker.                                   *)
Flood ==
  /\ Goes("flood", "run")
  /\ UNCHANGED <<settings, r, rows, begun, done>>

Builds ==
  \/ VideoVelocityOut \/ VelocityBlendIn \/ VideoBlendIn \/ TaskVorticity \/ TaskDampen
  \/ TaskTemperature \/ TaskViscosity \/ TaskPressure \/ TaskCorrectorRepos
  \/ TaskAdvectDensity \/ TaskAdvectVelocity \/ TaskVideoDensity2Char \/ Flood

-----------------------------------------------------------------------------
(* The workers run the tasks, and the main thread waits for them.          *)

Begin(x, k) == stage = "run" /\ Grid!Begin(x, k) /\ UNCHANGED <<settings, stage, r>>
End(x, k) == stage = "run" /\ Grid!End(x, k) /\ UNCHANGED <<settings, stage, r>>

(* Mistake: the tasks go, what is known of their pieces stays.             *)
AdvanceSync_NoReset ==
  /\ Goes("run", "idle")
  /\ done = Grid!AllPieces
  /\ rows' = <<>>
  /\ UNCHANGED <<settings, r, begun, done>>

AdvanceSync ==
  /\ Goes("run", "idle")
  /\ done = Grid!AllPieces
  /\ rows' = <<>> /\ begun' = {} /\ done' = {}
  /\ UNCHANGED <<settings, r>>

Next ==
  \/ \E s \in Settings : OnFrame(s)
  \/ Builds
  \/ \E x \in Grid!Row, k \in Piece : Begin(x, k) \/ End(x, k)
  \/ AdvanceSync

Spec == Init /\ [][Next]_vars

-----------------------------------------------------------------------------
Shapes == {"own", "band", "window", "inner", "innerBand", "innerSides", "curlEdge", "scaled"}
Functions == {"vel2float", "float2vel", "char2dens", "vorticity_curl", "vorticity_apply",
              "dampen", "force_heat", "viscosity", "genPressure", "genPressure_dens",
              "genPressure_densfix", "applyPressure", "mccormack_repos", "repos",
              "reposVel", "video_dens2char"}
Tasks == [fn : Functions, reads : SUBSET (Fields \X Shapes), writes : SUBSET (Fields \X Shapes),
          depend : {"any", "inorder"}, bottom : Nat, reach : Nat]

(* The six exchanged pointers keep naming six different fields, the tasks  *)
(* fit the scheduler's table, and only tasks of this frame have pieces.    *)
TypeOK ==
  /\ settings \in Settings /\ stage \in Stages
  /\ r \in [Pointers -> Pointers]
  /\ \A p, q \in Pointers : r[p] = r[q] => p = q
  /\ rows \in Seq(Tasks) /\ Len(rows) <= MaxTasks
  /\ done \subseteq begun /\ begun \subseteq Grid!AllPieces

(* What a piece reads and writes.                                          *)
Cells(accesses, k) == UNION {{a[1]} \X Span(a[2], k) : a \in accesses}
Reads(p) == Cells(rows[p[1] + 1].reads, p[2])
Writes(p) == Cells(rows[p[1] + 1].writes, p[2])

Conflict(p, q) ==
  \/ Writes(p) \cap Writes(q) # {}
  \/ Writes(p) \cap Reads(q) # {}
  \/ Reads(p) \cap Writes(q) # {}

(* The order of a sequential run: task by task, each over the rows from    *)
(* first to last.                                                          *)
Earlier(p, q) == p[1] < q[1] \/ (p[1] = q[1] /\ p[2] < q[2])

(* mpx.h: a task is executed once all its dependencies are met.  However   *)
(* the workers interleave, no piece is run before an earlier one it has a  *)
(* field's row in common with (one of the two writing it) is done: so      *)
(* every run computes what the sequential run does.                        *)
ConflictsOrdered ==
  \A q \in begun \ done, p \in Grid!AllPieces \ done :
    Earlier(p, q) => ~Conflict(p, q)

(* The dependencies the builders state are enough.  A row of task u waits  *)
(* for task t above it up to reach[u] - reach[t] rows to the right, and    *)
(* for the rows to its left if it is in order.                             *)
Compatible ==
  \A p, q \in Grid!AllPieces :
    Conflict(p, q) /\ Earlier(p, q) =>
      IF p[1] = q[1] THEN rows[q[1] + 1].depend = "inorder"
      ELSE p[2] <= q[2] + rows[q[1] + 1].reach - rows[p[1] + 1].reach

(* Compatible holds of every frame the main thread lets run.               *)
FramesCompatible == stage = "flood" => Compatible

TasksOf(fn) == {i \in DOMAIN rows : rows[i].fn = fn}

(* The next frame starts from the velocities and the densities this one    *)
(* advected, and it is these densities that are shown.                     *)
AdvectedIsCurrent ==
  stage = "run" =>
    /\ \E i \in TasksOf("reposVel") : rows[i].writes = VelocitiesIn("own")
    /\ settings.density =>
         /\ \E i \in TasksOf("repos") : rows[i].writes = {<<r["density"], "own">>}
         /\ \E i \in TasksOf("video_dens2char") : rows[i].reads = {<<r["density"], "own">>}
=============================================================================
