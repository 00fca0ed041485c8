------------------------ MODULE FluidPipelineProofs -------------------------
(***************************************************************************)
(* Whatever the height of the fluid, the iterations and the distance of    *)
(* advection, and however the workers interleave: the dependencies the     *)
(* builders state are enough (Compatible), and with them no piece runs     *)
(* before an earlier one it conflicts with is done.  The fields advected   *)
(* are those the next frame starts from, and the largest frame fits the    *)
(* table of tasks.                                                         *)
(***************************************************************************)
EXTENDS FluidPipeline, TLAPS

Kernels == [fn : Functions, reads : SUBSET (Fields \X Shapes),
            writes : SUBSET (Fields \X Shapes)]

(* TypeOK without the table's size, which depends on the settings; each    *)
(* task's reach is the one above's and what it waits for itself, so that   *)
(* reaches only grow.                                                      *)
RowsOK ==
  /\ settings \in Settings
  /\ r \in [Pointers -> Pointers]
  /\ rows \in Seq(Tasks)
  /\ \A i \in 2 .. Len(rows) : rows[i].reach = rows[i - 1].reach + rows[i].bottom
  /\ \A i, j \in 1 .. Len(rows) : i <= j => rows[i].reach <= rows[j].reach

PiecesOK ==
  /\ done \subseteq begun /\ begun \subseteq Grid!AllPieces
  /\ stage # "run" => begun = {}

(* A piece that has begun has everything behind it within reach done, in   *)
(* every task above its own.                                               *)
Reached ==
  \A p \in begun, q \in Grid!AllPieces :
    /\ q[1] < p[1]
    /\ q[2] <= p[2] + rows[p[1] + 1].reach - rows[q[1] + 1].reach
    => q \in done

LeftFirst ==
  \A p \in begun, q \in Grid!AllPieces :
    /\ q[1] = p[1] /\ q[2] < p[2]
    /\ rows[p[1] + 1].depend = "inorder"
    => q \in done

IInv == RowsOK /\ PiecesOK /\ Reached /\ LeftFirst

-----------------------------------------------------------------------------
(* Every kernel of a frame is described by fields and shapes.              *)
LEMMA VelocitiesTyped ==
  ASSUME r \in [Pointers -> Pointers], NEW how \in Shapes
  PROVE  VelocitiesIn(how) \subseteq Fields \X Shapes
  BY DEF VelocitiesIn, Pointers, Fields

LEMMA KernelsTyped ==
  ASSUME r \in [Pointers -> Pointers]
  PROVE  /\ {fluid_input_vel2float, fluid_input_float2vel, fluid_input_char2dens,
             fluid_vorticity_curl, fluid_vorticity_apply, fluid_force_heat,
             fluid_viscosity, fluid_genPressure, fluid_genPressure_dens,
             fluid_genPressure_densfix, fluid_applyPressure,
             fluid_advection_mccormack_repos, fluid_repos, fluid_reposVel,
             fluid_video_dens2char} \subseteq Kernels
         /\ \A p \in Pointers : fluid_dampen(r[p]) \in Kernels
<1> DEFINE Access == Fields \X Shapes
<1>1. /\ VelocitiesIn("own") \subseteq Access /\ VelocitiesIn("band") \subseteq Access
      /\ VelocitiesIn("window") \subseteq Access /\ VelocitiesIn("inner") \subseteq Access
      /\ VelocitiesIn("scaled") \subseteq Access
  BY VelocitiesTyped DEF Shapes
<1>2. \A p \in Pointers : r[p] \in Fields
  BY DEF Fields
<1>3. {"density", "density_swap", "velocityX", "velocityY", "tmpVelX", "tmpVelY"} \subseteq Pointers
  BY DEF Pointers
<1>4. {"pressure", "reposX", "reposY", "vidOutput", "velOut"} \subseteq Fields
  BY DEF Fields
<1>5. \A f \in Fields, how \in Shapes : <<f, how>> \in Access
  OBVIOUS
<1> HIDE DEF Access
<1>6. \A fn \in Functions : \A reads, writes \in SUBSET Access :
        Kernel(fn, reads, writes) \in Kernels
  BY DEF Kernel, Kernels, Access
<1>7. Repos \subseteq Access
  BY <1>4, <1>5 DEF Repos, Shapes
<1>8. fluid_input_vel2float \in Kernels
  BY <1>1, <1>4, <1>5, <1>6 DEF fluid_input_vel2float, Functions, Shapes
<1>9. fluid_input_float2vel \in Kernels
  BY <1>1, <1>6 DEF fluid_input_float2vel, Functions
<1>10. fluid_input_char2dens \in Kernels
  BY <1>2, <1>3, <1>5, <1>6 DEF fluid_input_char2dens, Functions, Shapes
<1>11. fluid_vorticity_curl \in Kernels
  BY <1>2, <1>3, <1>5, <1>6 DEF fluid_vorticity_curl, Functions, Shapes
<1>12. fluid_vorticity_apply \in Kernels
  BY <1>1, <1>2, <1>3, <1>5, <1>6 DEF fluid_vorticity_apply, Functions, Shapes
<1>13. fluid_force_heat \in Kernels
  BY <1>1, <1>2, <1>3, <1>5, <1>6 DEF fluid_force_heat, Functions, Shapes
<1>14. fluid_viscosity \in Kernels
  BY <1>1, <1>6 DEF fluid_viscosity, Functions
<1>15. fluid_genPressure \in Kernels
  BY <1>2, <1>3, <1>4, <1>5, <1>6 DEF fluid_genPressure, Functions, Shapes
<1>16. fluid_genPressure_dens \in Kernels
  BY <1>2, <1>3, <1>5, <1>15 DEF fluid_genPressure_dens, Functions, Shapes, Kernels, Access
<1>17. fluid_genPressure_densfix \in Kernels
  BY <1>2, <1>3, <1>5, <1>6 DEF fluid_genPressure_densfix, Functions, Shapes
<1>18. fluid_applyPressure \in Kernels
  BY <1>1, <1>4, <1>5, <1>6 DEF fluid_applyPressure, Functions, Shapes
<1>19. fluid_advection_mccormack_repos \in Kernels
  BY <1>1, <1>4, <1>5, <1>6 DEF fluid_advection_mccormack_repos, Functions, Shapes
<1>20. fluid_repos \in Kernels
  BY <1>2, <1>3, <1>5, <1>6, <1>7 DEF fluid_repos, Functions, Shapes
<1>21. fluid_reposVel \in Kernels
  BY <1>1, <1>2, <1>3, <1>5, <1>6, <1>7 DEF fluid_reposVel, Functions, Shapes
<1>22. fluid_video_dens2char \in Kernels
  BY <1>2, <1>3, <1>4, <1>5, <1>6 DEF fluid_video_dens2char, Functions, Shapes
<1>23. \A p \in Pointers : fluid_dampen(r[p]) \in Kernels
  BY <1>2, <1>5, <1>6 DEF fluid_dampen, Functions, Shapes
<1>24. QED
  BY <1>8, <1>9, <1>10, <1>11, <1>12, <1>13, <1>14, <1>15, <1>16, <1>17, <1>18, <1>19,
     <1>20, <1>21, <1>22, <1>23

(* A concatenation has the elements of both sequences.                     *)
LEMMA Concatenated ==
  ASSUME NEW S, NEW s \in Seq(S), NEW t \in Seq(S)
  PROVE  /\ s \o t \in Seq(S)
         /\ Len(s \o t) = Len(s) + Len(t)
         /\ \A i \in 1 .. Len(s) : (s \o t)[i] = s[i]
         /\ \A i \in 1 .. Len(t) : (s \o t)[Len(s) + i] = t[i]
  OBVIOUS

LEMMA OneMore ==
  \A a, b, c \in Nat : a + b * c = a + (b - 1) * c + c
  OBVIOUS

LEMMA MoreIsFarther ==
  \A a, b, c, d \in Nat : b <= d => a + b * c <= a + d * c /\ a <= a + b * c
<1> TAKE a, b, c, d \in Nat
<1>1. ASSUME b <= d PROVE a + b * c <= a + d * c /\ a <= a + b * c
  <2>1. d - b \in Nat /\ \A m \in Nat : m * c \in Nat
    BY <1>1
  <2>2. (d - b) * c \in Nat /\ b * c \in Nat /\ d * c \in Nat
    BY <2>1, Zenon
  <2>3. d * c = b * c + (d - b) * c
    OBVIOUS
  <2>4. \A u, v, w \in Nat : w = u + v => a + u <= a + w /\ a <= a + u
    OBVIOUS
  <2>5. QED  BY <2>2, <2>3, <2>4, Zenon
<1>2. QED  BY <1>1

(* Adding tasks keeps the sequence of tasks well formed.                   *)
LEMMA AddsKeepsRows ==
  ASSUME rows \in Seq(Tasks),
         \A i \in 2 .. Len(rows) : rows[i].reach = rows[i - 1].reach + rows[i].bottom,
         \A i, j \in 1 .. Len(rows) : i <= j => rows[i].reach <= rows[j].reach,
         NEW passes \in Seq(Kernels), NEW depend \in {"any", "inorder"}, NEW bottom \in Nat,
         Adds(passes, depend, bottom)
  PROVE  /\ rows' \in Seq(Tasks)
         /\ \A i \in 2 .. Len(rows') : rows'[i].reach = rows'[i - 1].reach + rows'[i].bottom
         /\ \A i, j \in 1 .. Len(rows') : i <= j => rows'[i].reach <= rows'[j].reach
<1>1. /\ rows \in Seq(Tasks) /\ Len(rows) \in Nat
      /\ \A i \in 1 .. Len(rows) : rows[i] \in Tasks
      /\ rows # <<>> => Len(rows) \in 1 .. Len(rows)
  OBVIOUS
<1>2. LastReach \in Nat
  BY <1>1 DEF LastReach, Tasks
<1>3. \A i \in 1 .. Len(passes) : LastReach + i * bottom \in Nat
  <2> TAKE i \in 1 .. Len(passes)
  <2>1. i \in Nat /\ bottom \in Nat
    OBVIOUS
  <2>2. i * bottom \in Nat
    BY <2>1
  <2>3. \A a, b \in Nat : a + b \in Nat
    OBVIOUS
  <2>4. QED  BY <1>2, <2>2, <2>3, Zenon
<1>4. \A i \in 1 .. Len(passes) : passes[i] \in Kernels
  OBVIOUS
<1>5. \A i \in 1 .. Len(passes) :
        [fn |-> passes[i].fn, reads |-> passes[i].reads, writes |-> passes[i].writes,
         depend |-> depend, bottom |-> bottom, reach |-> LastReach + i * bottom] \in Tasks
  BY <1>3, <1>4 DEF Kernels, Tasks
<1>6. PICK new \in Seq(Tasks) :
        /\ rows' = rows \o new
        /\ \A i \in 1 .. Len(new) : /\ new[i].reach = LastReach + i * bottom
                                    /\ new[i].bottom = bottom
  <2> DEFINE t == [i \in 1 .. Len(passes) |->
                     [fn |-> passes[i].fn, reads |-> passes[i].reads,
                      writes |-> passes[i].writes, depend |-> depend,
                      bottom |-> bottom, reach |-> LastReach + i * bottom]]
  <2>1. t \in Seq(Tasks) /\ Len(t) = Len(passes)
    BY <1>5
  <2>2. \A i \in 1 .. Len(passes) : t[i].reach = LastReach + i * bottom /\ t[i].bottom = bottom
    OBVIOUS
  <2>3. rows' = rows \o t
    BY DEF Adds
  <2> HIDE DEF t
  <2>4. QED  BY <2>1, <2>2, <2>3
<1>7. /\ rows' \in Seq(Tasks)
      /\ Len(rows') = Len(rows) + Len(new)
      /\ \A i \in 1 .. Len(rows) : rows'[i] = rows[i]
      /\ \A i \in 1 .. Len(new) : rows'[Len(rows) + i] = new[i]
  BY <1>1, <1>6, Concatenated
<1>8. ASSUME NEW i \in 2 .. Len(rows')
      PROVE  rows'[i].reach = rows'[i - 1].reach + rows'[i].bottom
  <2>1. CASE i \in 2 .. Len(rows)
    <3>1. i \in 1 .. Len(rows) /\ i - 1 \in 1 .. Len(rows)
      BY <1>1, <2>1
    <3>2. rows'[i] = rows[i] /\ rows'[i - 1] = rows[i - 1]
      BY <1>7, <3>1
    <3>3. QED  BY <2>1, <3>2
  <2>2. CASE i = Len(rows) + 1
    <3>1. 1 \in 1 .. Len(new) /\ rows'[i] = new[1]
      BY <1>6, <1>7, <2>2
    <3>2. new[1].reach = LastReach + 1 * bottom /\ new[1].bottom = bottom
      BY <1>6, <3>1
    <3>3. rows'[i - 1] = rows[Len(rows)] /\ LastReach = rows[Len(rows)].reach
      <4>1. i - 1 = Len(rows) /\ Len(rows) \in 1 .. Len(rows)
        BY <1>1, <2>2
      <4>2. rows # <<>>
        BY <4>1
      <4>3. QED  BY <1>7, <4>1, <4>2 DEF LastReach
    <3>4. QED  BY <1>2, <3>1, <3>2, <3>3
  <2>3. CASE i > Len(rows) + 1
    <3> DEFINE j == i - Len(rows)
    <3>1. j \in 2 .. Len(new) /\ i = Len(rows) + j /\ i - 1 = Len(rows) + (j - 1)
      BY <1>6, <1>7, <2>3
    <3>2. rows'[i] = new[j] /\ rows'[i - 1] = new[j - 1]
      <4>1. j \in 1 .. Len(new) /\ j - 1 \in 1 .. Len(new)
        BY <1>6, <3>1
      <4> HIDE DEF j
      <4>2. QED  BY <1>7, <3>1, <4>1
    <3>3. /\ new[j].reach = LastReach + j * bottom /\ new[j].bottom = bottom
          /\ new[j - 1].reach = LastReach + (j - 1) * bottom
      BY <1>6, <3>1
    <3>4. j \in Nat /\ bottom \in Nat
      BY <3>1
    <3> HIDE DEF j
    <3>5. LastReach + j * bottom = LastReach + (j - 1) * bottom + bottom
      BY <1>2, <3>4, OneMore
    <3>6. /\ rows'[i].reach = LastReach + j * bottom /\ rows'[i].bottom = bottom
          /\ rows'[i - 1].reach = LastReach + (j - 1) * bottom
      BY <3>2, <3>3
    <3>7. QED  BY <3>5, <3>6, Zenon
  <2>4. i \in 2 .. Len(rows) \/ i = Len(rows) + 1 \/ i > Len(rows) + 1
    <3>1. i \in Int /\ i >= 2 /\ Len(rows) \in Int
      BY <1>1, <1>7
    <3>2. QED  BY <3>1
  <2>5. QED  BY <2>1, <2>2, <2>3, <2>4
<1>9. ASSUME NEW i \in 1 .. Len(rows'), NEW j \in 1 .. Len(rows'), i <= j
      PROVE  rows'[i].reach <= rows'[j].reach
  <2>1. CASE j <= Len(rows)
    <3>1. i \in 1 .. Len(rows) /\ j \in 1 .. Len(rows)
      BY <1>1, <1>9, <2>1
    <3>2. QED  BY <1>7, <1>9, <3>1
  <2>2. CASE j > Len(rows)
    <3>1. PICK n \in 1 .. Len(new) : j = Len(rows) + n
      <4>1. j - Len(rows) \in 1 .. Len(new) /\ j = Len(rows) + (j - Len(rows))
        BY <1>1, <1>6, <1>7, <2>2
      <4>2. QED  BY <4>1
    <3>2. rows'[j].reach = LastReach + n * bottom /\ n \in Nat
      BY <1>6, <1>7, <3>1
    <3>3. CASE i <= Len(rows)
      <4>1. i \in 1 .. Len(rows) /\ Len(rows) \in 1 .. Len(rows) /\ rows # <<>>
        BY <1>1, <3>3
      <4>2. rows'[i] = rows[i] /\ i <= Len(rows)
        BY <1>7, <4>1
      <4>3. rows[i].reach <= rows[Len(rows)].reach /\ rows[i].reach \in Nat
        BY <1>1, <4>1, <4>2 DEF Tasks
      <4>4. rows[i].reach <= LastReach
        BY <4>1, <4>3 DEF LastReach
      <4>5. LastReach <= LastReach + n * bottom /\ LastReach + n * bottom \in Nat
        <5>1. LastReach <= LastReach + n * bottom
          BY <1>2, <3>2, MoreIsFarther
        <5>2. n * bottom \in Nat
          BY <3>2
        <5>3. \A u, v \in Nat : u + v \in Nat
          OBVIOUS
        <5>4. QED  BY <1>2, <5>1, <5>2, <5>3, Zenon
      <4>6. \A u, v, w \in Nat : u <= v /\ v <= w => u <= w
        OBVIOUS
      <4>7. rows[i].reach <= LastReach + n * bottom
        BY <1>2, <4>3, <4>4, <4>5, <4>6, Zenon
      <4>8. QED  BY <3>2, <4>2, <4>7, Zenon
    <3>4. CASE i > Len(rows)
      <4>1. PICK m \in 1 .. Len(new) : i = Len(rows) + m
        <5>1. i - Len(rows) \in 1 .. Len(new) /\ i = Len(rows) + (i - Len(rows))
          BY <1>1, <1>6, <1>7, <3>4
        <5>2. QED  BY <5>1
      <4>2. rows'[i].reach = LastReach + m * bottom /\ m \in Nat /\ m <= n
        BY <1>1, <1>6, <1>7, <1>9, <3>1, <4>1
      <4>3. QED  BY <1>2, <3>2, <4>2, MoreIsFarther, Zenon
    <3>5. QED  BY <1>1, <3>3, <3>4
  <2>3. QED  BY <1>1, <1>7, <2>1, <2>2
<1>10. QED  BY <1>7, <1>8, <1>9

-----------------------------------------------------------------------------
(* The main thread's steps add tasks while no piece has begun.             *)
LEMMA BuildKeepsIInv ==
  ASSUME IInv, stage # "run", settings' \in Settings, r' \in [Pointers -> Pointers],
         NEW passes \in Seq(Kernels), NEW depend \in {"any", "inorder"}, NEW bottom \in Nat,
         Adds(passes, depend, bottom), UNCHANGED <<begun, done>>
  PROVE  IInv'
<1>1. RowsOK'
  BY AddsKeepsRows DEF IInv, RowsOK
<1>2. begun' = {} /\ done' = {}
  BY DEF IInv, PiecesOK
<1>3. QED
  BY <1>1, <1>2 DEF IInv, PiecesOK, Reached, LeftFirst

LEMMA ChoiceTyped ==
  ASSUME NEW k \in Kernels, NEW c \in BOOLEAN
  PROVE  When(c, <<k>>) \in Seq(Kernels)
  BY DEF When

LEMMA RepeatTyped ==
  ASSUME NEW k \in Kernels, NEW n \in Nat
  PROVE  [i \in 1 .. n |-> k] \in Seq(Kernels)
  OBVIOUS

(* Each of the builders is such a step.                                    *)
LEMMA BuildsKeepIInv ==
  ASSUME IInv, Builds
  PROVE  IInv'
<1> USE DEF Goes
<1>1. r \in [Pointers -> Pointers] /\ settings \in Settings
  BY DEF IInv, RowsOK
<1>2. /\ settings.velIn \in BOOLEAN /\ settings.densIn \in BOOLEAN
      /\ settings.vorticity \in BOOLEAN /\ settings.fadeDens \in BOOLEAN
      /\ settings.fadeVel \in BOOLEAN /\ settings.temperature \in BOOLEAN
      /\ settings.freeSurface \in BOOLEAN /\ settings.density \in BOOLEAN
      /\ settings.viscosity \in Nat /\ settings.pressure \in Nat
  BY <1>1, SettingsAssumption DEF SettingsAssumption
<1>3. AdvectDist + 1 \in Nat /\ 0 \in Nat /\ 1 \in Nat
  BY AdvectDistAssumption DEF AdvectDistAssumption
<1>4. CASE VideoVelocityOut
  <2>1. When(settings.out # 0, <<fluid_input_vel2float>>) \in Seq(Kernels)
    BY <1>1, KernelsTyped, ChoiceTyped
  <2>2. QED  BY <1>1, <1>3, <1>4, <2>1, BuildKeepsIInv DEF VideoVelocityOut
<1>5. CASE VelocityBlendIn
  <2>1. When(settings.velIn, <<fluid_input_float2vel>>) \in Seq(Kernels)
    BY <1>1, <1>2, KernelsTyped, ChoiceTyped
  <2>2. QED  BY <1>1, <1>3, <1>5, <2>1, BuildKeepsIInv DEF VelocityBlendIn
<1>6. CASE VideoBlendIn
  <2>1. When(settings.densIn, <<fluid_input_char2dens>>) \in Seq(Kernels)
    BY <1>1, <1>2, KernelsTyped, ChoiceTyped
  <2>2. QED  BY <1>1, <1>3, <1>6, <2>1, BuildKeepsIInv DEF VideoBlendIn
<1>7. CASE TaskVorticity
  <2>1. fluid_vorticity_curl \in Kernels /\ fluid_vorticity_apply \in Kernels
    BY <1>1, KernelsTyped
  <2>2. When(settings.vorticity, <<fluid_vorticity_curl, fluid_vorticity_apply>>) \in Seq(Kernels)
    BY <2>1 DEF When
  <2>3. QED  BY <1>1, <1>3, <1>7, <2>2, BuildKeepsIInv DEF TaskVorticity
<1>8. CASE TaskDampen
  <2>1. \A p \in {"density", "velocityX", "velocityY"} : \A c \in BOOLEAN :
          When(c, <<fluid_dampen(r[p])>>) \in Seq(Kernels)
    <3> TAKE p \in {"density", "velocityX", "velocityY"}, c \in BOOLEAN
    <3>1. fluid_dampen(r[p]) \in Kernels
      BY <1>1, KernelsTyped DEF Pointers
    <3>2. QED  BY <3>1, ChoiceTyped
  <2>2. /\ When(settings.fadeDens, <<fluid_dampen(r["density"])>>) \in Seq(Kernels)
        /\ When(settings.fadeVel, <<fluid_dampen(r["velocityX"])>>) \in Seq(Kernels)
        /\ When(settings.fadeVel, <<fluid_dampen(r["velocityY"])>>) \in Seq(Kernels)
    BY <1>2, <2>1
  <2>3. QED  BY <1>1, <1>3, <1>8, <2>2, BuildKeepsIInv DEF TaskDampen
<1>9. CASE TaskTemperature
  <2>1. When(settings.density /\ settings.temperature, <<fluid_force_heat>>) \in Seq(Kernels)
    BY <1>1, <1>2, KernelsTyped, ChoiceTyped
  <2>2. QED  BY <1>1, <1>3, <1>9, <2>1, BuildKeepsIInv DEF TaskTemperature
<1>10. CASE TaskViscosity
  <2>1. [i \in 1 .. settings.viscosity |-> fluid_viscosity] \in Seq(Kernels)
    BY <1>1, <1>2, KernelsTyped, RepeatTyped
  <2>2. QED  BY <1>1, <1>3, <1>10, <2>1, BuildKeepsIInv DEF TaskViscosity
<1>11. CASE TaskPressure
  <2>1. /\ fluid_genPressure_densfix \in Kernels /\ fluid_genPressure_dens \in Kernels
        /\ fluid_genPressure \in Kernels /\ fluid_applyPressure \in Kernels
    BY <1>1, KernelsTyped
  <2>2. PressurePasses \in Seq(Kernels)
    <3>1. /\ [i \in 1 .. settings.pressure |-> fluid_genPressure_dens] \in Seq(Kernels)
          /\ [i \in 1 .. settings.pressure |-> fluid_genPressure] \in Seq(Kernels)
          /\ <<fluid_genPressure_densfix>> \in Seq(Kernels)
      BY <1>2, <2>1, RepeatTyped
    <3>2. QED  BY <3>1, Concatenated DEF PressurePasses
  <2>3. Append(PressurePasses, fluid_applyPressure) \in Seq(Kernels)
    BY <2>1, <2>2
  <2>4. QED  BY <1>1, <1>3, <1>11, <2>3, BuildKeepsIInv DEF TaskPressure
<1>12. CASE TaskCorrectorRepos
  <2>1. <<fluid_advection_mccormack_repos>> \in Seq(Kernels)
    BY <1>1, KernelsTyped
  <2>2. QED  BY <1>1, <1>3, <1>12, <2>1, BuildKeepsIInv DEF TaskCorrectorRepos
<1>13. CASE TaskAdvectDensity
  <2>1. When(settings.density, <<fluid_repos>>) \in Seq(Kernels)
    BY <1>1, <1>2, KernelsTyped, ChoiceTyped
  <2>2. r' \in [Pointers -> Pointers]
    BY <1>1, <1>13 DEF TaskAdvectDensity, Swap, Pointers
  <2>3. QED  BY <1>1, <1>3, <1>13, <2>1, <2>2, BuildKeepsIInv DEF TaskAdvectDensity
<1>14. CASE TaskAdvectVelocity
  <2>1. <<fluid_reposVel>> \in Seq(Kernels)
    BY <1>1, KernelsTyped
  <2>2. r' \in [Pointers -> Pointers]
    BY <1>1, <1>14 DEF TaskAdvectVelocity, Pointers
  <2>3. QED  BY <1>1, <1>3, <1>14, <2>1, <2>2, BuildKeepsIInv DEF TaskAdvectVelocity
<1>15. CASE TaskVideoDensity2Char
  <2>1. When(settings.density, <<fluid_video_dens2char>>) \in Seq(Kernels)
    BY <1>1, <1>2, KernelsTyped, ChoiceTyped
  <2>2. QED  BY <1>1, <1>3, <1>15, <2>1, BuildKeepsIInv DEF TaskVideoDensity2Char
<1>16. CASE Flood
  BY <1>16 DEF Flood, IInv, RowsOK, PiecesOK, Reached, LeftFirst, Grid!AllPieces, Grid!Row,
               Grid!Piece
<1>17. QED
  BY <1>4, <1>5, <1>6, <1>7, <1>8, <1>9, <1>10, <1>11, <1>12, <1>13, <1>14, <1>15, <1>16
     DEF Builds

-----------------------------------------------------------------------------
(* A piece may begin only once everything within its reach is done: the    *)
(* row above it up to bottom places to the right is, and what that row     *)
(* reached was done before it.                                             *)
LEMMA BeginReaches ==
  ASSUME IInv, NEW x \in Grid!Row, NEW k \in Piece, Begin(x, k),
         NEW q \in Grid!AllPieces, q[1] < x,
         q[2] <= k + rows[x + 1].reach - rows[q[1] + 1].reach
  PROVE  q \in done
<1> DEFINE bottom == rows[x + 1].bottom
           last == IF k + bottom <= NData - 1 THEN k + bottom ELSE NData - 1
<1>1. /\ x \in Nat /\ q[1] \in Nat /\ x <= Len(rows) - 1 /\ q[1] <= x - 1 /\ x >= 1
      /\ q[2] \in Piece /\ q = <<q[1], q[2]>> /\ Len(rows) \in Nat
  BY DEF IInv, RowsOK, Grid!AllPieces, Grid!Row, Grid!Piece, Piece
<1>2. /\ x + 1 \in 2 .. Len(rows) /\ x \in 1 .. Len(rows) /\ q[1] + 1 \in 1 .. Len(rows)
      /\ q[1] + 1 <= x /\ (x + 1) - 1 = x
  BY <1>1
<1>3. /\ rows[x + 1] \in Tasks /\ rows[x] \in Tasks /\ rows[q[1] + 1] \in Tasks
      /\ rows[x + 1].reach = rows[x].reach + rows[x + 1].bottom
      /\ rows[q[1] + 1].reach <= rows[x].reach
  BY <1>2 DEF IInv, RowsOK
<1>4. /\ bottom \in Nat /\ rows[x].reach \in Nat /\ rows[q[1] + 1].reach \in Nat
      /\ k \in Nat /\ k <= NData - 1 /\ NData \in Nat /\ q[2] \in Nat /\ q[2] <= NData - 1
  <2>1. bottom \in Nat /\ rows[x].reach \in Nat /\ rows[q[1] + 1].reach \in Nat
    BY <1>3 DEF Tasks
  <2>2. NData \in Nat
    BY NDataAssumption DEF NDataAssumption
  <2>3. /\ k \in Nat /\ k <= NData - 1 /\ q[2] \in Nat /\ q[2] <= NData - 1
    BY <1>1, <2>2 DEF Piece
  <2>4. QED  BY <2>1, <2>2, <2>3
<1>5. \A j \in Piece : j <= k + bottom => <<x - 1, j>> \in done
  BY <1>1 DEF Begin, Grid!Begin, Grid!Needs, Grid!Piece, Piece
<1> HIDE DEF bottom
<1>6. last \in Piece /\ last <= k + bottom
  BY <1>4 DEF Piece
<1>7. q[2] <= last + rows[x].reach - rows[q[1] + 1].reach
  BY <1>3, <1>4 DEF bottom
<1> HIDE DEF last
<1>8. CASE q[1] = x - 1
  <2>1. q[2] <= k + bottom
    <3>1. rows[q[1] + 1].reach = rows[x].reach
      BY <1>1, <1>8
    <3>2. QED  BY <1>4, <1>6, <1>7, <3>1 DEF Piece
  <2>2. QED  BY <1>1, <1>5, <1>8, <2>1
<1>9. CASE q[1] < x - 1
  <2> DEFINE p == <<x - 1, last>>
  <2>1. p \in begun
    BY <1>5, <1>6 DEF IInv, PiecesOK
  <2>2. p[1] = x - 1 /\ p[2] = last /\ p[1] + 1 = x
    BY <1>1
  <2> HIDE DEF p
  <2>3. q[1] < p[1] /\ q[2] <= p[2] + rows[p[1] + 1].reach - rows[q[1] + 1].reach
    BY <1>7, <1>9, <2>2
  <2>4. QED  BY <2>1, <2>3 DEF IInv, Reached
<1>10. QED  BY <1>1, <1>8, <1>9

LEMMA BeginKeepsIInv ==
  ASSUME IInv, NEW x \in Grid!Row, NEW k \in Piece, Begin(x, k)
  PROVE  IInv'
<1>1. /\ begun' = begun \cup {<<x, k>>} /\ UNCHANGED <<settings, stage, r, rows, done>>
      /\ stage = "run" /\ <<x, k>> \in Grid!AllPieces /\ Grid!AllPieces' = Grid!AllPieces
  BY DEF Begin, Grid!Begin, Grid!AllPieces, Grid!Row, Grid!Piece
<1>2. RowsOK' /\ PiecesOK'
  BY <1>1 DEF IInv, RowsOK, PiecesOK
<1>3. Reached'
  <2> SUFFICES ASSUME NEW p \in begun', NEW q \in Grid!AllPieces, q[1] < p[1],
                      q[2] <= p[2] + rows[p[1] + 1].reach - rows[q[1] + 1].reach
               PROVE  q \in done
    BY <1>1 DEF Reached
  <2>1. CASE p \in begun
    BY <2>1 DEF IInv, Reached
  <2>2. CASE p = <<x, k>>
    <3>1. p[1] = x /\ p[2] = k
      BY <2>2
    <3>2. q[1] < x /\ q[2] <= k + rows[x + 1].reach - rows[q[1] + 1].reach
      BY <3>1
    <3>3. QED  BY <3>2, BeginReaches
  <2>3. QED  BY <1>1, <2>1, <2>2
<1>4. LeftFirst'
  <2> SUFFICES ASSUME NEW p \in begun', NEW q \in Grid!AllPieces, q[1] = p[1], q[2] < p[2],
                      rows[p[1] + 1].depend = "inorder"
               PROVE  q \in done
    BY <1>1 DEF LeftFirst
  <2>1. CASE p \in begun
    BY <2>1 DEF IInv, LeftFirst
  <2>2. CASE p = <<x, k>>
    <3>1. q[1] = x /\ q[2] < k /\ rows[x + 1].depend = "inorder"
      BY <2>2
    <3>2. q = <<x, q[2]>> /\ q[2] \in Grid!Piece
      BY <3>1 DEF Grid!AllPieces
    <3>3. QED  BY <3>1, <3>2 DEF Begin, Grid!Begin, Grid!Needs
  <2>3. QED  BY <1>1, <2>1, <2>2
<1>5. QED  BY <1>2, <1>3, <1>4 DEF IInv

LEMMA EndKeepsIInv ==
  ASSUME IInv, NEW x \in Grid!Row, NEW k \in Piece, End(x, k)
  PROVE  IInv'
<1>1. /\ done' = done \cup {<<x, k>>} /\ UNCHANGED <<settings, stage, r, rows, begun>>
      /\ <<x, k>> \in begun /\ stage = "run" /\ Grid!AllPieces' = Grid!AllPieces
  BY DEF End, Grid!End, Grid!AllPieces, Grid!Row, Grid!Piece
<1>2. RowsOK' /\ PiecesOK'
  BY <1>1 DEF IInv, RowsOK, PiecesOK
<1>3. Reached'
  BY <1>1 DEF IInv, Reached
<1>4. LeftFirst'
  BY <1>1 DEF IInv, LeftFirst
<1>5. QED  BY <1>2, <1>3, <1>4 DEF IInv

(* The invariant holds at first, and every step keeps it.                  *)
LEMMA IInvHolds ==
  Init => IInv
  BY DEF Init, IInv, RowsOK, PiecesOK, Reached, LeftFirst, Pointers

LEMMA IInvStays ==
  IInv /\ [Next]_vars => IInv'
<1> SUFFICES ASSUME IInv, [Next]_vars PROVE IInv'
  OBVIOUS
<1>1. ASSUME NEW s \in Settings, OnFrame(s) PROVE IInv'
  BY <1>1 DEF OnFrame, Goes, IInv, RowsOK, PiecesOK, Reached, LeftFirst, Grid!AllPieces,
              Grid!Row, Grid!Piece
<1>2. CASE Builds
  BY <1>2, BuildsKeepIInv
<1>3. ASSUME NEW x \in Grid!Row, NEW k \in Piece, Begin(x, k) \/ End(x, k) PROVE IInv'
  BY <1>3, BeginKeepsIInv, EndKeepsIInv
<1>4. CASE AdvanceSync
  BY <1>4 DEF AdvanceSync, Goes, IInv, RowsOK, PiecesOK, Reached, LeftFirst
<1>5. CASE UNCHANGED vars
  BY <1>5 DEF vars, IInv, RowsOK, PiecesOK, Reached, LeftFirst, Grid!AllPieces, Grid!Row,
              Grid!Piece
<1>6. QED  BY <1>1, <1>2, <1>3, <1>4, <1>5 DEF Next

-----------------------------------------------------------------------------
(* While the workers run a frame, its dependencies are enough: they were   *)
(* when the main thread let it run, and the frame does not change.         *)
RunCompatible == stage = "run" => Compatible

LEMMA CompatibleStays ==
  ASSUME UNCHANGED <<settings, rows>>, Compatible
  PROVE  Compatible'
<1>1. Grid!AllPieces' = Grid!AllPieces
  BY DEF Grid!AllPieces, Grid!Row, Grid!Piece
<1>2. \A how, k : Span(how, k)' = Span(how, k)
  BY DEF Span, Inside, Piece
<1>3. \A accesses, k : Cells(accesses, k)' = Cells(accesses, k)
  BY <1>2 DEF Cells
<1>4. \A p : Reads(p)' = Reads(p) /\ Writes(p)' = Writes(p)
  BY <1>3 DEF Reads, Writes
<1>5. \A p, q : Conflict(p, q)' <=> Conflict(p, q)
  BY <1>4 DEF Conflict
<1>6. QED  BY <1>1, <1>5 DEF Compatible, Earlier

LEMMA RunCompatibleStays ==
  RunCompatible /\ FramesCompatible /\ [Next]_vars => RunCompatible'
<1> SUFFICES ASSUME RunCompatible, FramesCompatible, [Next]_vars, stage' = "run"
             PROVE  Compatible'
  BY DEF RunCompatible
<1>1. UNCHANGED <<settings, rows>> /\ stage \in {"flood", "run"}
  BY DEF Next, OnFrame, Builds, VideoVelocityOut, VelocityBlendIn, VideoBlendIn,
         TaskVorticity, TaskDampen, TaskTemperature, TaskViscosity, TaskPressure,
         TaskCorrectorRepos, TaskAdvectDensity, TaskAdvectVelocity, TaskVideoDensity2Char,
         Flood, Begin, End, Grid!Begin, Grid!End, AdvanceSync, Goes, vars
<1>2. QED  BY <1>1, CompatibleStays DEF RunCompatible, FramesCompatible

(* Enough dependencies order every two pieces that conflict.               *)
LEMMA Orders ==
  IInv /\ RunCompatible => ConflictsOrdered
<1> SUFFICES ASSUME IInv, RunCompatible, NEW q \in begun \ done,
                    NEW p \in Grid!AllPieces \ done, Earlier(p, q), Conflict(p, q)
             PROVE  FALSE
  BY DEF ConflictsOrdered
<1>1. q \in Grid!AllPieces /\ q \in begun /\ Compatible
  BY DEF IInv, PiecesOK, RunCompatible
<1>2. IF p[1] = q[1] THEN rows[q[1] + 1].depend = "inorder"
      ELSE p[2] <= q[2] + rows[q[1] + 1].reach - rows[p[1] + 1].reach
  BY <1>1 DEF Compatible
<1>3. CASE p[1] = q[1]
  <2>1. p[2] < q[2]
    BY <1>1, <1>3 DEF Earlier, Grid!AllPieces, Grid!Row
  <2>2. QED  BY <1>1, <1>2, <1>3, <2>1 DEF IInv, LeftFirst
<1>4. CASE p[1] # q[1]
  <2>1. p[1] < q[1]
    BY <1>4 DEF Earlier
  <2>2. QED  BY <1>1, <1>2, <1>4, <2>1 DEF IInv, Reached
<1>5. QED  BY <1>3, <1>4

(* If the dependencies of every frame are enough when the main thread      *)
(* floods the workers with its tasks, then however the workers interleave  *)
(* no piece is run before an earlier one it conflicts with is done: for    *)
(* every height of the fluid and everything a frame may be asked.          *)
THEOREM Ordered ==
  Spec /\ []FramesCompatible => []ConflictsOrdered
<1>1. Init => IInv /\ RunCompatible
  BY IInvHolds DEF Init, RunCompatible
<1>2. IInv /\ RunCompatible /\ FramesCompatible /\ [Next]_vars => IInv' /\ RunCompatible'
  BY IInvStays, RunCompatibleStays
<1>3. QED
  BY <1>1, <1>2, Orders, PTL DEF Spec
-----------------------------------------------------------------------------
(* That the dependencies are enough: how far the rows that a kernel's      *)
(* access touches are from its own, and what the tasks added so far still  *)
(* ask of the next ones.                                                   *)

(* A row that is read lies at most Left rows left of the piece's own, so   *)
(* that the piece is at most so far right of it, and at most Right rows    *)
(* right of it ("scaled" may lie anywhere right of it).                    *)
Left(how) ==
  CASE how \in {"band", "innerBand", "innerSides"} -> 1
    [] how = "window" -> AdvectDist
    [] OTHER -> 0
Right(how) ==
  CASE how \in {"band", "innerBand", "innerSides"} -> 1
    [] how = "window" -> AdvectDist + 1
    [] OTHER -> 0

OwnRow == {"own", "inner"}

(* A task whose pieces write their own rows, read no farther right than it *)
(* waits for the task above and, when they are run in any order, read      *)
(* nowhere else what they write.                                           *)
Waits(reads, writes, depend, bottom) ==
  /\ \A b \in writes : b[2] \in OwnRow
  /\ \A a \in reads : /\ Right(a[2]) <= bottom /\ a[1] # "vidOutput"
                      /\ a[2] = "curlEdge" => settings.altivec
  /\ depend = "any" => \A a \in reads, b \in writes : a[1] = b[1] => a[2] \in OwnRow

TasksWait ==
  \A i \in 1 .. Len(rows) :
    /\ Waits(rows[i].reads, rows[i].writes, rows[i].depend, rows[i].bottom)
    /\ \A a \in rows[i].reads : a[2] = "scaled" => i = 1 /\ settings.out \in 1 .. NData

(* What a task reads left of a piece is overwritten only by a task that    *)
(* waits for it.                                                           *)
ReadFirst ==
  \A i, j \in 1 .. Len(rows) : i < j =>
    \A a \in rows[i].reads, b \in rows[j].writes :
      a[1] = b[1] => Left(a[2]) <= rows[j].reach - rows[i].reach

(* So it stays: what a task reads left of a piece is behind the last task  *)
(* by enough, or will be.  The curl, in tmpVelX, is read by the last task  *)
(* that needs it and overwritten by the advection only; the iterations     *)
(* each wait for one row, and the advection for more than any task reads.  *)
Early == {"velocityOut", "velocityIn", "densityIn", "vorticity"}
Curled == {"dampenDensity", "dampenVelocityX", "dampenVelocityY", "temperature", "viscosity"}
Solving == {"pressure", "corrector"}
Asks(st, a, gap, curl) ==
  /\ st \in Early => Left(a[2]) = 0
  /\ st \in Curled => Left(a[2]) <= 1 /\ (Left(a[2]) <= gap \/ a[1] = curl)
  /\ st \in Solving => Left(a[2]) <= 1
Behind ==
  \A i \in 1 .. Len(rows) : \A a \in rows[i].reads :
    Asks(stage, a, LastReach - rows[i].reach, r["tmpVelX"])

Apart == \A p, q \in Pointers : r[p] = r[q] => p = q

Added ==
  CASE stage \in {"idle", "velocityOut"} -> 0
    [] stage = "velocityIn" -> 1
    [] stage = "densityIn" -> 2
    [] stage = "vorticity" -> 3
    [] stage = "dampenDensity" -> 5
    [] stage = "dampenVelocityX" -> 6
    [] stage = "dampenVelocityY" -> 7
    [] stage = "temperature" -> 8
    [] stage = "viscosity" -> 9
    [] stage = "pressure" -> 9 + settings.viscosity
    [] stage = "corrector" -> 11 + settings.viscosity + settings.pressure
    [] stage = "advectDensity" -> 12 + settings.viscosity + settings.pressure
    [] stage = "advectVelocity" -> 13 + settings.viscosity + settings.pressure
    [] stage = "video" -> 14 + settings.viscosity + settings.pressure
    [] OTHER -> 15 + settings.viscosity + settings.pressure

(* What the advection wrote is what the pointers now name.                 *)
Advected ==
  /\ stage \in {"advectVelocity", "video", "flood", "run"} /\ settings.density =>
       \E i \in TasksOf("repos") : rows[i].writes = {<<r["density"], "own">>}
  /\ stage \in {"video", "flood", "run"} =>
       \E i \in TasksOf("reposVel") : rows[i].writes = VelocitiesIn("own")
  /\ stage \in {"flood", "run"} /\ settings.density =>
       \E i \in TasksOf("video_dens2char") : rows[i].reads = {<<r["density"], "own">>}

BuiltInv == stage \in Stages /\ Apart /\ Len(rows) <= Added /\ Advected
OrderInv == TasksWait /\ ReadFirst /\ Behind

(* What the caller may ask for the order to hold: the curl with rows that  *)
(* are read in place (the other build reads row 0 for both edges), and the *)
(* velocities out at no more rows than the fluid has.                      *)
InPlace == \A s \in Settings : s.out <= NData /\ (s.vorticity => s.altivec)

LEMMA Distances ==
  /\ AdvectDist \in Nat /\ NData \in Nat \ {0}
  /\ Left("own") = 0 /\ Left("inner") = 0 /\ Left("curlEdge") = 0 /\ Left("scaled") = 0
  /\ Left("band") = 1 /\ Left("innerBand") = 1 /\ Left("innerSides") = 1
  /\ Left("window") = AdvectDist
  /\ Right("own") = 0 /\ Right("inner") = 0 /\ Right("curlEdge") = 0 /\ Right("scaled") = 0
  /\ Right("band") = 1 /\ Right("innerBand") = 1 /\ Right("innerSides") = 1
  /\ Right("window") = AdvectDist + 1
<1>1. AdvectDist \in Nat /\ NData \in Nat \ {0}
  BY AdvectDistAssumption, NDataAssumption DEF AdvectDistAssumption, NDataAssumption
<1>2. QED  BY <1>1, Zenon DEF Left, Right

LEMMA Scales ==
  ASSUME NEW k \in Nat, NEW n \in Nat \ {0}, NEW h \in 1 .. n
  PROVE  (k * n) \div h \in Int /\ (k * n) \div h >= k
<1>1. h \in Nat /\ h > 0 /\ h <= n /\ k * n \in Nat /\ k * h \in Nat
  OBVIOUS
<1>2. k * h <= k * n
  <2>1. n - h \in Nat
    OBVIOUS
  <2>2. k * (n - h) \in Nat
    BY <2>1
  <2>3. k * n = k * h + k * (n - h)
    OBVIOUS
  <2>4. \A u, v, w \in Nat : w = u + v => u <= w
    OBVIOUS
  <2>5. QED  BY <1>1, <2>2, <2>3, <2>4, Zenon
<1> DEFINE a == k * n
           q == a \div h
<1>3. a \in Nat /\ a >= k * h
  BY <1>1, <1>2
<1> HIDE DEF a
<1>4. q \in Int /\ a < h * (q + 1)
  BY <1>1, <1>3
<1> HIDE DEF q
<1>5. ASSUME q < k PROVE FALSE
  <2>1. k - q - 1 \in Nat
    BY <1>4, <1>5
  <2>2. h * (k - q - 1) \in Nat
    BY <1>1, <2>1
  <2>3. h * k = h * (q + 1) + h * (k - q - 1)
    BY <1>4
  <2>4. h * (q + 1) <= h * k /\ h * k = k * h
    BY <1>1, <1>4, <2>2, <2>3
  <2>5. QED  BY <1>1, <1>3, <1>4, <2>4
<1>6. q >= k
  BY <1>4, <1>5
<1>7. QED  BY <1>4, <1>6 DEF a, q

(* How far an access lies from its piece.                                  *)
LEMMA Touches ==
  ASSUME NEW how \in Shapes, NEW k \in Piece, NEW c \in Span(how, k),
         how = "curlEdge" => settings.altivec, how = "scaled" => settings.out \in 1 .. NData
  PROVE  /\ k \in Int /\ c \in Int /\ Left(how) \in Int /\ Right(how) \in Int
         /\ k <= c + Left(how)
         /\ how # "scaled" => c <= k + Right(how)
         /\ how \in OwnRow => c = k
<1>1. /\ NData \in Nat \ {0} /\ AdvectDist \in Nat /\ k \in Nat /\ k <= NData - 1
  <2>1. NData \in Nat \ {0} /\ AdvectDist \in Nat
    BY Distances
  <2>2. QED  BY <2>1 DEF Piece
<1>2. CASE how = "own"
  BY <1>1, <1>2, Distances DEF Span, OwnRow
<1>3. CASE how = "inner"
  <2>1. c = k
    BY <1>3 DEF Span
  <2>2. QED  BY <1>1, <1>3, <2>1, Distances DEF OwnRow
<1>4. CASE how = "curlEdge"
  <2>1. c = k
    BY <1>4 DEF Span
  <2>2. QED  BY <1>1, <1>4, <2>1, Distances DEF OwnRow
<1>5. CASE how \in {"band", "innerBand", "innerSides"}
  <2>1. c \in k - 1 .. k + 1
    <3>1. k - 1 \in k - 1 .. k + 1 /\ k + 1 \in k - 1 .. k + 1
      BY <1>1
    <3>2. QED  BY <1>5, <3>1 DEF Span
  <2>2. c \in Int /\ k <= c + 1 /\ c <= k + 1
    BY <1>1, <2>1
  <2>3. QED  BY <1>1, <1>5, <2>2, Distances DEF OwnRow
<1>6. CASE how = "window"
  <2>1. c \in k - AdvectDist .. k + AdvectDist + 1
    BY <1>6 DEF Span
  <2>2. c \in Int /\ k <= c + AdvectDist /\ c <= k + (AdvectDist + 1)
    BY <1>1, <2>1
  <2>3. QED  BY <1>1, <1>6, <2>2, Distances DEF OwnRow
<1>7. CASE how = "scaled"
  <2>1. c = (k * NData) \div settings.out
    BY <1>7 DEF Span
  <2>2. c \in Int /\ c >= k
    BY <1>1, <1>7, <2>1, Scales
  <2>3. QED  BY <1>1, <1>7, <2>2, Distances DEF OwnRow
<1>8. QED
  BY <1>2, <1>3, <1>4, <1>5, <1>6, <1>7 DEF Shapes

LEMMA TouchedCells ==
  ASSUME NEW accesses \in SUBSET (Fields \X Shapes), NEW k, NEW e \in Cells(accesses, k)
  PROVE  \E a \in accesses : e[1] = a[1] /\ e[2] \in Span(a[2], k) /\ a[2] \in Shapes
  BY DEF Cells

(* Two tasks of which the lower one waits at least for what it reads below *)
(* its own row, and for what the upper one reads above its own.            *)
LEMMA WaitingIsEnough ==
  ASSUME RowsOK, TasksWait, ReadFirst
  PROVE  Compatible
<1> SUFFICES ASSUME NEW p \in Grid!AllPieces, NEW q \in Grid!AllPieces,
                    Conflict(p, q), Earlier(p, q)
             PROVE  IF p[1] = q[1] THEN rows[q[1] + 1].depend = "inorder"
                    ELSE p[2] <= q[2] + rows[q[1] + 1].reach - rows[p[1] + 1].reach
  BY DEF Compatible
<1> DEFINE i == p[1] + 1
           j == q[1] + 1
           k == p[2]
           n == q[2]
<1>1. /\ Len(rows) \in Nat /\ p[1] \in 0 .. Len(rows) - 1 /\ q[1] \in 0 .. Len(rows) - 1
      /\ k \in Piece /\ n \in Piece
  BY DEF Grid!AllPieces, Grid!Row, Grid!Piece, Piece, RowsOK
<1>2. i \in 1 .. Len(rows) /\ j \in 1 .. Len(rows) /\ (i = j <=> p[1] = q[1])
      /\ (p[1] < q[1] <=> i < j) /\ p[1] \in Int /\ q[1] \in Int /\ (i < j => j # 1)
  BY <1>1
<1>3. rows[i] \in Tasks /\ rows[j] \in Tasks
  BY <1>2 DEF RowsOK
<1>4. /\ rows[i].reads \in SUBSET (Fields \X Shapes) /\ rows[i].writes \in SUBSET (Fields \X Shapes)
      /\ rows[j].reads \in SUBSET (Fields \X Shapes) /\ rows[j].writes \in SUBSET (Fields \X Shapes)
      /\ rows[i].reach \in Nat /\ rows[j].reach \in Nat /\ rows[j].bottom \in Nat
      /\ rows[j].depend \in {"any", "inorder"}
  BY <1>3 DEF Tasks
<1>5. /\ Waits(rows[i].reads, rows[i].writes, rows[i].depend, rows[i].bottom)
      /\ Waits(rows[j].reads, rows[j].writes, rows[j].depend, rows[j].bottom)
      /\ \A a \in rows[i].reads : a[2] = "scaled" => settings.out \in 1 .. NData
      /\ \A a \in rows[j].reads : a[2] = "scaled" => j = 1 /\ settings.out \in 1 .. NData
  BY <1>2 DEF TasksWait
<1>6. k \in Int /\ n \in Int
  <2>1. NData \in Nat \ {0}
    BY Distances
  <2>2. QED  BY <1>1, <2>1 DEF Piece
<1>7. /\ Reads(p) = Cells(rows[i].reads, k) /\ Writes(p) = Cells(rows[i].writes, k)
      /\ Reads(q) = Cells(rows[j].reads, n) /\ Writes(q) = Cells(rows[j].writes, n)
  BY DEF Reads, Writes
<1> HIDE DEF i, j, k, n
<1>8. ASSUME NEW b \in rows[i].writes, NEW c \in Span(b[2], k), b[2] \in Shapes
      PROVE  c = k
  <2>1. b[2] \in OwnRow
    BY <1>5 DEF Waits
  <2>2. QED  BY <1>1, <2>1, <1>8, Touches DEF OwnRow
<1>9. ASSUME NEW b \in rows[j].writes, NEW c \in Span(b[2], n), b[2] \in Shapes
      PROVE  c = n
  <2>1. b[2] \in OwnRow
    BY <1>5 DEF Waits
  <2>2. QED  BY <1>1, <2>1, <1>9, Touches DEF OwnRow
<1>10. CASE p[1] = q[1]
  <2>1. i = j /\ k < n
    <3>1. k < n
      BY <1>1, <1>2, <1>10 DEF Earlier, k, n
    <3>2. QED  BY <1>2, <1>10, <3>1
  <2>2. k # n
    BY <1>6, <2>1
  <2>3. ASSUME rows[j].depend = "any" PROVE FALSE
    <3>1. \A a \in rows[i].reads, b \in rows[i].writes : a[1] = b[1] => a[2] \in OwnRow
      BY <1>5, <2>1, <2>3 DEF Waits
    <3>2. CASE Writes(p) \cap Writes(q) # {}
      <4>1. PICK e : e \in Writes(p) /\ e \in Writes(q)
        BY <3>2
      <4>2. e[2] = k
        BY <1>4, <1>7, <1>8, <4>1, TouchedCells
      <4>3. e[2] = n
        BY <1>4, <1>7, <1>9, <4>1, TouchedCells
      <4>4. QED  BY <2>2, <4>2, <4>3
    <3>3. CASE Writes(p) \cap Reads(q) # {}
      <4>1. PICK e : e \in Writes(p) /\ e \in Reads(q)
        BY <3>3
      <4>2. PICK b \in rows[i].writes : e[1] = b[1] /\ e[2] = k
        BY <1>4, <1>7, <1>8, <4>1, TouchedCells
      <4>3. PICK a \in rows[j].reads : e[1] = a[1] /\ e[2] \in Span(a[2], n) /\ a[2] \in Shapes
        BY <1>4, <1>7, <4>1, TouchedCells
      <4>4. a[2] \in OwnRow
        BY <2>1, <3>1, <4>2, <4>3
      <4>5. e[2] = n
        BY <1>1, <4>3, <4>4, Touches DEF OwnRow
      <4>6. QED  BY <2>2, <4>2, <4>5
    <3>4. CASE Reads(p) \cap Writes(q) # {}
      <4>1. PICK e : e \in Reads(p) /\ e \in Writes(q)
        BY <3>4
      <4>2. PICK b \in rows[j].writes : e[1] = b[1] /\ e[2] = n
        BY <1>4, <1>7, <1>9, <4>1, TouchedCells
      <4>3. PICK a \in rows[i].reads : e[1] = a[1] /\ e[2] \in Span(a[2], k) /\ a[2] \in Shapes
        BY <1>4, <1>7, <4>1, TouchedCells
      <4>4. a[2] \in OwnRow
        BY <2>1, <3>1, <4>2, <4>3
      <4>5. e[2] = k
        BY <1>1, <4>3, <4>4, Touches DEF OwnRow
      <4>6. QED  BY <2>2, <4>2, <4>5
    <3>5. QED  BY <3>2, <3>3, <3>4 DEF Conflict
  <2>4. rows[j].depend = "inorder"
    BY <1>4, <2>3
  <2>5. QED  BY <1>10, <2>4 DEF j
<1>11. CASE p[1] # q[1]
  <2>1. i < j
    BY <1>2, <1>11 DEF Earlier
  <2> DEFINE d == rows[j].reach - rows[i].reach
  <2>2. d \in Int /\ d >= rows[j].bottom /\ rows[j].bottom >= 0
    <3>1. j \in 2 .. Len(rows) /\ j - 1 \in 1 .. Len(rows) /\ i <= j - 1
      BY <1>1, <1>2, <2>1
    <3>2. rows[j].reach = rows[j - 1].reach + rows[j].bottom /\ rows[i].reach <= rows[j - 1].reach
      BY <1>2, <3>1 DEF RowsOK
    <3>3. rows[j - 1].reach \in Nat
      <4>1. rows[j - 1] \in Tasks
        BY <3>1 DEF RowsOK
      <4>2. QED  BY <4>1 DEF Tasks
    <3>4. QED  BY <1>4, <3>2, <3>3
  <2>3. k <= n + d
    <3>1. CASE Writes(p) \cap Writes(q) # {}
      <4>1. k = n
        <5>1. PICK e : e \in Writes(p) /\ e \in Writes(q)
          BY <3>1
        <5>2. e[2] = k
          BY <1>4, <1>7, <1>8, <5>1, TouchedCells
        <5>3. e[2] = n
          BY <1>4, <1>7, <1>9, <5>1, TouchedCells
        <5>4. QED  BY <5>2, <5>3
      <4> HIDE DEF d
      <4>2. QED  BY <1>4, <1>6, <2>2, <4>1
    <3>2. CASE Writes(p) \cap Reads(q) # {}
      <4>1. PICK e : e \in Writes(p) /\ e \in Reads(q)
        BY <3>2
      <4>2. e[2] = k
        BY <1>4, <1>7, <1>8, <4>1, TouchedCells
      <4>3. PICK a \in rows[j].reads : e[1] = a[1] /\ e[2] \in Span(a[2], n) /\ a[2] \in Shapes
        BY <1>4, <1>7, <4>1, TouchedCells
      <4>4. /\ a[2] # "scaled" /\ (a[2] = "curlEdge" => settings.altivec)
            /\ Right(a[2]) <= rows[j].bottom
        BY <1>2, <1>5, <2>1 DEF Waits
      <4>5. e[2] <= n + Right(a[2]) /\ Right(a[2]) \in Int
        BY <1>1, <4>3, <4>4, Touches
      <4> HIDE DEF d
      <4>6. QED  BY <1>4, <1>6, <2>2, <4>2, <4>4, <4>5
    <3>3. CASE Reads(p) \cap Writes(q) # {}
      <4>1. PICK e : e \in Reads(p) /\ e \in Writes(q)
        BY <3>3
      <4>2. PICK b \in rows[j].writes : e[1] = b[1] /\ e[2] = n
        BY <1>4, <1>7, <1>9, <4>1, TouchedCells
      <4>3. PICK a \in rows[i].reads : e[1] = a[1] /\ e[2] \in Span(a[2], k) /\ a[2] \in Shapes
        BY <1>4, <1>7, <4>1, TouchedCells
      <4>4. /\ a[2] = "curlEdge" => settings.altivec
            /\ a[2] = "scaled" => settings.out \in 1 .. NData
        BY <1>5 DEF Waits
      <4>5. k <= e[2] + Left(a[2]) /\ Left(a[2]) \in Int
        BY <1>1, <4>3, <4>4, Touches
      <4>6. Left(a[2]) <= d
        BY <1>2, <2>1, <4>2, <4>3 DEF ReadFirst
      <4> HIDE DEF d
      <4>7. QED  BY <1>6, <2>2, <4>2, <4>5, <4>6
    <3>4. QED  BY <3>1, <3>2, <3>3 DEF Conflict
  <2>4. n + d = n + rows[j].reach - rows[i].reach
    BY <1>4, <1>6
  <2>5. QED  BY <1>11, <2>3, <2>4 DEF i, j, k, n
<1>12. QED  BY <1>10, <1>11

-----------------------------------------------------------------------------
(* The tasks that a builder adds.                                          *)
LEMMA Grows ==
  ASSUME RowsOK, NEW passes \in Seq(Kernels), NEW depend \in {"any", "inorder"},
         NEW bottom \in Nat, Adds(passes, depend, bottom)
  PROVE  /\ Len(rows) \in Nat /\ Len(passes) \in Nat /\ Len(rows') = Len(rows) + Len(passes)
         /\ \A i \in 1 .. Len(rows) : rows'[i] = rows[i]
         /\ \A i \in 1 .. Len(passes) :
              rows'[Len(rows) + i] =
                [fn |-> passes[i].fn, reads |-> passes[i].reads, writes |-> passes[i].writes,
                 depend |-> depend, bottom |-> bottom, reach |-> LastReach + i * bottom]
         /\ \A j \in 1 .. Len(rows') :
              j \in 1 .. Len(rows) \/ \E i \in 1 .. Len(passes) : j = Len(rows) + i
<1> DEFINE t == [i \in 1 .. Len(passes) |->
                   [fn |-> passes[i].fn, reads |-> passes[i].reads,
                    writes |-> passes[i].writes, depend |-> depend,
                    bottom |-> bottom, reach |-> LastReach + i * bottom]]
           U == {t[i] : i \in 1 .. Len(passes)} \cup Tasks
<1>1. Len(rows) \in Nat /\ Len(passes) \in Nat /\ rows \in Seq(Tasks)
  BY DEF RowsOK
<1>2. t \in Seq(U) /\ Len(t) = Len(passes)
  <2>1. \A i \in 1 .. Len(passes) : t[i] \in U
    OBVIOUS
  <2> HIDE DEF U
  <2>2. t \in [1 .. Len(passes) -> U]
    BY <2>1
  <2> HIDE DEF t
  <2>3. t \in Seq(U) /\ DOMAIN t = 1 .. Len(passes)
    BY <1>1, <2>2
  <2>4. DOMAIN t = 1 .. Len(t) /\ Len(t) \in Nat
    BY <2>3
  <2>5. \A m, n \in Nat : 1 .. m = 1 .. n => m = n
    OBVIOUS
  <2>6. QED  BY <1>1, <2>3, <2>4, <2>5
<1>3. rows \in Seq(U)
  BY <1>1
<1>4. rows' = rows \o t
  BY DEF Adds
<1> HIDE DEF U
<1>5. /\ Len(rows') = Len(rows) + Len(t)
      /\ \A i \in 1 .. Len(rows) : rows'[i] = rows[i]
      /\ \A i \in 1 .. Len(t) : rows'[Len(rows) + i] = t[i]
  <2> HIDE DEF t
  <2>1. t \in Seq(U)
    BY <1>2
  <2>2. /\ Len(rows \o t) = Len(rows) + Len(t)
        /\ \A i \in 1 .. Len(rows) : (rows \o t)[i] = rows[i]
        /\ \A i \in 1 .. Len(t) : (rows \o t)[Len(rows) + i] = t[i]
    BY <1>3, <2>1, Concatenated
  <2>3. QED  BY <1>4, <2>2
<1>6. \A i \in 1 .. Len(passes) : rows'[Len(rows) + i] = t[i]
  <2> HIDE DEF t
  <2>1. QED  BY <1>2, <1>5
<1>7. ASSUME NEW j \in 1 .. Len(rows')
      PROVE  j \in 1 .. Len(rows) \/ \E i \in 1 .. Len(passes) : j = Len(rows) + i
  <2> HIDE DEF t
  <2>1. CASE j <= Len(rows)
    BY <1>1, <2>1
  <2>2. CASE j > Len(rows)
    <3>1. j - Len(rows) \in 1 .. Len(passes) /\ j = Len(rows) + (j - Len(rows))
      BY <1>1, <1>2, <1>5, <2>2
    <3>2. QED  BY <3>1
  <2>3. QED  BY <1>1, <2>1, <2>2
<1>8. QED
  BY <1>1, <1>2, <1>5, <1>6, <1>7

LEMMA NewRow ==
  ASSUME RowsOK, NEW passes \in Seq(Kernels), NEW depend \in {"any", "inorder"},
         NEW bottom \in Nat, Adds(passes, depend, bottom), NEW i \in 1 .. Len(passes)
  PROVE  LET row == rows'[Len(rows) + i]
         IN  /\ row.fn = passes[i].fn
             /\ row.reads = passes[i].reads /\ row.writes = passes[i].writes
             /\ row.depend = depend /\ row.bottom = bottom
             /\ row.reach = LastReach + i * bottom
<1> DEFINE row == rows'[Len(rows) + i]
<1>1. row = [fn |-> passes[i].fn, reads |-> passes[i].reads, writes |-> passes[i].writes,
             depend |-> depend, bottom |-> bottom, reach |-> LastReach + i * bottom]
  BY Grows
<1> HIDE DEF row
<1>2. /\ row.fn = passes[i].fn
      /\ row.reads = passes[i].reads /\ row.writes = passes[i].writes
      /\ row.depend = depend /\ row.bottom = bottom
      /\ row.reach = LastReach + i * bottom
  BY <1>1
<1>3. QED  BY <1>2 DEF row

(* Their reaches: each waits for the one above.                            *)
LEMMA ReachGrows ==
  ASSUME RowsOK, RowsOK', NEW passes \in Seq(Kernels), NEW depend \in {"any", "inorder"},
         NEW bottom \in Nat, Adds(passes, depend, bottom)
  PROVE  /\ LastReach \in Nat /\ LastReach' \in Nat /\ LastReach <= LastReach'
         /\ \A i \in 1 .. Len(rows) : rows[i].reach \in Nat /\ rows[i].reach <= LastReach
         /\ \A i \in 1 .. Len(rows') : rows'[i].reach \in Nat /\ rows'[i].reach <= LastReach'
         /\ \A i \in 1 .. Len(passes) : LastReach + i * bottom \in Nat
                                        /\ LastReach + bottom <= LastReach + i * bottom
         /\ \A i, j \in 1 .. Len(passes) : i < j =>
              (LastReach + i * bottom) + bottom <= LastReach + j * bottom
<1>1. /\ LastReach \in Nat
      /\ \A i \in 1 .. Len(rows) : rows[i].reach \in Nat /\ rows[i].reach <= LastReach
  <2>1. ASSUME NEW i \in 1 .. Len(rows) PROVE rows[i].reach \in Nat
    <3>1. rows[i] \in Tasks
      BY DEF RowsOK
    <3>2. QED  BY <3>1 DEF Tasks
  <2>2. CASE rows = <<>>
    BY <2>2 DEF LastReach
  <2>3. CASE rows # <<>>
    <3>1. Len(rows) \in 1 .. Len(rows)
      BY <2>3 DEF RowsOK
    <3>2. LastReach = rows[Len(rows)].reach
      BY <2>3 DEF LastReach
    <3>3. QED  BY <2>1, <3>1, <3>2 DEF RowsOK
  <2>4. QED  BY <2>2, <2>3
<1>2. /\ LastReach' \in Nat
      /\ \A i \in 1 .. Len(rows') : rows'[i].reach \in Nat /\ rows'[i].reach <= LastReach'
  <2>1. ASSUME NEW i \in 1 .. Len(rows') PROVE rows'[i].reach \in Nat
    <3>1. rows'[i] \in Tasks
      BY DEF RowsOK
    <3>2. QED  BY <3>1 DEF Tasks
  <2>2. CASE rows' = <<>>
    BY <2>2 DEF LastReach
  <2>3. CASE rows' # <<>>
    <3>1. Len(rows') \in 1 .. Len(rows')
      BY <2>3 DEF RowsOK
    <3>2. LastReach' = rows'[Len(rows')].reach
      BY <2>3 DEF LastReach
    <3>3. QED  BY <2>1, <3>1, <3>2 DEF RowsOK
  <2>4. QED  BY <2>2, <2>3
<1>3. LastReach <= LastReach'
  <2>1. CASE rows = <<>>
    <3>1. LastReach = 0
      BY <2>1 DEF LastReach
    <3>2. QED  BY <1>2, <3>1
  <2>2. CASE rows # <<>>
    <3>1. Len(rows) \in 1 .. Len(rows) /\ Len(rows) \in 1 .. Len(rows')
      BY <2>2, Grows DEF RowsOK
    <3>2. LastReach = rows[Len(rows)].reach /\ rows'[Len(rows)] = rows[Len(rows)]
      BY <2>2, <3>1, Grows DEF LastReach
    <3>3. QED  BY <1>2, <3>1, <3>2
  <2>3. QED  BY <2>1, <2>2
<1>4. ASSUME NEW i \in 1 .. Len(passes)
      PROVE  LastReach + i * bottom \in Nat /\ LastReach + bottom <= LastReach + i * bottom
  <2>1. i \in Nat /\ 1 <= i /\ 1 \in Nat /\ 1 * bottom = bottom
    OBVIOUS
  <2>2. i * bottom \in Nat
    BY <2>1
  <2>3. LastReach + 1 * bottom <= LastReach + i * bottom
    BY <1>1, <2>1, MoreIsFarther
  <2>4. \A u, v \in Nat : u + v \in Nat
    OBVIOUS
  <2>5. QED  BY <1>1, <2>1, <2>2, <2>3, <2>4, Zenon
<1>5. ASSUME NEW i \in 1 .. Len(passes), NEW j \in 1 .. Len(passes), i < j
      PROVE  (LastReach + i * bottom) + bottom <= LastReach + j * bottom
  <2>1. i \in Nat /\ j \in Nat /\ i + 1 \in Nat /\ i + 1 <= j /\ (i + 1) - 1 = i
    BY <1>5
  <2>2. LastReach + (i + 1) * bottom = LastReach + ((i + 1) - 1) * bottom + bottom
    BY <1>1, <2>1, OneMore
  <2>3. LastReach + (i + 1) * bottom <= LastReach + j * bottom
    BY <1>1, <2>1, MoreIsFarther
  <2>4. LastReach + (i + 1) * bottom = (LastReach + i * bottom) + bottom
    BY <2>1, <2>2
  <2>5. QED  BY <2>3, <2>4, Zenon
<1>6. QED  BY <1>1, <1>2, <1>3, <1>4, <1>5

LEMMA LeftIsNat == \A how : Left(how) \in Nat
<1>1. AdvectDist \in Nat
  BY Distances
<1>2. QED  BY <1>1 DEF Left

(* Adding tasks keeps what the order needs, if each waits for as much as   *)
(* it reads, and for as much as the tasks above it read of what it writes. *)
LEMMA AddsKeepsOrder ==
  ASSUME RowsOK, RowsOK', TasksWait, ReadFirst, UNCHANGED settings,
         NEW passes \in Seq(Kernels), NEW depend \in {"any", "inorder"}, NEW bottom \in Nat,
         Adds(passes, depend, bottom),
         \A i \in 1 .. Len(passes) :
           /\ Waits(passes[i].reads, passes[i].writes, depend, bottom)
           /\ \A a \in passes[i].reads :
                a[2] = "scaled" => rows = <<>> /\ i = 1 /\ settings.out \in 1 .. NData
           /\ Len(passes) > 1 => \A a \in passes[i].reads : Left(a[2]) <= bottom
           /\ \A t \in 1 .. Len(rows) : \A a \in rows[t].reads, b \in passes[i].writes :
                a[1] = b[1] => Left(a[2]) <= LastReach + bottom - rows[t].reach
  PROVE  TasksWait' /\ ReadFirst'
<1> DEFINE n == Len(rows)
           m == Len(passes)
<1>1. /\ n \in Nat /\ m \in Nat /\ Len(rows') = n + m
      /\ \A i \in 1 .. n : rows'[i] = rows[i]
      /\ \A i \in 1 .. m : /\ rows'[n + i].reads = passes[i].reads
                           /\ rows'[n + i].writes = passes[i].writes
                           /\ rows'[n + i].depend = depend /\ rows'[n + i].bottom = bottom
                           /\ rows'[n + i].reach = LastReach + i * bottom
      /\ \A j \in 1 .. Len(rows') : j \in 1 .. n \/ \E i \in 1 .. m : j = n + i
  <2>1. ASSUME NEW i \in 1 .. m
        PROVE  /\ rows'[n + i].reads = passes[i].reads
               /\ rows'[n + i].writes = passes[i].writes
               /\ rows'[n + i].depend = depend /\ rows'[n + i].bottom = bottom
               /\ rows'[n + i].reach = LastReach + i * bottom
    BY NewRow
  <2>2. QED  BY <2>1, Grows
<1>2. /\ LastReach \in Nat
      /\ \A i \in 1 .. n : rows[i].reach \in Nat
      /\ \A i \in 1 .. m : LastReach + i * bottom \in Nat
                           /\ LastReach + bottom <= LastReach + i * bottom
      /\ \A i, j \in 1 .. m : i < j => (LastReach + i * bottom) + bottom <= LastReach + j * bottom
  BY ReachGrows
<1> HIDE DEF n, m
<1>3. \A reads, writes :
        Waits(reads, writes, depend, bottom)' <=> Waits(reads, writes, depend, bottom)
  BY DEF Waits
<1>4. TasksWait'
  <2> SUFFICES ASSUME NEW j \in 1 .. Len(rows')
               PROVE  /\ Waits(rows'[j].reads, rows'[j].writes, rows'[j].depend, rows'[j].bottom)
                      /\ \A a \in rows'[j].reads :
                           a[2] = "scaled" => j = 1 /\ settings.out \in 1 .. NData
    BY DEF TasksWait, Waits
  <2>1. CASE j \in 1 .. n
    BY <1>1, <2>1 DEF TasksWait, n
  <2>2. ASSUME NEW i \in 1 .. m, j = n + i
        PROVE  /\ Waits(rows'[j].reads, rows'[j].writes, rows'[j].depend, rows'[j].bottom)
               /\ \A a \in rows'[j].reads :
                    a[2] = "scaled" => j = 1 /\ settings.out \in 1 .. NData
    <3>1. /\ rows'[j].reads = passes[i].reads /\ rows'[j].writes = passes[i].writes
          /\ rows'[j].depend = depend /\ rows'[j].bottom = bottom
      BY <1>1, <2>2
    <3>2. rows = <<>> /\ i = 1 => j = 1
      BY <2>2 DEF n
    <3>3. QED  BY <3>1, <3>2 DEF m
  <2>3. QED  BY <1>1, <2>1, <2>2
<1>5. ReadFirst'
  <2> SUFFICES ASSUME NEW i \in 1 .. Len(rows'), NEW j \in 1 .. Len(rows'), i < j,
                      NEW a \in rows'[i].reads, NEW b \in rows'[j].writes, a[1] = b[1]
               PROVE  Left(a[2]) <= rows'[j].reach - rows'[i].reach
    BY DEF ReadFirst
  <2> DEFINE l == Left(a[2])
  <2>1. l \in Nat
    BY LeftIsNat
  <2>2. CASE j \in 1 .. n
    <3>1. i \in 1 .. n
      BY <1>1, <2>2
    <3>2. QED  BY <1>1, <2>2, <3>1 DEF ReadFirst, n
  <2>3. ASSUME NEW g \in 1 .. m, j = n + g, i \in 1 .. n PROVE l <= rows'[j].reach - rows'[i].reach
    <3>1. rows'[i] = rows[i] /\ rows'[j].writes = passes[g].writes
          /\ rows'[j].reach = LastReach + g * bottom
      BY <1>1, <2>3
    <3>2. l <= LastReach + bottom - rows[i].reach
      BY <2>3, <3>1 DEF n, m
    <3>3. /\ LastReach + g * bottom \in Nat /\ LastReach + bottom <= LastReach + g * bottom
          /\ rows[i].reach \in Nat /\ LastReach \in Nat
      BY <1>2, <2>3
    <3> DEFINE s == LastReach + g * bottom
               u == rows[i].reach
    <3>4. s \in Nat /\ LastReach + bottom <= s /\ u \in Nat /\ l <= LastReach + bottom - u
      BY <3>2, <3>3
    <3> HIDE DEF s, u, l
    <3>5. l <= s - u
      BY <2>1, <3>3, <3>4
    <3>6. QED  BY <3>1, <3>5 DEF s, u
  <2>4. ASSUME NEW g \in 1 .. m, j = n + g, NEW h \in 1 .. m, i = n + h
        PROVE  l <= rows'[j].reach - rows'[i].reach
    <3>1. h < g /\ m > 1
      BY <1>1, <2>4
    <3>2. /\ rows'[i].reads = passes[h].reads /\ rows'[i].reach = LastReach + h * bottom
          /\ rows'[j].reach = LastReach + g * bottom
      BY <1>1, <2>4
    <3>3. l <= bottom
      BY <3>1, <3>2 DEF m
    <3> DEFINE s == LastReach + g * bottom
               u == LastReach + h * bottom
    <3>4. s \in Nat /\ u \in Nat /\ u + bottom <= s
      BY <1>2, <3>1
    <3> HIDE DEF s, u, l
    <3>5. l <= s - u
      BY <2>1, <3>3, <3>4
    <3>6. QED  BY <3>2, <3>5 DEF s, u
  <2>5. QED  BY <1>1, <2>2, <2>3, <2>4
<1>6. QED  BY <1>4, <1>5

LEMMA AddsKeepsBehind ==
  ASSUME RowsOK, RowsOK', NEW passes \in Seq(Kernels), NEW depend \in {"any", "inorder"},
         NEW bottom \in Nat, Adds(passes, depend, bottom),
         \A i \in 1 .. Len(rows) : \A a \in rows[i].reads :
           Asks(stage', a, LastReach' - rows[i].reach, r'["tmpVelX"]),
         \A i \in 1 .. Len(passes) : \A a \in passes[i].reads :
           Asks(stage', a, LastReach' - (LastReach + i * bottom), r'["tmpVelX"])
  PROVE  Behind'
<1>1. /\ \A i \in 1 .. Len(rows) : rows'[i] = rows[i]
      /\ \A i \in 1 .. Len(passes) : /\ rows'[Len(rows) + i].reads = passes[i].reads
                                     /\ rows'[Len(rows) + i].reach = LastReach + i * bottom
      /\ \A j \in 1 .. Len(rows') :
           j \in 1 .. Len(rows) \/ \E i \in 1 .. Len(passes) : j = Len(rows) + i
  <2>1. ASSUME NEW i \in 1 .. Len(passes)
        PROVE  /\ rows'[Len(rows) + i].reads = passes[i].reads
               /\ rows'[Len(rows) + i].reach = LastReach + i * bottom
    BY NewRow
  <2>2. QED  BY <2>1, Grows
<1>2. ASSUME NEW j \in 1 .. Len(rows'), NEW a \in rows'[j].reads
      PROVE  Asks(stage', a, LastReach' - rows'[j].reach, r'["tmpVelX"])
  <2>1. CASE j \in 1 .. Len(rows)
    BY <1>1, <2>1
  <2>2. ASSUME NEW i \in 1 .. Len(passes), j = Len(rows) + i
        PROVE  Asks(stage', a, LastReach' - rows'[j].reach, r'["tmpVelX"])
    BY <1>1, <2>2
  <2>3. QED  BY <1>1, <2>1, <2>2
<1>3. QED  BY <1>2 DEF Behind, Asks

-----------------------------------------------------------------------------
(* Each kernel waits for what it reads, with the dependency its builder    *)
(* states.                                                                 *)
Suits(kernel, depend, bottom, left) ==
  /\ Waits(kernel.reads, kernel.writes, depend, bottom)
  /\ \A a \in kernel.reads : a[2] # "scaled" /\ Left(a[2]) <= left

LEMMA VelocityNames ==
  ASSUME r \in [Pointers -> Pointers], Apart
  PROVE  /\ \A how : \A a \in VelocitiesIn(how) :
              a[1] \in {r["velocityX"], r["velocityY"]} /\ a[2] = how
         /\ \A p \in Pointers :
              r[p] \notin {"pressure", "reposX", "reposY", "vidOutput", "velOut"}
         /\ \A a \in Repos : a[1] \in {"reposX", "reposY"} /\ a[2] = "own"
         /\ r["tmpVelX"] \notin {r["velocityX"], r["velocityY"]}
         /\ r["tmpVelY"] \notin {r["velocityX"], r["velocityY"]}
         /\ r["density"] \notin {r["tmpVelX"], r["density_swap"]}
         /\ {"velocityX", "velocityY", "tmpVelX", "tmpVelY", "density", "density_swap"}
              \subseteq Pointers
<1>1. {"velocityX", "velocityY", "tmpVelX", "tmpVelY", "density", "density_swap"}
        \subseteq Pointers
  BY DEF Pointers
<1>2. \A how : \A a \in VelocitiesIn(how) :
        a[1] \in {r["velocityX"], r["velocityY"]} /\ a[2] = how
  BY DEF VelocitiesIn
<1>3. \A p \in Pointers : r[p] \notin {"pressure", "reposX", "reposY", "vidOutput", "velOut"}
  BY DEF Pointers
<1>4. \A a \in Repos : a[1] \in {"reposX", "reposY"} /\ a[2] = "own"
  BY DEF Repos
<1>5. /\ r["tmpVelX"] \notin {r["velocityX"], r["velocityY"]}
      /\ r["tmpVelY"] \notin {r["velocityX"], r["velocityY"]}
      /\ r["density"] \notin {r["tmpVelX"], r["density_swap"]}
  BY <1>1 DEF Apart
<1>6. QED  BY <1>1, <1>2, <1>3, <1>4, <1>5

LEMMA OwnKernelsWait ==
  ASSUME r \in [Pointers -> Pointers], Apart
  PROVE  /\ Suits(fluid_input_float2vel, "any", 0, 0)
         /\ Suits(fluid_input_char2dens, "any", 0, 0)
         /\ \A p \in Pointers : Suits(fluid_dampen(r[p]), "any", 0, 0)
         /\ Suits(fluid_force_heat, "any", 0, 0)
         /\ Suits(fluid_video_dens2char, "any", 0, 0)
<1>1. ASSUME NEW kernel,
             \A a \in kernel.reads : a[2] = "own" /\ a[1] # "vidOutput",
             \A b \in kernel.writes : b[2] = "own"
      PROVE  Suits(kernel, "any", 0, 0)
  BY <1>1, Distances DEF Suits, Waits, OwnRow
<1>2. \A p \in Pointers : r[p] # "vidOutput"
  BY VelocityNames
<1>3. \A a \in VelocitiesIn("own") : a[2] = "own" /\ a[1] # "vidOutput"
  BY VelocityNames
<1>4. Suits(fluid_input_float2vel, "any", 0, 0)
  BY <1>1, <1>3 DEF fluid_input_float2vel, Kernel
<1>5. Suits(fluid_input_char2dens, "any", 0, 0)
  BY <1>1, <1>2 DEF fluid_input_char2dens, Kernel, Pointers
<1>6. \A p \in Pointers : Suits(fluid_dampen(r[p]), "any", 0, 0)
  BY <1>1, <1>2 DEF fluid_dampen, Kernel
<1>7. Suits(fluid_force_heat, "any", 0, 0)
  <2>1. /\ \A a \in fluid_force_heat.reads : a[2] = "own" /\ a[1] # "vidOutput"
        /\ \A b \in fluid_force_heat.writes : b[2] = "own"
    BY <1>2, <1>3 DEF fluid_force_heat, Kernel, Pointers
  <2>2. QED  BY <1>1, <2>1
<1>8. Suits(fluid_video_dens2char, "any", 0, 0)
  BY <1>1, <1>2 DEF fluid_video_dens2char, Kernel, Pointers
<1>9. QED  BY <1>4, <1>5, <1>6, <1>7, <1>8

(* The curl reads its neighbours' velocities and writes tmpVelX; what is   *)
(* applied reads the curl's band and writes the velocities.                *)
LEMMA VorticityWaits ==
  ASSUME r \in [Pointers -> Pointers], Apart, settings.altivec
  PROVE  /\ Suits(fluid_vorticity_curl, "any", 1, 1)
         /\ Suits(fluid_vorticity_apply, "any", 1, 1)
         /\ \A a \in fluid_vorticity_apply.reads : Left(a[2]) <= 0 \/ a[1] = r["tmpVelX"]
<1>1. /\ \A a \in fluid_vorticity_curl.reads :
           /\ a[1] \in {r["velocityX"], r["velocityY"]}
           /\ a[2] \in {"innerSides", "curlEdge"}
      /\ \A b \in fluid_vorticity_curl.writes : b[1] = r["tmpVelX"] /\ b[2] = "own"
  BY DEF fluid_vorticity_curl, Kernel
<1>2. /\ \A a \in fluid_vorticity_apply.reads :
           \/ a[1] = r["tmpVelX"] /\ a[2] = "innerBand"
           \/ a[1] \in {r["velocityX"], r["velocityY"]} /\ a[2] = "inner"
      /\ \A b \in fluid_vorticity_apply.writes :
           b[1] \in {r["velocityX"], r["velocityY"]} /\ b[2] = "inner"
  BY VelocityNames DEF fluid_vorticity_apply, Kernel
<1>3. /\ r["tmpVelX"] \notin {r["velocityX"], r["velocityY"]}
      /\ "vidOutput" \notin {r["tmpVelX"], r["velocityX"], r["velocityY"]}
  BY VelocityNames
<1>4. Suits(fluid_vorticity_curl, "any", 1, 1)
  BY <1>1, <1>3, Distances DEF Suits, Waits, OwnRow
<1>5. Suits(fluid_vorticity_apply, "any", 1, 1)
  BY <1>2, <1>3, Distances DEF Suits, Waits, OwnRow
<1>6. \A a \in fluid_vorticity_apply.reads : Left(a[2]) <= 0 \/ a[1] = r["tmpVelX"]
  BY <1>2, Distances
<1>7. QED  BY <1>4, <1>5, <1>6

LEMMA SolverWaits ==
  ASSUME r \in [Pointers -> Pointers], Apart
  PROVE  /\ Suits(fluid_viscosity, "inorder", 1, 1)
         /\ \A b \in fluid_viscosity.writes : b[1] # r["tmpVelX"]
         /\ Suits(fluid_genPressure, "inorder", 1, 1)
         /\ Suits(fluid_genPressure_dens, "inorder", 1, 1)
         /\ Suits(fluid_genPressure_densfix, "inorder", 1, 1)
         /\ Suits(fluid_applyPressure, "inorder", 1, 1)
<1>1. ASSUME NEW kernel,
             \A a \in kernel.reads : a[1] # "vidOutput"
               /\ a[2] \in {"own", "band", "inner", "innerBand", "innerSides"},
             \A b \in kernel.writes : b[2] \in {"own", "inner"}
      PROVE  Suits(kernel, "inorder", 1, 1)
  BY <1>1, Distances DEF Suits, Waits, OwnRow
<1>2. \A p \in Pointers : r[p] # "vidOutput"
  BY VelocityNames
<1>3. \A how : \A a \in VelocitiesIn(how) : a[2] = how /\ a[1] # "vidOutput"
  BY VelocityNames
<1>4. Suits(fluid_viscosity, "inorder", 1, 1)
  BY <1>1, <1>3 DEF fluid_viscosity, Kernel
<1>5. \A b \in fluid_viscosity.writes : b[1] # r["tmpVelX"]
  BY VelocityNames DEF fluid_viscosity, Kernel
<1>6. /\ \A a \in fluid_genPressure.reads : a[1] # "vidOutput"
           /\ a[2] \in {"own", "band", "inner", "innerBand", "innerSides"}
      /\ \A b \in fluid_genPressure.writes : b[2] \in {"own", "inner"}
  BY <1>2 DEF fluid_genPressure, Kernel, Pointers
<1>7. /\ \A a \in fluid_genPressure_dens.reads : a[1] # "vidOutput"
           /\ a[2] \in {"own", "band", "inner", "innerBand", "innerSides"}
      /\ \A b \in fluid_genPressure_dens.writes : b[2] \in {"own", "inner"}
  BY <1>2 DEF fluid_genPressure_dens, fluid_genPressure, Kernel, Pointers
<1>8. Suits(fluid_genPressure_densfix, "inorder", 1, 1)
  BY <1>1, <1>2 DEF fluid_genPressure_densfix, Kernel, Pointers
<1>9. /\ \A a \in fluid_applyPressure.reads : a[1] # "vidOutput"
           /\ a[2] \in {"own", "band", "inner", "innerBand", "innerSides"}
      /\ \A b \in fluid_applyPressure.writes : b[2] \in {"own", "inner"}
  BY <1>3 DEF fluid_applyPressure, Kernel
<1>10. QED  BY <1>1, <1>4, <1>5, <1>6, <1>7, <1>8, <1>9

(* The advection reads up to AdvectDist rows above and one more below, and *)
(* writes fields it does not read elsewhere.                               *)
LEMMA AdvectionWaits ==
  ASSUME r \in [Pointers -> Pointers], Apart
  PROVE  /\ Suits(fluid_advection_mccormack_repos, "any", AdvectDist + 1, AdvectDist)
         /\ Suits(fluid_repos, "any", AdvectDist + 1, AdvectDist)
         /\ Suits(fluid_reposVel, "any", AdvectDist + 1, AdvectDist)
<1>1. ASSUME NEW kernel,
             \A a \in kernel.reads : a[1] # "vidOutput" /\ a[2] \in {"own", "window"},
             \A b \in kernel.writes : b[2] = "own",
             \A a \in kernel.reads, b \in kernel.writes : a[1] = b[1] => a[2] = "own"
      PROVE  Suits(kernel, "any", AdvectDist + 1, AdvectDist)
  BY <1>1, Distances DEF Suits, Waits, OwnRow
<1>2. Suits(fluid_advection_mccormack_repos, "any", AdvectDist + 1, AdvectDist)
  <2>1. /\ \A a \in fluid_advection_mccormack_repos.reads :
             a[1] \in {r["velocityX"], r["velocityY"]} /\ a[2] = "window"
        /\ \A b \in fluid_advection_mccormack_repos.writes :
             b[1] \in {"reposX", "reposY"} /\ b[2] = "own"
    BY VelocityNames DEF fluid_advection_mccormack_repos, Kernel
  <2>2. {r["velocityX"], r["velocityY"]} \cap {"reposX", "reposY", "vidOutput"} = {}
    BY VelocityNames
  <2>3. QED  BY <1>1, <2>1, <2>2
<1>3. Suits(fluid_repos, "any", AdvectDist + 1, AdvectDist)
  <2>1. /\ \A a \in fluid_repos.reads :
             \/ a[1] \in {"reposX", "reposY"} /\ a[2] = "own"
             \/ a[1] = r["density"] /\ a[2] = "window"
        /\ \A b \in fluid_repos.writes : b[1] = r["density_swap"] /\ b[2] = "own"
    BY VelocityNames DEF fluid_repos, Kernel
  <2>2. r["density"] # r["density_swap"] /\ r["density"] # "vidOutput"
    BY VelocityNames
  <2>3. QED  BY <1>1, <2>1, <2>2
<1>4. Suits(fluid_reposVel, "any", AdvectDist + 1, AdvectDist)
  <2>1. /\ \A a \in fluid_reposVel.reads :
             \/ a[1] \in {"reposX", "reposY"} /\ a[2] = "own"
             \/ a[1] \in {r["velocityX"], r["velocityY"]} /\ a[2] = "window"
        /\ \A b \in fluid_reposVel.writes :
             b[1] \in {r["tmpVelX"], r["tmpVelY"]} /\ b[2] = "own"
    BY VelocityNames DEF fluid_reposVel, Kernel
  <2>2. /\ {r["velocityX"], r["velocityY"]} \cap {r["tmpVelX"], r["tmpVelY"]} = {}
        /\ "vidOutput" \notin {r["velocityX"], r["velocityY"]}
    BY VelocityNames
  <2>3. QED  BY <1>1, <2>1, <2>2
<1>5. QED  BY <1>2, <1>3, <1>4

LEMMA OutWaits ==
  ASSUME r \in [Pointers -> Pointers], Apart
  PROVE  /\ Waits(fluid_input_vel2float.reads, fluid_input_vel2float.writes, "any", 0)
         /\ \A a \in fluid_input_vel2float.reads : Left(a[2]) = 0
<1>1. /\ \A a \in fluid_input_vel2float.reads :
           a[1] \in {r["velocityX"], r["velocityY"]} /\ a[2] = "scaled"
      /\ \A b \in fluid_input_vel2float.writes : b[1] = "velOut" /\ b[2] = "own"
  BY VelocityNames DEF fluid_input_vel2float, Kernel
<1>2. {r["velocityX"], r["velocityY"]} \cap {"velOut", "vidOutput"} = {}
  BY VelocityNames
<1> DEFINE reads == fluid_input_vel2float.reads
           writes == fluid_input_vel2float.writes
<1>3. /\ \A b \in writes : b[2] \in OwnRow
      /\ \A a \in reads : Right(a[2]) = 0 /\ Left(a[2]) = 0 /\ a[1] # "vidOutput"
                          /\ a[2] # "curlEdge"
      /\ \A a \in reads, b \in writes : a[1] # b[1]
  BY <1>1, <1>2, Distances DEF OwnRow
<1> HIDE DEF reads, writes
<1>4. Waits(reads, writes, "any", 0) /\ \A a \in reads : Left(a[2]) = 0
  BY <1>3 DEF Waits
<1>5. QED  BY <1>4 DEF reads, writes

-----------------------------------------------------------------------------
(* A builder's tasks in their place: what the tasks above still read of    *)
(* what they write is waited for.                                          *)
Covered(b, bottom) ==
  \/ stage \in Early
  \/ stage \in Curled /\ b[1] # r["tmpVelX"]
  \/ stage \in Solving /\ bottom >= 1
  \/ bottom = AdvectDist + 1
  \/ b[1] = "vidOutput"

(* The order of the builders, as far as Behind tells them apart.           *)
Onward ==
  /\ stage' \in Early => stage \in Early
  /\ stage' \in Curled => stage \in Early \cup Curled /\ r' = r
  /\ stage' \in Solving => stage \in Early \cup Curled \cup Solving

LEMMA LeftBounded ==
  \A how : Left(how) \in Nat /\ (Left(how) <= 1 \/ Left(how) = AdvectDist)
<1>1. AdvectDist \in Nat
  BY Distances
<1>2. QED  BY <1>1 DEF Left

LEMMA StagesApart ==
  Early \cap Curled = {} /\ Early \cap Solving = {} /\ Curled \cap Solving = {}
  BY DEF Early, Curled, Solving

(* The rows already there: what they ask, at the next stage too, and of    *)
(* the tasks that come.                                                    *)
LEMMA ReadBefore ==
  ASSUME NEW a, NEW b, NEW gap \in Nat, NEW bottom \in Nat, a[1] # "vidOutput",
         Asks(stage, a, gap, r["tmpVelX"]), Covered(b, bottom), a[1] = b[1]
  PROVE  Left(a[2]) <= gap + bottom
<1> DEFINE l == Left(a[2])
<1>1. l \in Nat /\ (l <= 1 \/ l = AdvectDist) /\ AdvectDist \in Nat
  BY LeftBounded, Distances
<1>2. CASE stage \in Early
  <2>1. l = 0
    BY <1>2 DEF Asks
  <2> HIDE DEF l
  <2>2. l <= gap + bottom
    BY <1>1, <2>1
  <2>3. QED  BY <2>2 DEF l
<1>3. CASE stage \in Curled /\ b[1] # r["tmpVelX"]
  <2>1. l <= gap
    BY <1>3 DEF Asks
  <2> HIDE DEF l
  <2>2. l <= gap + bottom
    BY <1>1, <2>1
  <2>3. QED  BY <2>2 DEF l
<1>4. CASE stage \in Solving /\ bottom >= 1
  <2>1. l <= 1
    BY <1>4 DEF Asks
  <2> HIDE DEF l
  <2>2. l <= gap + bottom
    BY <1>1, <1>4, <2>1
  <2>3. QED  BY <2>2 DEF l
<1>5. CASE bottom = AdvectDist + 1
  <2> HIDE DEF l
  <2>1. l <= gap + bottom
    BY <1>1, <1>5
  <2>2. QED  BY <2>1 DEF l
<1>6. QED  BY <1>2, <1>3, <1>4, <1>5 DEF Covered

LEMMA AsksOnward ==
  ASSUME Onward, NEW a, NEW gap \in Nat, NEW more \in Nat, gap <= more,
         Asks(stage, a, gap, r["tmpVelX"])
  PROVE  Asks(stage', a, more, r'["tmpVelX"])
<1> DEFINE l == Left(a[2])
<1>1. l \in Nat
  BY LeftBounded
<1>2. l = 0 => l <= more /\ l <= 1
  BY <1>1
<1>3. l <= gap => l <= more
  BY <1>1
<1>4. CASE stage' \in Early
  BY <1>4, StagesApart DEF Asks, Onward
<1>5. CASE stage' \in Curled
  <2>1. r' = r /\ stage' \notin Early /\ stage' \notin Solving
    BY <1>5, StagesApart DEF Onward
  <2>2. CASE stage \in Early
    BY <1>2, <2>1, <2>2 DEF Asks
  <2>3. CASE stage \in Curled
    BY <1>3, <2>1, <2>3 DEF Asks
  <2>4. QED  BY <1>5, <2>2, <2>3 DEF Onward
<1>6. CASE stage' \in Solving
  <2>1. l <= 1
    BY <1>2, <1>6 DEF Asks, Onward
  <2>2. QED  BY <1>6, <2>1, StagesApart DEF Asks
<1>7. QED  BY <1>4, <1>5, <1>6 DEF Asks

LEMMA AsksLess ==
  ASSUME NEW st, NEW a, NEW gap \in Nat, NEW more \in Int, gap <= more, NEW curl,
         Asks(st, a, gap, curl)
  PROVE  Asks(st, a, more, curl)
<1> DEFINE l == Left(a[2])
<1>1. l \in Nat
  BY LeftBounded
<1>2. l <= gap => l <= more
  <2> HIDE DEF l
  <2>1. QED  BY <1>1
<1>3. QED  BY <1>2 DEF Asks

LEMMA BuildKeepsOrder ==
  ASSUME RowsOK, RowsOK', TasksWait, ReadFirst, Behind, UNCHANGED settings, Onward,
         NEW passes \in Seq(Kernels), NEW depend \in {"any", "inorder"}, NEW bottom \in Nat,
         Adds(passes, depend, bottom),
         \A i \in 1 .. Len(passes) :
           /\ Waits(passes[i].reads, passes[i].writes, depend, bottom)
           /\ \A a \in passes[i].reads :
                a[2] = "scaled" => rows = <<>> /\ i = 1 /\ settings.out \in 1 .. NData
           /\ Len(passes) > 1 => \A a \in passes[i].reads : Left(a[2]) <= bottom
           /\ \A b \in passes[i].writes : Covered(b, bottom)
           /\ \A a \in passes[i].reads :
                Asks(stage', a, IF i < Len(passes) THEN bottom ELSE 0, r'["tmpVelX"])
  PROVE  TasksWait' /\ ReadFirst' /\ Behind'
<1>1. /\ LastReach \in Nat /\ LastReach' \in Nat /\ LastReach <= LastReach'
      /\ \A i \in 1 .. Len(rows) : rows[i].reach \in Nat /\ rows[i].reach <= LastReach
  BY ReachGrows
<1>2. ASSUME NEW t \in 1 .. Len(rows), NEW a \in rows[t].reads
      PROVE  /\ LastReach - rows[t].reach \in Nat /\ LastReach' - rows[t].reach \in Nat
             /\ LastReach - rows[t].reach <= LastReach' - rows[t].reach
             /\ Asks(stage, a, LastReach - rows[t].reach, r["tmpVelX"])
             /\ a[1] # "vidOutput"
  <2>1. \A u, v, w \in Nat : w <= u /\ u <= v => u - w \in Nat /\ v - w \in Nat /\ u - w <= v - w
    OBVIOUS
  <2>2. /\ LastReach - rows[t].reach \in Nat /\ LastReach' - rows[t].reach \in Nat
        /\ LastReach - rows[t].reach <= LastReach' - rows[t].reach
    BY <1>1, <2>1
  <2>3. a[1] # "vidOutput"
    BY DEF TasksWait, Waits
  <2>4. QED  BY <2>2, <2>3 DEF Behind
<1>3. TasksWait' /\ ReadFirst'
  <2>1. ASSUME NEW i \in 1 .. Len(passes), NEW t \in 1 .. Len(rows),
               NEW a \in rows[t].reads, NEW b \in passes[i].writes, a[1] = b[1]
        PROVE  Left(a[2]) <= LastReach + bottom - rows[t].reach
    <3>1. Left(a[2]) <= (LastReach - rows[t].reach) + bottom
      BY <1>2, <2>1, ReadBefore
    <3>2. \A u, v, w \in Nat : (u - v) + w = u + w - v
      OBVIOUS
    <3>3. (LastReach - rows[t].reach) + bottom = LastReach + bottom - rows[t].reach
      BY <1>1, <3>2
    <3>4. QED  BY <3>1, <3>3, Zenon
  <2>2. QED  BY <2>1, AddsKeepsOrder
<1>4. Behind'
  <2>1. ASSUME NEW t \in 1 .. Len(rows), NEW a \in rows[t].reads
        PROVE  Asks(stage', a, LastReach' - rows[t].reach, r'["tmpVelX"])
    BY <1>2, AsksOnward
  <2>2. ASSUME NEW i \in 1 .. Len(passes), NEW a \in passes[i].reads
        PROVE  Asks(stage', a, LastReach' - (LastReach + i * bottom), r'["tmpVelX"])
    <3> DEFINE m == Len(passes)
               s == LastReach + i * bottom
               u == LastReach + m * bottom
               gap == IF i < m THEN bottom ELSE 0
    <3>1. m \in 1 .. m /\ m \in Nat /\ i <= m /\ i \in Nat
      OBVIOUS
    <3>2. s \in Nat /\ u \in Nat /\ (i < m => s + bottom <= u)
      BY <3>1, ReachGrows
    <3>3. u <= LastReach'
      <4>1. Len(rows) + m \in 1 .. Len(rows') /\ rows'[Len(rows) + m].reach = u
        <5>1. Len(rows') = Len(rows) + m /\ Len(rows) \in Nat
          BY Grows
        <5>2. rows'[Len(rows) + m].reach = u
          BY <3>1, NewRow
        <5> HIDE DEF m, u
        <5>3. QED  BY <3>1, <5>1, <5>2
      <4>2. QED  BY <4>1, ReachGrows
    <3>4. i = m => s = u
      OBVIOUS
    <3>5. Asks(stage', a, gap, r'["tmpVelX"])
      OBVIOUS
    <3>6. gap \in Nat /\ gap <= LastReach' - s /\ LastReach' - s \in Int
      <4>1. \A x, y, z, w \in Nat : x + y <= z /\ z <= w => y <= w - x /\ w - x \in Int
        OBVIOUS
      <4>2. CASE i < m
        <5>1. gap = bottom
          BY <4>2
        <5> HIDE DEF gap, m, s, u
        <5>2. QED  BY <1>1, <3>2, <3>3, <4>1, <4>2, <5>1, Zenon
      <4>3. CASE i = m
        <5>1. gap = 0 /\ s = u /\ 0 \in Nat
          BY <4>3
        <5>2. s + 0 = s
          BY <3>2
        <5>3. s + 0 <= LastReach'
          BY <3>3, <5>1, <5>2
        <5>4. s + 0 <= s
          BY <3>2
        <5> HIDE DEF gap, m, s, u
        <5>5. QED  BY <1>1, <3>2, <3>3, <4>1, <5>1, <5>4, Zenon
      <4>4. i < m \/ i = m
        <5> HIDE DEF m
        <5>1. QED  BY <3>1
      <4>5. QED  BY <4>2, <4>3, <4>4
    <3> HIDE DEF gap, s, m, u
    <3>7. Asks(stage', a, LastReach' - s, r'["tmpVelX"])
      BY <3>5, <3>6, AsksLess
    <3>8. QED  BY <3>7 DEF s
  <2>3. QED  BY <2>1, <2>2, AddsKeepsBehind
<1>5. QED  BY <1>3, <1>4

(* The builders whose tasks read no farther than they wait.                *)
LEMMA SuitsKeepsOrder ==
  ASSUME RowsOK, RowsOK', TasksWait, ReadFirst, Behind, UNCHANGED settings, Onward,
         NEW passes \in Seq(Kernels), NEW depend \in {"any", "inorder"}, NEW bottom \in Nat,
         Adds(passes, depend, bottom), NEW left \in Nat, left <= bottom,
         \A i \in 1 .. Len(passes) :
           /\ Suits(passes[i], depend, bottom, left)
           /\ \A b \in passes[i].writes : Covered(b, bottom),
         stage' \in Early \cup Curled => left = 0,
         stage' \in Solving => left <= 1
  PROVE  TasksWait' /\ ReadFirst' /\ Behind'
<1>1. ASSUME NEW i \in 1 .. Len(passes), NEW a \in passes[i].reads
      PROVE  /\ a[2] # "scaled" /\ Left(a[2]) <= bottom
             /\ Asks(stage', a, IF i < Len(passes) THEN bottom ELSE 0, r'["tmpVelX"])
  <2> DEFINE l == Left(a[2])
             gap == IF i < Len(passes) THEN bottom ELSE 0
  <2>1. a[2] # "scaled" /\ l <= left /\ l \in Nat
    BY LeftBounded DEF Suits
  <2>2. l <= bottom /\ gap >= 0
    <3> HIDE DEF l
    <3>1. QED  BY <2>1
  <2>3. left = 0 => l = 0 /\ l <= gap /\ l <= 1
    <3> HIDE DEF l, gap
    <3>1. QED  BY <2>1, <2>2
  <2>4. left <= 1 => l <= 1
    <3> HIDE DEF l
    <3>1. QED  BY <2>1
  <2>5. Asks(stage', a, gap, r'["tmpVelX"])
    <3> HIDE DEF gap
    <3>1. QED  BY <2>3, <2>4 DEF Asks
  <2>6. QED  BY <2>1, <2>2, <2>5
<1>2. \A i \in 1 .. Len(passes) : /\ Waits(passes[i].reads, passes[i].writes, depend, bottom)
                                  /\ \A b \in passes[i].writes : Covered(b, bottom)
  BY DEF Suits
<1>3. QED  BY <1>1, <1>2, BuildKeepsOrder

LEMMA OneOrNone ==
  ASSUME NEW kernel \in Kernels, NEW c \in BOOLEAN
  PROVE  LET passes == When(c, <<kernel>>)
         IN  /\ passes \in Seq(Kernels) /\ Len(passes) \in Nat /\ Len(passes) <= 1
             /\ \A i \in 1 .. Len(passes) : passes[i] = kernel
             /\ c => Len(passes) = 1
  BY DEF When

LEMMA ChoiceGrows ==
  ASSUME RowsOK, NEW kernel \in Kernels, NEW c \in BOOLEAN,
         NEW depend \in {"any", "inorder"}, NEW bottom \in Nat,
         Adds(When(c, <<kernel>>), depend, bottom)
  PROVE  Len(rows) \in Nat /\ Len(rows') \in Nat /\ Len(rows') <= Len(rows) + 1
<1> DEFINE passes == When(c, <<kernel>>)
<1>1. passes \in Seq(Kernels) /\ Len(passes) \in Nat /\ Len(passes) <= 1
  BY OneOrNone
<1>2. Adds(passes, depend, bottom)
  OBVIOUS
<1> HIDE DEF passes
<1>3. Len(rows') = Len(rows) + Len(passes) /\ Len(rows) \in Nat
  BY <1>1, <1>2, Grows
<1>4. QED  BY <1>1, <1>3

LEMMA SettingsTyped ==
  ASSUME settings \in Settings
  PROVE  /\ settings.velIn \in BOOLEAN /\ settings.densIn \in BOOLEAN
         /\ settings.vorticity \in BOOLEAN /\ settings.fadeDens \in BOOLEAN
         /\ settings.fadeVel \in BOOLEAN /\ settings.temperature \in BOOLEAN
         /\ settings.freeSurface \in BOOLEAN /\ settings.density \in BOOLEAN
         /\ settings.viscosity \in Nat /\ settings.pressure \in Nat /\ settings.out \in Nat
  BY SettingsAssumption DEF SettingsAssumption

LEMMA SettingsInPlace ==
  ASSUME settings \in Settings, InPlace
  PROVE  /\ settings.out # 0 => settings.out \in 1 .. NData
         /\ settings.vorticity => settings.altivec
<1>1. settings.out <= NData /\ (settings.vorticity => settings.altivec)
  BY DEF InPlace
<1>2. \A u \in Nat, v \in Nat \ {0} : u # 0 /\ u <= v => u \in 1 .. v
  OBVIOUS
<1>3. NData \in Nat \ {0} /\ settings.out \in Nat
  BY Distances, SettingsTyped
<1>4. settings.out # 0 => settings.out \in 1 .. NData
  BY <1>1, <1>2, <1>3, Zenon
<1>5. QED  BY <1>1, <1>4

(* The stages up to the advection leave the fields where they are.         *)
Settled == {"velocityOut", "velocityIn", "densityIn", "vorticity", "dampenDensity",
            "dampenVelocityX", "dampenVelocityY", "temperature", "viscosity", "pressure",
            "corrector", "advectDensity"}

LEMMA BuiltStays ==
  ASSUME BuiltInv, stage' \in Settled, r' = r, Len(rows') <= Added'
  PROVE  BuiltInv'
<1>1. stage' \in Stages /\ stage' \notin {"advectVelocity", "video", "flood", "run"}
  BY DEF Settled, Stages
<1>2. Apart'
  BY DEF BuiltInv, Apart
<1>3. Advected'
  BY <1>1 DEF Advected
<1>4. QED  BY <1>1, <1>2, <1>3 DEF BuiltInv

LEMMA OneTaskKeepsBuilt ==
  ASSUME IInv, BuiltInv, NEW kernel \in Kernels, NEW c \in BOOLEAN, NEW bottom \in Nat,
         Adds(When(c, <<kernel>>), "any", bottom), r' = r, stage' \in Settled,
         Added \in Nat, Added' = Added + 1
  PROVE  BuiltInv'
<1>1. Len(rows) \in Nat /\ Len(rows') \in Nat /\ Len(rows') <= Len(rows) + 1
  BY ChoiceGrows DEF IInv
<1>2. Len(rows') <= Added'
  BY <1>1 DEF BuiltInv
<1>3. QED  BY <1>2, BuiltStays

LEMMA EarlyBuildersKeepBuilt ==
  ASSUME IInv, BuiltInv,
         \/ VideoVelocityOut \/ VelocityBlendIn \/ VideoBlendIn \/ TaskDampen
         \/ TaskTemperature \/ TaskCorrectorRepos
  PROVE  BuiltInv'
<1>1. r \in [Pointers -> Pointers] /\ settings \in Settings
  BY DEF IInv, RowsOK
<1>2. /\ settings.velIn \in BOOLEAN /\ settings.densIn \in BOOLEAN
      /\ settings.fadeDens \in BOOLEAN /\ settings.fadeVel \in BOOLEAN
      /\ (settings.density /\ settings.temperature) \in BOOLEAN
      /\ (settings.out # 0) \in BOOLEAN
      /\ settings.viscosity \in Nat /\ settings.pressure \in Nat
  BY <1>1, SettingsTyped
<1>3. AdvectDist + 1 \in Nat /\ 0 \in Nat
  BY Distances
<1>4. CASE VideoVelocityOut
  <2>1. /\ stage = "velocityOut" /\ stage' = "velocityIn" /\ UNCHANGED <<settings, r>>
        /\ Adds(When(settings.out # 0, <<fluid_input_vel2float>>), "any", 0)
    BY <1>4 DEF VideoVelocityOut, Goes
  <2>2. Added' = Added + 1 /\ Added \in Nat /\ stage' \in Settled
    BY <2>1 DEF Added, Settled
  <2>3. QED  BY <1>1, <1>2, <1>3, <2>1, <2>2, KernelsTyped, OneTaskKeepsBuilt
<1>5. CASE VelocityBlendIn
  <2>1. /\ stage = "velocityIn" /\ stage' = "densityIn" /\ UNCHANGED <<settings, r>>
        /\ Adds(When(settings.velIn, <<fluid_input_float2vel>>), "any", 0)
    BY <1>5 DEF VelocityBlendIn, Goes
  <2>2. Added' = Added + 1 /\ Added \in Nat /\ stage' \in Settled
    BY <2>1 DEF Added, Settled
  <2>3. QED  BY <1>1, <1>2, <1>3, <2>1, <2>2, KernelsTyped, OneTaskKeepsBuilt
<1>6. CASE VideoBlendIn
  <2>1. /\ stage = "densityIn" /\ stage' = "vorticity" /\ UNCHANGED <<settings, r>>
        /\ Adds(When(settings.densIn, <<fluid_input_char2dens>>), "any", 0)
    BY <1>6 DEF VideoBlendIn, Goes
  <2>2. Added' = Added + 1 /\ Added \in Nat /\ stage' \in Settled
    BY <2>1 DEF Added, Settled
  <2>3. QED  BY <1>1, <1>2, <1>3, <2>1, <2>2, KernelsTyped, OneTaskKeepsBuilt
<1>7. CASE TaskDampen
  <2>1. PICK p \in {"density", "velocityX", "velocityY"}, c \in BOOLEAN :
          Adds(When(c, <<fluid_dampen(r[p])>>), "any", 0)
    BY <1>2, <1>7 DEF TaskDampen
  <2>2. /\ UNCHANGED <<settings, r>>
        /\ \/ stage = "dampenDensity" /\ stage' = "dampenVelocityX"
           \/ stage = "dampenVelocityX" /\ stage' = "dampenVelocityY"
           \/ stage = "dampenVelocityY" /\ stage' = "temperature"
    BY <1>7 DEF TaskDampen, Goes
  <2>3. fluid_dampen(r[p]) \in Kernels
    BY <1>1, KernelsTyped DEF Pointers
  <2>4. Added' = Added + 1 /\ Added \in Nat /\ stage' \in Settled
    BY <2>2 DEF Added, Settled
  <2>5. QED  BY <1>3, <2>1, <2>2, <2>3, <2>4, OneTaskKeepsBuilt
<1>8. CASE TaskTemperature
  <2>1. /\ stage = "temperature" /\ stage' = "viscosity" /\ UNCHANGED <<settings, r>>
        /\ Adds(When(settings.density /\ settings.temperature, <<fluid_force_heat>>), "any", 0)
    BY <1>8 DEF TaskTemperature, Goes
  <2>2. Added' = Added + 1 /\ Added \in Nat /\ stage' \in Settled
    BY <2>1 DEF Added, Settled
  <2>3. QED  BY <1>1, <1>2, <1>3, <2>1, <2>2, KernelsTyped, OneTaskKeepsBuilt
<1>9. CASE TaskCorrectorRepos
  <2>1. /\ stage = "corrector" /\ stage' = "advectDensity" /\ UNCHANGED <<settings, r>>
        /\ Adds(When(TRUE, <<fluid_advection_mccormack_repos>>), "any", AdvectDist + 1)
    BY <1>9 DEF TaskCorrectorRepos, Goes, When
  <2>2. /\ Added = 11 + settings.viscosity + settings.pressure
        /\ Added' = 12 + settings.viscosity + settings.pressure /\ stage' \in Settled
    BY <2>1 DEF Added, Settled
  <2>3. Added' = Added + 1 /\ Added \in Nat
    BY <1>2, <2>2
  <2>4. QED  BY <1>1, <1>3, <2>1, <2>2, <2>3, KernelsTyped, OneTaskKeepsBuilt
<1>10. QED  BY <1>4, <1>5, <1>6, <1>7, <1>8, <1>9

LEMMA PressurePassesIn ==
  ASSUME NEW Good, settings.pressure \in Nat,
         {fluid_genPressure, fluid_genPressure_dens, fluid_genPressure_densfix,
          fluid_applyPressure} \subseteq Good
  PROVE  LET passes == Append(PressurePasses, fluid_applyPressure)
         IN  /\ passes \in Seq(Good) /\ Len(passes) \in Nat
             /\ Len(passes) <= settings.pressure + 2
<1>1. /\ PressurePasses \in Seq(Good) /\ Len(PressurePasses) \in Nat
      /\ Len(PressurePasses) <= settings.pressure + 1
  <2> DEFINE s == <<fluid_genPressure_densfix>>
             t == [i \in 1 .. settings.pressure |-> fluid_genPressure_dens]
             u == [i \in 1 .. settings.pressure |-> fluid_genPressure]
  <2>1. /\ s \in Seq(Good) /\ Len(s) = 1
        /\ t \in Seq(Good) /\ Len(t) = settings.pressure
        /\ u \in Seq(Good) /\ Len(u) = settings.pressure
    OBVIOUS
  <2>2. PressurePasses \in {s \o t, u}
    BY DEF PressurePasses
  <2> HIDE DEF s, t, u
  <2>3. s \in Seq(Good) /\ t \in Seq(Good)
    BY <2>1
  <2>4. s \o t \in Seq(Good) /\ Len(s \o t) = Len(s) + Len(t)
    BY <2>3, Concatenated, Zenon
  <2>5. Len(s \o t) = 1 + settings.pressure
    BY <2>1, <2>4, Zenon
  <2>6. CASE PressurePasses = s \o t
    BY <2>4, <2>5, <2>6
  <2>7. CASE PressurePasses = u
    BY <2>1, <2>7
  <2>8. QED  BY <2>2, <2>6, <2>7
<1>2. QED  BY <1>1

LEMMA PassBuildersKeepBuilt ==
  ASSUME IInv, BuiltInv, TaskVorticity \/ TaskViscosity \/ TaskPressure
  PROVE  BuiltInv'
<1>1. /\ r \in [Pointers -> Pointers] /\ settings \in Settings /\ RowsOK
      /\ UNCHANGED <<settings, r>>
  BY DEF IInv, RowsOK, TaskVorticity, TaskViscosity, TaskPressure
<1>2. /\ settings.vorticity \in BOOLEAN /\ settings.viscosity \in Nat
      /\ settings.pressure \in Nat
  BY <1>1, SettingsTyped
<1>3. CASE TaskVorticity
  <2> DEFINE passes ==
               When(settings.vorticity, <<fluid_vorticity_curl, fluid_vorticity_apply>>)
  <2>1. /\ stage = "vorticity" /\ stage' = "dampenDensity" /\ Adds(passes, "any", 1)
    BY <1>3 DEF TaskVorticity, Goes
  <2>2. passes \in Seq(Kernels) /\ Len(passes) \in Nat /\ Len(passes) <= 2
    <3>1. fluid_vorticity_curl \in Kernels /\ fluid_vorticity_apply \in Kernels
      BY <1>1, KernelsTyped
    <3>2. QED  BY <1>2, <3>1 DEF When
  <2> HIDE DEF passes
  <2>3. Len(rows') = Len(rows) + Len(passes) /\ Len(rows) \in Nat
    BY <1>1, <2>1, <2>2, Grows
  <2>4. Len(rows) <= 3 /\ Added' = 5 /\ stage' \in Settled
    BY <2>1 DEF Added, BuiltInv, Settled
  <2>5. QED  BY <1>1, <2>2, <2>3, <2>4, BuiltStays
<1>4. CASE TaskViscosity
  <2> DEFINE passes == [i \in 1 .. settings.viscosity |-> fluid_viscosity]
  <2>1. /\ stage = "viscosity" /\ stage' = "pressure" /\ Adds(passes, "inorder", 1)
    BY <1>4 DEF TaskViscosity, Goes
  <2>2. passes \in Seq(Kernels) /\ Len(passes) = settings.viscosity
    BY <1>1, <1>2, KernelsTyped
  <2> HIDE DEF passes
  <2>3. Len(rows') = Len(rows) + settings.viscosity /\ Len(rows) \in Nat
    BY <1>1, <2>1, <2>2, Grows
  <2>4. Len(rows) <= 9 /\ Added' = 9 + settings.viscosity /\ stage' \in Settled
    BY <1>1, <2>1 DEF Added, BuiltInv, Settled
  <2>5. QED  BY <1>1, <1>2, <2>3, <2>4, BuiltStays
<1>5. CASE TaskPressure
  <2> DEFINE passes == Append(PressurePasses, fluid_applyPressure)
  <2>1. /\ stage = "pressure" /\ stage' = "corrector" /\ Adds(passes, "inorder", 1)
    BY <1>5 DEF TaskPressure, Goes
  <2>2. /\ passes \in Seq(Kernels) /\ Len(passes) \in Nat
        /\ Len(passes) <= settings.pressure + 2
    BY <1>1, <1>2, KernelsTyped, PressurePassesIn
  <2> HIDE DEF passes
  <2>3. Len(rows') = Len(rows) + Len(passes) /\ Len(rows) \in Nat
    BY <1>1, <2>1, <2>2, Grows
  <2>4. /\ Len(rows) <= 9 + settings.viscosity
        /\ Added' = 11 + settings.viscosity + settings.pressure /\ stage' \in Settled
    BY <1>1, <2>1 DEF Added, BuiltInv, Settled
  <2>5. Len(rows') <= Added'
    BY <1>2, <2>2, <2>3, <2>4
  <2>6. QED  BY <1>1, <2>4, <2>5, BuiltStays
<1>6. QED  BY <1>3, <1>4, <1>5

(* A row that is there stays, and its task with it.                        *)
LEMMA TasksStay ==
  ASSUME RowsOK, NEW passes \in Seq(Kernels), NEW depend \in {"any", "inorder"},
         NEW bottom \in Nat, Adds(passes, depend, bottom), NEW fn, NEW i \in TasksOf(fn)
  PROVE  i \in TasksOf(fn)' /\ rows'[i] = rows[i]
<1>1. i \in 1 .. Len(rows) /\ rows[i].fn = fn
  BY DEF TasksOf, RowsOK
<1>2. /\ rows'[i] = rows[i] /\ Len(rows) \in Nat /\ Len(passes) \in Nat
      /\ Len(rows') = Len(rows) + Len(passes)
  BY <1>1, Grows
<1>3. rows' \in Seq(Tasks)
  BY AddsKeepsRows DEF RowsOK
<1>4. i \in 1 .. Len(rows') /\ DOMAIN rows' = 1 .. Len(rows')
  BY <1>1, <1>2, <1>3
<1>5. QED  BY <1>1, <1>2, <1>4 DEF TasksOf

LEMMA TaskComes ==
  ASSUME RowsOK, NEW kernel \in Kernels, NEW bottom \in Nat, Adds(<<kernel>>, "any", bottom)
  PROVE  \E i \in DOMAIN rows' :
           /\ rows'[i].fn = kernel.fn
           /\ rows'[i].reads = kernel.reads /\ rows'[i].writes = kernel.writes
<1> DEFINE passes == <<kernel>>
           i == Len(rows) + 1
<1>1. /\ passes \in Seq(Kernels) /\ Len(passes) = 1 /\ passes[1] = kernel
      /\ Adds(passes, "any", bottom)
  OBVIOUS
<1> HIDE DEF passes
<1>2. /\ Len(rows) \in Nat /\ Len(rows') = Len(rows) + Len(passes)
      /\ rows' \in Seq(Tasks)
  BY <1>1, Grows, AddsKeepsRows DEF RowsOK
<1>3. 1 \in 1 .. Len(passes)
  BY <1>1
<1>4. /\ rows'[i].fn = kernel.fn /\ rows'[i].reads = kernel.reads
      /\ rows'[i].writes = kernel.writes
  BY <1>1, <1>3, NewRow
<1>5. i \in DOMAIN rows'
  BY <1>1, <1>2
<1>6. QED  BY <1>4, <1>5

LEMMA AdvectDensityKeepsBuilt ==
  ASSUME IInv, BuiltInv, TaskAdvectDensity
  PROVE  BuiltInv'
<1>1. /\ stage = "advectDensity" /\ stage' = "advectVelocity" /\ UNCHANGED settings
      /\ Adds(When(settings.density, <<fluid_repos>>), "any", AdvectDist + 1)
      /\ r \in [Pointers -> Pointers] /\ settings \in Settings /\ RowsOK /\ Apart
      /\ IF settings.density THEN Swap("density", "density_swap") ELSE UNCHANGED r
  BY DEF TaskAdvectDensity, Goes, IInv, RowsOK, BuiltInv
<1>2. /\ fluid_repos \in Kernels
      /\ settings.pressure \in Nat /\ settings.viscosity \in Nat /\ settings.density \in BOOLEAN
  BY <1>1, KernelsTyped, SettingsTyped
<1>3. Len(rows) \in Nat /\ Len(rows') \in Nat /\ Len(rows') <= Len(rows) + 1
  <2>1. AdvectDist + 1 \in Nat
    BY Distances
  <2>2. QED  BY <1>1, <1>2, <2>1, ChoiceGrows
<1>4. Len(rows') <= Added'
  <2>1. /\ Len(rows) <= 12 + settings.viscosity + settings.pressure
        /\ Added' = 13 + settings.viscosity + settings.pressure
    BY <1>1 DEF Added, BuiltInv
  <2>2. QED  BY <1>2, <1>3, <2>1
<1>5. Apart' /\ (settings.density => r'["density"] = r["density_swap"])
  <2>1. CASE settings.density
    <3>1. r' = [r EXCEPT !["density"] = r["density_swap"], !["density_swap"] = r["density"]]
      BY <1>1, <2>1 DEF Swap
    <3>2. \A p \in Pointers :
            r'[p] = IF p = "density" THEN r["density_swap"]
                    ELSE IF p = "density_swap" THEN r["density"] ELSE r[p]
      BY <1>1, <3>1
    <3>3. "density" \in Pointers /\ "density_swap" \in Pointers
      BY DEF Pointers
    <3>4. Apart'
      BY <1>1, <3>2, <3>3, Zenon DEF Apart
    <3>5. QED  BY <3>2, <3>3, <3>4
  <2>2. CASE ~settings.density
    BY <1>1, <2>2 DEF Apart
  <2>3. QED  BY <2>1, <2>2
<1>6. Advected'
  <2>1. ASSUME settings.density
        PROVE  \E i \in TasksOf("repos")' : rows'[i].writes = {<<r'["density"], "own">>}
    <3>1. AdvectDist + 1 \in Nat
      BY Distances
    <3>2. Adds(<<fluid_repos>>, "any", AdvectDist + 1)
      BY <1>1, <2>1 DEF When
    <3>3. PICK i \in DOMAIN rows' :
            rows'[i].fn = fluid_repos.fn /\ rows'[i].writes = fluid_repos.writes
      BY <1>1, <1>2, <3>1, <3>2, TaskComes
    <3>4. fluid_repos.fn = "repos" /\ fluid_repos.writes = {<<r["density_swap"], "own">>}
      BY DEF fluid_repos, Kernel
    <3>5. QED  BY <1>5, <2>1, <3>3, <3>4 DEF TasksOf
  <2>2. QED  BY <1>1, <2>1 DEF Advected
<1>7. stage' \in Stages
  BY <1>1 DEF Stages
<1>8. QED  BY <1>4, <1>5, <1>6, <1>7 DEF BuiltInv

LEMMA AdvectVelocityKeepsBuilt ==
  ASSUME IInv, BuiltInv, TaskAdvectVelocity
  PROVE  BuiltInv'
<1>1. /\ stage = "advectVelocity" /\ stage' = "video" /\ UNCHANGED settings
      /\ Adds(When(TRUE, <<fluid_reposVel>>), "any", AdvectDist + 1)
      /\ r \in [Pointers -> Pointers] /\ settings \in Settings /\ RowsOK /\ Apart
      /\ r' = [r EXCEPT !["velocityX"] = r["tmpVelX"], !["tmpVelX"] = r["velocityX"],
                        !["velocityY"] = r["tmpVelY"], !["tmpVelY"] = r["velocityY"]]
  BY DEF TaskAdvectVelocity, Goes, IInv, RowsOK, BuiltInv, When
<1>2. /\ fluid_reposVel \in Kernels
      /\ settings.pressure \in Nat /\ settings.viscosity \in Nat /\ settings.density \in BOOLEAN
  BY <1>1, KernelsTyped, SettingsTyped
<1>3. Len(rows) \in Nat /\ Len(rows') \in Nat /\ Len(rows') <= Len(rows) + 1
  <2>1. AdvectDist + 1 \in Nat
    BY Distances
  <2>2. QED  BY <1>1, <1>2, <2>1, ChoiceGrows
<1>4. Len(rows') <= Added'
  <2>1. /\ Len(rows) <= 13 + settings.viscosity + settings.pressure
        /\ Added' = 14 + settings.viscosity + settings.pressure
    BY <1>1 DEF Added, BuiltInv
  <2>2. QED  BY <1>2, <1>3, <2>1
<1>5. \A p \in Pointers :
        r'[p] = CASE p = "velocityX" -> r["tmpVelX"] [] p = "tmpVelX" -> r["velocityX"]
                  [] p = "velocityY" -> r["tmpVelY"] [] p = "tmpVelY" -> r["velocityY"]
                  [] OTHER -> r[p]
  BY <1>1
<1>6. {"velocityX", "velocityY", "tmpVelX", "tmpVelY", "density"} \subseteq Pointers
  BY DEF Pointers
<1>7. /\ r'["velocityX"] = r["tmpVelX"] /\ r'["velocityY"] = r["tmpVelY"]
      /\ r'["density"] = r["density"]
  BY <1>5, <1>6
<1>8. Apart'
  <2> DEFINE other(p) == CASE p = "velocityX" -> "tmpVelX" [] p = "tmpVelX" -> "velocityX"
                           [] p = "velocityY" -> "tmpVelY" [] p = "tmpVelY" -> "velocityY"
                           [] OTHER -> p
  <2>1. \A p \in Pointers : r'[p] = r[other(p)] /\ other(p) \in Pointers
    BY <1>5, <1>6
  <2>2. \A p, q \in Pointers : other(p) = other(q) => p = q
    BY DEF Pointers
  <2> HIDE DEF other
  <2>3. QED  BY <1>1, <2>1, <2>2 DEF Apart
<1>9. Advected'
  <2>1. AdvectDist + 1 \in Nat /\ "any" \in {"any", "inorder"}
    BY Distances
  <2>2. \E i \in TasksOf("reposVel")' : rows'[i].writes = VelocitiesIn("own")'
    <3>1. Adds(<<fluid_reposVel>>, "any", AdvectDist + 1)
      BY <1>1 DEF When
    <3>2. PICK i \in DOMAIN rows' :
            rows'[i].fn = fluid_reposVel.fn /\ rows'[i].writes = fluid_reposVel.writes
      BY <1>1, <1>2, <2>1, <3>1, TaskComes
    <3>3. /\ fluid_reposVel.fn = "reposVel"
          /\ fluid_reposVel.writes = {<<r["tmpVelX"], "own">>, <<r["tmpVelY"], "own">>}
      BY DEF fluid_reposVel, Kernel
    <3>4. VelocitiesIn("own")' = {<<r["tmpVelX"], "own">>, <<r["tmpVelY"], "own">>}
      BY <1>7 DEF VelocitiesIn
    <3>5. QED  BY <3>2, <3>3, <3>4 DEF TasksOf
  <2>3. ASSUME settings.density
        PROVE  \E i \in TasksOf("repos")' : rows'[i].writes = {<<r'["density"], "own">>}
    <3>1. PICK i \in TasksOf("repos") : rows[i].writes = {<<r["density"], "own">>}
      BY <1>1, <2>3 DEF BuiltInv, Advected
    <3>2. When(TRUE, <<fluid_reposVel>>) \in Seq(Kernels)
      BY <1>2, OneOrNone
    <3>3. i \in TasksOf("repos")' /\ rows'[i] = rows[i]
      BY <1>1, <2>1, <3>2, TasksStay
    <3>4. QED  BY <1>7, <3>1, <3>3
  <2>4. QED  BY <1>1, <2>2, <2>3 DEF Advected
<1>10. stage' \in Stages
  BY <1>1 DEF Stages
<1>11. QED  BY <1>4, <1>8, <1>9, <1>10 DEF BuiltInv

LEMMA VideoKeepsBuilt ==
  ASSUME IInv, BuiltInv, TaskVideoDensity2Char
  PROVE  BuiltInv'
<1> DEFINE passes == When(settings.density, <<fluid_video_dens2char>>)
<1>1. /\ stage = "video" /\ stage' = "flood" /\ UNCHANGED <<settings, r>>
      /\ Adds(passes, "any", 0) /\ r \in [Pointers -> Pointers]
      /\ settings \in Settings /\ RowsOK /\ Apart
  BY DEF TaskVideoDensity2Char, Goes, IInv, RowsOK, BuiltInv
<1>2. /\ fluid_video_dens2char \in Kernels
      /\ settings.pressure \in Nat /\ settings.viscosity \in Nat /\ settings.density \in BOOLEAN
      /\ passes \in Seq(Kernels)
  <2>1. fluid_video_dens2char \in Kernels /\ settings.density \in BOOLEAN
    BY <1>1, KernelsTyped, SettingsTyped
  <2>2. QED  BY <1>1, <2>1, OneOrNone, SettingsTyped
<1>3. Len(rows) \in Nat /\ Len(rows') \in Nat /\ Len(rows') <= Len(rows) + 1
  BY <1>1, <1>2, ChoiceGrows
<1>4. Len(rows') <= Added'
  <2>1. /\ Len(rows) <= 14 + settings.viscosity + settings.pressure
        /\ Added' = 15 + settings.viscosity + settings.pressure
    BY <1>1 DEF Added, BuiltInv
  <2>2. QED  BY <1>2, <1>3, <2>1
<1>5. Advected'
  <2>1. ASSUME NEW fn, NEW i \in TasksOf(fn)
        PROVE  i \in TasksOf(fn)' /\ rows'[i] = rows[i]
    BY <1>1, <1>2, TasksStay
  <2>2. \E i \in TasksOf("reposVel")' : rows'[i].writes = VelocitiesIn("own")'
    <3>1. PICK i \in TasksOf("reposVel") : rows[i].writes = VelocitiesIn("own")
      BY <1>1 DEF BuiltInv, Advected
    <3>2. VelocitiesIn("own")' = VelocitiesIn("own")
      BY <1>1 DEF VelocitiesIn
    <3>3. QED  BY <2>1, <3>1, <3>2
  <2>3. ASSUME settings.density
        PROVE  \E i \in TasksOf("repos")' : rows'[i].writes = {<<r'["density"], "own">>}
    <3>1. PICK i \in TasksOf("repos") : rows[i].writes = {<<r["density"], "own">>}
      BY <1>1, <2>3 DEF BuiltInv, Advected
    <3>2. QED  BY <1>1, <2>1, <3>1
  <2>4. ASSUME settings.density
        PROVE  \E i \in TasksOf("video_dens2char")' : rows'[i].reads = {<<r'["density"], "own">>}
    <3>1. Adds(<<fluid_video_dens2char>>, "any", 0)
      BY <1>1, <2>4 DEF When
    <3>2. PICK i \in DOMAIN rows' : /\ rows'[i].fn = fluid_video_dens2char.fn
                                    /\ rows'[i].reads = fluid_video_dens2char.reads
      BY <1>1, <1>2, <3>1, TaskComes
    <3>3. /\ fluid_video_dens2char.fn = "video_dens2char"
          /\ fluid_video_dens2char.reads = {<<r["density"], "own">>}
      BY DEF fluid_video_dens2char, Kernel
    <3>4. QED  BY <1>1, <3>2, <3>3 DEF TasksOf
  <2>5. QED  BY <1>1, <2>2, <2>3, <2>4 DEF Advected
<1>6. stage' \in Stages /\ Apart'
  BY <1>1 DEF Stages, Apart
<1>7. QED  BY <1>4, <1>5, <1>6 DEF BuiltInv

LEMMA FloodKeepsBuilt ==
  ASSUME BuiltInv, Flood
  PROVE  BuiltInv'
<1>1. stage = "flood" /\ stage' = "run" /\ UNCHANGED <<settings, r, rows>>
  BY DEF Flood, Goes
<1>2. stage' \in Stages /\ Apart' /\ Added' = Added
  BY <1>1 DEF Stages, Apart, BuiltInv, Added
<1>3. Advected'
  <2>1. \A fn : TasksOf(fn)' = TasksOf(fn)
    BY <1>1 DEF TasksOf
  <2>2. VelocitiesIn("own")' = VelocitiesIn("own")
    BY <1>1 DEF VelocitiesIn
  <2>3. QED  BY <1>1, <2>1, <2>2 DEF BuiltInv, Advected
<1>4. QED  BY <1>1, <1>2, <1>3 DEF BuiltInv

(* No task yet, or no task any more.                                       *)
LEMMA EmptyBuilt ==
  ASSUME BuiltInv, rows' = <<>>, r' = r, stage' \in {"idle", "velocityOut"}
  PROVE  BuiltInv'
<1>1. Len(rows') = 0 /\ Added' = 0 /\ stage' \in Stages
  BY DEF Added, Stages
<1>2. Apart' /\ Advected'
  BY DEF BuiltInv, Apart, Advected
<1>3. QED  BY <1>1, <1>2 DEF BuiltInv

LEMMA BuiltRests ==
  ASSUME BuiltInv, UNCHANGED <<settings, stage, r, rows>>
  PROVE  BuiltInv'
<1>1. Apart' /\ Added' = Added
  BY DEF BuiltInv, Apart, Added
<1>2. Advected'
  <2>1. \A fn : TasksOf(fn)' = TasksOf(fn)
    BY DEF TasksOf
  <2>2. VelocitiesIn("own")' = VelocitiesIn("own")
    BY DEF VelocitiesIn
  <2>3. QED  BY <2>1, <2>2 DEF BuiltInv, Advected
<1>3. QED  BY <1>1, <1>2 DEF BuiltInv

LEMMA NoneAdded ==
  ASSUME RowsOK, BuiltInv, stage \in {"idle", "velocityOut"}
  PROVE  rows = <<>>
<1>1. Added = 0
  BY DEF Added
<1>2. Len(rows) <= 0 /\ Len(rows) \in Nat
  BY <1>1 DEF RowsOK, BuiltInv
<1>3. QED  BY <1>2 DEF RowsOK

LEMMA BuiltStarts ==
  Init => BuiltInv
<1> SUFFICES ASSUME Init PROVE BuiltInv
  OBVIOUS
<1>1. stage = "idle" /\ rows = <<>> /\ r = [p \in Pointers |-> p]
  BY DEF Init
<1>2. Apart /\ Len(rows) = 0 /\ Added = 0 /\ stage \in Stages
  BY <1>1 DEF Apart, Added, Stages
<1>3. Advected
  BY <1>1 DEF Advected
<1>4. QED  BY <1>2, <1>3 DEF BuiltInv

LEMMA BuiltKept ==
  IInv /\ BuiltInv /\ [Next]_vars => BuiltInv'
<1> SUFFICES ASSUME IInv, BuiltInv, [Next]_vars PROVE BuiltInv'
  OBVIOUS
<1>1. CASE \E s \in Settings : OnFrame(s)
  <2>1. stage = "idle" /\ stage' = "velocityOut" /\ UNCHANGED <<r, rows>> /\ RowsOK
    BY <1>1 DEF OnFrame, Goes, IInv
  <2>2. rows' = <<>>
    BY <2>1, NoneAdded
  <2>3. QED  BY <2>1, <2>2, EmptyBuilt
<1>2. CASE Builds
  BY <1>2, EarlyBuildersKeepBuilt, PassBuildersKeepBuilt, AdvectDensityKeepsBuilt,
     AdvectVelocityKeepsBuilt, VideoKeepsBuilt, FloodKeepsBuilt DEF Builds
<1>3. CASE \E x \in Grid!Row, k \in Piece : Begin(x, k) \/ End(x, k)
  <2>1. UNCHANGED <<settings, stage, r, rows>>
    BY <1>3 DEF Begin, End, Grid!Begin, Grid!End
  <2>2. QED  BY <2>1, BuiltRests
<1>4. CASE AdvanceSync
  BY <1>4, EmptyBuilt DEF AdvanceSync, Goes
<1>5. CASE UNCHANGED vars
  BY <1>5, BuiltRests DEF vars
<1>6. QED  BY <1>1, <1>2, <1>3, <1>4, <1>5 DEF Next

(* What the builders have put in the table, at every stage of every frame. *)
THEOREM BuiltInvariant ==
  Spec => [](IInv /\ BuiltInv)
<1>1. Init => IInv /\ BuiltInv
  BY IInvHolds, BuiltStarts
<1>2. IInv /\ BuiltInv /\ [Next]_vars => IInv' /\ BuiltInv'
  BY IInvStays, BuiltKept
<1>3. QED  BY <1>1, <1>2, PTL DEF Spec

(* AdvectedIsCurrent, whatever the frame is asked, for every size of the   *)
(* fluid: the fields that the pointers name when the workers run are those *)
(* that taskAdvectDensity and taskAdvectVelocity had written, and the      *)
(* densities shown (taskVideoDensity2Char) are the ones just advected.     *)
THEOREM AdvectedShown ==
  Spec => []AdvectedIsCurrent
<1>1. BuiltInv => AdvectedIsCurrent
  BY DEF BuiltInv, Advected, AdvectedIsCurrent
<1>2. QED  BY <1>1, BuiltInvariant, PTL

(* The largest frame fits the table of tasks: fluidCreate asks mpCCreate   *)
(* for 128, and the iterations are what fluidSetPressureAccuracy and       *)
(* fluidSetViscosityAccuracy were given, 20 each at first.                 *)
TableFits == \A s \in Settings : s.viscosity + s.pressure + 15 <= MaxTasks

(* TypeOK: the six pointers of a frame keep naming six different fields,   *)
(* and no stage adds more tasks than fit if the largest frame has at most  *)
(* 15 more than its iterations.                                            *)
THEOREM TypeCorrect ==
  ASSUME TableFits, MaxTasks \in Nat
  PROVE  Spec => []TypeOK
<1>1. ASSUME IInv, BuiltInv PROVE TypeOK
  <2>1. /\ settings \in Settings /\ r \in [Pointers -> Pointers] /\ rows \in Seq(Tasks)
        /\ done \subseteq begun /\ begun \subseteq Grid!AllPieces
    BY <1>1 DEF IInv, RowsOK, PiecesOK
  <2>2. stage \in Stages /\ (\A p, q \in Pointers : r[p] = r[q] => p = q) /\ Len(rows) <= Added
    BY <1>1 DEF BuiltInv, Apart
  <2>3. /\ settings.viscosity \in Nat /\ settings.pressure \in Nat
        /\ settings.viscosity + settings.pressure + 15 <= MaxTasks
    BY <2>1, SettingsTyped DEF TableFits
  <2>4. Added \in Nat /\ Added <= settings.viscosity + settings.pressure + 15
    BY <2>3 DEF Added
  <2>5. Len(rows) \in Nat
    BY <2>1
  <2>6. Len(rows) <= MaxTasks
    BY <2>2, <2>3, <2>4, <2>5
  <2>7. QED  BY <2>1, <2>2, <2>6 DEF TypeOK
<1>2. QED  BY <1>1, BuiltInvariant, PTL

-----------------------------------------------------------------------------
(* The order.                                                              *)

LEMMA ChoiceKeepsOrder ==
  ASSUME RowsOK, RowsOK', OrderInv, UNCHANGED settings, Onward,
         NEW kernel \in Kernels, NEW c \in BOOLEAN,
         NEW depend \in {"any", "inorder"}, NEW bottom \in Nat,
         Adds(When(c, <<kernel>>), depend, bottom), NEW left \in Nat, left <= bottom,
         Suits(kernel, depend, bottom, left),
         \A b \in kernel.writes : Covered(b, bottom),
         stage' \in Early \cup Curled => left = 0,
         stage' \in Solving => left <= 1
  PROVE  OrderInv'
<1> DEFINE passes == When(c, <<kernel>>)
<1>1. /\ passes \in Seq(Kernels) /\ Len(passes) \in Nat /\ Len(passes) <= 1
      /\ \A i \in 1 .. Len(passes) : passes[i] = kernel
  BY OneOrNone
<1>2. Adds(passes, depend, bottom)
  OBVIOUS
<1> HIDE DEF passes
<1>3. \A i \in 1 .. Len(passes) : /\ Suits(passes[i], depend, bottom, left)
                                  /\ \A b \in passes[i].writes : Covered(b, bottom)
  BY <1>1
<1>4. QED  BY <1>1, <1>2, <1>3, SuitsKeepsOrder DEF OrderInv

LEMMA VelocityOutKeepsOrder ==
  ASSUME IInv, IInv', InPlace, BuiltInv, OrderInv, VideoVelocityOut
  PROVE  OrderInv'
<1>1. /\ stage = "velocityOut" /\ stage' = "velocityIn" /\ r' = r /\ settings' = settings
      /\ RowsOK /\ RowsOK' /\ r \in [Pointers -> Pointers] /\ settings \in Settings
  BY DEF VideoVelocityOut, Goes, IInv, RowsOK
<1> DEFINE passes == When(settings.out # 0, <<fluid_input_vel2float>>)
<1>2. rows = <<>>
  BY <1>1, NoneAdded
<1>3. /\ passes \in Seq(Kernels) /\ Len(passes) \in Nat /\ Len(passes) <= 1
      /\ \A i \in 1 .. Len(passes) : passes[i] = fluid_input_vel2float
  BY <1>1, KernelsTyped, OneOrNone
<1>4. Len(passes) >= 1 => settings.out # 0
  BY DEF When
<1>5. Adds(passes, "any", 0)
  BY DEF VideoVelocityOut
<1>6. Onward
  BY <1>1, StagesApart DEF Onward, Early
<1> HIDE DEF passes
<1>7. ASSUME NEW i \in 1 .. Len(passes)
      PROVE  /\ Waits(passes[i].reads, passes[i].writes, "any", 0)
             /\ \A a \in passes[i].reads :
                  a[2] = "scaled" => rows = <<>> /\ i = 1 /\ settings.out \in 1 .. NData
             /\ \A b \in passes[i].writes : Covered(b, 0)
             /\ \A a \in passes[i].reads :
                  Asks(stage', a, IF i < Len(passes) THEN 0 ELSE 0, r'["tmpVelX"])
  <2>1. i = 1 /\ Len(passes) >= 1
    BY <1>3
  <2>2. settings.out \in 1 .. NData
    BY <1>1, <1>4, <2>1, SettingsInPlace
  <2>3. /\ Waits(passes[i].reads, passes[i].writes, "any", 0)
        /\ \A a \in passes[i].reads : Left(a[2]) = 0
    BY <1>1, <1>3, OutWaits DEF BuiltInv
  <2>4. stage' \in Early /\ stage \in Early
    BY <1>1 DEF Early
  <2>5. QED  BY <1>2, <2>1, <2>2, <2>3, <2>4, StagesApart DEF Covered, Asks
<1>8. ~(Len(passes) > 1)
  BY <1>3
<1>9. QED
  BY <1>1, <1>3, <1>5, <1>6, <1>7, <1>8, BuildKeepsOrder DEF OrderInv

(* A pass over the rows in place, where the curl is left alone.            *)
LEMMA OwnPassKeepsOrder ==
  ASSUME IInv, IInv', OrderInv, NEW kernel \in Kernels, NEW c \in BOOLEAN,
         Suits(kernel, "any", 0, 0), Adds(When(c, <<kernel>>), "any", 0),
         UNCHANGED <<settings, r>>, Onward,
         stage \in Early \/ (stage \in Curled /\ \A b \in kernel.writes : b[1] # r["tmpVelX"])
  PROVE  OrderInv'
<1>1. \A b \in kernel.writes : Covered(b, 0)
  BY DEF Covered
<1>2. 0 \in Nat /\ 0 <= 0 /\ 0 <= 1 /\ "any" \in {"any", "inorder"}
  OBVIOUS
<1>3. QED  BY <1>1, <1>2, ChoiceKeepsOrder DEF IInv

LEMMA InPlaceBuildersKeepOrder ==
  ASSUME IInv, IInv', InPlace, BuiltInv, OrderInv,
         VelocityBlendIn \/ VideoBlendIn \/ TaskDampen \/ TaskTemperature
  PROVE  OrderInv'
<1>1. /\ r \in [Pointers -> Pointers] /\ settings \in Settings /\ Apart
  BY DEF IInv, RowsOK, BuiltInv
<1>2. /\ settings.velIn \in BOOLEAN /\ settings.densIn \in BOOLEAN
      /\ settings.fadeDens \in BOOLEAN /\ settings.fadeVel \in BOOLEAN
      /\ (settings.density /\ settings.temperature) \in BOOLEAN
  BY <1>1, SettingsTyped
<1>3. /\ r["tmpVelX"] \notin {r["velocityX"], r["velocityY"], r["density"]}
      /\ {"velocityX", "velocityY", "density"} \subseteq Pointers
  BY <1>1, VelocityNames
<1>4. CASE VelocityBlendIn
  <2>1. /\ stage = "velocityIn" /\ stage' = "densityIn" /\ UNCHANGED <<settings, r>>
        /\ Adds(When(settings.velIn, <<fluid_input_float2vel>>), "any", 0)
    BY <1>4 DEF VelocityBlendIn, Goes
  <2>2. fluid_input_float2vel \in Kernels /\ Suits(fluid_input_float2vel, "any", 0, 0)
    BY <1>1, KernelsTyped, OwnKernelsWait
  <2>3. /\ Onward /\ stage \in Early
    BY <2>1, StagesApart DEF Onward, Early
  <2>4. QED  BY <1>2, <2>1, <2>2, <2>3, OwnPassKeepsOrder
<1>5. CASE VideoBlendIn
  <2>1. /\ stage = "densityIn" /\ stage' = "vorticity" /\ UNCHANGED <<settings, r>>
        /\ Adds(When(settings.densIn, <<fluid_input_char2dens>>), "any", 0)
    BY <1>5 DEF VideoBlendIn, Goes
  <2>2. fluid_input_char2dens \in Kernels /\ Suits(fluid_input_char2dens, "any", 0, 0)
    BY <1>1, KernelsTyped, OwnKernelsWait
  <2>3. /\ Onward /\ stage \in Early
    BY <2>1, StagesApart DEF Onward, Early
  <2>4. QED  BY <1>2, <2>1, <2>2, <2>3, OwnPassKeepsOrder
<1>6. CASE TaskDampen
  <2>1. PICK p \in {"density", "velocityX", "velocityY"}, c \in BOOLEAN :
          Adds(When(c, <<fluid_dampen(r[p])>>), "any", 0)
    BY <1>2, <1>6 DEF TaskDampen
  <2>2. /\ UNCHANGED <<settings, r>>
        /\ \/ stage = "dampenDensity" /\ stage' = "dampenVelocityX"
           \/ stage = "dampenVelocityX" /\ stage' = "dampenVelocityY"
           \/ stage = "dampenVelocityY" /\ stage' = "temperature"
    BY <1>6 DEF TaskDampen, Goes
  <2>3. fluid_dampen(r[p]) \in Kernels /\ Suits(fluid_dampen(r[p]), "any", 0, 0)
    BY <1>1, <1>3, KernelsTyped, OwnKernelsWait
  <2>4. \A b \in fluid_dampen(r[p]).writes : b[1] # r["tmpVelX"]
    BY <1>3 DEF fluid_dampen, Kernel
  <2>5. /\ Onward /\ stage \in Curled
    <3>1. stage \in Curled /\ stage' \in Curled
      BY <2>2 DEF Curled
    <3>2. QED  BY <2>2, <3>1, StagesApart DEF Onward
  <2>6. QED  BY <2>1, <2>2, <2>3, <2>4, <2>5, OwnPassKeepsOrder
<1>7. CASE TaskTemperature
  <2>1. /\ stage = "temperature" /\ stage' = "viscosity" /\ UNCHANGED <<settings, r>>
        /\ Adds(When(settings.density /\ settings.temperature, <<fluid_force_heat>>), "any", 0)
    BY <1>7 DEF TaskTemperature, Goes
  <2>2. fluid_force_heat \in Kernels /\ Suits(fluid_force_heat, "any", 0, 0)
    BY <1>1, KernelsTyped, OwnKernelsWait
  <2>3. /\ Onward /\ stage \in Curled
    <3>1. stage \in Curled /\ stage' \in Curled
      BY <2>1 DEF Curled
    <3>2. QED  BY <2>1, <3>1, StagesApart DEF Onward
  <2>4. \A b \in fluid_force_heat.writes : b[1] # r["tmpVelX"]
    BY <1>1, <1>3, VelocityNames DEF fluid_force_heat, Kernel
  <2>5. QED  BY <1>2, <2>1, <2>2, <2>3, <2>4, OwnPassKeepsOrder
<1>8. QED  BY <1>4, <1>5, <1>6, <1>7

LEMMA VorticityKeepsOrder ==
  ASSUME IInv, IInv', InPlace, BuiltInv, OrderInv, TaskVorticity
  PROVE  OrderInv'
<1> DEFINE passes == When(settings.vorticity, <<fluid_vorticity_curl, fluid_vorticity_apply>>)
<1>1. /\ stage = "vorticity" /\ stage' = "dampenDensity" /\ UNCHANGED <<settings, r>>
      /\ Adds(passes, "any", 1) /\ r \in [Pointers -> Pointers] /\ settings \in Settings
      /\ RowsOK /\ RowsOK' /\ Apart
  BY DEF TaskVorticity, Goes, IInv, RowsOK, BuiltInv
<1>2. fluid_vorticity_curl \in Kernels /\ fluid_vorticity_apply \in Kernels
  BY <1>1, KernelsTyped
<1>3. /\ passes \in Seq(Kernels) /\ Len(passes) \in {0, 2}
      /\ Len(passes) = 2 => /\ settings.vorticity /\ passes[1] = fluid_vorticity_curl
                            /\ passes[2] = fluid_vorticity_apply
  BY <1>2 DEF When
<1> HIDE DEF passes
<1>4. ASSUME NEW i \in 1 .. Len(passes)
      PROVE  /\ Suits(passes[i], "any", 1, 1) /\ Len(passes) = 2 /\ i \in {1, 2}
             /\ i = 2 => \A a \in passes[i].reads : Left(a[2]) <= 0 \/ a[1] = r["tmpVelX"]
  <2>1. Len(passes) = 2 /\ i \in {1, 2}
    <3>1. CASE Len(passes) = 0
      BY <3>1
    <3>2. CASE Len(passes) = 2
      BY <3>2
    <3>3. QED  BY <1>3, <3>1, <3>2
  <2>2. settings.altivec
    BY <1>1, <1>3, <2>1, SettingsInPlace
  <2>3. QED  BY <1>1, <1>3, <2>1, <2>2, VorticityWaits
<1>5. ASSUME NEW i \in 1 .. Len(passes), NEW a \in passes[i].reads
      PROVE  /\ a[2] # "scaled" /\ Left(a[2]) <= 1
             /\ Asks(stage', a, IF i < Len(passes) THEN 1 ELSE 0, r'["tmpVelX"])
  <2>1. a[2] # "scaled" /\ Left(a[2]) <= 1
    BY <1>4 DEF Suits
  <2>2. Left(a[2]) <= (IF i < Len(passes) THEN 1 ELSE 0) \/ a[1] = r'["tmpVelX"]
    <3>1. CASE i = 1
      BY <1>4, <2>1, <3>1
    <3>2. CASE i = 2
      BY <1>1, <1>4, <3>2
    <3>3. QED  BY <1>4, <3>1, <3>2
  <2>3. stage' \in Curled
    BY <1>1 DEF Curled
  <2>4. QED  BY <2>1, <2>2, <2>3, StagesApart DEF Asks
<1>6. Onward /\ stage \in Early
  BY <1>1, StagesApart DEF Onward, Early, Curled
<1>7. \A i \in 1 .. Len(passes) : /\ Waits(passes[i].reads, passes[i].writes, "any", 1)
                                  /\ \A b \in passes[i].writes : Covered(b, 1)
  BY <1>4, <1>6 DEF Suits, Covered
<1>8. QED
  BY <1>1, <1>3, <1>5, <1>6, <1>7, BuildKeepsOrder DEF OrderInv

LEMMA ViscosityKeepsOrder ==
  ASSUME IInv, IInv', InPlace, BuiltInv, OrderInv, TaskViscosity
  PROVE  OrderInv'
<1> DEFINE passes == [i \in 1 .. settings.viscosity |-> fluid_viscosity]
<1>1. /\ stage = "viscosity" /\ stage' = "pressure" /\ UNCHANGED <<settings, r>>
      /\ Adds(passes, "inorder", 1) /\ r \in [Pointers -> Pointers] /\ settings \in Settings
      /\ RowsOK /\ RowsOK' /\ Apart
  BY DEF TaskViscosity, Goes, IInv, RowsOK, BuiltInv
<1>2. fluid_viscosity \in Kernels /\ settings.viscosity \in Nat
  BY <1>1, KernelsTyped, SettingsTyped
<1>3. /\ passes \in Seq(Kernels) /\ Len(passes) = settings.viscosity
      /\ \A i \in 1 .. Len(passes) : passes[i] = fluid_viscosity
  BY <1>2
<1> HIDE DEF passes
<1>4. Onward /\ stage \in Curled /\ stage' \in Solving
  BY <1>1, StagesApart DEF Onward, Early, Curled, Solving
<1>5. \A i \in 1 .. Len(passes) : /\ Suits(passes[i], "inorder", 1, 1)
                                  /\ \A b \in passes[i].writes : Covered(b, 1)
  BY <1>1, <1>3, <1>4, SolverWaits DEF Covered
<1>6. 1 \in Nat /\ 1 <= 1
  OBVIOUS
<1>7. QED
  BY <1>1, <1>3, <1>4, <1>5, <1>6, StagesApart, SuitsKeepsOrder DEF OrderInv

LEMMA PressurePassesSuit ==
  ASSUME r \in [Pointers -> Pointers], Apart, settings \in Settings
  PROVE  LET passes == Append(PressurePasses, fluid_applyPressure)
         IN  /\ passes \in Seq(Kernels)
             /\ \A i \in 1 .. Len(passes) : Suits(passes[i], "inorder", 1, 1)
<1> DEFINE Good == {kernel \in Kernels : Suits(kernel, "inorder", 1, 1)}
           passes == Append(PressurePasses, fluid_applyPressure)
<1>1. {fluid_genPressure, fluid_genPressure_dens, fluid_genPressure_densfix,
       fluid_applyPressure} \subseteq Good
  BY KernelsTyped, SolverWaits
<1>2. Good \subseteq Kernels /\ \A kernel \in Good : Suits(kernel, "inorder", 1, 1)
  OBVIOUS
<1> HIDE DEF Good
<1>3. passes \in Seq(Good)
  BY <1>1, SettingsTyped, PressurePassesIn
<1> HIDE DEF passes
<1>4. passes \in Seq(Kernels) /\ \A i \in 1 .. Len(passes) : passes[i] \in Good
  BY <1>2, <1>3
<1>5. QED  BY <1>2, <1>4 DEF passes

LEMMA PressureKeepsOrder ==
  ASSUME IInv, IInv', InPlace, BuiltInv, OrderInv, TaskPressure
  PROVE  OrderInv'
<1> DEFINE passes == Append(PressurePasses, fluid_applyPressure)
<1>1. /\ stage = "pressure" /\ stage' = "corrector" /\ UNCHANGED <<settings, r>>
      /\ Adds(passes, "inorder", 1) /\ r \in [Pointers -> Pointers] /\ settings \in Settings
      /\ RowsOK /\ RowsOK' /\ Apart
  BY DEF TaskPressure, Goes, IInv, RowsOK, BuiltInv
<1>2. /\ passes \in Seq(Kernels)
      /\ \A i \in 1 .. Len(passes) : Suits(passes[i], "inorder", 1, 1)
  BY <1>1, PressurePassesSuit
<1> HIDE DEF passes
<1>3. Onward /\ stage \in Solving /\ stage' \in Solving
  BY <1>1, StagesApart DEF Onward, Early, Curled, Solving
<1>4. 1 \in Nat /\ 1 <= 1 /\ 1 >= 1
  OBVIOUS
<1>5. \A i \in 1 .. Len(passes) : \A b \in passes[i].writes : Covered(b, 1)
  BY <1>3, <1>4 DEF Covered
<1>6. QED
  BY <1>1, <1>2, <1>3, <1>4, <1>5, StagesApart, SuitsKeepsOrder DEF OrderInv

(* From here on a task waits for more rows than any other reads.           *)
LEMMA AdvectionKeepsOrder ==
  ASSUME RowsOK, RowsOK', OrderInv, UNCHANGED settings,
         NEW kernel \in Kernels, NEW c \in BOOLEAN,
         Suits(kernel, "any", AdvectDist + 1, AdvectDist),
         Adds(When(c, <<kernel>>), "any", AdvectDist + 1),
         stage' \notin Early \cup Curled \cup Solving
  PROVE  OrderInv'
<1>1. /\ AdvectDist \in Nat /\ AdvectDist + 1 \in Nat /\ AdvectDist <= AdvectDist + 1
      /\ "any" \in {"any", "inorder"}
  <2>1. AdvectDist \in Nat
    BY Distances
  <2>2. QED  BY <2>1
<1>2. \A b \in kernel.writes : Covered(b, AdvectDist + 1)
  BY DEF Covered
<1>3. Onward
  BY DEF Onward
<1>4. QED
  BY <1>1, <1>2, <1>3, ChoiceKeepsOrder

LEMMA AdvectionBuildersKeepOrder ==
  ASSUME IInv, IInv', BuiltInv, OrderInv,
         TaskCorrectorRepos \/ TaskAdvectDensity \/ TaskAdvectVelocity
  PROVE  OrderInv'
<1>1. /\ r \in [Pointers -> Pointers] /\ settings \in Settings /\ RowsOK /\ RowsOK' /\ Apart
      /\ UNCHANGED settings
  BY DEF IInv, RowsOK, BuiltInv, TaskCorrectorRepos, TaskAdvectDensity, TaskAdvectVelocity
<1>2. stage' \notin Early \cup Curled \cup Solving
  BY DEF TaskCorrectorRepos, TaskAdvectDensity, TaskAdvectVelocity, Goes, Early, Curled, Solving
<1>3. PICK kernel \in {fluid_advection_mccormack_repos, fluid_repos, fluid_reposVel},
           c \in BOOLEAN : Adds(When(c, <<kernel>>), "any", AdvectDist + 1)
  <2>1. settings.density \in BOOLEAN /\ TRUE \in BOOLEAN
    BY <1>1, SettingsTyped
  <2>2. \A kernel : When(TRUE, <<kernel>>) = <<kernel>>
    BY DEF When
  <2>3. CASE TaskCorrectorRepos
    BY <2>1, <2>2, <2>3 DEF TaskCorrectorRepos
  <2>4. CASE TaskAdvectDensity
    BY <2>1, <2>4 DEF TaskAdvectDensity
  <2>5. CASE TaskAdvectVelocity
    BY <2>1, <2>2, <2>5 DEF TaskAdvectVelocity
  <2>6. QED  BY <2>3, <2>4, <2>5
<1>4. kernel \in Kernels /\ Suits(kernel, "any", AdvectDist + 1, AdvectDist)
  BY <1>1, KernelsTyped, AdvectionWaits
<1>5. QED  BY <1>1, <1>2, <1>3, <1>4, AdvectionKeepsOrder

LEMMA VideoKeepsOrder ==
  ASSUME IInv, IInv', BuiltInv, OrderInv, TaskVideoDensity2Char
  PROVE  OrderInv'
<1> DEFINE passes == When(settings.density, <<fluid_video_dens2char>>)
<1>1. /\ stage = "video" /\ stage' = "flood" /\ UNCHANGED <<settings, r>>
      /\ Adds(passes, "any", 0) /\ r \in [Pointers -> Pointers]
      /\ settings \in Settings /\ RowsOK /\ RowsOK' /\ Apart
  BY DEF TaskVideoDensity2Char, Goes, IInv, RowsOK, BuiltInv
<1>2. /\ fluid_video_dens2char \in Kernels /\ Suits(fluid_video_dens2char, "any", 0, 0)
      /\ settings.density \in BOOLEAN
  BY <1>1, KernelsTyped, OwnKernelsWait, SettingsTyped
<1>3. stage' \notin Early \cup Curled \cup Solving /\ Onward
  BY <1>1 DEF Early, Curled, Solving, Onward
<1>4. \A b \in fluid_video_dens2char.writes : Covered(b, 0)
  BY DEF fluid_video_dens2char, Kernel, Covered
<1>5. 0 \in Nat /\ 0 <= 0 /\ "any" \in {"any", "inorder"}
  OBVIOUS
<1>6. QED  BY <1>1, <1>2, <1>3, <1>4, <1>5, ChoiceKeepsOrder

LEMMA OrderRests ==
  ASSUME OrderInv, UNCHANGED <<settings, r, rows>>,
         stage' \in {stage, "run"}
  PROVE  OrderInv'
<1>1. TasksWait'
  BY DEF OrderInv, TasksWait, Waits
<1>2. ReadFirst'
  BY DEF OrderInv, ReadFirst
<1>3. Behind'
  <2>1. CASE stage' = stage
    BY <2>1 DEF OrderInv, Behind, Asks, LastReach
  <2>2. CASE stage' = "run"
    BY <2>2 DEF OrderInv, Behind, Asks, Early, Curled, Solving
  <2>3. QED  BY <2>1, <2>2
<1>4. QED  BY <1>1, <1>2, <1>3 DEF OrderInv

LEMMA EmptyOrder ==
  rows = <<>> => OrderInv
  BY DEF OrderInv, TasksWait, ReadFirst, Behind

LEMMA OrderKept ==
  ASSUME InPlace
  PROVE  IInv /\ IInv' /\ BuiltInv /\ OrderInv /\ [Next]_vars => OrderInv'
<1> SUFFICES ASSUME IInv, IInv', BuiltInv, OrderInv, [Next]_vars PROVE OrderInv'
  OBVIOUS
<1>1. CASE \E s \in Settings : OnFrame(s)
  <2>1. stage = "idle" /\ UNCHANGED rows /\ RowsOK
    BY <1>1 DEF OnFrame, Goes, IInv
  <2>2. rows' = <<>>
    BY <2>1, NoneAdded
  <2>3. QED  BY <2>2 DEF OrderInv, TasksWait, ReadFirst, Behind
<1>2. CASE Builds
  <2>1. CASE Flood
    BY <2>1, OrderRests DEF Flood, Goes
  <2>2. QED
    BY <1>2, <2>1, VelocityOutKeepsOrder, InPlaceBuildersKeepOrder, VorticityKeepsOrder,
       ViscosityKeepsOrder, PressureKeepsOrder, AdvectionBuildersKeepOrder, VideoKeepsOrder
       DEF Builds
<1>3. CASE \E x \in Grid!Row, k \in Piece : Begin(x, k) \/ End(x, k)
  <2>1. UNCHANGED <<settings, stage, r, rows>>
    BY <1>3 DEF Begin, End, Grid!Begin, Grid!End
  <2>2. QED  BY <2>1, OrderRests
<1>4. CASE AdvanceSync
  BY <1>4 DEF AdvanceSync, OrderInv, TasksWait, ReadFirst, Behind
<1>5. CASE UNCHANGED vars
  BY <1>5, OrderRests DEF vars
<1>6. QED  BY <1>1, <1>2, <1>3, <1>4, <1>5 DEF Next

(* What the tasks above still read is waited for, at every stage.          *)
THEOREM OrderInvariant ==
  ASSUME InPlace
  PROVE  Spec => [](IInv /\ BuiltInv /\ OrderInv)
<1>1. Init => IInv /\ BuiltInv /\ OrderInv
  BY IInvHolds, BuiltStarts, EmptyOrder DEF Init
<1>2. IInv /\ BuiltInv /\ OrderInv /\ [Next]_vars => IInv' /\ BuiltInv' /\ OrderInv'
  BY IInvStays, BuiltKept, OrderKept
<1>3. QED  BY <1>1, <1>2, PTL DEF Spec

(* FramesCompatible: the dependencies that the twelve builders of a frame  *)
(* hand to mpCTaskAdd are enough, in every frame of a fluid of any height, *)
(* with any number of iterations and any distance of advection.            *)
THEOREM DependenciesSuffice ==
  ASSUME InPlace
  PROVE  Spec => []FramesCompatible
<1>1. IInv /\ BuiltInv /\ OrderInv => FramesCompatible
  BY WaitingIsEnough DEF IInv, OrderInv, FramesCompatible
<1>2. QED  BY <1>1, OrderInvariant, PTL

(* ConflictsOrdered: however the workers interleave, no kernel overwrites  *)
(* a row that an earlier one still has to read, or reads one that an       *)
(* earlier one still has to write.                                         *)
THEOREM NoRace ==
  ASSUME InPlace
  PROVE  Spec => []ConflictsOrdered
  BY Ordered, DependenciesSuffice, PTL
=============================================================================
