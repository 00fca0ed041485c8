-------------------------- MODULE MCFluidPipeline ---------------------------
EXTENDS FluidPipeline

Everything ==
  [altivec |-> TRUE, out |-> 4, velIn |-> TRUE, densIn |-> TRUE, vorticity |-> TRUE,
   fadeDens |-> TRUE, fadeVel |-> TRUE, temperature |-> TRUE, viscosity |-> 1,
   pressure |-> 1, freeSurface |-> TRUE, density |-> TRUE]
Nothing ==
  [altivec |-> TRUE, out |-> 0, velIn |-> FALSE, densIn |-> FALSE, vorticity |-> FALSE,
   fadeDens |-> FALSE, fadeVel |-> FALSE, temperature |-> FALSE, viscosity |-> 0,
   pressure |-> 0, freeSurface |-> FALSE, density |-> FALSE]
Defaults ==
  [Nothing EXCEPT !.vorticity = TRUE, !.temperature = TRUE, !.viscosity = 2,
                  !.pressure = 2, !.density = TRUE]

AltiVecFrames ==
  {Everything, Nothing, Defaults,
   [Everything EXCEPT !.out = 2, !.density = FALSE, !.viscosity = 0],
   [Defaults EXCEPT !.out = 3, !.freeSurface = TRUE, !.fadeVel = TRUE, !.pressure = 2]}
OtherFrames ==
  {[s EXCEPT !.altivec = FALSE, !.vorticity = FALSE] : s \in AltiVecFrames}

(* The frames of the build with AltiVec, and those of the others, where the *)
(* curl is left out: MCCurlSettings has it.  The velocities go out at no    *)
(* more rows than the fluid has: a taller output breaks the order.         *)
MCSettings == AltiVecFrames \cup OtherFrames

MCCurlSettings == {[Defaults EXCEPT !.altivec = FALSE, !.viscosity = 1, !.pressure = 0]}
=============================================================================
