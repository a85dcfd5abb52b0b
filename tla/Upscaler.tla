------------------------------ MODULE Upscaler ------------------------------
(***************************************************************************)
(* What an upscaler context hands to NGX: DlssContext (src/context.rs) and *)
(* DlssRayReconstructionContext (src/ray_reconstruction.rs), with the      *)
(* parameters of src/render_parameters.rs and src/config.rs.  One          *)
(* application creates a context, allocates the textures, and draws and    *)
(* renders frames with it.  Locking, command lists and the failures of a   *)
(* render are NgxSdk's; here a render is one step.                         *)
(*                                                                         *)
(* A resolution is a pair.  Jitter offsets are exact fractions.            *)
(***************************************************************************)
EXTENDS Naturals

CONSTANTS
  Outputs,   \* upscaled resolutions
  Settings,  \* output -> answers of GET_OPTIMAL_SETTINGS, [optimal, min, max]
  Scales,    \* motion_vector_scale's values
  Nothing    \* no texture, no subrect, no call

Fits(a, b) == a[1] <= b[1] /\ a[2] <= b[2]

ASSUME UpscalerAssumption ==
  /\ Outputs \subseteq (Nat \ {0}) \X (Nat \ {0})
  /\ DOMAIN Settings = Outputs
  /\ Scales \subseteq Nat \X Nat
  /\ \A o \in Outputs : \A s \in Settings[o] :
       /\ DOMAIN s = {"optimal", "min", "max"}
       /\ \A k \in DOMAIN s : s[k] \in (Nat \ {0}) \X (Nat \ {0})
       /\ Fits(s.min, s.optimal) /\ Fits(s.optimal, s.max) /\ Fits(s.max, o)

VARIABLES
  phase,    \* "none" | "created" | "allocated" | "drawn"
  create,   \* the arguments of the CREATE call of the context
  res,      \* Resolutions: [upscaled, optimal, min, max]
  tex,      \* role -> size of its texture, or Nothing if it has no raw resource
  state,    \* role -> the state wgpu has it in
  eval      \* the arguments of the last EVALUATE call

vars == <<phase, create, res, tex, state, eval>>

Modes == {"Auto", "Dlaa", "Quality", "Balanced", "Performance", "UltraPerformance"}
Qualities == {"DLAA", "MaxQuality", "Balanced", "MaxPerf", "UltraPerformance"}
Flags == {"HighDynamicRange", "LowResolutionMotionVectors", "OutputSubrect"}

Roles(kind) ==
  IF kind = "SR"
  THEN {"color", "depth", "motion_vectors", "exposure", "bias", "output"}
  ELSE {"color", "diffuse_albedo", "specular_albedo", "normals", "roughness",
        "depth", "motion_vectors", "output"}

\* The textures at render resolution.
RenderInputs(kind) == Roles(kind) \ {"exposure", "output"}

Init ==
  /\ phase = "none" /\ create = Nothing /\ res = Nothing
  /\ tex = <<>> /\ state = <<>> /\ eval = Nothing

-----------------------------------------------------------------------------
(* Creating a context *)

\* as_perf_quality_value; the f32 of the product rounds far from the steps.
AutoQuality(out) ==
  LET pixels == out[1] * out[2] IN
  CASE pixels < 2030000 -> "DLAA"
    [] pixels >= 2030000 /\ pixels < 3680000 -> "MaxQuality"
    [] pixels >= 3680000 /\ pixels < 8290000 -> "MaxPerf"
    [] OTHER -> "UltraPerformance"

\* Mutant: the tiers are passed on by name.
PerfQuality_ByName(mode, out) == IF mode = "Auto" THEN AutoQuality(out) ELSE mode

PerfQuality(mode, out) ==
  CASE mode = "Auto" -> AutoQuality(out)
    [] mode = "Dlaa" -> "DLAA"
    [] mode = "Quality" -> "MaxQuality"
    [] mode = "Performance" -> "MaxPerf"
    [] OTHER -> mode

\* Mutant: the synthetic flag is passed on.
AsFlags_Raw(flags) == flags

\* as_flags.
AsFlags(flags) == flags \ {"OutputSubrect"}

\* DlssRayReconstructionContext::new adds what NGX mandates.
WithForced(kind, flags) ==
  IF kind = "RR"
  THEN flags \union {"HighDynamicRange", "LowResolutionMotionVectors"} ELSE flags

\* The hints that are set to preset D before a Ray Reconstruction is created,
\* named by the quality they are for.
PinnedPresets ==
  {"DLAA", "MaxQuality", "Balanced", "MaxPerf", "UltraPerformance", "UltraQuality"}

CreateParams(kind, mode, out, flags, packed) ==
  [kind |-> kind, quality |-> PerfQuality(mode, out), mode |-> mode,
   flags |-> AsFlags(WithForced(kind, flags)),
   subrects |-> "OutputSubrect" \in flags,
   packed |-> packed,
   presets |-> IF kind = "RR" THEN PinnedPresets ELSE {}]

\* The creations there are.  Nothing is none of them.
Creations ==
  [kind : {"SR", "RR"}, quality : Qualities, mode : Modes, flags : SUBSET Flags,
   subrects : BOOLEAN, packed : BOOLEAN, presets : {{}, PinnedPresets}]

ASSUME NothingAssumption == Nothing \notin Creations

\* NgxFeature::create: DLAA renders at the output resolution.
Resolutions(mode, out, s) ==
  IF mode = "Dlaa"
  THEN [upscaled |-> out, optimal |-> out, min |-> out, max |-> out]
  ELSE [upscaled |-> out, optimal |-> s.optimal, min |-> s.min, max |-> s.max]

\* new of either context, and the drop of the one before; the settings query or
\* the creation may fail.
Create ==
  /\ phase = "none"
  /\ \/ UNCHANGED <<phase, create, res>>
     \/ \E kind \in {"SR", "RR"}, mode \in Modes, out \in Outputs,
           flags \in SUBSET Flags, packed \in BOOLEAN :
          \E s \in Settings[out] :
            /\ kind = "SR" => ~packed
            /\ phase' = "created"
            /\ create' = CreateParams(kind, mode, out, flags, packed)
            /\ res' = Resolutions(mode, out, s)
  /\ UNCHANGED <<tex, state, eval>>

Drop ==
  /\ phase # "none" /\ phase' = "none"
  /\ create' = Nothing /\ res' = Nothing
  /\ tex' = <<>> /\ state' = <<>> /\ eval' = Nothing

-----------------------------------------------------------------------------
(* The application's textures *)

\* The inputs at the resolution the getters recommend, or at the top of the
\* range for dynamic resolution; one texture may have no raw D3D12 resource.
Allocate ==
  /\ phase = "created" /\ phase' = "allocated"
  /\ \E size \in {res.optimal, res.max}, null \in Roles(create.kind) \union {Nothing} :
       tex' = [r \in Roles(create.kind) |->
                 CASE r = null -> Nothing
                   [] r # null /\ r = "output" -> res.upscaled
                   [] r # null /\ r = "exposure" -> <<1, 1>>
                   [] OTHER -> size]
  /\ state' = [r \in Roles(create.kind) |-> "UNINITIALIZED"]
  /\ UNCHANGED <<create, res, eval>>

\* A frame: the inputs are drawn, or keep what they had, and what was the output
\* is read.
DrawScene ==
  /\ phase \in {"allocated", "drawn"} /\ phase' = "drawn"
  /\ \E all \in BOOLEAN :
       state' = [r \in DOMAIN state |->
                   IF r = "output" THEN "RESOURCE"
                   ELSE IF all \/ state[r] = "UNINITIALIZED" THEN "COLOR_TARGET"
                   ELSE state[r]]
  /\ eval' = Nothing
  /\ UNCHANGED <<create, res, tex>>

-----------------------------------------------------------------------------
(* Rendering with the context *)

\* validate.
Required(kind) == Roles(kind) \ {"exposure", "bias", "roughness"}

\* What the parameters of a call refer to.
Given(kind, manual, bias) ==
  Roles(kind) \ ((IF kind = "SR" /\ ~manual THEN {"exposure"} ELSE {}) \union
                 (IF kind = "SR" /\ ~bias THEN {"bias"} ELSE {}))

\* Mutant: an explicit exposure is not transitioned.
Barriers_NoExposure(kind, manual, bias) == Given(kind, manual, bias) \ {"exposure"}

\* Mutant: depth is not transitioned.
Barriers_NoDepth(kind, manual, bias) == Given(kind, manual, bias) \ {"depth"}

\* barrier_slots and Ray Reconstruction's barrier_list.
Barriers(kind, manual, bias) ==
  IF kind = "RR" THEN Roles("RR")
  ELSE {"color", "depth", "motion_vectors", "output"} \union
       (IF manual THEN {"exposure"} ELSE {}) \union (IF bias THEN {"bias"} ELSE {})

BarrierState(role) == IF role = "output" THEN "STORAGE_READ_WRITE" ELSE "RESOURCE"

\* The default of partial_texture_size.
DefaultSubrect(r) == r.max

Subrect(partial) == IF partial = Nothing THEN DefaultSubrect(res) ELSE partial

\* The subrects an application may pass: what it has drawn.
Drawable(size) ==
  \A r \in RenderInputs(create.kind) : tex[r] # Nothing => Fits(size, tex[r])

\* render, once a frame, to the point where NGX is handed the call; a call that is
\* refused leaves everything as it was.
Render ==
  /\ phase = "drawn" /\ eval = Nothing
  /\ \E manual, bias \in BOOLEAN, partial \in {Nothing, res.min, res.optimal},
        scale \in Scales \union {Nothing} :
       /\ partial # Nothing => Drawable(partial)
       /\ IF \E r \in Required(create.kind) : tex[r] = Nothing
          THEN UNCHANGED <<state, eval>>
          ELSE /\ state' = [r \in DOMAIN state |->
                              IF r \in Barriers(create.kind, manual, bias)
                              THEN BarrierState(r) ELSE state[r]]
               /\ eval' = [bound |-> Given(create.kind, manual, bias),
                           subrect |-> Subrect(partial),
                           mvScale |-> IF scale = Nothing THEN <<1, 1>> ELSE scale,
                           givenScale |-> scale]
  /\ UNCHANGED <<phase, create, res, tex>>

Next == Create \/ Drop \/ Allocate \/ DrawScene \/ Render

Spec == Init /\ [][Next]_vars
-----------------------------------------------------------------------------
(* Jitter *)

\* suggested_jitter: (8.0 * ratio * ratio) as u32, then max(1).
PhaseCount(r, render) ==
  LET n == (8 * r.upscaled[1] * r.upscaled[1]) \div (render[1] * render[1])
  IN IF n = 0 THEN 1 ELSE n

\* halton_sequence: result is num / den, and f is 1 / den.
Halton(index, base) ==
  LET loop[s \in [index : 0..index, num : Nat, den : Nat]] ==
        IF s.index = 0 THEN s
        ELSE loop[[index |-> s.index \div base,
                   num |-> (s.num * base) + (s.index % base),
                   den |-> s.den * base]]
  IN loop[[index |-> index, num |-> 0, den |-> 1]]

\* Mutant: both axes use the first base.
BaseY_Same == 2

\* The second base.
BaseY == 3

\* The frame's sample point within a render pixel, before it is recentred.
Sample(i) == <<Halton(i, 2), Halton(i, BaseY)>>
-----------------------------------------------------------------------------
TypeOK ==
  /\ phase \in {"none", "created", "allocated", "drawn"}
  /\ create \in Creations \union {Nothing}
  /\ phase = "none" <=> create = Nothing
  /\ create # Nothing => DOMAIN res = {"upscaled", "optimal", "min", "max"}
  /\ phase \in {"allocated", "drawn"} =>
       DOMAIN tex = Roles(create.kind) /\ DOMAIN state = Roles(create.kind)
  /\ eval # Nothing => phase = "drawn" /\ eval.bound \subseteq DOMAIN tex

\* What NGX refuses in a creation, as the comments of the code report it: a flag
\* it does not know (config.rs:167-169); for Ray Reconstruction, colors that are
\* not HDR, motion vectors at another resolution (ray_reconstruction.rs:113-115),
\* a quality whose preset is the default one (:182-185).
NgxRefuses(c) ==
  \/ "OutputSubrect" \in c.flags
  \/ /\ c.kind = "RR"
     /\ \/ ~({"HighDynamicRange", "LowResolutionMotionVectors"} \subseteq c.flags)
        \/ c.quality \notin c.presets

\* ngx_feature.rs:73-79: in mode Dlaa there is no upscaling, in what the application is
\* told to render at, and in the range that is the default subrect of a render.  When
\* mode Auto picks DLAA's quality, it is NGX that has to answer so.
DlaaDoesNotUpscale(c, r) ==
  c.mode = "Dlaa" =>
    c.quality = "DLAA" /\ \A k \in {"optimal", "min", "max"} : r[k] = r.upscaled

\* Whatever mode, flags, resolution and textures an application comes with, NGX is
\* asked for no creation that the crate knows it to refuse, and no required resource
\* without a raw D3D12 resource reaches an evaluate (render_parameters.rs:68-80,
\* ray_reconstruction.rs:53-66).
NgxTakesCalls ==
  /\ create # Nothing => ~NgxRefuses(create) /\ DlaaDoesNotUpscale(create, res)
  /\ eval # Nothing =>
       \A r \in eval.bound \ {"exposure", "bias", "roughness"} : tex[r] # Nothing

\* context.rs:112-173 against render_parameters.rs:132-144, and the two lists of
\* ray_reconstruction.rs: at an evaluate, every texture that is bound is in the
\* state NGX needs it in, whatever was drawn and rendered before.
BoundInNeededState ==
  eval # Nothing => \A r \in eval.bound : state[r] = BarrierState(r)

\* The output pixels a render pixel covers along an axis, rounded up.
Cells(r, render, axis) == (r.upscaled[axis] + render[axis] - 1) \div render[axis]

\* The output pixel sample i falls into, within its render pixel.
Cell(i, r, render) ==
  LET at(value, axis) == (value.num * Cells(r, render, axis)) \div value.den
  IN <<at(Sample(i)[1], 1), at(Sample(i)[2], 2)>>

\* ngx_feature.rs:212-221: over one period of the suggested jitter, every output
\* pixel within a render pixel is sampled, so that the history can resolve it.
JitterCovers ==
  phase = "created" =>
    \A render \in {res.min, res.optimal, res.max} :
      (0..(Cells(res, render, 1) - 1)) \X (0..(Cells(res, render, 2) - 1)) \subseteq
        {Cell(i, res, render) : i \in 0..(PhaseCount(res, render) - 1)}

\* render_parameters.rs:60: the subrect is optional, "rather than the full
\* textures": what NGX is told to read is never more than a texture has.  (README.md:105-106
\* tells of the pitfall.)
SubrectFits ==
  eval # Nothing =>
    \A r \in eval.bound \intersect RenderInputs(create.kind) :
      tex[r] # Nothing => Fits(eval.subrect, tex[r])

\* ray_reconstruction.rs:29-30 and :48-52: roughness is a required resource, but for
\* RoughnessMode::Packed, and none without a raw D3D12 resource reaches NGX.
RoughnessIsThere ==
  eval # Nothing /\ create.kind = "RR" /\ ~create.packed => tex["roughness"] # Nothing
=============================================================================
