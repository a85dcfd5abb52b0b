------------------------------ MODULE FgHandoff ------------------------------
(***************************************************************************)
(* One frame's textures handed to an upscaler and to frame generation:     *)
(* src/streamline/tagging.rs, and what Frame::tag and Frame::set_constants *)
(* pass on.  The application draws, renders with its upscaler context, and *)
(* gives the same depth and motion vectors to Streamline, with constants   *)
(* derived from the same parameters.  The order of a Frame's calls is      *)
(* FgFrame's.                                                              *)
(***************************************************************************)
EXTENDS Upscaler, Sequences

CONSTANT FgModes  \* bound: the modes whose frames go to frame generation too

ASSUME HandoffAssumption == FgModes \subseteq Modes

VARIABLES
  tagged,    \* the tags slSetTagForFrame was given for this frame
  constants  \* what slSetConstants was given for it, or Nothing

fgVars == <<tagged, constants>>

HandoffInit == Init /\ tagged = <<>> /\ constants = Nothing

-----------------------------------------------------------------------------
(* FgResources::tags *)

\* Mutant: the user interface comes before the HUD-less color.
BufferTypes_UiFirst(hudless, ui) ==
  <<"Depth", "MotionVectors">> \o
  (CASE ui = "ui_color_and_alpha" -> <<"UIColorAndAlpha">>
     [] ui = "ui_alpha" -> <<"UIAlpha">>
     [] OTHER -> <<>>) \o
  (IF hudless THEN <<"HUDLessColor">> ELSE <<>>)

\* tag_buffer_types, the live prefix.
BufferTypes(hudless, ui) ==
  <<"Depth", "MotionVectors">> \o
  (IF hudless THEN <<"HUDLessColor">> ELSE <<>>) \o
  (CASE ui = "ui_color_and_alpha" -> <<"UIColorAndAlpha">>
     [] ui = "ui_alpha" -> <<"UIAlpha">>
     [] OTHER -> <<>>)

MaxTags == 4

\* The array it returns: seeded with depth.
TypeSlots(hudless, ui) ==
  LET types == BufferTypes(hudless, ui)
  IN [i \in 1..MaxTags |-> IF i <= Len(types) THEN types[i] ELSE "Depth"]

\* The textures, listed apart from their types.
Tagged(hudless, ui) ==
  <<"depth", "motion_vectors">> \o
  (IF hudless THEN <<"hudless_color">> ELSE <<>>) \o
  (IF ui = Nothing THEN <<>> ELSE <<ui>>)

\* FgResource::new; the application may override it.
DefaultState == "PIXEL_SHADER_RESOURCE"

\* tags, and the payload Frame::tag makes of each pair.
Tags(hudless, ui) ==
  [i \in 1..Len(Tagged(hudless, ui)) |->
    [texture |-> Tagged(hudless, ui)[i],
     type |-> TypeSlots(hudless, ui)[i],
     state |-> DefaultState]]

\* Shared with the upscaler; hudless_color and ui are the application's own.
Shared == {"depth", "motion_vectors"}

\* Frame::tag.  Without a raw resource for each, or a raw list, it returns early.
Tag ==
  /\ phase = "drawn" /\ create.mode \in FgModes
  /\ \E hudless \in BOOLEAN, ui \in {Nothing, "ui_color_and_alpha", "ui_alpha"} :
       \/ UNCHANGED tagged
       \/ /\ \A r \in Shared : tex[r] # Nothing
          /\ tagged' = Tags(hudless, ui)
  /\ UNCHANGED <<vars, constants>>

-----------------------------------------------------------------------------
(* FgConstants *)

\* Mutant: the upscaler's scale is not carried over.
Derive_NoScale(scale, resolution) == [mvec_num |-> <<1, 1>>, mvec_den |-> resolution]

\* derive: mvec_scale is mvec_num / mvec_den on each axis.
Derive(scale, resolution) ==
  [mvec_num |-> IF scale = Nothing THEN <<1, 1>> ELSE scale, mvec_den |-> resolution]

\* from_render_parameters or from_ray_reconstruction_parameters on the parameters
\* of the render of this frame, then set_constants.  The resolution is what the
\* context recommends, or what the upscaler was told to read.
SetConstants ==
  /\ eval # Nothing /\ create.mode \in FgModes
  /\ \E resolution \in {res.optimal, eval.subrect} :
       constants' = Derive(eval.givenScale, resolution)
  /\ UNCHANGED <<vars, tagged>>

-----------------------------------------------------------------------------
\* Tags are valid until present, and the next scene is drawn after it.
NextFrame ==
  /\ DrawScene \/ Drop
  /\ tagged' = <<>> /\ constants' = Nothing

UpscalerStep == (Create \/ Allocate \/ Render) /\ UNCHANGED fgVars

HandoffNext == UpscalerStep \/ NextFrame \/ Tag \/ SetConstants

HandoffSpec == HandoffInit /\ [][HandoffNext]_<<vars, fgVars>>
-----------------------------------------------------------------------------
\* What wgpu's texture uses are in D3D12.
D3D12States(use) ==
  CASE use = "RESOURCE" -> {"PIXEL_SHADER_RESOURCE", "NON_PIXEL_SHADER_RESOURCE"}
    [] use = "COLOR_TARGET" -> {"RENDER_TARGET"}
    [] use = "STORAGE_READ_WRITE" -> {"UNORDERED_ACCESS"}
    [] OTHER -> {}

\* What Streamline takes a texture of the application for.
Meaning == [depth |-> "Depth", motion_vectors |-> "MotionVectors",
            hudless_color |-> "HUDLessColor",
            ui_color_and_alpha |-> "UIColorAndAlpha", ui_alpha |-> "UIAlpha"]

HandoffTypeOK ==
  /\ TypeOK
  /\ tagged \in Seq([texture : DOMAIN Meaning, type : {Meaning[r] : r \in DOMAIN Meaning},
                     state : {DefaultState}])
  /\ constants # Nothing => eval # Nothing

\* tagging.rs:102-140: whichever optional inputs there are, each texture is tagged
\* as what it is, although types and textures are listed in two places, and depth
\* and motion vectors are always among them.
TagsArePaired ==
  tagged # <<>> =>
    /\ \A i \in DOMAIN tagged : tagged[i].type = Meaning[tagged[i].texture]
    /\ \A type \in {"Depth", "MotionVectors"} :
         \E i \in DOMAIN tagged : tagged[i].type = type

\* tagging.rs:51-52: the state of a tag must be the one wgpu has left the texture
\* in.  For what an upscaler shares it is, once the upscaler has rendered this
\* frame, though nothing in Frame::tag moves a texture to that state.
TagsTellTheState ==
  eval # Nothing =>
    \A i \in DOMAIN tagged :
      tagged[i].texture \in Shared =>
        tagged[i].state \in D3D12States(state[tagged[i].texture])

\* tagging.rs:275-279: a motion vector moves the image by the same share of it in
\* both features, if the constants are derived from the resolution at which the
\* upscaler was told to read it.
SameMotion ==
  constants # Nothing /\ constants.mvec_den = eval.subrect =>
    \A axis \in {1, 2} :
      constants.mvec_num[axis] * eval.subrect[axis] =
        eval.mvScale[axis] * constants.mvec_den[axis]
=============================================================================
