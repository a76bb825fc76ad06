----------------------------- MODULE StudioPanel -----------------------------
(***************************************************************************)
(* What the panel of door-settings offers to edit: the controls of each    *)
(* tab by the key of the theme they change, and the scenes with their      *)
(* categories (door-theme's SkyMode).  Tabs and the Advanced switch choose *)
(* what is on the screen and nothing else, so a control of any tab is at   *)
(* hand; only the dials of a scene depend on the draft.                    *)
(***************************************************************************)
EXTENDS Sequences

ColorsTab == {
  "wallpaper", "logo", "logo_box", "logo_box_radius", "background", "card",
  "field", "accent", "foreground", "muted", "error_color"}
SkyTab == {
  "comet_color", "glow_color", "sky_glow", "star_density", "star_twinkle",
  "comet_enabled", "comet_interval", "cloud_amount", "cloud_speed", "sun_x",
  "sun_y", "sun_size", "sun_intensity", "sun_color", "cloud_lit",
  "cloud_shadow"}
SkyAdvanced == {
  "glow_falloff", "nebula_amount", "comet_tail_decay", "glow_x", "glow_y",
  "day_haze", "star_layers", "star_size", "nebula_speed", "comet_tilt",
  "comet_pause", "comet_width", "cursor_parallax", "glow_pulse", "grain",
  "vignette"}
StormDials == {
  "storm_lightning_rate", "storm_strike_chance", "storm_cloud_density",
  "storm_bolt_color", "storm_flash_color"}
RainDials == {
  "rain_fall_speed", "rain_density", "rain_slant", "rain_intensity",
  "rain_color"}
SnowDials == {
  "snow_fall_speed", "snow_density", "snow_sway", "snow_flake_size",
  "snow_color"}
FireDials == {
  "fire_rise_speed", "fire_flame_height", "fire_flame_color",
  "fire_tip_color"}
AuroraDials == {
  "aurora_speed", "aurora_drop", "aurora_ray_freq", "aurora_intensity",
  "aurora_green", "aurora_magenta"}
PlasmaDials == {
  "plasma_speed", "plasma_scale", "plasma_saturation", "plasma_tint"}
WaterDials == {
  "water_speed", "water_scale", "water_ripple", "water_caustic",
  "water_caustic_color", "water_deep", "water_shallow"}
MeteorDials == {
  "meteor_speed", "meteor_count", "meteor_trail", "meteor_intensity",
  "meteor_color", "meteor_star_color"}
MoonDials == {
  "moon_size", "moon_phase_speed", "moon_texture", "moon_halo", "moon_color",
  "moon_halo_color"}
FogDials == {
  "fog_drift", "fog_scale", "fog_thickness", "fog_opacity", "fog_color"}
MountainsDials == {
  "mtn_layers", "mtn_peak", "mtn_drift", "mtn_haze", "mtn_sky", "mtn_ridge",
  "mtn_haze_color"}
PyramidsDials == {
  "pyramids_density", "pyramids_mist", "pyramids_fireflies",
  "pyramids_drift", "pyramids_sky", "pyramids_tree", "pyramids_glow"}
OceanDials == {
  "ocean_horizon", "ocean_wave_speed", "ocean_glint", "ocean_wave_scale",
  "ocean_sky", "ocean_sea", "ocean_glint_color"}
SunsetDials == {
  "sunset_sun_y", "sunset_sun_size", "sunset_glow", "sunset_bands",
  "sunset_sky", "sunset_horizon", "sunset_sun"}
GalaxyDials == {
  "galaxy_density", "galaxy_nebula", "galaxy_twinkle", "galaxy_tilt",
  "galaxy_core", "galaxy_outer", "galaxy_star"}
MatrixDials == {
  "matrix_density", "matrix_speed", "matrix_glow", "matrix_flicker",
  "matrix_head", "matrix_trail"}
ForestDials == {
  "forest_density", "forest_haze", "forest_fireflies", "forest_drift",
  "forest_sky", "forest_tree", "forest_glow"}
SynthwaveDials == {
  "synthwave_grid_speed", "synthwave_grid_density",
  "synthwave_grid_perspective", "synthwave_grid_glow", "synthwave_sun_size",
  "synthwave_sun_stripes", "synthwave_sun_bloom", "synthwave_horizon",
  "synthwave_grid_color", "synthwave_sky_top", "synthwave_sky_bottom"}
SpinnerTab == {
  "spinner_style", "spinner_comet", "spinner_track", "spinner_trail",
  "spinner_glow", "spinner_speed", "spinner_size", "spinner_pulse",
  "spinner_ring", "spinner_orbit"}
CardTab == {
  "card_pos", "corner_radius", "card_width", "field_radius",
  "card_shadow_blur", "card_shadow_opacity", "accent_breathing",
  "card_gradient", "card_blur"}
\* The behaviour tab, from top to bottom; the day window's rows come last.
IndicatorRows == {"font", "show_clock", "show_kb_layout", "show_battery"}
ClockRows == {"clock_style", "clock_24h", "clock_seconds", "clock_format",
  "clock_tz", "clock_size"}
MotionRows == {"font_scale", "font_weight", "animate", "reduced_motion",
  "gpu_level", "fade_ms"}

-----------------------------------------------------------------------------
(***************************************************************************)
(* Scenes.                                                                 *)
(***************************************************************************)

\* SkyMode::ALL, by category in its order; the first of each is what picking
\* the category selects.
Scenes == [
  Basics    |-> <<"auto", "seasonal", "day", "night", "solid">>,
  Weather   |-> <<"storm", "rain", "snow", "fog">>,
  Celestial |-> <<"aurora", "meteor", "moon", "galaxy">>,
  Landscape |-> <<"mountains", "pyramids", "forest", "ocean", "sunset">>,
  Stylized  |-> <<"synthwave", "plasma", "fire", "water", "matrix">>]

Categories == DOMAIN Scenes
ScenesOf(c) == {Scenes[c][i] : i \in DOMAIN Scenes[c]}
AllScenes == UNION {ScenesOf(c) : c \in Categories}
CategoryOf(s) == CHOOSE c \in Categories : s \in ScenesOf(c)

\* The second picker lists the scenes of the category in effect; the first
\* jumps to another category's first scene.
Pickable(s) ==
  ScenesOf(CategoryOf(s)) \cup {Head(Scenes[c]) : c \in Categories}

\* The scene in effect shows its dials; the basics have none.
Dials(s) ==
  CASE s = "storm" -> StormDials [] s = "rain" -> RainDials
    [] s = "snow" -> SnowDials [] s = "fog" -> FogDials
    [] s = "aurora" -> AuroraDials [] s = "meteor" -> MeteorDials
    [] s = "moon" -> MoonDials [] s = "galaxy" -> GalaxyDials
    [] s = "mountains" -> MountainsDials [] s = "pyramids" -> PyramidsDials
    [] s = "forest" -> ForestDials [] s = "ocean" -> OceanDials
    [] s = "sunset" -> SunsetDials [] s = "synthwave" -> SynthwaveDials
    [] s = "plasma" -> PlasmaDials [] s = "fire" -> FireDials
    [] s = "water" -> WaterDials [] s = "matrix" -> MatrixDials
    [] OTHER -> {}

Offered(s) ==
  ColorsTab \cup SkyTab \cup SkyAdvanced \cup Dials(s) \cup SpinnerTab
    \cup CardTab \cup IndicatorRows \cup ClockRows \cup MotionRows
=============================================================================
