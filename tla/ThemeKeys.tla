------------------------------ MODULE ThemeKeys ------------------------------
(***************************************************************************)
(* The keys of a greeter theme, as each place of door-theme/src/lib.rs and *)
(* of door-settings/src/main.rs that handles all of them lists them.  The  *)
(* code keeps these lists by hand: a key added to the theme has to be      *)
(* added to every one.  Each list here is the transcript of one of them,   *)
(* in its order, cut where a function is long; none is defined through     *)
(* another.                                                                *)
(***************************************************************************)

\* ThemeFile: the keys a file may have.  Any other makes it unparseable.
FileKeys1 == {
  "wallpaper", "background", "card", "accent", "foreground", "muted",
  "field", "font", "logo", "corner_radius", "card_width", "card_pos",
  "show_clock", "show_kb_layout", "show_battery", "animate", "sky_mode",
  "reduced_motion", "gpu_level", "spinner_glow", "spinner_speed",
  "spinner_comet", "spinner_track", "spinner_trail", "comet_color",
  "glow_color", "sky_glow", "star_density", "star_twinkle", "comet_enabled",
  "comet_interval", "cloud_amount", "cloud_speed", "sun_x", "sun_y",
  "sun_size", "sun_intensity", "sun_color", "glow_x", "glow_y", "day_haze",
  "star_layers", "star_size", "nebula_speed", "comet_tilt", "comet_pause",
  "comet_width", "cloud_lit", "cloud_shadow", "cursor_parallax",
  "glow_pulse", "synthwave_grid_speed", "synthwave_grid_density",
  "synthwave_grid_perspective", "synthwave_grid_glow", "synthwave_sun_size",
  "synthwave_sun_stripes", "synthwave_sun_bloom", "synthwave_horizon",
  "synthwave_grid_color", "synthwave_sky_top", "synthwave_sky_bottom",
  "storm_lightning_rate", "storm_strike_chance", "storm_cloud_density",
  "storm_bolt_color", "storm_flash_color", "rain_fall_speed", "rain_density",
  "rain_slant", "rain_intensity", "rain_color", "snow_fall_speed",
  "snow_density", "snow_sway", "snow_flake_size", "snow_color",
  "fire_rise_speed", "fire_flame_height", "fire_flame_color",
  "fire_tip_color", "aurora_speed", "aurora_drop", "aurora_ray_freq",
  "aurora_intensity", "aurora_green", "aurora_magenta", "plasma_speed",
  "plasma_scale", "plasma_saturation", "plasma_tint", "water_speed",
  "water_scale", "water_ripple", "water_caustic", "water_caustic_color",
  "water_deep", "water_shallow", "meteor_speed"}

FileKeys2 == {
  "meteor_count", "meteor_trail", "meteor_intensity", "meteor_color",
  "meteor_star_color", "moon_size", "moon_phase_speed", "moon_texture",
  "moon_halo", "moon_color", "moon_halo_color", "fog_drift", "fog_scale",
  "fog_thickness", "fog_opacity", "fog_color", "mtn_layers", "mtn_peak",
  "mtn_drift", "mtn_haze", "mtn_sky", "mtn_ridge", "mtn_haze_color",
  "pyramids_density", "pyramids_mist", "pyramids_fireflies",
  "pyramids_drift", "pyramids_sky", "pyramids_tree", "pyramids_glow",
  "ocean_horizon", "ocean_wave_speed", "ocean_glint", "ocean_wave_scale",
  "ocean_sky", "ocean_sea", "ocean_glint_color", "sunset_sun_y",
  "sunset_sun_size", "sunset_glow", "sunset_bands", "sunset_sky",
  "sunset_horizon", "sunset_sun", "galaxy_density", "galaxy_nebula",
  "galaxy_twinkle", "galaxy_tilt", "galaxy_core", "galaxy_outer",
  "galaxy_star", "matrix_density", "matrix_speed", "matrix_glow",
  "matrix_flicker", "matrix_head", "matrix_trail", "forest_density",
  "forest_haze", "forest_fireflies", "forest_drift", "forest_sky",
  "forest_tree", "forest_glow", "card_gradient", "grain", "vignette",
  "card_blur", "spinner_orbit", "spinner_style", "spinner_size",
  "spinner_pulse", "card_shadow_blur", "card_shadow_opacity",
  "accent_breathing", "field_radius", "error_color", "logo_box",
  "logo_box_radius", "clock_24h", "clock_seconds", "clock_size",
  "clock_style", "clock_format", "clock_tz", "font_scale", "font_weight",
  "fade_ms", "glow_falloff", "nebula_amount", "comet_tail_decay",
  "spinner_ring", "day_start", "day_end", "day"}

\* DayFile: the same of its table [day].
DayFileKeys == {
  "wallpaper", "background", "card", "accent", "foreground", "muted",
  "field", "logo", "spinner_glow", "spinner_comet", "spinner_track",
  "spinner_trail", "comet_color", "glow_color", "sky_glow", "error_color",
  "logo_box"}

\* Theme::merged: the keys of a file that reach the night theme.
Merged1 == {
  "background", "card", "accent", "foreground", "muted", "field",
  "wallpaper", "logo", "font", "corner_radius", "card_width", "card_pos",
  "show_clock", "show_kb_layout", "show_battery", "animate", "sky_mode",
  "reduced_motion", "gpu_level", "spinner_glow", "spinner_speed",
  "spinner_comet", "spinner_track", "spinner_trail", "comet_color",
  "glow_color", "sky_glow", "star_density", "star_twinkle", "comet_enabled",
  "comet_interval", "cloud_amount", "cloud_speed", "sun_x", "sun_y",
  "sun_size", "sun_intensity", "sun_color", "glow_x", "glow_y", "day_haze",
  "star_layers", "star_size", "nebula_speed", "comet_tilt", "comet_pause",
  "comet_width", "cloud_lit", "cloud_shadow", "cursor_parallax",
  "glow_pulse", "synthwave_grid_speed", "synthwave_grid_density",
  "synthwave_grid_perspective", "synthwave_grid_glow", "synthwave_sun_size",
  "synthwave_sun_stripes", "synthwave_sun_bloom", "synthwave_horizon",
  "synthwave_grid_color", "synthwave_sky_top", "synthwave_sky_bottom",
  "storm_lightning_rate", "storm_strike_chance", "storm_cloud_density",
  "storm_bolt_color", "storm_flash_color", "rain_fall_speed", "rain_density",
  "rain_slant", "rain_intensity", "rain_color", "snow_fall_speed",
  "snow_density", "snow_sway", "snow_flake_size", "snow_color",
  "fire_rise_speed", "fire_flame_height", "fire_flame_color"}

Merged2 == {
  "fire_tip_color", "aurora_speed", "aurora_drop", "aurora_ray_freq",
  "aurora_intensity", "aurora_green", "aurora_magenta", "plasma_speed",
  "plasma_scale", "plasma_saturation", "plasma_tint", "water_speed",
  "water_scale", "water_ripple", "water_caustic", "water_caustic_color",
  "water_deep", "water_shallow", "meteor_speed", "meteor_count",
  "meteor_trail", "meteor_intensity", "meteor_color", "meteor_star_color",
  "moon_size", "moon_phase_speed", "moon_texture", "moon_halo", "moon_color",
  "moon_halo_color", "fog_drift", "fog_scale", "fog_thickness",
  "fog_opacity", "fog_color", "mtn_layers", "mtn_peak", "mtn_drift",
  "mtn_haze", "mtn_sky", "mtn_ridge", "mtn_haze_color", "pyramids_density",
  "pyramids_mist", "pyramids_fireflies", "pyramids_drift", "pyramids_sky",
  "pyramids_tree", "pyramids_glow", "ocean_horizon", "ocean_wave_speed",
  "ocean_glint", "ocean_wave_scale", "ocean_sky", "ocean_sea",
  "ocean_glint_color", "sunset_sun_y", "sunset_sun_size", "sunset_glow",
  "sunset_bands", "sunset_sky", "sunset_horizon", "sunset_sun",
  "galaxy_density", "galaxy_nebula", "galaxy_twinkle", "galaxy_tilt",
  "galaxy_core", "galaxy_outer", "galaxy_star", "matrix_density",
  "matrix_speed", "matrix_glow", "matrix_flicker", "matrix_head",
  "matrix_trail", "forest_density", "forest_haze", "forest_fireflies",
  "forest_drift", "forest_sky", "forest_tree", "forest_glow",
  "card_gradient", "grain", "vignette", "card_blur", "spinner_orbit",
  "spinner_style", "spinner_size", "spinner_pulse", "card_shadow_blur",
  "card_shadow_opacity", "accent_breathing", "field_radius", "error_color",
  "logo_box", "logo_box_radius", "clock_24h", "clock_seconds", "clock_size",
  "clock_style", "clock_format", "clock_tz", "font_scale", "font_weight",
  "fade_ms", "glow_falloff", "nebula_amount", "comet_tail_decay",
  "spinner_ring"}

\* Theme::merged_structural: those that reach the day theme from the top level.
Structural1 == {
  "font", "corner_radius", "card_width", "card_pos", "show_clock",
  "show_kb_layout", "show_battery", "animate", "sky_mode", "reduced_motion",
  "gpu_level", "spinner_speed", "star_density", "star_twinkle",
  "comet_enabled", "comet_interval", "cloud_amount", "cloud_speed", "sun_x",
  "sun_y", "sun_size", "sun_intensity", "sun_color", "glow_x", "glow_y",
  "day_haze", "star_layers", "star_size", "nebula_speed", "comet_tilt",
  "comet_pause", "comet_width", "cloud_lit", "cloud_shadow",
  "cursor_parallax", "glow_pulse", "synthwave_grid_speed",
  "synthwave_grid_density", "synthwave_grid_perspective",
  "synthwave_grid_glow", "synthwave_sun_size", "synthwave_sun_stripes",
  "synthwave_sun_bloom", "synthwave_horizon", "storm_lightning_rate",
  "storm_strike_chance", "storm_cloud_density", "rain_fall_speed",
  "rain_density", "rain_slant", "rain_intensity", "snow_fall_speed",
  "snow_density", "snow_sway", "snow_flake_size", "fire_rise_speed",
  "fire_flame_height", "aurora_speed", "aurora_drop", "aurora_ray_freq",
  "aurora_intensity", "plasma_speed", "plasma_scale", "plasma_saturation",
  "water_speed", "water_scale", "water_ripple", "water_caustic",
  "meteor_speed", "meteor_count", "meteor_trail", "meteor_intensity",
  "moon_size", "moon_phase_speed"}

Structural2 == {
  "moon_texture", "moon_halo", "fog_drift", "fog_scale", "fog_thickness",
  "fog_opacity", "mtn_layers", "mtn_peak", "mtn_drift", "mtn_haze",
  "pyramids_density", "pyramids_mist", "pyramids_fireflies",
  "pyramids_drift", "ocean_horizon", "ocean_wave_speed", "ocean_glint",
  "ocean_wave_scale", "sunset_sun_y", "sunset_sun_size", "sunset_glow",
  "sunset_bands", "galaxy_density", "galaxy_nebula", "galaxy_twinkle",
  "galaxy_tilt", "matrix_density", "matrix_speed", "matrix_glow",
  "matrix_flicker", "forest_density", "forest_haze", "forest_fireflies",
  "forest_drift", "synthwave_grid_color", "synthwave_sky_top",
  "synthwave_sky_bottom", "storm_bolt_color", "storm_flash_color",
  "rain_color", "snow_color", "fire_flame_color", "fire_tip_color",
  "aurora_green", "aurora_magenta", "plasma_tint", "water_caustic_color",
  "water_deep", "water_shallow", "meteor_color", "meteor_star_color",
  "moon_color", "moon_halo_color", "fog_color", "mtn_sky", "mtn_ridge",
  "mtn_haze_color", "pyramids_sky", "pyramids_tree", "pyramids_glow",
  "ocean_sky", "ocean_sea", "ocean_glint_color", "sunset_sky",
  "sunset_horizon", "sunset_sun", "galaxy_core", "galaxy_outer",
  "galaxy_star", "matrix_head", "matrix_trail", "forest_sky", "forest_tree",
  "forest_glow", "card_gradient", "grain", "vignette", "card_blur",
  "spinner_orbit", "spinner_style", "spinner_size", "spinner_pulse",
  "card_shadow_blur", "card_shadow_opacity", "accent_breathing",
  "field_radius", "logo_box_radius", "clock_24h", "clock_seconds",
  "clock_size", "clock_style", "clock_format", "clock_tz", "font_scale",
  "font_weight", "fade_ms", "glow_falloff", "nebula_amount",
  "comet_tail_decay", "spinner_ring"}

\* Theme::merged_day: those that reach it from the table [day].
DayMerged == {
  "background", "card", "accent", "foreground", "muted", "field",
  "wallpaper", "logo", "spinner_glow", "spinner_comet", "spinner_track",
  "spinner_trail", "comet_color", "glow_color", "sky_glow", "error_color",
  "logo_box"}

\* Theme::to_config_string: the keys that are written at the top level.
Written1 == {
  "wallpaper", "background", "card", "field", "accent", "foreground",
  "muted", "font", "logo", "corner_radius", "card_width", "card_pos",
  "show_clock", "show_kb_layout", "show_battery", "animate", "sky_mode",
  "reduced_motion", "gpu_level", "spinner_glow", "spinner_speed",
  "spinner_comet", "spinner_track", "spinner_trail", "comet_color",
  "glow_color", "sky_glow", "star_density", "star_twinkle", "comet_enabled",
  "comet_interval", "cloud_amount", "cloud_speed", "sun_x", "sun_y",
  "sun_size", "sun_intensity", "sun_color", "glow_x", "glow_y", "day_haze",
  "star_layers", "star_size", "nebula_speed", "comet_tilt", "comet_pause",
  "comet_width", "cloud_lit", "cloud_shadow", "cursor_parallax",
  "glow_pulse", "synthwave_grid_speed", "synthwave_grid_density",
  "synthwave_grid_perspective", "synthwave_grid_glow", "synthwave_sun_size",
  "synthwave_sun_stripes", "synthwave_sun_bloom", "synthwave_horizon",
  "synthwave_grid_color", "synthwave_sky_top", "synthwave_sky_bottom",
  "storm_lightning_rate", "storm_strike_chance", "storm_cloud_density"}

Written2 == {
  "storm_bolt_color", "storm_flash_color", "rain_fall_speed", "rain_density",
  "rain_slant", "rain_intensity", "rain_color", "snow_fall_speed",
  "snow_density", "snow_sway", "snow_flake_size", "snow_color",
  "fire_rise_speed", "fire_flame_height", "fire_flame_color",
  "fire_tip_color", "aurora_speed", "aurora_drop", "aurora_ray_freq",
  "aurora_intensity", "aurora_green", "aurora_magenta", "plasma_speed",
  "plasma_scale", "plasma_saturation", "plasma_tint", "water_speed",
  "water_scale", "water_ripple", "water_caustic", "water_caustic_color",
  "water_deep", "water_shallow", "meteor_speed", "meteor_count",
  "meteor_trail", "meteor_intensity", "meteor_color", "meteor_star_color",
  "moon_size", "moon_phase_speed", "moon_texture", "moon_halo", "moon_color",
  "moon_halo_color", "fog_drift", "fog_scale", "fog_thickness",
  "fog_opacity", "fog_color", "mtn_layers", "mtn_peak", "mtn_drift",
  "mtn_haze", "mtn_sky", "mtn_ridge", "mtn_haze_color", "pyramids_density",
  "pyramids_mist", "pyramids_fireflies", "pyramids_drift", "pyramids_sky"}

Written3 == {
  "pyramids_tree", "pyramids_glow", "ocean_horizon", "ocean_wave_speed",
  "ocean_glint", "ocean_wave_scale", "ocean_sky", "ocean_sea",
  "ocean_glint_color", "sunset_sun_y", "sunset_sun_size", "sunset_glow",
  "sunset_bands", "sunset_sky", "sunset_horizon", "sunset_sun",
  "galaxy_density", "galaxy_nebula", "galaxy_twinkle", "galaxy_tilt",
  "galaxy_core", "galaxy_outer", "galaxy_star", "matrix_density",
  "matrix_speed", "matrix_glow", "matrix_flicker", "matrix_head",
  "matrix_trail", "forest_density", "forest_haze", "forest_fireflies",
  "forest_drift", "forest_sky", "forest_tree", "forest_glow",
  "card_gradient", "grain", "vignette", "card_blur", "spinner_size",
  "spinner_pulse", "spinner_orbit", "spinner_style", "card_shadow_blur",
  "card_shadow_opacity", "accent_breathing", "field_radius", "error_color",
  "logo_box", "logo_box_radius", "clock_24h", "clock_seconds", "clock_size",
  "clock_style", "clock_format", "clock_tz", "font_scale", "font_weight",
  "fade_ms", "glow_falloff", "nebula_amount", "comet_tail_decay",
  "spinner_ring"}

\* Theme::render_pair: those that are written under [day].
DayWritten == {
  "background", "card", "field", "accent", "foreground", "muted",
  "wallpaper", "logo", "spinner_glow", "spinner_comet", "spinner_track",
  "spinner_trail", "comet_color", "glow_color", "sky_glow", "error_color",
  "logo_box"}

\* door-settings, Palette: what is edited for night and for day.
PaletteKeys == {
  "wallpaper", "background", "card", "field", "accent", "foreground",
  "muted", "logo", "spinner_comet", "spinner_track", "spinner_trail",
  "spinner_glow", "comet_color", "glow_color", "sky_glow", "error_color",
  "logo_box"}

\* State::new: what is edited once for both, the day window apart.
Shared1 == {
  "font", "corner_radius", "card_width", "card_pos", "spinner_speed",
  "show_clock", "show_kb_layout", "show_battery", "animate", "sky_mode",
  "reduced_motion", "gpu_level", "star_density", "star_twinkle",
  "comet_enabled", "comet_interval", "cloud_amount", "cloud_speed", "sun_x",
  "sun_y", "sun_size", "sun_intensity", "sun_color", "glow_x", "glow_y",
  "day_haze", "star_layers", "star_size", "nebula_speed", "comet_tilt",
  "comet_pause", "comet_width", "cloud_lit", "cloud_shadow",
  "cursor_parallax", "glow_pulse", "synthwave_grid_speed",
  "synthwave_grid_density", "synthwave_grid_perspective",
  "synthwave_grid_glow", "synthwave_sun_size", "synthwave_sun_stripes",
  "synthwave_sun_bloom", "synthwave_horizon", "synthwave_grid_color",
  "synthwave_sky_top", "synthwave_sky_bottom", "storm_lightning_rate",
  "storm_strike_chance", "storm_cloud_density", "storm_bolt_color",
  "storm_flash_color", "rain_fall_speed", "rain_density", "rain_slant",
  "rain_intensity", "rain_color", "snow_fall_speed", "snow_density",
  "snow_sway", "snow_flake_size", "snow_color", "fire_rise_speed",
  "fire_flame_height", "fire_flame_color", "fire_tip_color", "aurora_speed",
  "aurora_drop", "aurora_ray_freq", "aurora_intensity", "aurora_green",
  "aurora_magenta", "plasma_speed", "plasma_scale", "plasma_saturation",
  "plasma_tint", "water_speed", "water_scale", "water_ripple",
  "water_caustic", "water_caustic_color", "water_deep", "water_shallow",
  "meteor_speed", "meteor_count", "meteor_trail"}

Shared2 == {
  "meteor_intensity", "meteor_color", "meteor_star_color", "moon_size",
  "moon_phase_speed", "moon_texture", "moon_halo", "moon_color",
  "moon_halo_color", "fog_drift", "fog_scale", "fog_thickness",
  "fog_opacity", "fog_color", "mtn_layers", "mtn_peak", "mtn_drift",
  "mtn_haze", "mtn_sky", "mtn_ridge", "mtn_haze_color", "pyramids_density",
  "pyramids_mist", "pyramids_fireflies", "pyramids_drift", "pyramids_sky",
  "pyramids_tree", "pyramids_glow", "ocean_horizon", "ocean_wave_speed",
  "ocean_glint", "ocean_wave_scale", "ocean_sky", "ocean_sea",
  "ocean_glint_color", "sunset_sun_y", "sunset_sun_size", "sunset_glow",
  "sunset_bands", "sunset_sky", "sunset_horizon", "sunset_sun",
  "galaxy_density", "galaxy_nebula", "galaxy_twinkle", "galaxy_tilt",
  "galaxy_core", "galaxy_outer", "galaxy_star", "matrix_density",
  "matrix_speed", "matrix_glow", "matrix_flicker", "matrix_head",
  "matrix_trail", "forest_density", "forest_haze", "forest_fireflies",
  "forest_drift", "forest_sky", "forest_tree", "forest_glow",
  "spinner_style", "card_gradient", "grain", "vignette", "card_blur",
  "spinner_orbit", "spinner_size", "spinner_pulse", "card_shadow_blur",
  "card_shadow_opacity", "accent_breathing", "field_radius",
  "logo_box_radius", "clock_24h", "clock_seconds", "clock_size",
  "clock_style", "clock_format", "clock_tz", "font_weight", "font_scale",
  "fade_ms", "glow_falloff", "nebula_amount", "comet_tail_decay",
  "spinner_ring"}

\* State::apply_pair: the fields it assigns, the palettes and the window apart.
Applied1 == {
  "font", "corner_radius", "card_width", "card_pos", "day_start", "day_end",
  "spinner_speed", "show_clock", "show_kb_layout", "show_battery", "animate",
  "sky_mode", "reduced_motion", "gpu_level", "star_density", "star_twinkle",
  "comet_enabled", "comet_interval", "cloud_amount", "cloud_speed", "sun_x",
  "sun_y", "sun_size", "sun_intensity", "sun_color", "glow_x", "glow_y",
  "day_haze", "star_layers", "star_size", "nebula_speed", "comet_tilt",
  "comet_pause", "comet_width", "cloud_lit", "cloud_shadow",
  "cursor_parallax", "glow_pulse", "synthwave_grid_speed",
  "synthwave_grid_density", "synthwave_grid_perspective",
  "synthwave_grid_glow", "synthwave_sun_size", "synthwave_sun_stripes",
  "synthwave_sun_bloom", "synthwave_horizon", "synthwave_grid_color",
  "synthwave_sky_top", "synthwave_sky_bottom", "storm_lightning_rate",
  "storm_strike_chance", "storm_cloud_density", "storm_bolt_color",
  "storm_flash_color", "rain_fall_speed", "rain_density", "rain_slant",
  "rain_intensity", "rain_color", "snow_fall_speed", "snow_density",
  "snow_sway", "snow_flake_size", "snow_color", "fire_rise_speed",
  "fire_flame_height", "fire_flame_color", "fire_tip_color", "aurora_speed",
  "aurora_drop", "aurora_ray_freq", "aurora_intensity", "aurora_green",
  "aurora_magenta", "plasma_speed", "plasma_scale", "plasma_saturation",
  "plasma_tint", "water_speed", "water_scale", "water_ripple",
  "water_caustic", "water_caustic_color", "water_deep", "water_shallow",
  "meteor_speed", "meteor_count", "meteor_trail"}

Applied2 == {
  "meteor_intensity", "meteor_color", "meteor_star_color", "moon_size",
  "moon_phase_speed", "moon_texture", "moon_halo", "moon_color",
  "moon_halo_color", "fog_drift", "fog_scale", "fog_thickness",
  "fog_opacity", "fog_color", "mtn_layers", "mtn_peak", "mtn_drift",
  "mtn_haze", "mtn_sky", "mtn_ridge", "mtn_haze_color", "pyramids_density",
  "pyramids_mist", "pyramids_fireflies", "pyramids_drift", "pyramids_sky",
  "pyramids_tree", "pyramids_glow", "ocean_horizon", "ocean_wave_speed",
  "ocean_glint", "ocean_wave_scale", "ocean_sky", "ocean_sea",
  "ocean_glint_color", "sunset_sun_y", "sunset_sun_size", "sunset_glow",
  "sunset_bands", "sunset_sky", "sunset_horizon", "sunset_sun",
  "galaxy_density", "galaxy_nebula", "galaxy_twinkle", "galaxy_tilt",
  "galaxy_core", "galaxy_outer", "galaxy_star", "matrix_density",
  "matrix_speed", "matrix_glow", "matrix_flicker", "matrix_head",
  "matrix_trail", "forest_density", "forest_haze", "forest_fireflies",
  "forest_drift", "forest_sky", "forest_tree", "forest_glow",
  "spinner_style", "card_gradient", "grain", "vignette", "card_blur",
  "spinner_orbit", "spinner_size", "spinner_pulse", "card_shadow_blur",
  "card_shadow_opacity", "accent_breathing", "field_radius",
  "logo_box_radius", "clock_24h", "clock_seconds", "clock_size",
  "clock_style", "clock_format", "clock_tz", "font_weight", "font_scale",
  "fade_ms", "glow_falloff", "nebula_amount", "comet_tail_decay",
  "spinner_ring"}

\* State::build: the keys that are any text.
Texts == {"wallpaper", "logo", "font", "clock_format", "clock_tz"}

\* State::build: the keys whose text must be a colour.
Colours == {
  "background", "card", "field", "accent", "foreground", "muted",
  "spinner_comet", "spinner_track", "comet_color", "glow_color",
  "error_color", "logo_box", "sun_color", "cloud_lit", "cloud_shadow",
  "synthwave_grid_color", "synthwave_sky_top", "synthwave_sky_bottom",
  "storm_bolt_color", "storm_flash_color", "rain_color", "snow_color",
  "fire_flame_color", "fire_tip_color", "aurora_green", "aurora_magenta",
  "plasma_tint", "water_caustic_color", "water_deep", "water_shallow",
  "meteor_color", "meteor_star_color", "moon_color", "moon_halo_color",
  "fog_color", "mtn_sky", "mtn_ridge", "mtn_haze_color", "pyramids_sky",
  "pyramids_tree", "pyramids_glow", "ocean_sky", "ocean_sea",
  "ocean_glint_color", "sunset_sky", "sunset_horizon", "sunset_sun",
  "galaxy_core", "galaxy_outer", "galaxy_star", "matrix_head",
  "matrix_trail", "forest_sky", "forest_tree", "forest_glow"}

=============================================================================
