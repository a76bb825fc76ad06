----------------------------- MODULE ThemeStudio -----------------------------
(***************************************************************************)
(* door-settings, the theme studio, with the theme files it reads and      *)
(* writes, and the theme the greeter and the lock screen make of the       *)
(* installed one (door-theme/src/lib.rs).                                  *)
(*                                                                         *)
(* A theme is sparse: the pairs <<key, value>> in which it differs from    *)
(* the built-in theme of its variant.  A value of a draft is "own", a      *)
(* setting like any other, or "text", typed and neither a colour nor a     *)
(* number, or "huge", a number, or "odd", free text (a font's name, a      *)
(* path), that Rust prints in a form TOML does not have, or a scene's name *)
(* for the key sky_mode.  In a file "broken" is what such a print is.      *)
(***************************************************************************)
EXTENDS Naturals, FiniteSets, ThemeKeys, StudioPanel

CONSTANTS
  MaxEdits,  \* bound: controls used
  NoFile     \* the content of a file that is not there

\* What a key may be set to, and a day window.
Settings == {"own", "text", "huge", "odd"} \cup AllScenes
Windows == {"stock", "own", "text", "odd"}

\* How `{}` prints a number and `{:?}` a text: NaN and 1e20 are no numbers of
\* TOML, and \u{a0}, for a character Rust does not print as it is, no escape.
Unprintable == {"huge", "odd"}
Printed(v) == IF v \in Unprintable THEN "broken" ELSE v
PrintedPairs(pairs) == {<<p[1], Printed(p[2])>> : p \in pairs}

\* What a file may have for a key, and for the window.
Stored(values) == (values \ Unprintable) \cup {"broken"}

\* A file, as its keys by the table they are in, and its day window.  It may
\* have one that is no key of a theme.
Files == [
  top    : SUBSET ((FileKeys1 \cup FileKeys2 \cup {"acent"})
                     \X Stored(Settings)),
  day    : SUBSET (DayFileKeys \X Stored(Settings)),
  window : Stored(Windows)]

\* A draft, as the settings of each palette and those of both variants.
Drafts == [
  night  : SUBSET (PaletteKeys \X Settings),
  day    : SUBSET (PaletteKeys \X Settings),
  shared : SUBSET ((Shared1 \cup Shared2) \X Settings),
  window : Windows]

ASSUME StudioAssumption == MaxEdits \in Nat /\ NoFile \notin Files \cup Drafts

VARIABLES
  draft,     \* State: the palettes, the shared settings, the day window
  day,       \* State::editing_day
  preview,   \* State::preview
  files,     \* the installed theme, the user's preset, the exported theme
  saved,     \* history: for each file the draft the studio wrote there
  edits

vars == <<draft, day, preview, files, saved, edits>>

Places == {"etc", "preset", "export"}
Keep(pairs, keys) == {p \in pairs : p[1] \in keys}
Drop(pairs, keys) == {p \in pairs : p[1] \notin keys}
Put(pairs, k, v)  == Drop(pairs, {k}) \cup {<<k, v>>}

-----------------------------------------------------------------------------
(***************************************************************************)
(* Themes, and the files they are read from and written to.                *)
(***************************************************************************)
FileKeys == FileKeys1 \cup FileKeys2
Written  == Written1 \cup Written2 \cup Written3
Shared   == Shared1 \cup Shared2

Merged == Merged1 \cup Merged2

StructuralShort ==  \* mutant: one forgotten
  Structural1 \cup (Structural2 \ {"font_scale"})
Structural == Structural1 \cup Structural2

AppliedShort == Applied1 \cup (Applied2 \ {"grain"})  \* mutant: one forgotten
Applied == Applied1 \cup Applied2

\* The keys whose built-in values differ between Theme::default and day.
StockDiffers == {
  "background", "card", "accent", "foreground", "muted", "field",
  "spinner_glow", "spinner_comet", "spinner_track", "spinner_trail",
  "comet_color", "glow_color", "sky_glow", "error_color"}

\* A shared setting at its stock value is at it in both variants.
ASSUME StockAgrees == StockDiffers \cap Shared = {}

\* A file parses when it has no unknown key and every value is TOML.
Parses(f) ==
  /\ \A p \in f.top : p[1] \in FileKeys /\ p[2] # "broken"
  /\ \A p \in f.day : p[1] \in DayFileKeys /\ p[2] # "broken"
  /\ f.window # "broken"

\* A missing or malformed file is one without keys.
Blank == [top |-> {}, day |-> {}, window |-> "stock"]
Read(f) == IF f = NoFile THEN Blank ELSE IF Parses(f) THEN f ELSE Blank

\* Overlaying a file's keys; a colour that does not parse keeps the default.
Overlay(pairs, keys) == {p \in pairs : p[1] \in keys /\ p[2] # "text"}

Night(f) == [is_day |-> FALSE, own |-> Overlay(f.top, Merged)]
Day(f)   == [is_day |-> TRUE, own |-> Overlay(f.top, Structural)
                                        \cup Overlay(f.day, DayMerged)]
Theme(f, d) == IF d THEN Day(f) ELSE Night(f)

\* A window that is no time of day reads as the default one.
Window(f) == IF f.window = "text" THEN "stock" ELSE f.window

ScenesIn(pairs) == {s \in AllScenes : <<"sky_mode", s>> \in pairs}
Scene(pairs) ==
  IF ScenesIn(pairs) = {} THEN "auto" ELSE CHOOSE s \in ScenesIn(pairs) : TRUE

\* SkyMode::resolved: the seasonal scene by month.
Resolved(s, month) ==
  IF s # "seasonal" THEN s
  ELSE IF month \in 3..5 THEN "rain"
  ELSE IF month \in 6..8 THEN "meteor"
  ELSE IF month \in 9..11 THEN "fog" ELSE "snow"

\* SkyMode::prefers_day: the variant an explicit scene pins, if it does.
Follows(s) == s \in {"auto", "seasonal", "solid"}
Variant(s, inWindow) == IF Follows(s) THEN inWindow ELSE s = "day"

\* Theme::apply_reduced_motion.
Motion == {"animate", "accent_breathing", "grain", "cursor_parallax",
  "glow_pulse", "fade_ms", "spinner_speed", "spinner_pulse", "star_twinkle",
  "comet_enabled"}

Still(t) ==
  IF <<"reduced_motion", "own">> \in t.own
    THEN [t EXCEPT !.own = Drop(@, Motion) \cup (Motion \X {"still"})]
    ELSE t

Shows(t, s) == [t EXCEPT !.own = Put(@, "sky_mode", s)]

\* Three times of day: in the stock window, in both, in the draft's own.
Times == {"morning", "noon", "evening"}
InWindow(w, t) == t = "noon" \/ t = (IF w = "own" THEN "evening" ELSE "morning")

\* Theme::load_at: what the greeter and the lock screen show.
LoadAt(f, t, month) ==
  LET r == Read(f)
      s == Resolved(Scene(r.top), month)
  IN  Still(Shows(Theme(r, Variant(s, InWindow(Window(r), t))), s))

-----------------------------------------------------------------------------
(***************************************************************************)
(* The studio's state.                                                     *)
(***************************************************************************)

\* State::build of one variant: a colour or number it cannot read is an error.
Builds(d, v) ==
  \A p \in (IF v THEN d.day ELSE d.night) \cup d.shared : p[2] # "text"
Build(d, v) ==
  [is_day |-> v, own |-> (IF v THEN d.day ELSE d.night) \cup d.shared]

\* State::rebuild_preview.
Preview(d, v) ==
  Still(IF Builds(d, v) THEN Build(d, v) ELSE [is_day |-> v, own |-> {}])

\* Theme::render_pair of both variants.
Render(d) == [top    |-> PrintedPairs(Keep(d.night \cup d.shared, Written)),
              day    |-> PrintedPairs(Keep(d.day, DayWritten)),
              window |-> Printed(d.window)]

\* Theme::load_pair and parse_pair, with Palette::from_theme and the fields
\* that are assigned to d.
Loaded(d, r, fields) ==
  [night  |-> Keep(Night(r).own, PaletteKeys),
   day    |-> Keep(Day(r).own, PaletteKeys),
   shared |-> Keep(Night(r).own, fields) \cup Drop(d.shared, fields),
   window |-> Window(r)]

Pristine == [night |-> {}, day |-> {}, shared |-> {}, window |-> "stock"]
New(f) == Loaded(Pristine, Read(f), Shared)  \* State::new

\* What the studio may find installed: no theme, one with a scene, one whose
\* accent is no colour, one that does not parse.
Handwritten ==
  {[Blank EXCEPT !.top = {<<"sky_mode", s>>}] : s \in AllScenes \ {"auto"}}
    \cup {[Blank EXCEPT !.top = {<<"accent", "text">>}],
          [Blank EXCEPT !.top = {<<"acent", "own">>}]}

\* A preset of the package.
Packaged ==
  [top |-> {<<"sky_mode", "sunset">>, <<"sunset_glow", "own">>,
            <<"accent", "own">>, <<"grain", "own">>},
   day |-> {<<"accent", "own">>}, window |-> "own"]

Init ==
  \E f \in Handwritten \cup {NoFile} :
    /\ files = [p \in Places |-> IF p = "etc" THEN f ELSE NoFile]
    /\ draft = New(f) /\ day \in BOOLEAN /\ preview = Preview(New(f), day)
    /\ saved = [p \in Places |-> NoFile] /\ edits = 0

Rebuild == preview' = Preview(draft', day')

-----------------------------------------------------------------------------
(***************************************************************************)
(* `update`, one message at a time.                                        *)
(***************************************************************************)

\* What a control can leave behind: typed text need not be what it should be,
\* and where any text will do it may have characters of any kind.
Values(k) ==
  IF k \in Colours THEN {"own", "text"}
  ELSE IF k \in Texts THEN {"own", "odd"}
  ELSE IF k \in {"corner_radius", "card_width"} THEN {"own", "text", "huge"}
  ELSE {"own"}

Changes ==
  edits < MaxEdits /\ edits' = edits + 1 /\ UNCHANGED <<day, files, saved>>

\* A control of the palettes changes the variant being edited, a control of
\* the rest changes both.
Edit ==
  /\ Changes
  /\ \E k \in Offered(Scene(draft.shared)) : \E v \in Values(k) :
       draft' = IF k \notin PaletteKeys
                  THEN [draft EXCEPT !.shared = Put(@, k, v)]
                ELSE IF day THEN [draft EXCEPT !.day = Put(@, k, v)]
                ELSE [draft EXCEPT !.night = Put(@, k, v)]
  /\ Rebuild

PickScene ==
  /\ Changes
  /\ \E s \in Pickable(Scene(draft.shared)) :
       draft' = [draft EXCEPT !.shared = IF s = "auto"
                   THEN Drop(@, {"sky_mode"}) ELSE Put(@, "sky_mode", s)]
  /\ Rebuild

EditWindow ==
  /\ Changes
  /\ \E w \in Windows \ {"stock"} : draft' = [draft EXCEPT !.window = w]
  /\ Rebuild

EditDayQuietly ==  \* mutant of EditDay: counted among the view's messages
  day' = ~day /\ UNCHANGED <<draft, preview, files, saved, edits>>

EditDay ==
  day' = ~day /\ UNCHANGED <<draft, files, saved, edits>> /\ Rebuild

\* write_draft, and the two exports: both variants must build.
Writes(p) ==
  /\ Builds(draft, FALSE) /\ Builds(draft, TRUE)
  /\ files' = [files EXCEPT ![p] = Render(draft)]
  /\ saved' = [saved EXCEPT ![p] = draft]
  /\ UNCHANGED <<draft, day, edits>>

\* Saving rebuilds the preview, the others do not; none changes the draft.
\* A cancelled pkexec, or a draft that does not build, is only reported.
Save == Writes("etc") /\ Rebuild
SavePreset == Writes("preset") /\ UNCHANGED preview
ExportPreset == Writes("export") /\ UNCHANGED preview

\* A file that parses replaces the draft.
Takes(f) ==
  /\ f # NoFile /\ Parses(f)
  /\ draft' = Loaded(draft, f, Applied)
  /\ UNCHANGED <<day, files, saved, edits>> /\ Rebuild

PickPreset == Takes(files["preset"]) \/ Takes(Packaged)
ImportPreset == Takes(files["export"])

\* State::new again, but for the variant being edited.
Reset ==
  /\ draft' = New(files["etc"])
  /\ UNCHANGED <<day, files, saved, edits>> /\ Rebuild

Next ==
  \/ Edit \/ PickScene \/ EditWindow \/ EditDay
  \/ Save \/ SavePreset \/ ExportPreset
  \/ PickPreset \/ ImportPreset \/ Reset

Spec == Init /\ [][Next]_vars

-----------------------------------------------------------------------------
(***************************************************************************)
(* Properties.                                                             *)
(***************************************************************************)

\* Every setting of a draft is of the palette or the part of the draft it
\* belongs to, and whatever the studio reads or writes is a theme file.
TypeOK ==
  /\ draft \in Drafts /\ day \in BOOLEAN /\ edits \in 0..MaxEdits
  /\ files \in [Places -> Files \cup {NoFile}]
  /\ saved \in [Places -> Drafts \cup {NoFile}]

\* The studio previews the draft and the variant on the screen, with motion
\* stilled where it asks for that, or the built-in theme while a value cannot
\* be read: after every message, those that skip the rebuild included.
PreviewCurrent == preview = Preview(draft, day)

\* What the studio can write and read back: numbers and texts whose prints are
\* TOML, and a day window that is one.
Representable(d) ==
  /\ \A p \in d.night \cup d.day \cup d.shared : p[2] \notin Unprintable
  /\ d.window \notin {"text"} \cup Unprintable

\* "What door-settings writes must parse back to the same theme" (a test of
\* door-theme).  Whatever was installed before, the greeter shows of a saved
\* draft what the studio previews of it, at every time of day and in every
\* season, in the variant its own window and scene call for: no key is lost
\* between the five places that list them.  A draft with a value that is no
\* TOML once printed is left out: the studio saves it all the same, and the
\* greeter ignores the whole file.
GreeterShowsPreview ==
  LET d == saved["etc"]
  IN  (d # NoFile /\ Representable(d)) =>
        \A t \in Times, month \in {1, 4, 7, 10} :
          LET s == Resolved(Scene(d.shared), month)
          IN  LoadAt(files["etc"], t, month) =
                Shows(Preview(d, Variant(s, InWindow(d.window, t))), s)

\* Loading a preset or an exported theme brings back the draft it was saved
\* from, whatever is being edited, if the draft could be printed as TOML.
PresetRestores ==
  \A p \in {"preset", "export"} :
    (saved[p] # NoFile /\ Representable(saved[p])) =>
      (Parses(files[p]) /\ Loaded(draft, files[p], Applied) = saved[p])
=============================================================================
