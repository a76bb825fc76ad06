-------------------------- MODULE ThemeStudioProofs --------------------------
(***************************************************************************)
(* Proofs about ThemeStudio, for any number of edits: that the preview is  *)
(* the draft's, that a saved draft is what the greeter shows, and that a   *)
(* preset brings its draft back.  The facts the three rest on are those of *)
(* the lists of keys in ThemeKeys and StudioPanel, which the code keeps by *)
(* hand in eight places: no key of one is forgotten in another.            *)
(***************************************************************************)
EXTENDS ThemeStudio, TLAPS

-----------------------------------------------------------------------------
(***************************************************************************)
(* The lists of keys.                                                      *)
(***************************************************************************)

\* What render_pair writes, ThemeFile and DayThemeFile know.
LEMMA KeysWritten ==
  /\ Written \subseteq FileKeys
  /\ DayWritten \subseteq DayFileKeys
BY DEF Written, Written1, Written2, Written3, FileKeys, FileKeys1, FileKeys2,
       DayWritten, DayFileKeys

\* What the variants share is written, overlaid by both variants' loaders,
\* and restored from a preset.
LEMMA KeysShared ==
  /\ Shared \subseteq Written
  /\ Shared \subseteq Merged
  /\ Shared \subseteq Structural
  /\ Shared \subseteq Applied
<1>1. Shared \subseteq Written
  BY DEF Shared, Shared1, Shared2, Written, Written1, Written2, Written3
<1>2. Shared \subseteq Merged
  BY DEF Shared, Shared1, Shared2, Merged, Merged1, Merged2
<1>3. Shared \subseteq Structural
  BY DEF Shared, Shared1, Shared2, Structural, Structural1, Structural2
<1>4. Shared \subseteq Applied
  BY DEF Shared, Shared1, Shared2, Applied, Applied1, Applied2
<1> QED
  BY <1>1, <1>2, <1>3, <1>4

\* What each variant has of its own is written and overlaid in both tables.
LEMMA KeysPalette ==
  /\ PaletteKeys \subseteq Written
  /\ PaletteKeys \subseteq Merged
  /\ PaletteKeys \subseteq DayWritten
  /\ PaletteKeys \subseteq DayMerged
  /\ DayMerged \subseteq PaletteKeys
<1>1. PaletteKeys \subseteq Written
  BY DEF PaletteKeys, Written, Written1, Written2, Written3
<1>2. PaletteKeys \subseteq Merged
  BY DEF PaletteKeys, Merged, Merged1, Merged2
<1> QED
  BY <1>1, <1>2 DEF PaletteKeys, DayWritten, DayMerged

\* The night's palette does not reach the day, nor a palette the settings of
\* both; whatever a preset sets of those, the studio keeps among them.
LEMMA KeysApart ==
  /\ \A k \in PaletteKeys : k \notin Structural
  /\ \A k \in PaletteKeys : k \notin Applied
  /\ \A k \in PaletteKeys : k \notin Shared
  /\ Merged \cap Applied \subseteq Shared
<1>1. \A k \in PaletteKeys : k \notin Structural
  BY DEF PaletteKeys, Structural, Structural1, Structural2
<1>2. \A k \in PaletteKeys : k \notin Applied
  BY DEF PaletteKeys, Applied, Applied1, Applied2
<1>3. Merged \cap Applied \subseteq Shared
  BY DEF Merged, Merged1, Merged2, Applied, Applied1, Applied2,
         Shared, Shared1, Shared2
<1> QED
  BY <1>1, <1>2, <1>3, KeysShared

\* The scene is shared, and no setting that reduced motion stills.
LEMMA KeyOfScene ==
  "sky_mode" \in Shared /\ "sky_mode" \notin Motion
BY DEF Shared, Shared1, Shared2, Motion

\* Every control of the panel changes a key that has a slot in the draft.
LEMMA KeysOffered == \A s : Offered(s) \subseteq PaletteKeys \cup Shared
<1> SUFFICES ASSUME NEW s PROVE Offered(s) \subseteq PaletteKeys \cup Shared
  OBVIOUS
<1>1. Dials(s) \subseteq Shared
  BY DEF Dials, Shared, Shared1, Shared2, StormDials, RainDials, SnowDials,
         FireDials, AuroraDials, PlasmaDials, WaterDials, MeteorDials,
         MoonDials, FogDials, MountainsDials, PyramidsDials, OceanDials,
         SunsetDials, GalaxyDials, MatrixDials, ForestDials, SynthwaveDials
<1>2. /\ ColorsTab \cup SkyTab \cup SkyAdvanced \cup SpinnerTab \cup CardTab
           \subseteq PaletteKeys \cup Shared
      /\ IndicatorRows \cup ClockRows \cup MotionRows
           \subseteq PaletteKeys \cup Shared
  BY DEF ColorsTab, SkyTab, SkyAdvanced, SpinnerTab, CardTab, IndicatorRows,
         ClockRows, MotionRows, PaletteKeys, Shared, Shared1, Shared2
<1> QED
  BY <1>1, <1>2 DEF Offered

-----------------------------------------------------------------------------
(***************************************************************************)
(* Scenes.                                                                 *)
(***************************************************************************)

\* No scene's name is printed in a form TOML does not have.
LEMMA SceneNames == AllScenes \cap ({"broken"} \cup Unprintable) = {}
<1>1. \A c \in Categories : \A i \in DOMAIN Scenes[c] :
        Scenes[c][i] \notin {"broken", "huge", "odd"}
  BY DEF Scenes, Categories
<1> QED
  BY <1>1 DEF AllScenes, ScenesOf, Unprintable

\* Every category has a first scene, for picking the category to select.
LEMMA FirstOfCategory ==
  /\ \A c \in Categories : Head(Scenes[c]) \in ScenesOf(c)
  /\ {"auto", "sunset"} \subseteq AllScenes
<1>1. /\ DOMAIN Scenes = {"Basics", "Weather", "Celestial", "Landscape",
                         "Stylized"}
      /\ Scenes["Basics"] = <<"auto", "seasonal", "day", "night", "solid">>
      /\ Scenes["Weather"] = <<"storm", "rain", "snow", "fog">>
      /\ Scenes["Celestial"] = <<"aurora", "meteor", "moon", "galaxy">>
      /\ Scenes["Landscape"] =
           <<"mountains", "pyramids", "forest", "ocean", "sunset">>
      /\ Scenes["Stylized"] =
           <<"synthwave", "plasma", "fire", "water", "matrix">>
  BY DEF Scenes
<1>2. \A c \in Categories :
        1 \in DOMAIN Scenes[c] /\ Head(Scenes[c]) = Scenes[c][1]
  BY <1>1 DEF Categories
<1>3. "auto" \in ScenesOf("Basics") /\ "sunset" \in ScenesOf("Landscape")
  <2>1. Scenes["Basics"][1] = "auto" /\ 1 \in DOMAIN Scenes["Basics"]
    BY <1>1
  <2>2. Scenes["Landscape"][5] = "sunset" /\ 5 \in DOMAIN Scenes["Landscape"]
    BY <1>1
  <2> QED
    BY <2>1, <2>2 DEF ScenesOf
<1>4. "Basics" \in Categories /\ "Landscape" \in Categories
  BY <1>1 DEF Categories
<1> QED
  BY <1>2, <1>3, <1>4 DEF ScenesOf, AllScenes

\* What the pickers offer are scenes, and what a draft has for its scene is.
LEMMA ScenesNamed ==
  /\ \A s \in AllScenes : Pickable(s) \subseteq AllScenes
  /\ \A pairs : Scene(pairs) \in AllScenes
<1>1. \A s \in AllScenes : CategoryOf(s) \in Categories
  BY DEF AllScenes, CategoryOf
<1>2. \A s \in AllScenes : Pickable(s) \subseteq AllScenes
  BY <1>1, FirstOfCategory DEF Pickable, AllScenes
<1>3. \A pairs : Scene(pairs) \in AllScenes
  BY FirstOfCategory DEF Scene, ScenesIn
<1> QED
  BY <1>2, <1>3

-----------------------------------------------------------------------------
(***************************************************************************)
(* What is written, read again.                                            *)
(***************************************************************************)

\* A draft's parts are sets of pairs, each key of it where it belongs.
LEMMA DraftPairs ==
  ASSUME NEW d \in Drafts
  PROVE  /\ \A p \in d.night \cup d.day :
              p[1] \in PaletteKeys /\ p[1] \notin Shared /\ p[2] \in Settings
         /\ \A p \in d.shared : p[1] \in Shared /\ p[2] \in Settings
BY KeysApart DEF Drafts, Shared

\* What is printed has the keys of what is written, and values a file may have.
LEMMA PrintPairs ==
  ASSUME NEW keys, NEW values, NEW pairs \in SUBSET (keys \X values)
  PROVE  PrintedPairs(pairs) \in SUBSET (keys \X Stored(values))
<1>1. \A v \in values : Printed(v) \in Stored(values)
  BY DEF Printed, Stored
<1>2. \A p \in pairs : p[1] \in keys /\ p[2] \in values
  OBVIOUS
<1> QED
  BY <1>1, <1>2 DEF PrintedPairs

\* render_pair writes all of a draft: every key has a place in the file.
LEMMA RenderAll ==
  ASSUME NEW d \in Drafts
  PROVE  /\ Render(d).top = PrintedPairs(d.night \cup d.shared)
         /\ Render(d).day = PrintedPairs(d.day)
         /\ Render(d).window = Printed(d.window)
<1>1. Keep(d.night \cup d.shared, Written) = d.night \cup d.shared
  BY DraftPairs, KeysShared, KeysPalette DEF Keep
<1>2. Keep(d.day, DayWritten) = d.day
  BY DraftPairs, KeysPalette DEF Keep
<1> QED
  BY <1>1, <1>2 DEF Render

\* What is written is a theme file.
LEMMA RenderTyped ==
  ASSUME NEW d \in Drafts
  PROVE  Render(d) \in Files
<1>1. d.night \cup d.shared \in SUBSET (FileKeys \X Settings)
  BY KeysShared, KeysPalette, KeysWritten DEF Drafts, Shared
<1>2. d.day \in SUBSET (DayFileKeys \X Settings)
  BY KeysPalette, KeysWritten DEF Drafts
<1>3. Printed(d.window) \in Stored(Windows)
  BY DEF Drafts, Printed, Stored
<1>4. Render(d) = [top |-> PrintedPairs(d.night \cup d.shared),
                   day |-> PrintedPairs(d.day), window |-> Printed(d.window)]
  BY RenderAll DEF Render
<1>5. PrintedPairs(d.night \cup d.shared) \in SUBSET (FileKeys \X Stored(Settings))
  BY <1>1, PrintPairs
<1>6. PrintedPairs(d.day) \in SUBSET (DayFileKeys \X Stored(Settings))
  BY <1>2, PrintPairs
<1>7. PrintedPairs(d.night \cup d.shared)
        \in SUBSET ((FileKeys1 \cup FileKeys2 \cup {"acent"}) \X Stored(Settings))
  BY <1>5 DEF FileKeys
<1>8. \A top, table, window :
        /\ top \in SUBSET ((FileKeys1 \cup FileKeys2 \cup {"acent"})
                             \X Stored(Settings))
        /\ table \in SUBSET (DayFileKeys \X Stored(Settings))
        /\ window \in Stored(Windows)
        => [top |-> top, day |-> table, window |-> window] \in Files
  BY DEF Files
<1> QED
  BY <1>3, <1>4, <1>6, <1>7, <1>8

\* A draft whose values are TOML as they are printed is written as it is.
LEMMA RenderSame ==
  ASSUME NEW d \in Drafts, Representable(d)
  PROVE  /\ Render(d).top = d.night \cup d.shared
         /\ Render(d).day = d.day
         /\ Render(d).window = d.window
<1>1. /\ d.night \cup d.shared \in SUBSET ((PaletteKeys \cup Shared) \X Settings)
      /\ d.day \in SUBSET (PaletteKeys \X Settings)
  BY DEF Drafts, Shared
<1>2. /\ \A p \in d.night \cup d.shared : p[2] \notin Unprintable
      /\ \A p \in d.day : p[2] \notin Unprintable
  BY DEF Representable
<1>3. /\ PrintedPairs(d.night \cup d.shared) = d.night \cup d.shared
      /\ PrintedPairs(d.day) = d.day
  <2>1. PrintedPairs(d.night \cup d.shared) = d.night \cup d.shared
    <3>1. \A p \in d.night \cup d.shared : <<p[1], Printed(p[2])>> = p
      BY <1>1, <1>2 DEF Printed
    <3> QED
      BY <3>1 DEF PrintedPairs
  <2>2. PrintedPairs(d.day) = d.day
    <3>1. \A p \in d.day : <<p[1], Printed(p[2])>> = p
      BY <1>1, <1>2 DEF Printed
    <3> QED
      BY <3>1 DEF PrintedPairs
  <2> QED
    BY <2>1, <2>2
<1>4. Printed(d.window) = d.window
  BY DEF Printed, Representable
<1> QED
  BY <1>3, <1>4, RenderAll

\* toml takes that back.
LEMMA RenderParses ==
  ASSUME NEW d \in Drafts, Representable(d)
  PROVE  Parses(Render(d))
<1>1. "broken" \notin Settings /\ d.window # "broken"
  BY SceneNames DEF Settings, Drafts, Windows
<1> QED
  BY <1>1, RenderSame, DraftPairs, KeysShared, KeysPalette, KeysWritten DEF Parses

\* Its night is the draft's, the scene included.
LEMMA RenderNight ==
  ASSUME NEW d \in Drafts, Representable(d), Builds(d, FALSE)
  PROVE  /\ Night(Render(d)) = Build(d, FALSE)
         /\ Night(Render(d)).own = d.night \cup d.shared
<1>1. Overlay(Render(d).top, Merged) = d.night \cup d.shared
  BY RenderSame, DraftPairs, KeysShared, KeysPalette DEF Overlay, Builds
<1> QED
  BY <1>1 DEF Night, Build

\* Its day is the draft's: nothing of the night's palette shows through.
LEMMA RenderDay ==
  ASSUME NEW d \in Drafts, Representable(d), Builds(d, TRUE)
  PROVE  /\ Day(Render(d)) = Build(d, TRUE)
         /\ Day(Render(d)).own = d.day \cup d.shared
<1>1. Overlay(Render(d).top, Structural) = d.shared
  BY RenderSame, DraftPairs, KeysShared, KeysApart DEF Overlay, Builds
<1>2. Overlay(Render(d).day, DayMerged) = d.day
  BY RenderSame, DraftPairs, KeysPalette DEF Overlay, Builds
<1> QED
  BY <1>1, <1>2 DEF Day, Build

\* Its scene is the draft's, since no palette has one.
LEMMA RenderScene ==
  ASSUME NEW d \in Drafts, Representable(d)
  PROVE  Scene(Render(d).top) = Scene(d.shared)
<1>1. \A s : <<"sky_mode", s>> \notin d.night
  BY DraftPairs, KeyOfScene
<1>2. ScenesIn(Render(d).top) = ScenesIn(d.shared)
  BY <1>1, RenderSame DEF ScenesIn
<1> QED
  BY <1>2 DEF Scene

\* Applying a preset's file over any draft brings back the draft saved in it.
LEMMA RenderRestores ==
  ASSUME NEW d \in Drafts, NEW e \in Drafts, Representable(d),
         Builds(d, FALSE), Builds(d, TRUE)
  PROVE  Loaded(e, Render(d), Applied) = d
<1>1. Keep(Night(Render(d)).own, PaletteKeys) = d.night
  <2>1. Night(Render(d)).own = d.night \cup d.shared
    BY RenderNight
  <2> QED
    BY <2>1, DraftPairs, KeysApart DEF Keep
<1>2. Keep(Day(Render(d)).own, PaletteKeys) = d.day
  <2>1. Day(Render(d)).own = d.day \cup d.shared
    BY RenderDay
  <2> QED
    BY <2>1, DraftPairs, KeysApart DEF Keep
<1>3. /\ Keep(Night(Render(d)).own, Applied) = d.shared
      /\ Drop(e.shared, Applied) = {}
  <2>1. Night(Render(d)).own = d.night \cup d.shared
    BY RenderNight
  <2>2. Keep(Night(Render(d)).own, Applied) = d.shared
    BY <2>1, DraftPairs, KeysApart, KeysShared DEF Keep
  <2>3. Drop(e.shared, Applied) = {}
    BY DraftPairs, KeysShared DEF Drop
  <2> QED
    BY <2>2, <2>3
<1>4. Window(Render(d)) = d.window
  BY RenderSame DEF Window, Representable
<1>5. d = [night |-> d.night, day |-> d.day, shared |-> d.shared,
           window |-> d.window]
  BY DEF Drafts
<1> QED
  BY <1>1, <1>2, <1>3, <1>4, <1>5 DEF Loaded

\* Reduced motion stills the same settings whichever scene is resolved.
LEMMA StillShows ==
  ASSUME NEW v, NEW own, NEW s
  PROVE  Still(Shows([is_day |-> v, own |-> own], s))
           = Shows(Still([is_day |-> v, own |-> own]), s)
<1>1. <<"reduced_motion", "own">> \in Put(own, "sky_mode", s)
        <=> <<"reduced_motion", "own">> \in own
  BY DEF Put, Drop
<1>2. Drop(Put(own, "sky_mode", s), Motion) \cup (Motion \X {"still"})
        = Put(Drop(own, Motion) \cup (Motion \X {"still"}), "sky_mode", s)
  BY KeyOfScene DEF Put, Drop
<1> QED
  BY <1>1, <1>2 DEF Still, Shows

\* The greeter, or the lock screen, of the draft it reads a file of.
LEMMA RenderShown ==
  ASSUME NEW d \in Drafts, Builds(d, FALSE), Builds(d, TRUE),
         Representable(d), NEW t, NEW month
  PROVE  LET s == Resolved(Scene(d.shared), month)
         IN  LoadAt(Render(d), t, month) =
               Shows(Preview(d, Variant(s, InWindow(d.window, t))), s)
<1> DEFINE s == Resolved(Scene(d.shared), month)
           v == Variant(s, InWindow(d.window, t))
<1>1. Read(Render(d)) = Render(d)
  BY RenderTyped, RenderParses, StudioAssumption DEF Read
<1>2. Scene(Render(d).top) = Scene(d.shared)
  BY RenderScene
<1>3. Window(Render(d)) = d.window
  BY RenderSame DEF Window, Representable
<1>4. Theme(Render(d), v) = Build(d, v)
  <2>1. v \in BOOLEAN
    BY DEF Variant, InWindow
  <2>2. CASE v = TRUE
    BY <2>2, RenderDay DEF Theme
  <2>3. CASE v = FALSE
    BY <2>3, RenderNight DEF Theme
  <2> QED
    BY <2>1, <2>2, <2>3
<1>5. Preview(d, v) = Still(Build(d, v))
  BY DEF Preview, Builds
<1>6. Still(Shows(Build(d, v), s)) = Shows(Still(Build(d, v)), s)
  BY StillShows DEF Build
<1> QED
  BY <1>1, <1>2, <1>3, <1>4, <1>5, <1>6 DEF LoadAt

-----------------------------------------------------------------------------
(***************************************************************************)
(* Type correctness: a draft keeps every setting where it belongs.         *)
(***************************************************************************)

\* Putting a setting where it belongs.
LEMMA PutTyped ==
  ASSUME NEW keys, NEW pairs \in SUBSET (keys \X Settings),
         NEW k \in keys, NEW v \in Settings
  PROVE  Put(pairs, k, v) \in SUBSET (keys \X Settings)
BY DEF Put, Drop

\* Reading any file that parses, over any draft.
LEMMA LoadedTyped ==
  ASSUME NEW d \in Drafts, NEW f \in Files, Parses(f),
         NEW fields \in {Applied, Shared}
  PROVE  Loaded(d, f, fields) \in Drafts
<1>0. /\ f.top \subseteq (FileKeys \cup {"acent"}) \X Settings
      /\ f.day \subseteq DayFileKeys \X Settings
  BY DEF Files, FileKeys, Stored, Parses
<1>1. Keep(Night(f).own, PaletteKeys) \in SUBSET (PaletteKeys \X Settings)
  BY <1>0 DEF Keep, Night, Overlay
<1>2. Keep(Day(f).own, PaletteKeys) \in SUBSET (PaletteKeys \X Settings)
  BY <1>0 DEF Keep, Day, Overlay
<1>3. Keep(Night(f).own, fields) \in SUBSET (Shared \X Settings)
  <2>1. Night(f).own = Overlay(f.top, Merged)
    BY DEF Night
  <2>2. f.top \subseteq (FileKeys \cup {"acent"}) \X Settings
    BY <1>0
  <2>3. Merged \cap fields \subseteq Shared
    BY KeysApart
  <2> QED
    BY <2>1, <2>2, <2>3 DEF Keep, Overlay
<1>4. Drop(d.shared, fields) \in SUBSET (Shared \X Settings)
  BY DEF Drop, Drafts, Shared
<1>5. Window(f) \in Windows
  BY DEF Window, Files, Windows, Stored, Parses
<1> QED
  BY <1>1, <1>2, <1>3, <1>4, <1>5 DEF Loaded, Drafts, Shared

\* What is read of what may be there, and what the studio starts from.
LEMMA NewTyped ==
  /\ \A f \in Files \cup {NoFile} :
       Read(f) \in Files /\ Parses(Read(f)) /\ New(f) \in Drafts
  /\ Handwritten \subseteq Files /\ Packaged \in Files
<1>0. /\ {"own", "text"} \cup AllScenes \subseteq Stored(Settings)
      /\ {"stock", "own"} \subseteq Stored(Windows)
  BY SceneNames DEF Stored, Unprintable, Settings, Windows
<1>1. Blank \in Files /\ Parses(Blank)
  BY <1>0 DEF Blank, Files, Parses
<1>2. Pristine \in Drafts
  BY DEF Pristine, Drafts, Windows
<1>3. \A f \in Files \cup {NoFile} : Read(f) \in Files /\ Parses(Read(f))
  BY <1>1 DEF Read
<1>4. {"sky_mode", "sunset_glow", "accent", "grain"} \subseteq FileKeys
  BY DEF FileKeys, FileKeys1, FileKeys2
<1>5. Handwritten \subseteq Files
  <2>1. \A s \in AllScenes : [Blank EXCEPT !.top = {<<"sky_mode", s>>}] \in Files
    BY <1>0, <1>4 DEF Blank, Files, FileKeys
  <2>2. [Blank EXCEPT !.top = {<<"accent", "text">>}] \in Files
    BY <1>0, <1>4 DEF Blank, Files, FileKeys
  <2>3. [Blank EXCEPT !.top = {<<"acent", "own">>}] \in Files
    BY <1>0 DEF Blank, Files
  <2> QED
    BY <2>1, <2>2, <2>3 DEF Handwritten
<1>6. Packaged \in Files
  <2>1. "accent" \in DayFileKeys
    BY DEF DayFileKeys
  <2> QED
    BY <1>0, <1>4, <2>1, FirstOfCategory DEF Packaged, Files, FileKeys
<1> QED
  BY <1>2, <1>3, <1>5, <1>6, LoadedTyped DEF New

\* What the studio starts with.
LEMMA InitTyped == Init => TypeOK
<1> SUFFICES ASSUME Init PROVE TypeOK
  OBVIOUS
<1>1. PICK f \in Handwritten \cup {NoFile} :
        /\ files = [p \in Places |-> IF p = "etc" THEN f ELSE NoFile]
        /\ draft = New(f)
  BY DEF Init
<1>2. f \in Files \cup {NoFile}
  BY NewTyped
<1> QED
  BY <1>1, <1>2, NewTyped, StudioAssumption DEF Init, TypeOK

\* No message puts a setting where it does not belong.
LEMMA NextTyped == TypeOK /\ [Next]_vars => TypeOK'
<1> SUFFICES ASSUME TypeOK, [Next]_vars PROVE TypeOK'
  OBVIOUS
<1> USE DEF TypeOK
<1>1. CASE Edit
  <2>0. PICK k \in Offered(Scene(draft.shared)) : \E v \in Values(k) :
          draft' = IF k \notin PaletteKeys
                     THEN [draft EXCEPT !.shared = Put(@, k, v)]
                   ELSE IF day THEN [draft EXCEPT !.day = Put(@, k, v)]
                   ELSE [draft EXCEPT !.night = Put(@, k, v)]
    BY <1>1 DEF Edit
  <2>1. PICK v \in Values(k) :
          draft' = IF k \notin PaletteKeys
                     THEN [draft EXCEPT !.shared = Put(@, k, v)]
                   ELSE IF day THEN [draft EXCEPT !.day = Put(@, k, v)]
                   ELSE [draft EXCEPT !.night = Put(@, k, v)]
    BY <2>0
  <2>2. k \in PaletteKeys \cup Shared /\ v \in Settings
    BY KeysOffered DEF Values, Settings
  <2>3. draft' \in Drafts
    <3>1. CASE k \notin PaletteKeys
      <4>1. Put(draft.shared, k, v) \in SUBSET (Shared \X Settings)
        BY <2>2, <3>1, PutTyped DEF Drafts, Shared
      <4> QED
        BY <2>1, <3>1, <4>1 DEF Drafts, Shared
    <3>2. CASE k \in PaletteKeys /\ day
      <4>1. Put(draft.day, k, v) \in SUBSET (PaletteKeys \X Settings)
        BY <2>2, <3>2, PutTyped DEF Drafts
      <4> QED
        BY <2>1, <3>2, <4>1 DEF Drafts
    <3>3. CASE k \in PaletteKeys /\ ~day
      <4>1. Put(draft.night, k, v) \in SUBSET (PaletteKeys \X Settings)
        BY <2>2, <3>3, PutTyped DEF Drafts
      <4> QED
        BY <2>1, <3>3, <4>1 DEF Drafts
    <3> QED
      BY <3>1, <3>2, <3>3
  <2> QED
    BY <1>1, <2>3, StudioAssumption DEF Edit, Changes
<1>2. CASE PickScene
  <2>1. PICK s \in Pickable(Scene(draft.shared)) :
          draft' = [draft EXCEPT !.shared = IF s = "auto"
                      THEN Drop(@, {"sky_mode"}) ELSE Put(@, "sky_mode", s)]
    BY <1>2 DEF PickScene
  <2>2. s \in Settings
    BY ScenesNamed DEF Settings
  <2>3. Put(draft.shared, "sky_mode", s) \in SUBSET (Shared \X Settings)
    BY <2>2, PutTyped, KeyOfScene DEF Drafts, Shared
  <2>4. Drop(draft.shared, {"sky_mode"}) \in SUBSET (Shared \X Settings)
    BY DEF Drop, Drafts, Shared
  <2>5. draft' \in Drafts
    BY <2>1, <2>3, <2>4 DEF Drafts, Shared
  <2> QED
    BY <1>2, <2>5, StudioAssumption DEF PickScene, Changes
<1>3. CASE EditWindow
  <2>1. draft' \in Drafts
    BY <1>3 DEF EditWindow, Drafts, Windows
  <2> QED
    BY <1>3, <2>1, StudioAssumption DEF EditWindow, Changes
<1>4. CASE EditDay
  BY <1>4 DEF EditDay
<1>5. ASSUME NEW p \in Places, Writes(p) PROVE TypeOK'
  <2>1. Render(draft) \in Files
    BY RenderTyped
  <2> QED
    BY <1>5, <2>1 DEF Writes
<1>6. CASE Save
  BY <1>5, <1>6 DEF Save, Places
<1>7. CASE SavePreset
  BY <1>5, <1>7 DEF SavePreset, Places
<1>8. CASE ExportPreset
  BY <1>5, <1>8 DEF ExportPreset, Places
<1>9. ASSUME NEW f \in Files \cup {NoFile}, Takes(f) PROVE TypeOK'
  <2>1. Loaded(draft, f, Applied) \in Drafts
    BY <1>9, LoadedTyped DEF Takes
  <2> QED
    BY <1>9, <2>1 DEF Takes
<1>10. CASE PickPreset
  BY <1>9, <1>10, NewTyped DEF PickPreset, Places
<1>11. CASE ImportPreset
  BY <1>9, <1>11 DEF ImportPreset, Places
<1>12. CASE Reset
  BY <1>12, NewTyped DEF Reset, Places
<1>13. CASE UNCHANGED vars
  BY <1>13 DEF vars
<1> QED
  BY <1>1, <1>2, <1>3, <1>4, <1>6, <1>7, <1>8, <1>10, <1>11, <1>12, <1>13
  DEF Next

\* Whatever is installed, edited, saved, loaded and reset, the studio's draft
\* has each setting in the part that is written and read for it, and the files
\* are theme files: no key is taken for one of another palette.
THEOREM StudioTypeCorrect == Spec => []TypeOK
BY InitTyped, NextTyped, PTL DEF Spec

-----------------------------------------------------------------------------
(***************************************************************************)
(* The preview.                                                            *)
(***************************************************************************)

\* After every message, those that skip the rebuild included, the studio
\* previews the draft and the variant being edited (rebuild_preview).
THEOREM PreviewIsCurrent == Spec => []PreviewCurrent
<1>1. Init => PreviewCurrent
  BY DEF Init, PreviewCurrent
<1>2. PreviewCurrent /\ [Next]_vars => PreviewCurrent'
  <2> SUFFICES ASSUME PreviewCurrent, [Next]_vars PROVE PreviewCurrent'
    OBVIOUS
  <2>1. CASE Rebuild
    BY <2>1 DEF Rebuild, PreviewCurrent
  <2>2. CASE UNCHANGED <<draft, day, preview>>
    BY <2>2 DEF PreviewCurrent
  <2>3. Rebuild \/ UNCHANGED <<draft, day, preview>>
    BY DEF Next, vars, Edit, PickScene, EditWindow, EditDay, Save, SavePreset,
           ExportPreset, Writes, PickPreset, ImportPreset, Takes, Reset
  <2> QED
    BY <2>1, <2>2, <2>3
<1> QED
  BY <1>1, <1>2, PTL DEF Spec

-----------------------------------------------------------------------------
(***************************************************************************)
(* What was saved.                                                         *)
(***************************************************************************)

\* Where the studio has written, there is what it renders of a draft of which
\* both variants could be built.  This is what the two properties of saved
\* files follow from: what `saved` remembers is not otherwise tied to a file.
Kept(p) ==
  saved[p] # NoFile =>
    /\ saved[p] \in Drafts
    /\ Builds(saved[p], FALSE) /\ Builds(saved[p], TRUE)
    /\ files[p] = Render(saved[p])

FilesKept == TypeOK /\ \A p \in Places : Kept(p)

LEMMA FilesKeptInvariant == Spec => []FilesKept
<1>1. Init => FilesKept
  BY InitTyped DEF Init, FilesKept, Kept
<1>2. FilesKept /\ [Next]_vars => FilesKept'
  <2> SUFFICES ASSUME FilesKept, [Next]_vars
               PROVE  \A p \in Places : Kept(p)'
    BY NextTyped DEF FilesKept
  <2>1. CASE UNCHANGED <<files, saved>>
    BY <2>1 DEF FilesKept, Kept
  <2>2. ASSUME NEW q \in Places, Writes(q) PROVE \A p \in Places : Kept(p)'
    BY <2>2 DEF Writes, FilesKept, Kept, TypeOK
  <2>3. UNCHANGED <<files, saved>> \/ \E q \in Places : Writes(q)
    BY DEF Next, vars, Edit, PickScene, EditWindow, Changes, EditDay, Save,
           SavePreset, ExportPreset, PickPreset, ImportPreset, Takes, Reset,
           Places
  <2> QED
    BY <2>1, <2>2, <2>3
<1> QED
  BY <1>1, <1>2, PTL DEF Spec

\* "What door-settings writes must parse back to the same theme": of a draft
\* saved over the installed theme, whatever that was, the greeter and the lock
\* screen (load_at) show what the studio previews, at every time of day and in
\* every season, if its values are TOML as they are printed.
THEOREM GreeterShowsWhatIsPreviewed == Spec => []GreeterShowsPreview
<1>1. FilesKept => GreeterShowsPreview
  <2> SUFFICES ASSUME FilesKept, saved["etc"] # NoFile,
                      Representable(saved["etc"]),
                      NEW t \in Times, NEW month \in {1, 4, 7, 10}
               PROVE  LET d == saved["etc"]
                          s == Resolved(Scene(d.shared), month)
                      IN  LoadAt(files["etc"], t, month) =
                            Shows(Preview(d, Variant(s, InWindow(d.window, t))), s)
    BY DEF GreeterShowsPreview
  <2>1. Kept("etc")
    BY DEF FilesKept, Places
  <2> QED
    BY <2>1, RenderShown DEF Kept
<1> QED
  BY <1>1, FilesKeptInvariant, PTL

\* Loading a preset or an exported theme (load_pair, parse_pair and the fields
\* apply_theme_pair assigns) brings back the draft it was saved from, over
\* whatever draft is being edited.
THEOREM PresetsRestore == Spec => []PresetRestores
<1>1. FilesKept => PresetRestores
  <2> SUFFICES ASSUME FilesKept, NEW p \in {"preset", "export"},
                      saved[p] # NoFile, Representable(saved[p])
               PROVE  /\ Parses(files[p])
                      /\ Loaded(draft, files[p], Applied) = saved[p]
    BY DEF PresetRestores
  <2>1. Kept(p) /\ draft \in Drafts
    BY DEF FilesKept, Places, TypeOK
  <2> QED
    BY <2>1, RenderParses, RenderRestores DEF Kept
<1> QED
  BY <1>1, FilesKeptInvariant, PTL
=============================================================================
