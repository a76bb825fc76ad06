\* One control used, of every tab, after any scene was installed, and presets
\* and saved files loaded over it in any order.
SPECIFICATION Spec
CONSTANTS
  MaxEdits = 1
  NoFile = NoFile
INVARIANTS
  PreviewCurrent
  GreeterShowsPreview
  PresetRestores
