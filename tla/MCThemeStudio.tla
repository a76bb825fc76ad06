---- MODULE MCThemeStudio ----
EXTENDS ThemeStudio
====
