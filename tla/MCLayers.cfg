\* Up to two windows that overlap, and a cursor with a transparent pixel.
SPECIFICATION MCSpec
CONSTANTS
    Width = 3
    Height = 2
    MouseShape <- MCMouseShape
    MouseWidth = 2
    MouseHeight = 1
    TitleBar = 1
    Sizes <- MCSizes
    Places <- MCPlaces
    Moves <- MCMoves
    MaxClicks = 2
    MaxRel = 2
    MaxLayer = 3
INVARIANTS
    StackSound
    ScreenExact
    WindowsStayVisible
PROPERTIES
    PressHitsVisible
