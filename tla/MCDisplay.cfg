CONSTANTS
    Width = 1024
    Height = 768
    Pitch = 1024
    CHAR_WIDTH = 8
    CHAR_HEIGHT = 16
    ZOOM_MIN = 1
    ZOOM_MAX = 10
    InitialZoom = 2
    Letters = {"a"}
    Space = " "
    NewLine = "newline"
    Backspace = "backspace"
    Blank = Blank
    Zooms <- UserZooms
    Cursors <- UserCursors
    InvalidZoomMessage <- Message
    FrameBuffer = {}
    UI = 60
    OFFSET = 3
    Coordinates <- ShapeCoordinates
    Sizes = {0, 1, 2, 3, 4}
    Points = {0, 3}
    GridWidth = 5
    GridHeight = 7
    GlyphWidth = 2
    GlyphHeight = 2
    GridZoom = 1
    GridCursors <- Corners
SPECIFICATION DisplaySpec
INVARIANTS TextsAreSeen PicturesAreWhole ShapesAreClipped
PROPERTIES WritingStaysOnScreen OneGlyphBringsCursorBack PixelsShowTextGrid
CHECK_DEADLOCK FALSE
