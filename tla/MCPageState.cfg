SPECIFICATION PageSpec
CONSTANTS
    Widths = {1, 2}
    Rects <- MCRects
    Cursors = {pointer, hand}
    Statuses = {200, 404}
    MaxPaints = 2
SYMMETRY MCCursorSymmetry
INVARIANTS PageTypeOK PopupWhole NothingKeptBack
