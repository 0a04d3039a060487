SPECIFICATION FormSpec
CONSTANTS
    Keys = {"k1", "k2"}
    Unset = Unset
    Blank = Blank
    Unticked = Unticked
    Ticked = Ticked
    TickedText = "c"
    Strings = {"a", "b", "c"}
    Formatted = {"b"}
    TooLong = {"c"}
    Odd = {one, empty}
    one = one
    empty = empty
    Rendering <- MCRendering
    Forms <- MCForms
INVARIANTS
    OnlyShownIsRequired
CHECK_DEADLOCK FALSE
