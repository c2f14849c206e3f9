\* Two editors of a page of one character, edited as storage or in the rich
\* editor; one kept change, three events, two answers not shown.
SPECIFICATION FairSpecLive
CONSTANTS
    ana = ana
    ben = ben
    o = o
    m = m
    x = x
    y = y
    Editors <- Both
    Chars <- Typed
    Markup <- Y
    Macros <- M
    SourceOnly <- O
    StartTexts <- TaskOrMacro
    NoText = NoText
    NoCaret = NoCaret
    KeptChanges = 1
    MaxBody = 3
    MaxEvents = 3
    MaxMisses = 2
CHECK_DEADLOCK FALSE
INVARIANT LiveInv
PROPERTY TextLeavesByErasure
PROPERTY EditorsConverge
