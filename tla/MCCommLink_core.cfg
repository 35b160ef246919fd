\* Both devices enabled or none, no tolerance and a counter that
\* wraps after the alarm; a ring of three frames and one reading past its end.
SPECIFICATION LinkSpec
CONSTANTS
    JdgCnt = 0
    CountWidth = 3
    Enables <- NoneOrAll
    CAN_RX_NUM = 3
    Width = 4
INVARIANTS
    LinkTypeOK
    LossIsSilence
    FramesCounted
PROPERTIES
    ReturnStarts
    LossStops
    SilentEmuLost
