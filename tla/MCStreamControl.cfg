SPECIFICATION ControlLive
CHECK_DEADLOCK FALSE
INVARIANT PipelineThere
PROPERTY KeyframeComes
PROPERTY NotLeftPaused
