SPECIFICATION PromptSpec
CONSTANT MaxPanes = 3
PROPERTY LastCloseCreates
CHECK_DEADLOCK FALSE
