\* The user copies something between the paste of the image and that of the text.
SPECIFICATION WinSpec
CONSTANTS
    Commands = {"Toggle", "Stop", "Cancel"}
    MaxSessions = 1
    MaxUnread = 2
    FormattingEnabled = FALSE
INVARIANT NewerCopyWins
CHECK_DEADLOCK FALSE
