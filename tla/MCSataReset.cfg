SPECIFICATION ResetSpec
CONSTANTS
    QueueSize = 2
    FullAt = 2
PROPERTIES
    PostedIsTaken
