SPECIFICATION Spec
CONSTANTS
  Endpoints = {e1}
  Sessions = {1, 2}
  ApiSays = {"timer", "yes"}
  NoQuestion = NoQuestion
  NoSpeaker = NoSpeaker
  MaxFailed = 2
  ReviewLimit = 2
  \* hearing
  MaxFrames = 3
  MaxLoads = 2
  \* the AI node
  CoreUrl = CoreUrl
  StaticUrl = StaticUrl
  NoUrl = NoUrl
  MaxAiTurns = 2
  \* recordings
  Heard = {1, 2}
  ChunkBytes = {2, 3}
  Frame = 2
  Preroll = 5
  MaxBytes = 7
  VadMarks = {0, 1, 2}
  MaxDay = 2
  \* uploads
  Boards = {"local", "advisory"}
  Uploads = {"http", "socket"}
  MaxCaptures = 2
  MaxHeard = 2
  MaxPosts = 1
  MaxAsks = 1
INVARIANT
  AnswersAreHeard
CHECK_DEADLOCK FALSE
