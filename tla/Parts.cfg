SPECIFICATION Spec
CONSTANTS
  Tick = 2
  WrapBits = 5
  Delta = 8
  Tenth = 3
  ErrorLimit = 40
  FrameStep = 4
  RawDts = {0, 9, 30}
  Formats <- MCFormats
  MaxPackets = 3
  PktTick = 2
  OutTick = 1
  SampleTick = 3
  PktDts = {0, 1, 5}
  MuxFormats <- MCMuxFormats
  MaxWritten = 4
  Second = 60
  FrameTick = 5
  CodecTick = 0
  AverageTick = 7
  FramePts = {0, 1, 5}
  SampleRates = {2, 3, 10}
  MaxRate = 40
  CommonRate = 60
  MaxFrames = 4
  FrameSizes = {0, 3, 4}
  Sizes = {1, 2, 3, 5, 8}
  MaxSamples = 14
  Methods = {"cfr", "vfr", "vscfr", "passthrough"}
  Gaps <- MCGaps
  Durations = {0, 1, 4}
  MaxIn = 4
  MaxOut = 12
  Inputs = {1, 2}
  FrameKinds <- MCKinds
  Fallbacks = {0, 1}
  MaxFed = 3
  Files <- MCFiles
  Graphs <- MCGraphs
  Outputs <- MCOutputs
  Tables <- MCTables
  Specifiers <- MCSpecifiers
  Numbers <- MCNumbers
  Dicts <- MCDicts
  ChapterSets <- MCChapterSets
  Mappings <- MCMappings
  UserTags <- MCUserTags
  Windows <- MCWindows
  Instants = {0, 1, 2, 3, 4, 5, 6, 7, 8, 9}
  Accels <- MCAccels
  Configs <- MCConfigs
  FormatLists <- MCFormatLists
  Devices <- MCDevices
  Decoders = {d1, d2}
  Working = {"cuda", "vaapi"}
  FlvHeaderLen = 2
  TagHeaderLen = 3
  PreviousTagSizeLen = 2
  CapacityBits = 6
  InitialCapacity = 8
  TagSizes = {0, 1, 4}
  NumTags = 3
  MaxPiece = 9
  StreamKeys = {"a"}
  UniqueKeys = TRUE
  OnePlay = TRUE
  RtmpCases <- MCRtmpCases
  Byte = 4
  Segment = 4
  DescriptorLen = 2
  ClaimAsks <- MCClaimAsks
  FileAsks <- MCFileAsks
  Unset = 99
  KeyConfigs <- MCKeyConfigs
  XxHash <- MCXxHash
  MaxTokens = 1
  MaxTokenTime = 4
  MaxKeys = 2
  KeyLists <- MCKeyLists
  SegmentLength = 2
  SegmentCount = 1
  Blocks = 2
  MaxIter = 2
  ServeCases <- MCServeCases
  NumSegments = 1
  ByteRanges <- MCByteRanges
  ServeBuckets = {"mine", "other"}
  OddWidths = {7}
  NotGiven = 99
  U16 = 16
  U64 = 64
INVARIANTS
  DemuxTimesHold WritesInOrder  SamplesKept FramesPaced 
  BindingsRight SpecifierMeans MetadataRight DeviceFits TagsInOrder  
   
CHECK_DEADLOCK FALSE
