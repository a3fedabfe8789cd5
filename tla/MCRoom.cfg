SPECIFICATION FairRoomSpec
CONSTANTS
  Threads = {h1, h2}
  Devices = {"d1", "d2"}
  Releases = {"v1", "v2"}
  MaxEdits = 3
  Offers <- Assets
  MaxRequests = 3
  MaxLapses = 6
  Sources = {"assistant", "airplay", "music"}
  Volumes = {2, 4}
  MaxChanges = 5
  MaxDumpFailures = 1
  MaxCallFailures = 1
  MaxRestarts = 1
  MaxStarts = 3
  MaxFaults = 3
  Phones = {"p1", "p2"}
  MaxModules = 3
  MaxEvents = 4
  Reported = {"music", "assistant"}
  MaxTurns = 3
  MaxReportFaults = 2
INVARIANTS
  TypesOK
  OnePlayback
  FocusMatchesSpeech
  VolumesFollow
  SoundWasAccepted
  
  ReportsAreShown

  
CHECK_DEADLOCK FALSE
