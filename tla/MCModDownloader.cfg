\* One mod of the catalogue that an attempt and a script may both download.
CONSTANTS
  Mods = {m1}
  Advertised = {m1}
  Attempts = {a1}
  Script = script
  Fetches = {f1}
  Downloads = {d1, d2}
SPECIFICATION FairSpec
INVARIANTS DownloadsInTurn DownloadedMeansWhole
PROPERTIES KeepsOnlyWhole DownloadEnds PollEnds
