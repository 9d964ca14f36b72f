CONSTANTS
  Mods = {m1}
  Advertised = {}
  Attempts = {a1}
  Script = script
  Fetches = {f1}
  Downloads = {d1, d2}
SPECIFICATION Spec
PROPERTIES DoneMeansInstalled
