CONSTANTS
  s1 = s1
  s2 = s2
  m1 = m1
  m2 = m2
  Shell <- TwoShells
  Project <- Projects
  Model <- Models
  ModelId <- Ids
  Soc <- Letters
  Tree <- Trees
  Extracted <- PcVersion
  Torn <- TornFiles
  MaxCommands = 2
SPECIFICATION Spec
INVARIANTS SilenceMeansRight SecondTimeRight
PROPERTIES NewShellRight LinkRight
SYMMETRY EitherShell
