SPECIFICATION Spec
CONSTANTS
  Source = {arxiv, github, hf}
  Paper = {arxiv}
  Arxiv = arxiv
  Github = {github}
  Hf = {hf}
  Lanes = 2
  Pause = 1
  MaxWait = 2
  Delay = 1
INVARIANTS
  SlotsPolite
  NoFalseZero
  EvidenceBehindVerdict
CHECK_DEADLOCK FALSE
