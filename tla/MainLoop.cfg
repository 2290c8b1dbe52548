CONSTANTS
  DelayMs = 2
  Threshold = 2
  Divisor = 4
  Word = 64
  NoKey = "none"
  StepKeys <- TwoKeys
  OtherKeys <- OneOther

SPECIFICATION FairSpec

INVARIANTS
  TypeOK
  DelayLasts
  StepsEarned

PROPERTIES
  StepsGrow
  PollsGoOn
