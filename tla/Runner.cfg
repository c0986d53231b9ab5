SPECIFICATION EitherSpec
CONSTANTS
  t_a = t_a
  t_b = t_b
  t_c = t_c
  Tasks = {t_a, t_b, t_c}
  Plans <- SomePlans
  Answers <- SomeAnswers
  NoTask = NoTask
  Signals = 1
  Units = {u1, u2}
  Tools <- ToolNames
INVARIANTS ExclusiveAlone EgressFirst SameAsSequential OpenMeansJudged AdviceNeverBlocks NothingLeft PassIsEarned FailIsReal
PROPERTY EveryRunEnds
