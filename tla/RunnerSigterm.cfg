SPECIFICATION RunnerSpec
CONSTANTS
  t_a = t_a
  t_b = t_b
  t_c = t_c
  Tasks = {t_a, t_b, t_c}
  Plans <- OnePlan
  Answers <- SomeAnswers
  NoTask = NoTask
  Signals = 1
  Units = {u1}
  Tools = {}
INVARIANT SigtermLeavesNone
