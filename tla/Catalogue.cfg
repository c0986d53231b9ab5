SPECIFICATION OneSpec
CONSTANTS
  ac_x = ac_x  ac_y = ac_y  tc_x = tc_x  tc_y = tc_y  qa_1 = qa_1  qa_2 = qa_2
  new_1 = new_1  waiver_1 = waiver_1
  aPy = aPy  bPy = bPy  openapi = openapi  routes = routes  tPy = tPy  suite = suite  coverage = coverage
  NewRow = new_1
  MaxEdits = 2
  MaxCommands = 3
  MaxTyped = 1
  Acs <- twoAcs
  Proposals <- proposed
  LlmIds <- proposable
  QaIds <- written
  AcOf <- firstAc
  Waivers <- waivable
  Files <- sevenFiles
  Kind <- kindOf
  Order <- orderOf
  Contents <- contentsOf
  Surfaces <- fourSurfaces
  MainBranch <- mainBranch
  MaxTouches = 2
  MaxRequests = 2
INVARIANTS NoTwins ReimportIsIdle DebtIsTold DebtIsReal
PROPERTIES EditsLand DecisionsStand NothingApprovesItself RegenRepairs
CHECK_DEADLOCK FALSE
