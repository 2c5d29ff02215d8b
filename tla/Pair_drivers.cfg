CONSTANTS Kinds = {"funding", "stat"}
          MaxSlips = 1
          MaxTicks = 5
          MaxQuoted = 2
          MaxLag = 3
SPECIFICATION Spec
INVARIANT TypeOK NakedIsAlarmed
PROPERTY NoDispatchAfterAlarm
CHECK_DEADLOCK FALSE
