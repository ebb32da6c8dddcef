CONSTANTS
  Keys = {"a", "c"}
  Values = {"x"}
  Callers = {c1, c2}
  TTL = 0
  Period = 1
  NumShards = 2
  ShardOf <- MCShardOf
  MaxTime = 2
  Absent = Absent
  NoTick = NoTick
SPECIFICATION FairSpec
INVARIANT TypeOK
PROPERTIES NoLiveEviction ImplementsTTLMap SweepCollects
