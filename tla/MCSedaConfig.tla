---------------------------- MODULE MCSedaConfig -----------------------------
(* Configurations for SedaConfig: stages 1 and 2; pools 1, 2 (SQLThreads,  *)
(* IOThreads) and 0 (DefaultThreads).                                      *)
EXTENDS SedaConfig, TLC

Config(ps, big, ss, pool, next, made) ==
  [pools |-> ps, big |-> big, stages |-> ss, pool |-> pool, next |-> next, made |-> made]

Pools(p, q) == 1 :> p @@ 2 :> q
Links(S, T) == 1 :> S @@ 2 :> T

ConfigsMC == {
  \* the table in seda_config.h: one stage, three pools
  Config(<<1, 2, 0>>, {}, <<1>>, Pools(1, 0), Links({}, {}), {1}),
  \* pipelines along and against the order of the map, and a cycle
  Config(<<1, 0>>, {}, <<1, 2>>, Pools(1, 0), Links({2}, {}), {1, 2}),
  Config(<<1, 0>>, {}, <<2, 1>>, Pools(1, 0), Links({}, {1}), {1, 2}),
  Config(<<0>>, {}, <<1, 2>>, Pools(0, 0), Links({2}, {1, 2}), {1, 2}),
  \* a stage with an unknown pool; a name listed twice
  Config(<<0>>, {}, <<2>>, Pools(0, 1), Links({}, {}), {2}),
  Config(<<0>>, {}, <<1, 1>>, Pools(0, 0), Links({}, {}), {1}),
  \* a count that is too big, no default pool, no stages
  Config(<<1, 0>>, {0}, <<1>>, Pools(1, 0), Links({}, {}), {1}),
  Config(<<1>>, {}, <<1>>, Pools(1, 1), Links({}, {}), {1}),
  Config(<<1, 0>>, {}, <<>>, Pools(0, 0), Links({}, {}), {}),
  \* a stage nobody can make, a next stage that is not there
  Config(<<0>>, {}, <<1, 2>>, Pools(0, 0), Links({}, {}), {1}),
  Config(<<0>>, {}, <<1>>, Pools(0, 0), Links({2}, {}), {1, 2})}

=============================================================================
