---------------------------- MODULE MCAutoSleep ----------------------------
(* Model-checking instances of AutoSleep.                                  *)
EXTENDS AutoSleep, TLC

CONSTANTS r1, r2

Symmetry == Permutations(Requests) \cup Permutations(Ranks) \cup Permutations(Timers)

\* Manual sleep and wake-up through the development endpoints.
SleepOps ==
       [op : {"sleep"}, level : {1}, mode : {"abort", "keep"}]
  \cup [op : {"wake"}, tags : {{}, {"weights"}, {"kv_cache"}, {"scheduling"}}]

\* Full sleeps and wake-ups, pausing generation without touching memory, and the
\* shutdown signal.
ExitOps ==
       [op : {"sleep"}, level : {1}, mode : {"abort"}]
  \cup [op : {"wake"}, tags : {{}}]
  \cup [op : {"pause"}, mode : {"abort", "wait", "keep"}]
  \cup [op : {"resume", "sigterm"}]

Setup(target, queue, requests, ops, maxOps, maxFailures) ==
  [target |-> target, queue |-> queue, requests |-> requests, ops |-> ops,
   maxOps |-> maxOps, maxFailures |-> maxFailures]

\* Failing RPCs and two requests; operator calls over a batch queue; full sleeps,
\* pauses, a failure and SIGTERM around a deep-sleep exit; the weights thrown away
\* and loaded again
MCSetups ==
  {Setup("disk", 1, {r1, r2}, {}, 0, 2), Setup("cpu", 2, {r1}, SleepOps, 2, 0),
   Setup("exit", 1, {r1}, ExitOps, 2, 1), Setup("reload", 1, {r1}, {}, 0, 0)}

\* The reload target, left alone by operators
LiveSetups == {Setup("reload", 1, {r1, r2}, {}, 0, 1)}
=============================================================================
