------------------------------- MODULE MCNativeRun -------------------------------
(* The machines and the command lines that NativeRun is checked with. *)
EXTENDS NativeRun

C(c, socket, core, node, unit, shared) ==
  [cpu |-> c, socket |-> socket, die |-> 0, core |-> core, node |-> node, unit |-> unit,
   caches |-> {[level |-> 1, bytes |-> 1, shared |-> <<<<c, c>>>>],
               [level |-> 3, bytes |-> 8, shared |-> shared]}]
Bare(r) == [r EXCEPT !.socket = Missing, !.die = Missing, !.core = Missing, !.node = Missing,
                     !.caches = {}]

One == <<C(0, 0, 0, 0, 0, <<<<0, 0>>>>)>>
\* One core with two threads; the same without sysfs.
Two == <<C(0, 0, 0, 0, 0, <<<<0, 1>>>>), C(1, 0, 0, 0, 0, <<<<0, 1>>>>)>>
Masked == <<Bare(Two[1]), Bare(Two[2])>>
\* Three cores on two nodes, the first allowed CPU not on the first node.
Three == <<C(0, 0, 0, 1, 0, <<<<0, 0>>>>), C(1, 0, 1, 0, 1, <<<<1, 2>>>>),
           C(2, 0, 2, 0, 2, <<<<1, 2>>>>)>>
\* Two sockets that number their cores alike, two caches on the first one's
\* node, and the sibling of the first CPU numbered behind all cores.
Server == <<C(0, 0, 0, 0, 0, <<<<0, 1>>, <<5, 5>>>>), C(1, 0, 1, 0, 1, <<<<0, 1>>, <<5, 5>>>>),
            C(2, 0, 2, 0, 2, <<<<2, 2>>>>), C(3, 1, 0, 1, 3, <<<<3, 4>>>>),
            C(4, 1, 1, 1, 4, <<<<3, 4>>>>), C(5, 0, 0, 0, 0, <<<<0, 1>>, <<5, 5>>>>)>>
\* Two clusters that number their cores alike.
Clusters == <<C(0, 0, 0, 0, 0, <<<<0, 1>>>>), C(1, 0, 1, 0, 1, <<<<0, 1>>>>),
              C(2, 0, 0, 0, 2, <<<<2, 3>>>>), C(3, 0, 1, 0, 3, <<<<2, 3>>>>)>>

Case(line, on, target) == [command |-> line, machine |-> on, build |-> target]
Run(profile, only) ==
  [wants |-> "run", profile |-> profile, only |-> only]
Parallel == <<"core-latency", "memory-bandwidth", "loaded-memory-latency", "compute-scaling",
              "false-sharing", "os-overheads">>

MCCases ==
  {Case([wants |-> w, profile |-> "standard", only |-> <<>>], One, b) :
     w \in {"bad", "help"}, b \in {"x86_64", "unsupported"}}
  \cup {Case(Run("standard", <<>>), m, "x86_64") : m \in {One, Two, Three}}
  \cup {Case(Run("standard", <<>>), One, b) : b \in {"aarch64", "unsupported"}}
  \cup {Case(Run("smoke", <<>>), m, "x86_64") : m \in {One, Two, Three, Masked}}
  \cup {Case(Run("standard", only), m, "aarch64") : m \in {One, Three},
          only \in {<<"rob", "no-such-probe">>,
                    <<"store-forwarding", "loaded-memory-latency", "timer", "store-forwarding">>}}
  \cup {Case(Run(p, Parallel), Server, "aarch64") : p \in {"quick", "standard", "deep"}}
  \cup {Case(Run("standard", Parallel), m, "aarch64") : m \in {Clusters, Masked}}
================================================================================
