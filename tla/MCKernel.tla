------------------------------ MODULE MCKernel ------------------------------
(* The kernel with up to three tasks of different priorities, the daemon and *)
(* the idle task, two queues and a set of them, one mutex, two groups, two   *)
(* timers and two locks of the SDK that share a spin lock.                   *)
EXTENDS Kernel

MCTasks == {"idle", "low", "twin", "mid", "high", "daemon"}
MCBase == [idle |-> 0, low |-> 1, twin |-> 1, mid |-> 2, high |-> 3, daemon |-> 3]
MCName == [t \in MCTasks |-> IF t \in {"low", "twin"} THEN "worker" ELSE IF t = "mid" THEN "boss" ELSE t]
MCQueues == {"queue", "pair", "set", "mutex", "timer queue"}
MCLength == [q \in MCQueues |-> CASE q \in {"pair", "timer queue"} -> 2 [] q = "set" -> 3 [] OTHER -> 1]
MCEventLists == (MCQueues \X {"send", "receive"}) \cup ({"group", "sdk"} \X {"bits"})
MCLocks == {"heap lock", "output lock"}
MCSdkBit == [l \in MCLocks |-> "blue"]
MCAsked == [b \in {"stream", "messages"} |-> IF b = "stream" THEN 2 ELSE 4]
MCPeriod == [valve |-> 2, beat |-> 1]

ASSUME KernelParameters

MCParticipants(s) ==
  CASE s = "queue" -> {"low", "mid", "high"}
    [] s = "uart" -> {"low", "mid"}
    [] s \in {"mutex", "timed mutex"} -> {"low", "mid", "high"}
    [] s = "notify" -> {"low", "twin", "high"}
    [] s = "group" -> {"low", "mid", "high"}
    [] s \in {"timer", "reload"} -> {"low", "daemon"}
    [] s = "control" -> {"low", "mid"}
    [] s = "lives" -> {"low", "twin", "mid"}
    [] s = "peek" -> {"low", "mid", "high"}
    [] s = "recursive" -> {"low", "mid"}
    [] s = "reset" -> {"low", "twin", "mid"}
    [] s = "set" -> {"low", "mid"}
    [] s = "periodic" -> {"low", "twin"}
    [] s = "wait" -> {"low", "high"}
    [] s = "sync" -> {"low", "twin", "mid"}
    [] s = "pended" -> {"low", "daemon"}
    [] s = "sdk" -> {"low", "mid", "high"}
    [] s = "resume" -> {"low", "mid"}
    [] s = "info" -> {"low", "twin", "mid"}
    [] s = "sleep" -> {"low", "mid"}
    [] s = "stream" -> {"low", "mid"}
    [] s = "message" -> {"low", "mid"}
    [] s \in {"bytes in", "bytes out"} -> {"low"}

MCStart(s) ==
  IF s \in {"mutex", "notify", "queue", "wait", "uart", "group", "control", "peek", "reset", "sync", "sdk", "stream", "message", "info"}
  THEN MaxDelay ELSE IF s = "sleep" THEN 4 ELSE MaxDelay - 1

Some(op, obj, arg, times) == {Enters(op, obj, arg, 1, n) : n \in times}
With(c, some) == [c EXCEPT !.sets = some]
Bytes(op, b, counts, times) == {Enters(op, b, {}, n, time) : n \in counts, time \in times}
MCCalls(s, t) ==
  CASE s = "queue" ->
         (CASE t = "low" -> Some("send", "queue", {}, {2})
            [] t = "mid" -> Some("receive", "queue", {}, {MaxDelay})
            [] OTHER -> Some("receive", "queue", {}, {0, 1}))
    [] s = "uart" ->
         (CASE t = "low" -> Some("send", "queue", {}, {1, MaxDelay})
            [] OTHER -> Some("send", "queue", {}, {MaxDelay}) \cup Some("delay", None, {}, {1}))
    [] s = "mutex" ->
         Some("take", "mutex", {}, {IF t = "mid" THEN 1 ELSE MaxDelay})
           \cup Some("send", "mutex", {}, {0}) \cup Some("delay", None, {}, {1})
    [] s = "timed mutex" ->
         Some("take", "mutex", {}, {1, MaxDelay}) \cup Some("send", "mutex", {}, {0})
           \cup Some("delay", None, {}, {1})
    [] s = "notify" ->
         (CASE t = "high" -> Some("take notification", None, {"clear"}, {2, MaxDelay})
            [] t = "low" -> Some("notify", "high", {"increment"}, {0})
            [] OTHER -> Some("delay", None, {}, {0, 1}))
    [] s = "group" ->
         (CASE t = "low" -> Some("wait bits", "group", {"red", "blue", "all", "clear"}, {1, 2})
            [] t = "mid" -> Some("wait bits", "group", {"red", "blue"}, {1, MaxDelay})
            [] OTHER -> {With(Enters("set bits", "group", {}, 0, 0), b) : b \in {{"red"}, {"blue"}}}
                          \cup {With(Enters("clear bits", "group", {}, 0, 0), {"red"})}
                          \cup Some("delay", None, {}, {1}))
    [] s = "timer" ->
         (CASE t = "low" -> {Enters("command", None, c, 3, 0) :
                               c \in {{"start", "valve"}, {"start", "beat"}, {"stop", "valve"}}}
                              \cup Some("delay", None, {}, {1})
            [] OTHER -> {})
    [] s = "reload" ->
         (CASE t = "low" -> {Enters("command", None, {"start", "beat"}, 0, 0),
                             Enters("command", None, {"period", "valve"}, 3, 0),
                             With(Enters("reload mode", None, {}, 0, 0), {"beat"})}
                              \cup Some("delay", None, {}, {2})
            [] OTHER -> {})
    [] s = "control" ->
         (CASE t = "mid" -> Some("receive", "queue", {}, {2}) \cup Some("delay", None, {}, {1})
                              \cup Some("take notification", None, {}, {2})
                              \cup Some("suspend", "mid", {}, {0})
            [] OTHER -> {Enters(op, "mid", {}, 0, 0) : op \in {"suspend", "resume task", "abort delay"}}
                          \cup {Enters("set priority", "mid", {}, n, 0) : n \in {0, 3}}
                          \cup Some("front", "queue", {}, {0}) \cup Some("delay", None, {}, {1}))
    [] s = "lives" ->
         (CASE t = "twin" -> Some("delete", "twin", {}, {0}) \cup Some("overwrite", "queue", {}, {0})
                              \cup Some("delay", None, {}, {1})
            [] t = "mid" -> Some("receive", "queue", {}, {2})
            [] OTHER -> {Enters(op, "twin", {}, 0, 0) : op \in {"create", "delete"}}
                          \cup Some("delay", None, {}, {1}))
    [] s = "peek" ->
         (CASE t = "low" -> Some("send", "queue", {}, {0, 1})
            [] t = "mid" -> Some("receive", "queue", {}, {2})
            [] OTHER -> Some("peek", "queue", {}, {1, MaxDelay}) \cup Some("delay", None, {}, {1}))
    [] s = "recursive" ->
         Some("take recursive", "mutex", {}, {IF t = "mid" THEN 1 ELSE MaxDelay})
           \cup Some("give recursive", "mutex", {}, {0}) \cup Some("delay", None, {}, {1})
    [] s = "reset" ->
         (IF t = "low" THEN Some("reset", "pair", {}, {0}) \cup Some("receive", "pair", {}, {0})
                       ELSE Some("send", "pair", {}, {1, MaxDelay}))
    [] s = "set" ->
         (IF t = "low" THEN Some("send", "queue", {}, {1}) \cup Some("overwrite", "queue", {}, {0})
                              \cup Some("send", "pair", {}, {0})
          ELSE Some("receive", "set", {}, {MaxDelay}) \cup Some("receive", "queue", {}, {0})
                 \cup Some("receive", "pair", {}, {0})
                 \cup {Enters("add to set", q, {"set"}, 0, 0) : q \in {"queue", "pair"}})
    [] s = "periodic" ->
         Some("delay until", None, {}, {1, 2}) \cup Some("delay", None, {}, {1})
    [] s = "wait" ->
         (CASE t = "high" -> Some("wait notification", None, {"clear on entry"}, {0, 2})
                               \cup Some("wait notification", None, {"clear on exit"}, {MaxDelay})
            [] OTHER -> Some("notify", "high", {"keep", "overwrite"}, {0})
                          \cup Some("clear state", "high", {}, {0})
                          \cup Some("clear value", "high", {}, {0}) \cup Some("delay", None, {}, {1}))
    [] s = "sync" ->
         {With(c, IF t = "mid" THEN {"blue"} ELSE {"red"}) :
            c \in Some("sync", "group", {"red", "blue", "all", "clear"},
                       {IF t = "low" THEN MaxDelay ELSE 1})}
           \cup (IF t = "twin" THEN Some("delete group", "group", {}, {0})
                              ELSE Some("delay", None, {}, {1}))
    [] s = "pended" ->
         (IF t = "low" THEN Some("wait bits", "group", {"red", "clear"}, {MaxDelay})
                              \cup {With(Enters("pend", "group", {"set bits"}, 0, 0), {"red"})}
          ELSE {})
    [] s = "sdk" ->
         {Enters(op, IF t = "mid" THEN "output lock" ELSE "heap lock", {}, 0, 2) :
            op \in {IF t = "high" THEN "lock until" ELSE "lock", "unlock"}}
           \cup Some("delay", None, {}, {1})
    [] s = "resume" ->
         (IF t = "low" THEN Some("suspend", "low", {}, {0}) \cup Some("send", "queue", {}, {1})
                       ELSE Some("suspend", "low", {}, {0}) \cup Some("delay", None, {}, {1}))
    [] s = "info" ->
         (CASE t = "low" -> Some("list tasks", None, {}, {0}) \cup Some("delay", None, {}, {1})
                              \cup {Enters("find", None, {name}, 0, 0) : name \in {"worker", "boss"}}
            [] t = "mid" -> Some("delete", "twin", {}, {0}) \cup Some("take notification", None, {}, {MaxDelay})
            [] OTHER -> Some("delete", "twin", {}, {0}) \cup Some("suspend", "twin", {}, {0}))
    [] s = "sleep" ->
         (IF t = "low" THEN Some("delay", None, {}, {3}) \cup Some("catch up", None, {}, {0})
                       ELSE Some("take notification", None, {}, {4}))
    [] s = "stream" ->
         (IF t = "low" THEN Bytes("stream send", "stream", {2}, {1, MaxDelay})
          ELSE Bytes("stream receive", "stream", {1, 2}, {2}) \cup Bytes("trigger level", "stream", {0, 2}, {0})
                 \cup Bytes("reset stream", "stream", {0}, {0}))
    [] s = "message" ->
         (IF t = "mid" THEN Bytes("stream send", "messages", {1, 2, 4}, {1})
          ELSE Bytes("stream receive", "messages", {1, 2}, {MaxDelay})
                 \cup Bytes("reset stream", "messages", {0}, {0}))
    [] s = "bytes in" -> Bytes("stream receive", "stream", {2}, {0, 2}) \cup Bytes("trigger level", "stream", {2}, {0})
    [] s = "bytes out" -> Bytes("stream send", "messages", {1}, {0, MaxDelay})

MCInterrupts(s) ==
  CASE s = "queue" -> {[does |-> "send", to |-> "queue"]}
    [] s = "uart" -> {[does |-> "receive", to |-> "queue"]}
    [] s = "notify" -> {[does |-> "give notification", to |-> "high"]}
    [] s = "wait" -> {[does |-> "notify", to |-> "high"]}
    [] s = "sleep" -> {[does |-> "give notification", to |-> "mid"]}
    [] s = "info" -> {[does |-> "give notification", to |-> "mid"]}
    [] s = "peek" -> {[does |-> "give", to |-> "queue"]}
    [] s = "set" -> {[does |-> "send", to |-> "queue"]}
    [] s = "pended" -> {[does |-> what, to |-> "group"] : what \in {"set bits", "clear bits"}}
    [] s = "resume" -> {[does |-> "resume", to |-> "low"]}
    [] s = "bytes in" -> {[does |-> "send bytes", to |-> "stream", bytes |-> 1], [does |-> "sent", to |-> "stream"]}
    [] s = "bytes out" -> {[does |-> "receive bytes", to |-> "messages", bytes |-> 2], [does |-> "received", to |-> "messages"]}
    [] OTHER -> {}
=============================================================================
