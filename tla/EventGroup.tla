----------------------------- MODULE EventGroup -----------------------------
(***************************************************************************)
(* The event groups of the kernel (event_groups.c).  A task that waits      *)
(* writes into its event list item the bits it wants and how it wants them;  *)
(* the task that sets bits answers in the same place.  All of it happens    *)
(* with the scheduler suspended; interrupts do not touch a group, but leave *)
(* that to the timer task (PendedCalls).                                    *)
(***************************************************************************)
EXTENDS TaskCalls

CONSTANTS Groups, Bits

GroupParameters ==
  /\ Groups \X {"bits"} \subseteq EventLists
  /\ Bits \cap {"in use", "hit", "all", "clear", "gone"} = {}

VARIABLE bits           \* uxEventBits of each group, and "gone" once it is deleted

Waiters(g) == <<g, "bits">>

(* prvTestWaitCondition; flags holds "all" to wait for every bit. *)
Met(present, wanted, flags) ==
  IF "all" \in flags THEN wanted \subseteq present ELSE wanted \cap present # {}

Wanted(mark) == mark \cap Bits
Cleared(g, wanted, flags) ==
  [bits EXCEPT ![g] = IF "clear" \in flags THEN @ \ wanted ELSE @]

(* xEventGroupWaitBits *)
WaitBits(t) ==
  LET c == call[t]
      g == c.obj
      wanted == Wanted(c.arg)
      met == Met(bits[g], wanted, c.arg)
      waits == ~met /\ c.ticks > 0
      answer == [c EXCEPT !.result = IF met THEN "ok" ELSE "timeout"]
  IN  /\ In(t, "wait bits", "start")
      /\ bits' = IF met THEN Cleared(g, wanted, c.arg) ELSE bits
      /\ kernel' = IF waits
                   THEN PlaceOnUnorderedEventList(SuspendAll(kernel), Waiters(g),
                                                  c.arg \cup {"in use"}, c.ticks)
                   ELSE SuspendAll(kernel)
      /\ call' = [call EXCEPT ![t] = IF waits THEN Leaving(Deadline(c), TRUE, "woken")
                                              ELSE Leaving(answer, FALSE, "return")]

(* Woken, or out of time; in the second case the bits may be there yet.     *)
ItemReset(k, t) ==
  [k EXCEPT !.mark[t] = {}, !.rank[t] = MaxPriorities - k.prio[t]]
WaitBitsEnds(t) ==
  LET c == call[t]
      hit == "hit" \in kernel.mark[t]
      met == Met(IF hit THEN kernel.mark[t] ELSE bits[c.obj], Wanted(c.arg), c.arg)
  IN  /\ Running(t, "woken")
      /\ kernel' = ItemReset(kernel, t)
      /\ bits' = IF ~hit /\ met THEN Cleared(c.obj, Wanted(c.arg), c.arg) ELSE bits
      /\ Return(t, IF met THEN "ok" ELSE IF hit THEN "deleted" ELSE "timeout")

(* xEventGroupSetBits: every waiting task whose bits are there is woken, and *)
(* what they asked to be cleared is cleared after all of them were tested.  *)
Matched(k, g, present) ==
  SelectSeq(k.events[Waiters(g)], LAMBDA x : Met(present, Wanted(k.mark[x]), k.mark[x]))
ToClear(k, woken) ==
  UNION {IF "clear" \in k.mark[x] THEN Wanted(k.mark[x]) ELSE {} : x \in ToSet(woken)}
Answered(k, g, present) ==
  LET one(a, x) == UnblockMarked(a, x, present \cup {"hit", "in use"})
  IN  FoldLeft(one, SuspendAll(k), Matched(k, g, present))
Left(k, g, present) == present \ ToClear(k, Matched(k, g, present))
SetBits(t) ==
  LET g == call[t].obj
      present == bits[g] \cup call[t].sets
  IN  /\ In(t, "set bits", "start")
      /\ kernel' = Answered(kernel, g, present)
      /\ bits' = [bits EXCEPT ![g] = Left(kernel, g, present)]
      /\ call' = [call EXCEPT ![t] = Leaving([@ EXCEPT !.result = "ok"], FALSE, "return")]

(* xEventGroupSync: set bits and wait for all of some, as one step.  The    *)
(* last to come clears them, for the others too; arg holds "all" and        *)
(* "clear", and what comes after the wait is as above.                      *)
Sync(t) ==
  LET c == call[t]
      g == c.obj
      present == bits[g] \cup c.sets
      met == Wanted(c.arg) \subseteq present
      waits == ~met /\ c.ticks > 0
      k == Answered(kernel, g, present)
      answer == [c EXCEPT !.result = IF met THEN "ok" ELSE "timeout"]
  IN  /\ In(t, "sync", "start")
      /\ bits' = [bits EXCEPT ![g] =
                    Left(kernel, g, present) \ (IF met THEN Wanted(c.arg) ELSE {})]
      /\ kernel' = IF waits
                   THEN PlaceOnUnorderedEventList(k, Waiters(g), c.arg \cup {"in use"}, c.ticks)
                   ELSE k
      /\ call' = [call EXCEPT ![t] = IF waits THEN Leaving(Deadline(c), TRUE, "woken")
                                              ELSE Leaving(answer, FALSE, "return")]

(* xEventGroupClearBits *)
ClearBits(t) ==
  /\ In(t, "clear bits", "start")
  /\ bits' = [bits EXCEPT ![call[t].obj] = @ \ call[t].sets]
  /\ Return(t, "ok")
  /\ UNCHANGED kernel

(* vEventGroupDelete: whoever waits is woken, with no bits.  A task whose    *)
(* time is over but that has not run since still looks at the group, which  *)
(* is free memory then, here with its last contents.                        *)
DeleteGroup(t) ==
  LET g == call[t].obj
      one(a, x) == UnblockMarked(a, x, {"hit", "in use"})
  IN  /\ In(t, "delete group", "start")
      /\ kernel' = FoldLeft(one, SuspendAll(kernel), kernel.events[Waiters(g)])
      /\ bits' = [bits EXCEPT ![g] = @ \cup {"gone"}]
      /\ call' = [call EXCEPT ![t] = Leaving([@ EXCEPT !.result = "ok"], FALSE, "return")]

GroupSteps(t) ==
  WaitBits(t) \/ WaitBitsEnds(t) \/ SetBits(t) \/ Sync(t) \/ ClearBits(t) \/ DeleteGroup(t)
=============================================================================
