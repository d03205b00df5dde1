------------------------- MODULE SiteServerProofs -------------------------
(***************************************************************************)
(* For any number of edits and failures no edit of a source file or of the *)
(* configuration is lost between the batcher, the watch loop and the full  *)
(* rebuilds, and unless a configuration is being loaded or processing is   *)
(* paused the state in use has its sites and its configuration.            *)
(***************************************************************************)
EXTENDS SiteServer, TLAPS

Inv == IInv /\ NothingLost /\ ConfigNotLost

\* What a step that leaves the queues alone does to them.
QueueKept == pending' = pending /\ batches' = batches

LEMMA KeptQueued ==
  ASSUME QueueKept, NEW e
  PROVE  Queued(e)' <=> Queued(e)
BY DEF QueueKept, Queued

\* A batch that is taken leaves the channel, and nothing else does.
LEMMA TakenQueued ==
  ASSUME TypeOK, Take, pending' = pending, NEW e
  PROVE  /\ Queued(e) => Queued(e)' \/ e \in Head(batches)
         /\ Queued(e)' => Queued(e)
         /\ e \in Head(batches) => Queued(e)
         /\ Head(batches) \subseteq Event
         /\ batches' \in Seq(SUBSET Event)
<1>1. /\ batches \in Seq(SUBSET Event) /\ batches # <<>> /\ batches' = Tail(batches)
      /\ pending' = pending
  BY DEF TypeOK, Take
<1>2. Len(batches) \in Nat /\ Len(batches) >= 1
  BY <1>1
<1>3. /\ Head(batches) = batches[1]
      /\ Len(batches') = Len(batches) - 1
      /\ \A i \in 1..Len(batches') : batches'[i] = batches[i + 1]
      /\ batches' \in Seq(SUBSET Event) /\ batches[1] \in SUBSET Event
  BY <1>1, <1>2
<1>4. ASSUME NEW i \in 1..Len(batches), e \in batches[i], i # 1
      PROVE  i - 1 \in 1..Len(batches') /\ e \in batches'[i - 1]
  <2>1. i - 1 \in 1..Len(batches')
    BY <1>2, <1>3, <1>4
  <2>2. batches'[i - 1] = batches[i]
    BY <1>2, <1>3, <2>1
  <2>3. QED
    BY <1>4, <2>1, <2>2
<1>5. ASSUME NEW i \in 1..Len(batches'), e \in batches'[i]
      PROVE  i + 1 \in 1..Len(batches) /\ e \in batches[i + 1]
  BY <1>2, <1>3, <1>5
<1>6. 1 \in 1..Len(batches)
  BY <1>2
<1>7. Queued(e) => Queued(e)' \/ e \in Head(batches)
  BY <1>1, <1>3, <1>4 DEF Queued
<1>8. Queued(e)' => Queued(e)
  BY <1>1, <1>5 DEF Queued
<1>9. e \in Head(batches) => Queued(e)
  BY <1>3, <1>6 DEF Queued
<1>10. QED
  BY <1>3, <1>7, <1>8, <1>9

---------------------------------------------------------------------------
LEMMA InitInv == Init => Inv
<1> SUFFICES ASSUME Init
             PROVE  Inv
  OBVIOUS
<1>1. TypeOK
  <2>1. live \in BOOLEAN
    BY DEF Init
  <2>2. current \in Nat /\ created \subseteq 1..current /\ target \in 1..current
    BY DEF Init
  <2>3. batches \in Seq(SUBSET Event)
    BY DEF Init
  <2>4. QED
    BY <2>1, <2>2, <2>3, SiteAssumption DEF Init, TypeOK, Config
<1>2. QED
  BY <1>1 DEF Init, Inv, IInv, UnpausedIsUsable, LoadingIsUncreated, ReplacedCovered,
              HandEmpty, QueuedWereMade, Queued, NothingLost, ConfigNotLost

---------------------------------------------------------------------------
\* Steps that move a thread on and change nothing else.

LEMMA Moves ==
  ASSUME Inv, TypeOK', UNCHANGED <<diskVars, queueVars, stateVars, lossVars, hand>>,
         seen \subseteq seen',
         full' = full \/ {full, full'} \cap {"load", "create"} = {},
         WillLoad => WillLoad', WillRead => WillRead',
         watch' \in {"lock", "process"} =>
           target' = current \/ (target' = target /\ watch \in {"lock", "process"}),
         HandEmpty'
  PROVE  Inv'
<1>1. QueueKept
  BY DEF queueVars, QueueKept
<1>2. \A e : Queued(e)' <=> Queued(e)
  BY <1>1, KeptQueued
<1>3. UnpausedIsUsable' /\ LoadingIsUncreated'
  BY DEF Inv, IInv, UnpausedIsUsable, LoadingIsUncreated, stateVars
<1>4. ReplacedCovered'
  BY DEF Inv, IInv, ReplacedCovered, stateVars, lossVars
<1>5. QueuedWereMade'
  BY <1>2 DEF Inv, IInv, QueuedWereMade, diskVars
<1>6. NothingLost'
  BY <1>2 DEF Inv, NothingLost, diskVars, stateVars, lossVars
<1>7. ConfigNotLost'
  BY <1>2 DEF Inv, ConfigNotLost, diskVars, stateVars, lossVars
<1>8. QED
  BY <1>3, <1>4, <1>5, <1>6, <1>7 DEF Inv, IInv

LEMMA ServeKeeps == ASSUME Inv, Serve PROVE Inv'
<1>0. TypeOK
  BY DEF Inv, IInv
<1>1. UNCHANGED <<diskVars, faults, queueVars, stateVars, errs, lossVars, timerVars,
                  watchVars, fullVars>>
  BY DEF Serve, ServeAsk, ServeHub
<1>2. wanted' \in 1..current
  <2>1. current \in 1..current /\ 1 \in 1..current
    BY <1>0 DEF TypeOK
  <2>2. QED
    BY <2>1 DEF Serve, ServeAsk, ServeHub
<1>3. hub' \in {"waiting", "up", "off", "dead"}
  BY DEF Serve, ServeAsk, ServeHub
<1>4. TypeOK'
  BY <1>0, <1>1, <1>2, <1>3 DEF TypeOK, diskVars, queueVars, stateVars, lossVars,
                                timerVars, watchVars, fullVars
<1>5. QED
  BY <1>1, <1>4, Moves DEF Inv, IInv, HandEmpty, WillLoad, WillRead, RebuildWaiting,
                           timerVars, watchVars, fullVars

LEMMA FireKeeps == ASSUME Inv, Fire PROVE Inv'
<1>0. TypeOK
  BY DEF Inv, IInv
<1>1. TypeOK'
  <2>1. due \in Nat /\ due' = due + 1
    BY <1>0 DEF TypeOK, Fire
  <2>2. due' \in Nat
    BY <2>1
  <2>3. armed' \in BOOLEAN
    BY DEF Fire
  <2>4. QED
    BY <1>0, <2>2, <2>3 DEF TypeOK, Fire, hubVars, fullVars, diskVars, queueVars, stateVars, lossVars, watchVars
<1>2. armed => due' > 0
  BY <1>0 DEF TypeOK, Fire
<1>3. due > 0 => due' > 0
  BY <1>0 DEF TypeOK, Fire
<1>4. QED
  BY <1>1, <1>2, <1>3, Moves DEF Inv, IInv, HandEmpty, Fire, fullVars, WillLoad, WillRead, RebuildWaiting, watchVars

LEMMA StartDueKeeps == ASSUME Inv, StartDue PROVE Inv'
<1>0. TypeOK
  BY DEF Inv, IInv
<1>1. TypeOK'
  BY <1>0 DEF TypeOK, StartDue, hubVars, fullVars, diskVars, queueVars, stateVars, lossVars, watchVars
<1>2. QED
  BY <1>1, Moves DEF Inv, IInv, HandEmpty, StartDue, fullVars, WillLoad, WillRead, RebuildWaiting, watchVars

LEMMA AcquireKeeps == ASSUME Inv, Acquire PROVE Inv'
<1>0. TypeOK
  BY DEF Inv, IInv
<1>1. TypeOK'
  BY <1>0 DEF TypeOK, Acquire, hubVars, fullVars, Return, diskVars, queueVars, stateVars, lossVars, timerVars
<1>2. QED
  BY <1>1, Moves DEF Inv, IInv, HandEmpty, Acquire, fullVars, Return, WillLoad, WillRead, RebuildWaiting

LEMMA AskHugoKeeps ==
  ASSUME Inv, AskHugo("filter", "skip") \/ AskHugo("build", "lock")
  PROVE  Inv'
<1>0. TypeOK
  BY DEF Inv, IInv
<1>1. target' \in 1..current' /\ current' = current
  <2>1. current \in 1..current
    BY <1>0 DEF TypeOK
  <2>2. QED
    BY <2>1 DEF AskHugo, stateVars
<1>2. TypeOK'
  <2>1. CASE AskHugo("filter", "skip")
    BY <1>0, <1>1, <2>1 DEF TypeOK, AskHugo, hubVars, fullVars, diskVars, queueVars, stateVars, lossVars, timerVars
  <2>2. CASE AskHugo("build", "lock")
    BY <1>0, <1>1, <2>2 DEF TypeOK, AskHugo, hubVars, fullVars, diskVars, queueVars, stateVars, lossVars, timerVars
  <2>3. QED
    BY <2>1, <2>2
<1>3. QED
  BY <1>2, Moves DEF Inv, IInv, HandEmpty, AskHugo, fullVars, WillLoad, WillRead, RebuildWaiting, fullVars, timerVars

LEMMA PlanKeeps == ASSUME Inv, Plan PROVE Inv'
<1>0. TypeOK
  BY DEF Inv, IInv
<1>1. TypeOK'
  <2>1. doLive' \in BOOLEAN
    BY <1>0 DEF TypeOK, Plan, CfgLive
  <2>2. QED
    BY <1>0, <2>1 DEF TypeOK, Plan, hubVars, fullVars, diskVars, queueVars, stateVars,
                      lossVars, timerVars
<1>2. QED
  BY <1>1, Moves DEF Inv, IInv, HandEmpty, Plan, fullVars, WillLoad, WillRead, RebuildWaiting, fullVars, timerVars

LEMMA NavigateKeeps == ASSUME Inv, Navigate PROVE Inv'
<1>0. TypeOK
  BY DEF Inv, IInv
<1>1. TypeOK'
  BY <1>0 DEF TypeOK, Navigate, hubVars, fullVars, diskVars, queueVars, stateVars, lossVars,
              timerVars
<1>2. QED
  BY <1>1, Moves DEF Inv, IInv, HandEmpty, Navigate, fullVars, WillLoad, WillRead,
                     RebuildWaiting, fullVars, timerVars

LEMMA LockKeeps == ASSUME Inv, Lock PROVE Inv'
<1>0. TypeOK
  BY DEF Inv, IInv
<1>1. TypeOK'
  BY <1>0 DEF TypeOK, Lock, hubVars, fullVars, diskVars, queueVars, stateVars, lossVars, timerVars
<1>2. QED
  BY <1>1, Moves DEF Inv, IInv, HandEmpty, Lock, fullVars, WillLoad, WillRead, RebuildWaiting, fullVars, timerVars

LEMMA TellKeeps == ASSUME Inv, Tell("tell") \/ Tell("report") PROVE Inv'
<1>0. TypeOK
  BY DEF Inv, IInv
<1>1. TypeOK'
  <2>1. watch' \in {"report", "idle"}
    BY DEF Tell, Return
  <2>2. UNCHANGED <<diskVars, faults, queueVars, stateVars, errs, lossVars, hubVars,
                    timerVars, hand, target, doLive, fullVars>>
    BY DEF Tell
  <2>3. QED
    BY <1>0, <2>1, <2>2 DEF TypeOK, hubVars, fullVars, diskVars, queueVars, stateVars,
                            lossVars, timerVars
<1>2. QED
  BY <1>1, Moves DEF Inv, IInv, HandEmpty, Tell, fullVars, Return, WillLoad, WillRead, RebuildWaiting, fullVars, timerVars

LEMMA FullMovesKeep == ASSUME Inv, TellAll \/ Wake PROVE Inv'
<1>0. TypeOK
  BY DEF Inv, IInv
<1>1. TypeOK'
  <2>1. full' \in {"sleep", "none"}
    BY DEF TellAll, Wake
  <2>2. UNCHANGED <<diskVars, faults, queueVars, stateVars, errs, lossVars, hubVars, timerVars,
                    watchVars, seen>>
    BY DEF TellAll, Wake
  <2>3. QED
    BY <1>0, <2>1, <2>2 DEF TypeOK, hubVars, fullVars, diskVars, queueVars, stateVars, lossVars, timerVars,
                            watchVars
<1>2. QED
  BY <1>1, Moves DEF Inv, IInv, HandEmpty, TellAll, Wake, WillLoad, WillRead,
                     RebuildWaiting, fullVars, timerVars, watchVars

---------------------------------------------------------------------------
\* Edits and the batcher.

LEMMA EditKeeps == ASSUME Inv, NEW c \in Change, Edit(c) PROVE Inv'
<1>0. TypeOK
  BY DEF Inv, IInv
<1>1. TypeOK'
  BY <1>0 DEF TypeOK, Edit, hubVars, fullVars, Event, stateVars, lossVars, timerVars, watchVars
<1>2. \A e : Queued(e)' <=> Queued(e) \/ e = c
  BY DEF Edit, Queued
<1>3. /\ WillLoad' <=> WillLoad
      /\ WillRead' <=> WillRead
  BY DEF Edit, WillLoad, WillRead, RebuildWaiting, fullVars, timerVars, watchVars
<1>4. UnpausedIsUsable' /\ LoadingIsUncreated'
  BY DEF Inv, IInv, UnpausedIsUsable, LoadingIsUncreated, Edit, stateVars, fullVars
<1>5. ReplacedCovered'
  BY <1>3 DEF Inv, IInv, ReplacedCovered, Edit, stateVars, fullVars, lossVars, watchVars
<1>6. QueuedWereMade'
  BY <1>2 DEF Inv, IInv, QueuedWereMade, Edit
<1>7. NothingLost'
  BY <1>2, <1>3 DEF Inv, NothingLost, Edit, fullVars, stateVars, lossVars, watchVars
<1>8. ConfigNotLost'
  BY <1>2, <1>3 DEF Inv, ConfigNotLost, Edit, stateVars, lossVars
<1>9. HandEmpty'
  BY DEF Inv, IInv, HandEmpty, Edit, watchVars
<1>10. QED
  BY <1>1, <1>4, <1>5, <1>6, <1>7, <1>8, <1>9 DEF Inv, IInv

LEMMA EditConfigKeeps ==
  ASSUME Inv, NEW new \in Config, NEW event \in Reload \cup {"chmod"},
         EditConfig(new, event)
  PROVE  Inv'
<1>0. TypeOK
  BY DEF Inv, IInv
<1>1. TypeOK'
  <2>1. edits' \in Nat
    BY <1>0 DEF TypeOK, EditConfig
  <2>2. pending' \subseteq Event
    BY <1>0 DEF TypeOK, EditConfig, hubVars, fullVars, Event
  <2>3. QED
    BY <1>0, <2>1, <2>2 DEF TypeOK, EditConfig, hubVars, fullVars, stateVars, lossVars, timerVars, watchVars
<1>2. \A e : Queued(e)' <=> Queued(e) \/ e = event
  BY DEF EditConfig, Queued
<1>3. /\ WillLoad' <=> WillLoad
      /\ WillRead' <=> WillRead
  BY DEF EditConfig, WillLoad, WillRead, RebuildWaiting, fullVars, timerVars, watchVars
<1>4. event \notin Change
  BY SiteAssumption DEF Reload
<1>5. UnpausedIsUsable' /\ LoadingIsUncreated'
  BY DEF Inv, IInv, UnpausedIsUsable, LoadingIsUncreated, EditConfig, stateVars, fullVars
<1>6. ReplacedCovered'
  BY <1>3 DEF Inv, IInv, ReplacedCovered, EditConfig, stateVars, fullVars, lossVars, watchVars
<1>7. QueuedWereMade'
  BY <1>2, <1>4 DEF Inv, IInv, QueuedWereMade, EditConfig
<1>8. NothingLost'
  BY <1>2, <1>3 DEF Inv, NothingLost, EditConfig, fullVars, stateVars, lossVars, watchVars
<1>9. ConfigNotLost'
  BY <1>2 DEF ConfigNotLost
<1>10. HandEmpty'
  BY DEF Inv, IInv, HandEmpty, EditConfig, watchVars
<1>11. QED
  BY <1>1, <1>5, <1>6, <1>7, <1>8, <1>9, <1>10 DEF Inv, IInv

LEMMA TickKeeps == ASSUME Inv, Tick PROVE Inv'
<1>0. TypeOK
  BY DEF Inv, IInv
<1>1. /\ batches \in Seq(SUBSET Event) /\ pending \in SUBSET Event
      /\ batches' = Append(batches, pending) /\ pending' = {}
  BY <1>0 DEF TypeOK, Tick
<1>2. /\ Len(batches) \in Nat
      /\ Len(batches') = Len(batches) + 1
      /\ batches' \in Seq(SUBSET Event)
      /\ \A i \in 1..Len(batches) : batches'[i] = batches[i]
      /\ batches'[Len(batches) + 1] = pending
  BY <1>1
<1>3. TypeOK'
  BY <1>0, <1>2 DEF TypeOK, Tick, hubVars, fullVars, diskVars, stateVars, lossVars, timerVars, watchVars
<1>4. ASSUME NEW e
      PROVE  Queued(e)' <=> Queued(e)
  <2>1. Queued(e) => Queued(e)'
    <3>1. \A i \in 1..Len(batches) : i \in 1..Len(batches')
      BY <1>2
    <3>2. Len(batches) + 1 \in 1..Len(batches')
      BY <1>2
    <3>3. QED
      BY <1>1, <1>2, <3>1, <3>2 DEF Queued
  <2>2. Queued(e)' => Queued(e)
    <3>1. \A i \in 1..Len(batches') : i \in 1..Len(batches) \/ i = Len(batches) + 1
      BY <1>2
    <3>2. QED
      BY <1>1, <1>2, <3>1 DEF Queued
  <2>3. QED
    BY <2>1, <2>2
<1>5. /\ WillLoad' <=> WillLoad
      /\ WillRead' <=> WillRead
  BY DEF Tick, WillLoad, WillRead, RebuildWaiting, fullVars, timerVars, watchVars
<1>6. UnpausedIsUsable' /\ LoadingIsUncreated'
  BY DEF Inv, IInv, UnpausedIsUsable, LoadingIsUncreated, Tick, stateVars, fullVars
<1>7. ReplacedCovered'
  BY <1>5 DEF Inv, IInv, ReplacedCovered, Tick, stateVars, fullVars, lossVars, watchVars
<1>8. QueuedWereMade'
  BY <1>4 DEF Inv, IInv, QueuedWereMade, Tick, diskVars
<1>9. NothingLost'
  BY <1>4, <1>5 DEF Inv, NothingLost, Tick, fullVars, diskVars, stateVars, lossVars, watchVars
<1>10. ConfigNotLost'
  BY <1>4, <1>5 DEF Inv, ConfigNotLost, Tick, diskVars, stateVars, lossVars
<1>11. HandEmpty'
  BY DEF Inv, IInv, HandEmpty, Tick, watchVars
<1>12. QED
  BY <1>3, <1>6, <1>7, <1>8, <1>9, <1>10, <1>11 DEF Inv, IInv
---------------------------------------------------------------------------
\* Batches.

\* What was covered by the batch taken must be covered otherwise.
LEMMA TakeKeeps ==
  ASSUME Inv, TypeOK', Take, pending' = pending,
         UNCHANGED <<diskVars, stateVars, fullVars, target>>,
         WillLoad => WillLoad', WillRead => WillRead',
         watch' \notin {"lock", "process"}, HandEmpty', missed \subseteq missed',
         ignored => ignored',
         \/ WillRead' \/ paused
         \/ Head(batches) \cap Change \subseteq hand' \cup missed',
         \/ WillLoad' \/ ignored'
         \/ Head(batches) \cap (Reload \cup {"chmod"}) = {}
  PROVE  Inv'
<1>1. \A e : /\ Queued(e) => Queued(e)' \/ e \in Head(batches)
             /\ Queued(e)' => Queued(e)
  BY TakenQueued DEF Inv, IInv
<1>2. hand = {}
  BY DEF Inv, IInv, HandEmpty, Take
<1>3. UnpausedIsUsable' /\ LoadingIsUncreated'
  BY DEF Inv, IInv, UnpausedIsUsable, LoadingIsUncreated, stateVars, fullVars
<1>4. ReplacedCovered'
  BY DEF ReplacedCovered
<1>5. QueuedWereMade'
  BY <1>1 DEF Inv, IInv, QueuedWereMade, diskVars
<1>6. NothingLost'
  <2>1. source \subseteq Change
    BY DEF Inv, IInv, TypeOK
  <2>2. QED
    BY <1>1, <1>2, <2>1 DEF Inv, NothingLost, diskVars, stateVars, fullVars
<1>7. ConfigNotLost'
  BY <1>1 DEF Inv, ConfigNotLost, diskVars, stateVars
<1>8. QED
  BY <1>3, <1>4, <1>5, <1>6, <1>7 DEF Inv, IInv

LEMMA TakeReloadKeeps == ASSUME Inv, TakeReload PROVE Inv'
<1>0. TypeOK /\ Take /\ pending' = pending
  BY DEF Inv, IInv, TakeReload
<1>1. batches' \in Seq(SUBSET Event)
  BY <1>0, TakenQueued
<1>2. missed' \subseteq Change /\ ignored' \in BOOLEAN
  BY <1>0 DEF TypeOK, TakeReload, hubVars, fullVars, lossVars
<1>3. watch' \in {"acquire", "report", "idle"}
  BY DEF TakeReload, Return
<1>4. TypeOK'
  BY <1>0, <1>1, <1>2, <1>3 DEF TypeOK, TakeReload, hubVars, fullVars, diskVars, stateVars, timerVars
<1>5. /\ \/ /\ watch' = "acquire" /\ UNCHANGED lossVars
         \/ /\ missed' = missed \cup (Head(batches) \cap Change)
            /\ ignored' = TRUE
      /\ watch = "idle"
      /\ UNCHANGED <<diskVars, stateVars, timerVars, hand, target, fullVars>>
  BY DEF TakeReload, Take
<1>6. (WillLoad => WillLoad') /\ (WillRead => WillRead')
  BY <1>5 DEF WillLoad, WillRead, RebuildWaiting, fullVars, timerVars
<1>7. watch' = "acquire" => WillLoad' /\ WillRead'
  BY DEF WillLoad, WillRead, RebuildWaiting
<1>8. QED
  BY <1>0, <1>3, <1>4, <1>5, <1>6, <1>7, TakeKeeps DEF Inv, IInv, HandEmpty, lossVars

LEMMA TakeChmodKeeps == ASSUME Inv, TakeChmod PROVE Inv'
<1>0. TypeOK /\ Take /\ pending' = pending
  BY DEF Inv, IInv, TakeChmod
<1>1. batches' \in Seq(SUBSET Event)
  BY <1>0, TakenQueued
<1>2. missed' \subseteq Change /\ ignored' = TRUE
  BY <1>0 DEF TypeOK, TakeChmod
<1>3. watch' \in {"report", "idle"}
  BY DEF TakeChmod, Return
<1>4. TypeOK'
  BY <1>0, <1>1, <1>2, <1>3 DEF TypeOK, TakeChmod, hubVars, fullVars, diskVars, stateVars, timerVars
<1>5. /\ missed' = missed \cup (Head(batches) \cap Change)
      /\ watch = "idle"
      /\ UNCHANGED <<diskVars, stateVars, timerVars, hand, target, fullVars>>
  BY DEF TakeChmod, Take
<1>6. (WillLoad => WillLoad') /\ (WillRead => WillRead')
  BY <1>5 DEF WillLoad, WillRead, RebuildWaiting, fullVars, timerVars
<1>7. QED
  BY <1>0, <1>2, <1>3, <1>4, <1>5, <1>6, TakeKeeps DEF Inv, IInv, HandEmpty

LEMMA TakeChangesKeeps == ASSUME Inv, TakeChanges PROVE Inv'
<1>0. TypeOK /\ Take /\ pending' = pending
  BY DEF Inv, IInv, TakeChanges
<1>1. /\ batches' \in Seq(SUBSET Event)
      /\ \A e \in Head(batches) : Queued(e)
  BY <1>0, TakenQueued
<1>2. Head(batches) \subseteq source
  BY <1>1 DEF Inv, IInv, QueuedWereMade, TakeChanges
<1>3. /\ watch' \in {"report", "idle", "filter"}
      /\ hand' \in {hand, Head(batches)}
      /\ armed' \in {armed, TRUE}
  BY DEF TakeChanges, Return
<1>4. UNCHANGED <<diskVars, stateVars, lossVars, due, target, fullVars>> /\ watch = "idle"
  BY DEF TakeChanges, Take
<1>5. TypeOK'
  <2>1. /\ hand' \subseteq source /\ armed' \in BOOLEAN
        /\ source' = source
    BY <1>0, <1>2, <1>3, <1>4 DEF TypeOK, hubVars, fullVars, diskVars
  <2>2. UNCHANGED <<diskVars, faults, pending, stateVars, errs, lossVars, hubVars, due, target,
                    doLive, fullVars>>
    BY DEF TakeChanges
  <2>3. QED
    BY <1>0, <1>1, <1>3, <2>1, <2>2 DEF TypeOK, hubVars, fullVars, diskVars, stateVars, lossVars
<1>6. Head(batches) \cap (Reload \cup {"chmod"}) = {}
  BY SiteAssumption DEF TakeChanges, Reload
<1>7. armed => armed'
  BY <1>3
<1>8. (WillLoad => WillLoad') /\ (WillRead => WillRead')
  BY <1>4, <1>7 DEF WillLoad, WillRead, RebuildWaiting, fullVars
<1>9. paused \/ armed' \/ hand' = Head(batches)
  BY DEF TakeChanges
<1>10. armed' => WillRead'
  BY DEF WillRead, WillLoad, RebuildWaiting
<1>11. HandEmpty'
  BY <1>4 DEF Inv, IInv, HandEmpty, TakeChanges, Return
<1>12. watch' \notin {"lock", "process"} /\ missed' = missed /\ ignored' = ignored
  BY <1>3, <1>4 DEF lossVars
<1>13. QED
  BY <1>0, <1>4, <1>5, <1>6, <1>8, <1>9, <1>10, <1>11, <1>12, TakeKeeps
---------------------------------------------------------------------------
\* Builds.

LEMMA ProcessKeeps == ASSUME Inv, Process PROVE Inv'
<1>1. TypeOK /\ QueueKept /\ watch = "process"
  BY DEF Inv, IInv, Process, queueVars, QueueKept
<1>2. \A e : Queued(e)' <=> Queued(e)
  BY <1>1, KeptQueued
<1>3. /\ UNCHANGED <<diskVars, queueVars, current, created, sites, hasCfg, live, loaded,
                     paused, ignored, hubVars, timerVars, fullVars>>
      /\ hand' = {} /\ target' = 1 /\ doLive' = FALSE
  BY DEF Process
<1>4. watch' \in {"navigate", "tell", "report", "idle"}
  BY DEF Process, Return
<1>5. \/ /\ has' = IF target = current THEN has \cup hand ELSE has
         /\ missed' = missed
      \/ has' = has /\ missed' = missed \cup hand
  BY DEF Process
<1>6. TypeOK'
  <2>1. has' \subseteq Change /\ missed' \subseteq Change
    BY <1>1, <1>5 DEF TypeOK
  <2>2. faults' \in Nat
    BY <1>1 DEF TypeOK, Process
  <2>3. errs' \in BOOLEAN
    <3>1. errs' = errs \/ errs' = TRUE
      BY DEF Process
    <3>2. QED
      BY <1>1, <3>1 DEF TypeOK
  <2>4. 1 \in 1..current
    BY <1>1 DEF TypeOK
  <2>5. QED
    <3>1. /\ UNCHANGED <<source, config, edits, pending, batches, current, created, sites,
                         hasCfg, live, loaded, paused, ignored, hub, wanted, armed, due,
                         full, seen>>
          /\ hand' = {} /\ target' \in 1..current' /\ doLive' = FALSE
      BY <1>3, <2>4 DEF hubVars, fullVars, diskVars, queueVars, timerVars
    <3>2. QED
      <4>1. /\ pending' \subseteq Event /\ batches' \in Seq(SUBSET Event)
            /\ current' \in Nat /\ created' \subseteq 1..current' /\ sites' \subseteq created'
            /\ wanted' \in 1..current' /\ target' \in 1..current'
        BY <1>1, <1>4, <2>1, <2>2, <2>3, <3>1 DEF TypeOK
      <4>2. /\ source' \subseteq Change /\ seen' \subseteq source' /\ hand' \subseteq source'
            /\ has' \subseteq Change /\ missed' \subseteq Change
            /\ edits' \in Nat /\ faults' \in Nat /\ due' \in Nat
        BY <1>1, <1>4, <2>1, <2>2, <2>3, <3>1 DEF TypeOK
      <4>3. /\ hasCfg' \in BOOLEAN /\ live' \in BOOLEAN /\ paused' \in BOOLEAN
            /\ errs' \in BOOLEAN /\ ignored' \in BOOLEAN /\ armed' \in BOOLEAN
        BY <1>1, <1>4, <2>1, <2>2, <2>3, <3>1 DEF TypeOK
      <4>4. QED
        BY <1>1, <1>4, <2>1, <2>2, <2>3, <3>1, <4>1, <4>2, <4>3 DEF TypeOK
<1>7. (WillLoad' <=> WillLoad) /\ (WillRead' <=> WillRead)
  BY <1>1, <1>3, <1>4 DEF WillLoad, WillRead, RebuildWaiting, fullVars, timerVars
<1>8. UnpausedIsUsable' /\ LoadingIsUncreated' /\ ReplacedCovered' /\ HandEmpty'
  BY <1>3, <1>4 DEF Inv, IInv, UnpausedIsUsable, LoadingIsUncreated, ReplacedCovered,
                    HandEmpty, fullVars
<1>9. QueuedWereMade'
  BY <1>2, <1>3 DEF Inv, IInv, QueuedWereMade, diskVars
<1>10. NothingLost'
  <2>1. hand \subseteq has' \cup seen \cup missed' \/ WillRead \/ paused
    BY <1>1, <1>5 DEF Inv, IInv, ReplacedCovered
  <2>2. has \subseteq has' /\ missed \subseteq missed' /\ seen' = seen
    BY <1>3, <1>5 DEF fullVars
  <2>3. QED
    BY <1>2, <1>3, <1>7, <2>1, <2>2 DEF Inv, NothingLost, diskVars
<1>11. ConfigNotLost'
  BY <1>2, <1>3, <1>7 DEF Inv, ConfigNotLost, diskVars
<1>12. QED
  BY <1>6, <1>8, <1>9, <1>10, <1>11 DEF Inv, IInv

LEMMA ReplaceKeeps == ASSUME Inv, Replace PROVE Inv'
<1>1. TypeOK
  BY DEF Inv, IInv
<1>2. QueueKept /\ full' = "load" /\ current' = current + 1
  BY DEF Replace, queueVars, QueueKept
<1>3. \A e : Queued(e)' <=> Queued(e)
  BY <1>2, KeptQueued
<1>4. /\ created' \subseteq 1..current' /\ target' \in 1..current' /\ current' \in Nat
      /\ current' \notin created' /\ wanted' \in 1..current'
  <2>1. /\ current \in Nat /\ created \subseteq 1..current /\ target \in 1..current
        /\ wanted \in 1..current
        /\ created' = created /\ target' = target /\ wanted' = wanted
    BY <1>1 DEF TypeOK, Replace, hubVars, fullVars, watchVars
  <2>2. QED
    BY <1>2, <2>1
<1>5. TypeOK'
  <2>1. /\ UNCHANGED <<source, config, edits, faults, pending, batches, created, sites,
                       live, loaded, paused, errs, missed, ignored, hub, armed, due, watch,
                       hand, doLive, seen>>
        /\ hasCfg' = FALSE /\ has' = {}
    BY DEF Replace, diskVars, queueVars, lossVars, hubVars, timerVars, watchVars
  <2>2. QED
    <3>1. /\ pending' \subseteq Event /\ batches' \in Seq(SUBSET Event)
          /\ current' \in Nat /\ created' \subseteq 1..current' /\ sites' \subseteq created'
          /\ wanted' \in 1..current' /\ target' \in 1..current'
      BY <1>1, <1>2, <1>4, <2>1 DEF TypeOK
    <3>2. /\ source' \subseteq Change /\ seen' \subseteq source' /\ hand' \subseteq source'
          /\ has' \subseteq Change /\ missed' \subseteq Change
          /\ edits' \in Nat /\ faults' \in Nat /\ due' \in Nat
      BY <1>1, <1>2, <1>4, <2>1 DEF TypeOK
    <3>3. /\ hasCfg' \in BOOLEAN /\ live' \in BOOLEAN /\ paused' \in BOOLEAN
          /\ errs' \in BOOLEAN /\ ignored' \in BOOLEAN /\ armed' \in BOOLEAN
      BY <1>1, <1>2, <1>4, <2>1 DEF TypeOK
    <3>4. QED
      BY <1>1, <1>2, <1>4, <2>1, <3>1, <3>2, <3>3 DEF TypeOK
<1>6. WillLoad' /\ WillRead'
  BY <1>2 DEF WillLoad, WillRead
<1>7. UnpausedIsUsable' /\ LoadingIsUncreated'
  BY <1>2, <1>4 DEF UnpausedIsUsable, LoadingIsUncreated
<1>8. ReplacedCovered' /\ NothingLost' /\ ConfigNotLost'
  BY <1>6 DEF ReplacedCovered, NothingLost, ConfigNotLost
<1>9. HandEmpty' /\ QueuedWereMade'
  BY <1>3 DEF Inv, IInv, HandEmpty, QueuedWereMade, Replace, diskVars, watchVars
<1>10. QED
  BY <1>5, <1>7, <1>8, <1>9 DEF Inv, IInv

LEMMA LoadKeeps == ASSUME Inv, Load PROVE Inv'
<1>1. TypeOK /\ LoadingIsUncreated /\ full = "load"
  BY DEF Inv, IInv, Load
<1>2. QueueKept
  BY DEF Load, queueVars, QueueKept
<1>3. \A e : Queued(e)' <=> Queued(e)
  BY <1>2, KeptQueued
<1>4. /\ UNCHANGED <<diskVars, queueVars, current, created, sites, has, missed, hubVars,
                     timerVars, watchVars, seen>>
      /\ loaded' = config /\ ignored' = FALSE
  BY DEF Load
<1>5. \/ paused' = TRUE /\ errs' = TRUE /\ full' = "sleep"
      \/ paused' = paused /\ errs' = FALSE /\ full' = "create" /\ hasCfg' = TRUE
  BY DEF Load, LoadFailed
<1>6. TypeOK'
  <2>1. hasCfg' \in BOOLEAN /\ live' \in BOOLEAN
    BY <1>1 DEF TypeOK, Load
  <2>2. faults' \in Nat
    BY <1>1 DEF TypeOK, Load
  <2>3. paused' \in BOOLEAN /\ errs' \in BOOLEAN /\ full' \in {"create", "sleep"}
    BY <1>1, <1>5 DEF TypeOK
  <2>4. QED
    BY <1>1, <1>4, <2>1, <2>2, <2>3
       DEF TypeOK, hubVars, diskVars, queueVars, timerVars, watchVars
<1>7. UnpausedIsUsable' /\ LoadingIsUncreated'
  BY <1>1, <1>4, <1>5 DEF UnpausedIsUsable, LoadingIsUncreated
<1>8. paused' \/ WillRead'
  BY <1>5 DEF WillRead
<1>9. ReplacedCovered' /\ NothingLost'
  BY <1>8 DEF ReplacedCovered, NothingLost
<1>10. ConfigNotLost'
  BY <1>4 DEF ConfigNotLost, diskVars
<1>11. HandEmpty' /\ QueuedWereMade'
  BY <1>3, <1>4 DEF Inv, IInv, HandEmpty, QueuedWereMade, diskVars, watchVars
<1>12. QED
  BY <1>6, <1>7, <1>9, <1>10, <1>11 DEF Inv, IInv

LEMMA CreateKeeps == ASSUME Inv, Create PROVE Inv'
<1>1. TypeOK /\ LoadingIsUncreated /\ full = "create"
  BY DEF Inv, IInv, Create
<1>2. QueueKept
  BY DEF Create, queueVars, QueueKept
<1>3. \A e : Queued(e)' <=> Queued(e)
  BY <1>2, KeptQueued
<1>4. /\ UNCHANGED <<diskVars, queueVars, current, hasCfg, has, live, loaded, lossVars,
                     hubVars, timerVars, watchVars, seen>>
      /\ created' = created \cup {current}
  BY DEF Create
<1>5. \/ paused' = TRUE /\ errs' = TRUE /\ full' = "sleep"
      \/ /\ paused' = FALSE /\ errs' = errs /\ full' = "copy"
         /\ sites' = sites \cup {current}
  BY DEF Create, LoadFailed
<1>6. TypeOK'
  <2>1. /\ current \in 1..current
        /\ created \subseteq 1..current /\ sites \subseteq created
    BY <1>1 DEF TypeOK
  <2>2. sites' = sites \/ sites' = sites \cup {current}
    BY DEF Create
  <2>3. created' \subseteq 1..current /\ sites' \subseteq created'
    BY <1>4, <2>1, <2>2
  <2>4. faults' \in Nat
    BY <1>1 DEF TypeOK, Create
  <2>5. paused' \in BOOLEAN /\ errs' \in BOOLEAN /\ full' \in {"copy", "sleep"}
    BY <1>1, <1>5 DEF TypeOK
  <2>6. QED
    BY <1>1, <1>4, <2>3, <2>4, <2>5
       DEF TypeOK, hubVars, diskVars, queueVars, lossVars, timerVars, watchVars
<1>7. UnpausedIsUsable' /\ LoadingIsUncreated'
  BY <1>1, <1>4, <1>5 DEF UnpausedIsUsable, LoadingIsUncreated
<1>8. paused' \/ WillRead'
  BY <1>5 DEF WillRead
<1>9. ReplacedCovered' /\ NothingLost'
  BY <1>8 DEF ReplacedCovered, NothingLost
<1>10. ConfigNotLost'
  <2>1. WillLoad => WillLoad'
    BY <1>1, <1>4 DEF WillLoad, RebuildWaiting, timerVars, watchVars
  <2>2. QED
    BY <1>3, <1>4, <2>1 DEF Inv, ConfigNotLost, diskVars, lossVars
<1>11. HandEmpty' /\ QueuedWereMade'
  BY <1>3, <1>4 DEF Inv, IInv, HandEmpty, QueuedWereMade, diskVars, watchVars
<1>12. QED
  BY <1>6, <1>7, <1>9, <1>10, <1>11 DEF Inv, IInv

\* What a full rebuild has left to read it has read, given up, or will not lose.
LEMMA BuiltOrMissed ==
  ASSUME Inv, TypeOK', QueueKept, full \in {"copy", "lock", "build"},
         UNCHANGED <<diskVars, current, created, sites, hasCfg, loaded, paused, ignored,
                     timerVars, watchVars>>,
         full' \in {"build", "tell", "sleep"},
         \/ source \subseteq has' \cup seen' \cup missed'
         \/ /\ full = "build"
            /\ has \cup seen \cup missed \subseteq has' \cup seen' \cup missed'
  PROVE  Inv'
<1>1. \A e : Queued(e)' <=> Queued(e)
  BY KeptQueued
<1>2. UnpausedIsUsable' /\ LoadingIsUncreated'
  BY DEF Inv, IInv, UnpausedIsUsable, LoadingIsUncreated
<1>3. WillLoad => WillLoad'
  BY DEF WillLoad, RebuildWaiting, timerVars, watchVars
<1>4. full = "build" /\ WillRead => WillRead'
  BY <1>3 DEF WillRead
<1>5. NothingLost'
  <2>1. CASE source \subseteq has' \cup seen' \cup missed'
    BY <2>1 DEF NothingLost, diskVars
  <2>2. CASE /\ full = "build"
             /\ has \cup seen \cup missed \subseteq has' \cup seen' \cup missed'
    BY <1>1, <1>4, <2>2 DEF Inv, NothingLost, diskVars, watchVars
  <2>3. QED
    BY <2>1, <2>2
<1>6. ReplacedCovered'
  <2>1. hand' = hand /\ hand \subseteq source
    BY DEF Inv, IInv, TypeOK, watchVars
  <2>2. CASE source \subseteq has' \cup seen' \cup missed'
    BY <2>1, <2>2 DEF ReplacedCovered
  <2>3. CASE /\ full = "build"
             /\ has \cup seen \cup missed \subseteq has' \cup seen' \cup missed'
    BY <1>4, <2>3 DEF Inv, IInv, ReplacedCovered, watchVars
  <2>4. QED
    BY <2>2, <2>3
<1>7. ConfigNotLost'
  BY <1>1, <1>3 DEF Inv, ConfigNotLost, diskVars
<1>8. HandEmpty' /\ QueuedWereMade'
  BY <1>1 DEF Inv, IInv, HandEmpty, QueuedWereMade, diskVars, watchVars
<1>9. QED
  BY <1>2, <1>5, <1>6, <1>7, <1>8 DEF Inv, IInv

LEMMA CopyStaticKeeps == ASSUME Inv, CopyStatic PROVE Inv'
<1>1. TypeOK /\ full = "copy"
  BY DEF Inv, IInv, CopyStatic
<1>2. UNCHANGED <<diskVars, queueVars, stateVars, ignored, hubVars, timerVars, watchVars,
                  seen>>
  BY DEF CopyStatic
<1>3. CASE full' = "lock" /\ UNCHANGED <<faults, missed, errs>>
  <2>1. TypeOK'
    BY <1>1, <1>2, <1>3 DEF TypeOK, hubVars, diskVars, queueVars, stateVars, timerVars,
                            watchVars
  <2>2. (WillLoad => WillLoad') /\ (WillRead => WillRead')
    BY <1>1, <1>2, <1>3 DEF WillLoad, WillRead, RebuildWaiting, timerVars, watchVars
  <2>3. QED
    BY <1>1, <1>2, <1>3, <2>1, <2>2, Moves DEF Inv, IInv, HandEmpty, lossVars, watchVars
<1>4. CASE faults' = faults + 1 /\ missed' = source /\ errs' = TRUE /\ full' = "sleep"
  <2>1. faults' \in Nat /\ missed' \subseteq Change
    BY <1>1, <1>4 DEF TypeOK
  <2>2. TypeOK'
    BY <1>1, <1>2, <1>4, <2>1 DEF TypeOK, hubVars, diskVars, queueVars, stateVars,
                                  timerVars, watchVars
  <2>3. QED
    BY <1>1, <1>2, <1>4, <2>2, BuiltOrMissed DEF QueueKept, queueVars, stateVars
<1>5. QED
  BY <1>3, <1>4 DEF CopyStatic

\* From here on everything made before is taken to be read.
LEMMA LockAllKeeps == ASSUME Inv, LockAll PROVE Inv'
<1>1. TypeOK /\ full = "lock" /\ full' = "build" /\ seen' = source
  BY DEF Inv, IInv, LockAll
<1>2. UNCHANGED <<diskVars, faults, queueVars, stateVars, errs, lossVars, hubVars,
                  timerVars, watchVars>>
  BY DEF LockAll
<1>3. TypeOK'
  BY <1>1, <1>2 DEF TypeOK, hubVars, diskVars, queueVars, stateVars, lossVars, timerVars,
                    watchVars
<1>4. QED
  BY <1>1, <1>2, <1>3, BuiltOrMissed DEF QueueKept, queueVars, stateVars, lossVars

LEMMA BuildSitesKeeps == ASSUME Inv, BuildSites PROVE Inv'
<1>1. TypeOK /\ full = "build"
  BY DEF Inv, IInv, BuildSites
<1>2. /\ UNCHANGED <<diskVars, queueVars, current, created, sites, hasCfg, live, loaded,
                     paused, ignored, hubVars, timerVars, watchVars>>
      /\ full' \in {"tell", "sleep"} /\ seen' = {}
  BY DEF BuildSites
<1>3. \/ /\ \E read \in SUBSET source :
              seen \subseteq read /\ has' = has \cup read /\ missed' = missed \ read
         /\ UNCHANGED <<faults, errs>>
      \/ has' = has /\ missed' = source /\ faults' = faults + 1 /\ errs' = TRUE
  BY DEF BuildSites
<1>4. TypeOK'
  <2>1. has' \subseteq Change /\ missed' \subseteq Change /\ errs' \in BOOLEAN
    BY <1>1, <1>3 DEF TypeOK
  <2>2. faults' \in Nat
    BY <1>1, <1>3 DEF TypeOK
  <2>3. QED
    BY <1>1, <1>2, <2>1, <2>2 DEF TypeOK, hubVars, diskVars, queueVars, timerVars, watchVars
<1>5. \/ has \cup seen \cup missed \subseteq has' \cup seen' \cup missed'
      \/ source \subseteq has' \cup seen' \cup missed'
  BY <1>3
<1>6. QED
  BY <1>1, <1>2, <1>4, <1>5, BuiltOrMissed DEF QueueKept, queueVars

---------------------------------------------------------------------------
LEMMA StepInv == Inv /\ [Next]_vars => Inv'
<1> SUFFICES ASSUME Inv, [Next]_vars
             PROVE  Inv'
  OBVIOUS
<1>1. CASE UNCHANGED vars
  BY <1>1 DEF vars, hubVars, fullVars, diskVars, queueVars, stateVars, lossVars, timerVars, watchVars,
              Inv, IInv, TypeOK, UnpausedIsUsable, LoadingIsUncreated, ReplacedCovered,
              HandEmpty, QueuedWereMade, NothingLost, ConfigNotLost, Queued, WillRead,
              WillLoad, RebuildWaiting
<1>2. CASE \E c \in Change : Edit(c)
  BY <1>2, EditKeeps
<1>3. CASE \E new \in Config, event \in Reload \cup {"chmod"} : EditConfig(new, event)
  BY <1>3, EditConfigKeeps
<1>4. CASE Tick \/ Serve \/ Fire \/ StartDue
  BY <1>4, TickKeeps, ServeKeeps, FireKeeps, StartDueKeeps
<1>5. CASE Watch
  BY <1>5, TakeReloadKeeps, TakeChmodKeeps, TakeChangesKeeps, AcquireKeeps, AskHugoKeeps,
     PlanKeeps, NavigateKeeps, LockKeeps, ProcessKeeps, TellKeeps DEF Watch
<1>6. CASE FullRebuild
  BY <1>6, ReplaceKeeps, LoadKeeps, CreateKeeps, CopyStaticKeeps, LockAllKeeps,
     BuildSitesKeeps, FullMovesKeep DEF FullRebuild
<1>7. QED
  BY <1>1, <1>2, <1>3, <1>4, <1>5, <1>6 DEF Next, Background

\* The invariant of the rebuild loop, for any number of edits and failures.
THEOREM Invariance == Spec => [](IInv /\ NothingLost /\ ConfigNotLost)
<1>1. Inv => IInv /\ NothingLost /\ ConfigNotLost
  BY DEF Inv
<1>2. QED
  BY InitInv, StepInv, <1>1, PTL DEF Spec

\* No edit of a source file is lost between batcher, watch loop and full rebuilds.
THEOREM EditsKept == Spec => []NothingLost
BY Invariance, PTL

\* No edit of the configuration is lost, in a pause or out of it.
THEOREM ConfigKept == Spec => []ConfigNotLost
BY Invariance, PTL

\* While processing is not paused and no configuration is being loaded, the state in
\* use has its sites and its Cfg: neither hugo() nor c.Cfg is nil (hugo.go:957).
THEOREM PauseTells == Spec => []UnpausedIsUsable
<1>1. IInv => UnpausedIsUsable
  BY DEF IInv
<1>2. QED
  BY Invariance, <1>1, PTL
===========================================================================
