---------------------------- MODULE SiteServer ----------------------------
(***************************************************************************)
(* The server that shows the documentation site while it is written: the   *)
(* rebuild loop of src/hugo.  A batcher gathers file system events and     *)
(* hands them, batch by batch, to the watch loop, which builds what the    *)
(* events name.  A changed configuration file, or very many changes, start *)
(* a full rebuild in a goroutine of its own: it replaces the state of the  *)
(* site (commandeerHugoState), loads the configuration into the new one,   *)
(* copies the static files and builds everything.  The watch loop runs on  *)
(* meanwhile, and reads the state whenever it needs it.                    *)
(*                                                                         *)
(* A semaphore admits one full rebuild at a time; builds of one state      *)
(* exclude each other (runningMu), builds of two states do not.  hugo()    *)
(* waits for a state until its channel created is closed, and then returns *)
(* its sites, nil when they could not be created.  Several calls of hugo() *)
(* in a row stand as one, and reads of c.Cfg likewise.  The static files   *)
(* in a batch, and the server's own rebuilds of visited pages, are left    *)
(* out.                                                                    *)
(***************************************************************************)
EXTENDS Integers, Sequences

CONSTANTS
  Change,      \* edits of content, layouts or data files
  Mass,        \* those of more than fifty files
  Start,       \* the configuration the server is started with
  Touch,       \* configuration files may be saved as they were
  MaxEdits,    \* bound on edits of configuration files
  MaxFaults    \* bound on failing loads, copies and builds

ASSUME SiteAssumption ==
  /\ Mass \subseteq Change
  /\ Start \in {"live", "quiet"} /\ Touch \in BOOLEAN
  /\ MaxEdits \in Nat /\ MaxFaults \in Nat
  /\ Change \cap {"config", "mod", "chmod"} = {}

VARIABLES
  source,      \* changes made on disk
  config,      \* the configuration on disk: live reload on, off, or not readable
  edits, faults,
  pending,     \* events the batcher has gathered, or will
  batches,     \* the batch in the channel, and the one the batcher holds
  current,     \* number of the state in use
  created,     \* states whose channel created is closed
  sites,       \* those whose hugoSites is not nil
  hasCfg,      \* Cfg of the current state is set
  has,         \* changes the current state was built with
  live,        \* doLiveReload
  loaded,      \* the configuration read last
  paused,
  errs,        \* errors have been logged
  missed,      \* changes an early return or a failure gave up
  ignored,     \* the same for an edit of the configuration
  hub,         \* the live reload hub, and serve(), which starts it
  wanted,      \* the state serve() has asked for
  armed, due,  \* full rebuilds: debounced, and waiting for the semaphore
  watch,       \* where the watch loop is
  hand,        \* the changes it handles
  target,      \* the state it has asked for
  doLive,      \* its local doLiveReload
  full,        \* where the full rebuild is; the semaphore is taken unless "none"
  seen         \* changes made before it began to build

diskVars  == <<source, config, edits>>
queueVars == <<pending, batches>>
stateVars == <<current, created, sites, hasCfg, has, live, loaded, paused>>
lossVars  == <<missed, ignored>>
timerVars == <<armed, due>>
hubVars == <<hub, wanted>>
watchVars == <<watch, hand, target, doLive>>
fullVars == <<full, seen>>
vars == <<diskVars, faults, queueVars, stateVars, errs, lossVars, hubVars, timerVars,
          watchVars, fullVars>>

Config == {"live", "quiet", "bad"}
Reload == {"config", "mod"}            \* events that start a full rebuild
Event  == Change \cup Reload \cup {"chmod"}

Init ==
  /\ source = {} /\ edits = 0 /\ faults = 0
  /\ config = Start
  /\ pending = {} /\ batches = <<>>
  /\ current = 1 /\ created = {1} /\ sites = {1} /\ hasCfg = TRUE /\ has = {}
  /\ live = (config = "live") /\ loaded = config
  /\ paused = FALSE /\ errs = FALSE
  /\ missed = {} /\ ignored = FALSE
  /\ hub = "starting" /\ wanted = 1
  /\ armed = FALSE /\ due = 0
  /\ watch = "idle" /\ hand = {} /\ target = 1 /\ doLive = FALSE
  /\ full = "none" /\ seen = {}

---------------------------------------------------------------------------
(* The writer, the batcher and the start of the server.                    *)

Edit(c) ==
  /\ c \notin source
  /\ source' = source \cup {c}
  /\ pending' = pending \cup {c}
  /\ UNCHANGED <<config, edits, faults, batches, stateVars, errs, lossVars, hubVars,
                 timerVars, watchVars, fullVars>>

\* The file system may put a change of mode and a write into one event.
EditConfig(new, event) ==
  /\ edits < MaxEdits /\ (new # config \/ Touch)
  /\ edits' = edits + 1
  /\ config' = new
  /\ pending' = pending \cup {event}
  /\ UNCHANGED <<source, faults, batches, stateVars, errs, lossVars, hubVars, timerVars,
                 watchVars, fullVars>>

\* The channel holds one batch and the batcher waits with the next.
Tick ==
  /\ pending # {} /\ Len(batches) < 2
  /\ batches' = Append(batches, pending)
  /\ pending' = {}
  /\ UNCHANGED <<diskVars, faults, stateVars, errs, lossVars, hubVars, timerVars,
                 watchVars, fullVars>>

\* serve() waits for the state in use when it asks.
ServeAsk ==
  /\ hub = "starting"
  /\ hub' = "waiting" /\ wanted' = current
  /\ UNCHANGED <<diskVars, faults, queueVars, stateVars, errs, lossVars, timerVars,
                 watchVars, fullVars>>

\* Live reload according to the Cfg in use.
CfgLive == IF loaded = "bad" THEN BOOLEAN ELSE {live}

\* Without sites, or without a Cfg in the state then in use, the program panics.  The
\* hub is started once, or not at all.
ServeHub ==
  /\ hub = "waiting" /\ wanted \in created
  /\ hub' \in IF wanted \in sites /\ hasCfg
             THEN {IF on THEN "up" ELSE "off" : on \in CfgLive}
             ELSE {"dead"}
  /\ wanted' = 1
  /\ UNCHANGED <<diskVars, faults, queueVars, stateVars, errs, lossVars, timerVars,
                 watchVars, fullVars>>

Serve == ServeAsk \/ ServeHub

Fire ==
  /\ armed
  /\ armed' = FALSE /\ due' = due + 1
  /\ UNCHANGED <<diskVars, faults, queueVars, stateVars, errs, lossVars, hubVars,
                 watchVars, fullVars>>

\* Faulty variant: a rebuild that finds the semaphore taken is skipped.
StartDueUnlessBusy ==
  /\ due > 0
  /\ due' = due - 1 /\ full' = IF full = "none" THEN "replace" ELSE full
  /\ UNCHANGED <<diskVars, faults, queueVars, stateVars, errs, lossVars, hubVars, armed,
                 watchVars, seen>>

StartDue ==
  /\ due > 0 /\ full = "none"
  /\ due' = due - 1 /\ full' = "replace"
  /\ UNCHANGED <<diskVars, faults, queueVars, stateVars, errs, lossVars, hubVars, armed,
                 watchVars, seen>>

---------------------------------------------------------------------------
(* The watch loop.                                                         *)

\* handleEvents returns; errors are shown in the browser.
Return(logged) == watch' = IF live /\ logged THEN "report" ELSE "idle"

Take == watch = "idle" /\ batches # <<>> /\ batches' = Tail(batches)

\* Faulty variant: a pause holds back changes of the configuration too.
TakeReloadUnlessPaused ==
  /\ Take
  /\ \E e \in Head(batches) \cap Reload :
       IF paused \/ (e = "mod" /\ full # "none")
       THEN /\ missed' = missed \cup (Head(batches) \cap Change)
            /\ ignored' = (ignored \/ ~paused)
            /\ Return(errs)
       ELSE watch' = "acquire" /\ UNCHANGED lossVars
  /\ UNCHANGED <<diskVars, faults, pending, stateVars, errs, hubVars, timerVars, hand,
                 target, doLive, fullVars>>

\* A changed go.mod is ignored while a full rebuild, or the pause after it, lasts.
TakeReload ==
  /\ Take
  /\ \E e \in Head(batches) \cap Reload :
       IF e = "mod" /\ full # "none"
       THEN /\ missed' = missed \cup (Head(batches) \cap Change)
            /\ ignored' = TRUE
            /\ Return(errs)
       ELSE watch' = "acquire" /\ UNCHANGED lossVars
  /\ UNCHANGED <<diskVars, faults, pending, stateVars, errs, hubVars, timerVars, hand,
                 target, doLive, fullVars>>

\* One change of a configuration file's mode ends the handling of the batch.
TakeChmod ==
  /\ Take
  /\ Head(batches) \cap Reload = {} /\ "chmod" \in Head(batches)
  /\ missed' = missed \cup (Head(batches) \cap Change)
  /\ ignored' = TRUE
  /\ Return(errs)
  /\ UNCHANGED <<diskVars, faults, pending, stateVars, errs, hubVars, timerVars, hand,
                 target, doLive, fullVars>>

\* While paused a batch is dropped: the pause ends with a full rebuild.
TakeChanges ==
  /\ Take
  /\ Head(batches) \subseteq Change
  /\ \/ paused /\ Return(errs) /\ UNCHANGED <<armed, hand>>
     \/ /\ ~paused /\ Head(batches) \cap Mass # {}
        /\ armed' = TRUE
        /\ Return(errs) /\ UNCHANGED hand
     \/ /\ ~paused /\ Head(batches) \cap Mass = {}
        /\ hand' = Head(batches)
        /\ watch' = "filter" /\ UNCHANGED armed
  /\ UNCHANGED <<diskVars, faults, pending, stateVars, errs, lossVars, hubVars, due,
                 target, doLive, fullVars>>

Acquire ==
  /\ watch = "acquire" /\ full = "none"
  /\ full' = "replace"
  /\ Return(errs)
  /\ UNCHANGED <<diskVars, faults, queueVars, stateVars, errs, lossVars, hubVars,
                 timerVars, hand, target, doLive, seen>>

\* hugo() takes the state in use at this moment, and then waits for that one.
AskHugo(from, to) ==
  /\ watch = from
  /\ target' = current /\ watch' = to
  /\ UNCHANGED <<diskVars, faults, queueVars, stateVars, errs, lossVars, hubVars,
                 timerVars, hand, doLive, fullVars>>

\* Skipping needs the sites; Cfg is that of the state now in use.  Either may be nil, and
\* the program panics.
Plan ==
  /\ watch = "skip" /\ target \in created
  /\ watch' = IF target \in sites /\ hasCfg THEN "build" ELSE "dead"
  /\ doLive' \in CfgLive
  /\ UNCHANGED <<diskVars, faults, queueVars, stateVars, errs, lossVars, hubVars,
                 timerVars, hand, target, fullVars>>

\* Build begins with the errors logged for its own state forgotten.
Lock ==
  /\ watch = "lock" /\ target \in created
  /\ ~(full = "build" /\ target = current)
  /\ watch' = IF target \in sites THEN "process" ELSE "dead"
  /\ errs' = (errs /\ target # current)
  /\ UNCHANGED <<diskVars, faults, queueVars, stateVars, lossVars, hubVars,
                 timerVars, hand, target, doLive, fullVars>>

\* A partial build reads what the events name, into the state it was asked of.  The
\* browser is told, for content after a look at Cfg, unless nothing came of it.
Process ==
  /\ watch = "process"
  /\ \/ /\ has' = IF target = current THEN has \cup hand ELSE has
        /\ UNCHANGED <<errs, missed, faults>>
     \/ /\ faults < MaxFaults /\ faults' = faults + 1
        /\ missed' = missed \cup hand
        /\ errs' = TRUE
        /\ UNCHANGED has
  /\ hand' = {} /\ target' = 1 /\ doLive' = FALSE
  /\ \/ doLive /\ watch' \in {"navigate", "tell"}
     \/ Return(errs')
  /\ UNCHANGED <<diskVars, queueVars, current, created, sites, hasCfg, live, loaded,
                 paused, ignored, hubVars, timerVars, fullVars>>

\* What to show depends on Cfg, nil in a state that is being loaded.
Navigate ==
  /\ watch = "navigate"
  /\ watch' = IF hasCfg THEN "tell" ELSE "dead"
  /\ UNCHANGED <<diskVars, faults, queueVars, stateVars, errs, lossVars, hubVars,
                 timerVars, hand, target, doLive, fullVars>>

\* A broadcast waits for the hub.
Tell(from) ==
  /\ watch = from /\ hub = "up"
  /\ IF from = "tell" THEN Return(errs) ELSE watch' = "idle"
  /\ UNCHANGED <<diskVars, faults, queueVars, stateVars, errs, lossVars, hubVars,
                 timerVars, hand, target, doLive, fullVars>>

Watch ==
  \/ TakeReload \/ TakeChmod \/ TakeChanges \/ Acquire
  \/ AskHugo("filter", "skip") \/ Plan \/ AskHugo("build", "lock") \/ Lock
  \/ Process \/ Navigate \/ Tell("tell") \/ Tell("report")

---------------------------------------------------------------------------
(* A full rebuild.                                                         *)

Replace ==
  /\ full = "replace"
  /\ current' = current + 1
  /\ hasCfg' = FALSE /\ has' = {}
  /\ full' = "load"
  /\ UNCHANGED <<diskVars, faults, queueVars, created, sites, live, loaded, paused, errs,
                 lossVars, hubVars, timerVars, watchVars, seen>>

\* loadConfig returns an error.
LoadFailed == paused' = TRUE /\ errs' = TRUE /\ full' = "sleep"

\* The configuration is read.  When that fails the state will never be created; Cfg may
\* have been set before, and when a good one fails later doLiveReload as well.
Load ==
  /\ full = "load"
  /\ loaded' = config
  /\ ignored' = FALSE
  /\ \/ /\ config # "bad"
        /\ hasCfg' = TRUE /\ live' = (config = "live")
        /\ errs' = FALSE
        /\ full' = "create" /\ UNCHANGED <<paused, faults>>
     \/ /\ config = "bad" /\ UNCHANGED faults
        /\ hasCfg' \in BOOLEAN /\ UNCHANGED live
        /\ LoadFailed
     \/ /\ config # "bad"
        /\ faults < MaxFaults /\ faults' = faults + 1
        /\ hasCfg' = TRUE /\ live' = (config = "live")
        /\ LoadFailed
  /\ UNCHANGED <<diskVars, queueVars, current, created, sites, has, missed, hubVars,
                 timerVars, watchVars, seen>>

\* Faulty variant: the error of the closure is a variable of its own, and lost.
CreateShadowed ==
  /\ full = "create"
  /\ created' = created \cup {current}
  /\ paused' = FALSE
  /\ full' = "copy"
  /\ \/ /\ sites' = sites \cup {current} /\ UNCHANGED faults
     \/ /\ faults < MaxFaults /\ faults' = faults + 1
        /\ UNCHANGED sites
  /\ UNCHANGED <<diskVars, queueVars, current, hasCfg, has, live, loaded, errs, lossVars,
                 hubVars, timerVars, watchVars, seen>>

\* The channel is closed whether or not there are file systems and sites; the cache
\* directory is looked for after that.
Create ==
  /\ full = "create"
  /\ created' = created \cup {current}
  /\ \/ /\ sites' = sites \cup {current}
        /\ paused' = FALSE
        /\ full' = "copy" /\ UNCHANGED <<errs, faults>>
     \/ /\ faults < MaxFaults /\ faults' = faults + 1
        /\ sites' \in {sites, sites \cup {current}}
        /\ LoadFailed
  /\ UNCHANGED <<diskVars, queueVars, current, hasCfg, has, live, loaded, lossVars, hubVars,
                 timerVars, watchVars, seen>>

CopyStatic ==
  /\ full = "copy"
  /\ \/ full' = "lock" /\ UNCHANGED <<faults, missed, errs>>
     \/ /\ faults < MaxFaults /\ faults' = faults + 1
        /\ missed' = source
        /\ errs' = TRUE /\ full' = "sleep"
  /\ UNCHANGED <<diskVars, queueVars, stateVars, ignored, hubVars, timerVars, watchVars,
                 seen>>

LockAll ==
  /\ full = "lock"
  /\ ~(watch = "process" /\ target = current)
  /\ full' = "build" /\ seen' = source
  /\ UNCHANGED <<diskVars, faults, queueVars, stateVars, errs, lossVars, hubVars,
                 timerVars, watchVars>>

\* Everything on disk is read, changes made meanwhile may be or not.  An error logged
\* meanwhile by the watch loop counts as one of the build: no refresh.
BuildSites ==
  /\ full = "build"
  /\ \/ /\ \E read \in SUBSET source :
             /\ seen \subseteq read
             /\ has' = has \cup read /\ missed' = missed \ read
        /\ full' = IF live /\ ~errs THEN "tell" ELSE "sleep"
        /\ UNCHANGED <<faults, errs>>
     \/ /\ faults < MaxFaults /\ faults' = faults + 1
        /\ missed' = source
        /\ errs' = TRUE /\ full' = "sleep"
        /\ UNCHANGED has
  /\ seen' = {}
  /\ UNCHANGED <<diskVars, queueVars, current, created, sites, hasCfg, live, loaded, paused,
                 ignored, hubVars, timerVars, watchVars>>

TellAll ==
  /\ full = "tell" /\ hub = "up"
  /\ full' = "sleep"
  /\ UNCHANGED <<diskVars, faults, queueVars, stateVars, errs, lossVars, hubVars,
                 timerVars, watchVars, seen>>

\* Faulty variant: the semaphore is only released after a rebuild without errors.
WakeUnlessFailed ==
  /\ full = "sleep"
  /\ full' = IF errs THEN "sleep" ELSE "none"
  /\ UNCHANGED <<diskVars, faults, queueVars, stateVars, errs, lossVars, hubVars,
                 timerVars, watchVars, seen>>

\* The semaphore is released when the goroutine has slept.
Wake ==
  /\ full = "sleep"
  /\ full' = "none"
  /\ UNCHANGED <<diskVars, faults, queueVars, stateVars, errs, lossVars, hubVars,
                 timerVars, watchVars, seen>>

FullRebuild ==
  Replace \/ Load \/ Create \/ CopyStatic \/ LockAll \/ BuildSites \/ TellAll \/ Wake

---------------------------------------------------------------------------
\* A panic of one goroutine ends the program.
Dead == "dead" \in {watch, hub}

\* The batcher, the start of the server, the timer and the rebuilds it starts.
Background == Tick \/ Serve \/ Fire \/ StartDue

Next ==
  /\ ~Dead
  /\ \/ \E c \in Change : Edit(c)
     \/ \E new \in Config, event \in Reload \cup {"chmod"} : EditConfig(new, event)
     \/ Background \/ Watch \/ FullRebuild

Spec == Init /\ [][Next]_vars

Alive(A) == ~Dead /\ A

\* The goroutines run, those in the background taken together; nobody has to edit
\* anything.
FairSpec ==
  /\ Spec
  /\ WF_vars(Alive(Background)) /\ WF_vars(Alive(Watch)) /\ WF_vars(Alive(FullRebuild))

---------------------------------------------------------------------------
TypeOK ==
  /\ source \subseteq Change /\ config \in Config /\ loaded \in Config
  /\ edits \in Nat /\ faults \in Nat
  /\ pending \subseteq Event /\ batches \in Seq(SUBSET Event)
  /\ current \in Nat /\ created \subseteq 1..current /\ sites \subseteq created
  /\ hasCfg \in BOOLEAN
  /\ has \subseteq Change /\ missed \subseteq Change /\ hand \subseteq source
  /\ live \in BOOLEAN /\ paused \in BOOLEAN /\ errs \in BOOLEAN /\ ignored \in BOOLEAN
  /\ hub \in {"starting", "waiting", "up", "off", "dead"} /\ wanted \in 1..current
  /\ armed \in BOOLEAN /\ due \in Nat
  /\ watch \in {"idle", "acquire", "filter", "skip", "build", "lock", "process",
                "navigate", "tell", "report", "dead"}
  /\ target \in 1..current /\ doLive \in BOOLEAN
  /\ full \in {"none", "replace", "load", "create", "copy", "lock", "build", "tell", "sleep"}
  /\ seen \subseteq source

\* Events not handled yet.
Queued(e) == e \in pending \/ \E i \in 1..Len(batches) : e \in batches[i]

RebuildWaiting == armed \/ due > 0 \/ watch = "acquire" \/ full = "replace"
WillLoad == RebuildWaiting \/ full = "load"
WillRead == WillLoad \/ full \in {"create", "copy", "lock"}

\* No edit is lost between the threads: a change on disk is in the state that is
\* shown, or an event or the watch loop still carries it, or a full rebuild reads it or
\* will, or processing is paused until one does; otherwise it was given up where the
\* code says so.  (A batch may be built into a state that was replaced meanwhile,
\* hugo.go:738-754, and changes go with the old state; what is changed during a full
\* build may miss it.)
NothingLost ==
  \A c \in source :
    c \in has \cup hand \cup seen \cup missed \/ Queued(c) \/ WillRead \/ paused

\* The same for the configuration: what is on disk is what was loaded, or its event
\* waits, or a rebuild that will load it lies ahead, or the code chose to ignore the
\* edit; in particular the edit that repairs a broken configuration gets through the
\* pause (hugo.go:900-961).
ConfigNotLost ==
  config = loaded \/ WillLoad \/ ignored \/ \E e \in Reload \cup {"chmod"} : Queued(e)

\* While processing is not paused and no configuration is being loaded, the state in
\* use has its sites and its Cfg: the test of paused (hugo.go:957) keeps the watch loop
\* from waiting for a state nobody will create, and from one created without sites
\* (commandeer.go:389-404).
UnpausedIsUsable ==
  ~paused /\ full \notin {"load", "create"} => current \in sites /\ hasCfg

\* The state being loaded is not created; when its sites are, it has a Cfg.
LoadingIsUncreated ==
  /\ full \in {"load", "create"} => current \notin created
  /\ full = "create" => hasCfg

\* A batch headed for a replaced state loses nothing: the rebuild that replaced it
\* has read its changes, or will.
ReplacedCovered ==
  target # current /\ watch \in {"lock", "process"} =>
    hand \subseteq has \cup seen \cup missed \/ WillRead \/ paused

\* The watch loop takes a batch only when it carries nothing else.
HandEmpty ==
  watch \notin {"filter", "skip", "build", "lock", "process", "dead"} => hand = {}

\* Queued changes are changes that were made.
QueuedWereMade == \A c \in Change : Queued(c) => c \in source

IInv ==
  /\ TypeOK /\ UnpausedIsUsable /\ LoadingIsUncreated /\ ReplacedCovered
  /\ HandEmpty /\ QueuedWereMade

\* Waiting for a state whose configuration could not be loaded, or for a hub that was
\* never started, nor will be: nothing ends either.
Never(state) ==
  state \notin created /\ (state # current \/ full \notin {"load", "create"})

Stuck ==
  \/ watch \in {"skip", "lock"} /\ Never(target)
  \/ /\ hub = "off" \/ (hub = "waiting" /\ Never(wanted))
     /\ watch \in {"tell", "report"} \/ full = "tell"

\* Every change is built in the end, unless it is given up, a pause or a deadlock
\* intervenes, or the program dies: no timer, batch or semaphore is forgotten
\* (hugo.go:768-820, 840-881, batcher.go:62-81).  (For all changes at once: there are
\* finitely many.)
ChangeSettles == []<>(source \subseteq has \cup missed \/ paused \/ Stuck \/ Dead)

\* What the code says of a configuration that cannot be loaded: "Set the processing on
\* pause until the state is recovered" (hugo.go:797).  Once the configuration is
\* repaired, and the edit was not ignored, the pause ends or the program has died.
\* (For MaxFaults = 0: what pauses for any other reason waits for the next edit of the
\* configuration, as the batch with a repaired template is dropped, hugo.go:957.)
PauseEnds == paused /\ config # "bad" ~> ~paused \/ config = "bad" \/ ignored \/ Dead
===========================================================================
