---------------------------- MODULE SchemaWatch ----------------------------
(***************************************************************************)
(* Watch mode: internal/watch/watch.go and the boot pipeline and OnChange  *)
(* callback of facade.go.  Several instances of the server may share a     *)
(* database.  A DDL command commits a new version of the catalog; an       *)
(* instance learns of it through an event trigger that NOTIFYs the channel *)
(* it LISTENs on, or by polling.  Introspection is several queries, of     *)
(* which the model keeps a first and a last one, so a catalog is the pair  *)
(* of versions those two read.                                             *)
(***************************************************************************)
EXTENDS Naturals

CONSTANTS
  Instances,
  ChannelOf,   \* [Instances -> channel], watch.channel
  NoChannel,
  Privileged,  \* instances whose role may create event triggers
  PoolSize,    \* database.max_conns
  MaxMigrations,  \* bound on DDL commands
  MaxFaults    \* bound on failures: queries, rebuilds, connections, crashes

ASSUME WatchAssumption ==
  /\ Privileged \subseteq Instances
  /\ \A i \in Instances : ChannelOf[i] # NoChannel
  /\ PoolSize \in Nat \ {0} /\ MaxMigrations \in Nat /\ MaxFaults \in Nat

VARIABLES
  catalog,    \* version of the catalog
  function,   \* channel that pdbq_watch_notify() notifies, NoChannel before it exists
  trigger,    \* the event trigger pdbq_watch exists
  listening,  \* the watcher holds a connection that listens
  queue,      \* notifications delivered to it and not yet read
  pc,         \* where each instance is
  mode,       \* its mechanism, listen or poll
  seen,       \* the catalog its introspection has read
  executor,   \* the catalog behind its executor
  sdl,        \* the catalog behind its SDL
  lastHash,   \* the catalog the last poll hashed, Unread before
  missed,     \* history: a DDL or a failure it was in no position to notice
  faults

schema == <<catalog, function, trigger>>
conn == <<listening, queue>>
served == <<executor, sdl>>
watchVars == <<schema, conn, pc, mode, seen, served, lastHash, missed, faults>>
------------------------------------------------------------------------------
Unread == <<MaxMigrations + 1, MaxMigrations + 1>>
Goto(i, label) == pc' = [pc EXCEPT ![i] = label]

\* The top of the loop in listen and of the loop in poll.
Resume(i) == Goto(i, IF mode[i] = "listen" THEN "wait" ELSE "tick")

\* Introspection takes a connection from the pool besides the listener's own.
CanQuery(i) == IF listening[i] THEN PoolSize > 1 ELSE PoolSize > 0

\* The end of a DDL command: the trigger notifies whoever listens.
Notify(channel) ==
  queue' = [i \in Instances |->
    IF trigger /\ listening[i] /\ ChannelOf[i] = channel THEN queue[i] + 1 ELSE queue[i]]

Fault == faults < MaxFaults /\ faults' = faults + 1

\* The instance does not notice a DDL command now: it has read part of the
\* catalog, but neither listens nor has a hash to compare with.
Blind(i) ==
  \/ pc[i] \in {"load", "install", "create_trigger", "listen"}
  \/ pc[i] \in {"tick", "read", "read_rest"} /\ mode[i] = "poll" /\ lastHash[i] = Unread
------------------------------------------------------------------------------
WatchInit ==
  /\ catalog = 0
  /\ function = NoChannel
  /\ trigger = FALSE
  /\ listening = [i \in Instances |-> FALSE]
  /\ queue = [i \in Instances |-> 0]
  /\ pc = [i \in Instances |-> "down"]
  /\ mode = [i \in Instances |-> "listen"]
  /\ seen = [i \in Instances |-> Unread]
  /\ executor = [i \in Instances |-> Unread]
  /\ sdl = [i \in Instances |-> Unread]
  /\ lastHash = [i \in Instances |-> Unread]
  /\ missed = [i \in Instances |-> FALSE]
  /\ faults = 0

\* Somebody changes the schema.
Migrate ==
  /\ catalog < MaxMigrations
  /\ catalog' = catalog + 1
  /\ Notify(function)
  /\ missed' = [i \in Instances |-> missed[i] \/ Blind(i)]
  /\ UNCHANGED <<function, trigger, listening, pc, mode, seen, served, lastHash, faults>>

\* buildServer: LoadCatalog reads the first part of the catalog ...
LoadCatalog(i) ==
  /\ pc[i] = "down"
  /\ seen' = [seen EXCEPT ![i] = <<catalog, MaxMigrations + 1>>]
  /\ missed' = [missed EXCEPT ![i] = FALSE]
  /\ Goto(i, "load")
  /\ UNCHANGED <<schema, conn, mode, served, lastHash, faults>>

\* ... and the rest; BuildSchema, server.New, and the watcher's goroutine starts.
Serve(i) ==
  /\ pc[i] = "load"
  /\ seen' = [seen EXCEPT ![i][2] = catalog]
  /\ executor' = [executor EXCEPT ![i] = <<seen[i][1], catalog>>]
  /\ sdl' = [sdl EXCEPT ![i] = <<seen[i][1], catalog>>]
  /\ Goto(i, "install")
  /\ UNCHANGED <<schema, conn, mode, lastHash, missed, faults>>

\* installTrigger: CREATE OR REPLACE FUNCTION, itself a DDL command ...
InstallFunction(i) ==
  /\ pc[i] = "install"
  /\ function' = ChannelOf[i]
  /\ Notify(ChannelOf[i])
  /\ Goto(i, "create_trigger")
  /\ UNCHANGED <<catalog, trigger, listening, mode, seen, served, lastHash, missed, faults>>

\* ... and CREATE EVENT TRIGGER unless it exists, which needs no privilege then.
InstallTrigger(i) ==
  /\ pc[i] = "create_trigger"
  /\ i \in Privileged \/ trigger
  /\ trigger' = TRUE
  /\ mode' = [mode EXCEPT ![i] = "listen"]
  /\ Goto(i, "listen")
  /\ UNCHANGED <<catalog, function, conn, seen, served, lastHash, missed, faults>>

\* installTrigger lacks a privilege, for the function or for the trigger.
Denied(i) ==
  /\ i \notin Privileged
  /\ pc[i] = "install" \/ (pc[i] = "create_trigger" /\ ~ trigger)

\* It fails, for that or another reason: poll.
Degrade(i) ==
  /\ pc[i] \in {"install", "create_trigger"}
  /\ IF Denied(i) THEN UNCHANGED faults ELSE Fault
  /\ mode' = [mode EXCEPT ![i] = "poll"]
  /\ lastHash' = [lastHash EXCEPT ![i] = Unread]
  /\ Goto(i, "tick")
  /\ UNCHANGED <<schema, conn, seen, served, missed>>

\* listen: a connection of its own, and LISTEN.
Listen(i) ==
  /\ pc[i] = "listen"
  /\ listening' = [listening EXCEPT ![i] = TRUE]
  /\ Goto(i, "wait")
  /\ UNCHANGED <<schema, queue, mode, seen, served, lastHash, missed, faults>>

\* listen: WaitForNotification returns; then the burst is given time to end.
Notified(i) ==
  /\ pc[i] = "wait"
  /\ queue[i] > 0
  /\ queue' = [queue EXCEPT ![i] = queue[i] - 1]
  /\ Goto(i, "drain")
  /\ UNCHANGED <<schema, listening, mode, seen, served, lastHash, missed, faults>>

\* drainNotifications: until none came for a while.
Drain(i) ==
  /\ pc[i] = "drain"
  /\ queue' = [queue EXCEPT ![i] = 0]
  /\ Goto(i, "read")
  /\ UNCHANGED <<schema, listening, mode, seen, served, lastHash, missed, faults>>

\* poll: the ticker fires.
Poll(i) ==
  /\ pc[i] = "tick"
  /\ Goto(i, "read")
  /\ UNCHANGED <<schema, conn, mode, seen, served, lastHash, missed, faults>>

\* introspect.Introspect: the first queries ...
Reread(i) ==
  /\ pc[i] = "read"
  /\ CanQuery(i)
  /\ seen' = [seen EXCEPT ![i] = <<catalog, MaxMigrations + 1>>]
  /\ Goto(i, "read_rest")
  /\ UNCHANGED <<schema, conn, mode, served, lastHash, missed, faults>>

\* poll: the first hash is only recorded, a later one is compared with the last.
Drifted(i, cat) == lastHash[i] # Unread /\ cat # lastHash[i]

\* MUTANT of ReadRest: notifications are drained after introspection instead of
\* before it.
ReadRestThenDrain(i) ==
  /\ pc[i] = "read_rest"
  /\ CanQuery(i)
  /\ LET cat == <<seen[i][1], catalog>> IN
       /\ seen' = [seen EXCEPT ![i] = cat]
       /\ IF mode[i] = "listen" \/ Drifted(i, cat) THEN Goto(i, "rebuild") ELSE Resume(i)
       /\ lastHash' = IF mode[i] = "poll" THEN [lastHash EXCEPT ![i] = cat] ELSE lastHash
  /\ queue' = [queue EXCEPT ![i] = 0]
  /\ UNCHANGED <<schema, listening, mode, served, missed, faults>>

\* ... and the last ones.  poll compares the hash and remembers it (nothing reads
\* lastHash before OnChange returns); reintrospect always rebuilds.
ReadRest(i) ==
  /\ pc[i] = "read_rest"
  /\ CanQuery(i)
  /\ LET cat == <<seen[i][1], catalog>> IN
       /\ seen' = [seen EXCEPT ![i] = cat]
       /\ IF mode[i] = "listen" \/ Drifted(i, cat) THEN Goto(i, "rebuild") ELSE Resume(i)
       /\ lastHash' = IF mode[i] = "poll" THEN [lastHash EXCEPT ![i] = cat] ELSE lastHash
  /\ UNCHANGED <<schema, conn, mode, served, missed, faults>>

\* Introspect fails: reintrospect gives up until the next notification, poll until
\* the next tick, when the hash will still differ.
ReadFails(i) ==
  /\ pc[i] \in {"read", "read_rest"}
  /\ Fault
  /\ missed' = [missed EXCEPT ![i] = @ \/ mode[i] = "listen"]
  /\ Resume(i)
  /\ UNCHANGED <<schema, conn, mode, seen, served, lastHash>>

\* MUTANT of StoreExecutor: the SDL is stored first.
StoreSDLFirst(i) ==
  /\ pc[i] = "rebuild"
  /\ sdl' = [sdl EXCEPT ![i] = seen[i]]
  /\ missed' = [missed EXCEPT ![i] = FALSE]
  /\ Goto(i, "store_sdl")
  /\ UNCHANGED <<schema, conn, mode, seen, executor, lastHash, faults>>

\* OnChange: BuildSchema succeeds; Swap stores the executor ...
StoreExecutor(i) ==
  /\ pc[i] = "rebuild"
  /\ executor' = [executor EXCEPT ![i] = seen[i]]
  /\ missed' = [missed EXCEPT ![i] = FALSE]
  /\ Goto(i, "store_sdl")
  /\ UNCHANGED <<schema, conn, mode, seen, sdl, lastHash, faults>>

\* ... and then the SDL.
StoreSDL(i) ==
  /\ pc[i] = "store_sdl"
  /\ sdl' = [sdl EXCEPT ![i] = seen[i]]
  /\ Resume(i)
  /\ UNCHANGED <<schema, conn, mode, seen, executor, lastHash, missed, faults>>

\* OnChange: the rebuild fails and the old schema stays.
RebuildFails(i) ==
  /\ pc[i] = "rebuild"
  /\ Fault
  /\ missed' = [missed EXCEPT ![i] = TRUE]
  /\ Resume(i)
  /\ UNCHANGED <<schema, conn, mode, seen, served, lastHash>>

\* The listener's connection breaks ...
ConnLost(i) ==
  /\ listening[i]
  /\ Fault
  /\ listening' = [listening EXCEPT ![i] = FALSE]
  /\ queue' = [queue EXCEPT ![i] = 0]
  /\ UNCHANGED <<schema, pc, mode, seen, served, lastHash, missed>>

\* ... WaitForNotification reports it, and Run returns while the server goes on.
WatcherStops(i) ==
  /\ pc[i] = "wait"
  /\ ~ listening[i]
  /\ Goto(i, "stopped")
  /\ UNCHANGED <<schema, conn, mode, seen, served, lastHash, missed, faults>>

\* The process ends; it may be started again.  Function and trigger stay behind.
Crash(i) ==
  /\ pc[i] # "down"
  /\ Fault
  /\ Goto(i, "down")
  /\ listening' = [listening EXCEPT ![i] = FALSE]
  /\ queue' = [queue EXCEPT ![i] = 0]
  /\ lastHash' = [lastHash EXCEPT ![i] = Unread]
  /\ UNCHANGED <<schema, mode, seen, served, missed>>

Boot(i) == LoadCatalog(i) \/ Serve(i)
Watcher(i) ==
  \/ InstallFunction(i) \/ InstallTrigger(i) \/ (Denied(i) /\ Degrade(i))
  \/ Listen(i) \/ Notified(i) \/ Drain(i) \/ Poll(i) \/ Reread(i) \/ ReadRest(i)
  \/ StoreExecutor(i) \/ StoreSDL(i) \/ WatcherStops(i)
Failure(i) ==
  \/ (~ Denied(i) /\ Degrade(i))
  \/ ReadFails(i) \/ RebuildFails(i) \/ ConnLost(i) \/ Crash(i)

WatchNext == Migrate \/ \E i \in Instances : Boot(i) \/ Watcher(i) \/ Failure(i)

\* The watcher's goroutine keeps running: statements end and the ticker ticks.
Fairness == \A i \in Instances : WF_watchVars(Boot(i)) /\ WF_watchVars(Watcher(i))

WatchSpec == WatchInit /\ [][WatchNext]_watchVars
FairWatchSpec == WatchSpec /\ Fairness
------------------------------------------------------------------------------
Labels == {"down", "load", "install", "create_trigger", "listen", "wait", "drain",
           "tick", "read", "read_rest", "rebuild", "store_sdl", "stopped"}
Catalogs == (0..MaxMigrations + 1) \X (0..MaxMigrations + 1)
Current == <<catalog, catalog>>

\* Every variable has its type, only a listening watcher is notified, and each
\* mechanism stays in its own loop (Run).
TypeOK ==
  /\ catalog \in 0..MaxMigrations
  /\ function \in {ChannelOf[i] : i \in Instances} \cup {NoChannel}
  /\ trigger \in BOOLEAN
  /\ listening \in [Instances -> BOOLEAN]
  /\ queue \in [Instances -> Nat]
  /\ pc \in [Instances -> Labels]
  /\ mode \in [Instances -> {"listen", "poll"}]
  /\ seen \in [Instances -> Catalogs]
  /\ executor \in [Instances -> Catalogs]
  /\ sdl \in [Instances -> Catalogs]
  /\ lastHash \in [Instances -> Catalogs]
  /\ missed \in [Instances -> BOOLEAN]
  /\ faults \in 0..MaxFaults
  /\ \A i \in Instances :
       /\ queue[i] > 0 => listening[i]
       /\ pc[i] \in {"wait", "drain", "stopped"} => mode[i] = "listen"
       /\ pc[i] = "tick" => mode[i] = "poll"

\* No DDL command falls between the steps of a watcher, in particular none between
\* the notification it read, the ones it drained and the catalog it introspects:
\* whenever it waits with nothing queued, it serves the catalog as it is; a poller
\* serves what it last hashed (listen, drainNotifications, poll).
NothingLost ==
  \A i \in Instances : ~ missed[i] =>
    /\ pc[i] = "wait" /\ listening[i] /\ queue[i] = 0 => executor[i] = Current /\ sdl[i] = Current
    /\ pc[i] = "tick" /\ lastHash[i] # Unread =>
         executor[i] = lastHash[i] /\ sdl[i] = lastHash[i]

\* A client that reads the SDL and then sends a request is never executed by a
\* schema older than that SDL (the order of the two stores in Swap).
SdlNeverAhead ==
  \A i \in Instances : pc[i] \notin {"down", "load"} =>
    sdl[i][1] <= executor[i][1] /\ sdl[i][2] <= executor[i][2]

\* When the DDL and the failures are over, every instance whose watcher runs and
\* that missed nothing ends up serving the catalog as it is, never a mixture of
\* two versions (the watch loop as a whole).
Converges ==
  \A i \in Instances :
    <>[](pc[i] = "stopped" \/ missed[i] \/ (executor[i] = Current /\ sdl[i] = Current))
=============================================================================
