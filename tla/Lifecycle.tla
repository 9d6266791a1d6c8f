-------------------------------- MODULE Lifecycle --------------------------------
(***************************************************************************)
(* The life of the server process, from its start to its end and the next  *)
(* start: configuration, logger, signal handlers, workers, connections and *)
(* shutdown (server.cpp:82-113, 144-190, 313-321, os/posix.cpp,            *)
(* os/windows.cpp).  What the datastore goes through meanwhile are steps   *)
(* of ClientStore.                                                         *)
(*                                                                         *)
(* spdlog is external: spdlog::get() and drop_all() hold the mutex of its  *)
(* registry while they look at it; a logger that somebody has got lives on *)
(* after drop_all().  So is the delivery of a signal.  On POSIX a handler  *)
(* runs on top of a thread that it interrupts, also inside another signal  *)
(* handler; on Windows it runs in a thread of its own.                     *)
(***************************************************************************)
EXTENDS ClientStore, Sequences

CONSTANTS
  Main, Workers,  (* the threads of the server                              *)
  Ctrl,           (* the thread Windows runs console handlers in            *)
  NoOne,          (* the owner of a free mutex                              *)
  MaxSignals      (* bound on the signals in the life of one process        *)

Threads == {Main} \cup Workers

ASSUME ThreadsAssumption ==
  Main \notin Workers /\ Ctrl \notin Threads /\ NoOne \notin Threads \cup {Ctrl}
ASSUME MaxSignalsAssumption == MaxSignals \in Nat

VARIABLES
  platform,    (* "posix" or "windows"                                      *)
  config,      (* server.json: absent, partial or whole                     *)
  mpc,         (* where main() is; "off" while there is no process          *)
  wpc,         (* where each worker thread is                               *)
  stop,        (* keron::server::stop                                       *)
  registered,  (* "log" is in the registry of spdlog                        *)
  holder,      (* who holds its mutex: a thread and how deep in handlers    *)
  frames,      (* the signal handlers that run on top of each thread        *)
  signals,     (* history: the signals this process got                     *)
  ended        (* history: how the last process ended                       *)

store    == <<db, txn, client, connects, total>>
disk     == <<platform, config>>
logging  == <<registered, holder>>
lifevars == <<db, txn, client, connects, total, platform, config, mpc, wpc, stop,
              registered, holder, frames, signals, ended>>

MainPlaces ==
  {"off", "config", "write", "logger", "register", "setup", "run", "service",
   "connect", "join", "drop", "dropping", "return"}
WorkerPlaces == {"none", "get", "getting", "run", "done"}

(* sigaction() for SIGTERM and SIGINT; the events of SetConsoleCtrlHandler. *)
PosixSignals  == {"SIGTERM", "SIGINT"}
WindowsEvents == {"CTRL_C", "CTRL_CLOSE", "CTRL_BREAK", "CTRL_LOGOFF", "CTRL_SHUTDOWN"}

(* The handler returns FALSE: the system goes on to ExitProcess(). *)
ReturnsFalse(signal) == signal \in {"CTRL_BREAK", "CTRL_LOGOFF", "CTRL_SHUTDOWN"}

Frame == [signal : PosixSignals \cup WindowsEvents, pc : {"get", "getting", "store", "default"}]
Agents == (Threads \cup {Ctrl}) \X (0 .. MaxSignals)

NoWorker == [w \in Workers |-> "none"]
NoFrames == [t \in Threads \cup {Ctrl} |-> <<>>]

(***************************************************************************)
(* Every variable has its type, and nothing of a process outlives it: not  *)
(* its threads, handlers and stop code, not the registry and its mutex,    *)
(* and not a transaction on a connection.                                  *)
(***************************************************************************)
LifeTypeOK ==
  /\ TypeOK
  /\ platform \in {"posix", "windows"} /\ config \in {"absent", "partial", "whole"}
  /\ mpc \in MainPlaces /\ wpc \in [Workers -> WorkerPlaces]
  /\ stop \in {0, 1} /\ registered \in BOOLEAN
  /\ holder \in Agents \cup {NoOne}
  /\ frames \in [Threads \cup {Ctrl} -> Seq(Frame)]
  /\ signals \in 0 .. MaxSignals
  /\ ended \in {"never", "error", "killed", "fault", "clean"}
  /\ mpc = "off" =>
       /\ wpc = NoWorker /\ frames = NoFrames /\ signals = 0
       /\ stop = 0 /\ registered = FALSE /\ holder = NoOne
       /\ client = 0

LifeInit ==
  /\ Init
  /\ platform \in {"posix", "windows"}
  /\ config \in {"absent", "whole"}
  /\ mpc = "off" /\ ended = "never" /\ wpc = NoWorker
  /\ stop = 0 /\ registered = FALSE /\ holder = NoOne
  /\ frames = NoFrames /\ signals = 0
--------------------------------------------------------------------------------
(* The process ends, its memory is gone; LMDB forgets a transaction that is not committed. *)
Ends(how) ==
  /\ mpc' = "off" /\ ended' = how /\ wpc' = NoWorker
  /\ stop' = 0 /\ registered' = FALSE /\ holder' = NoOne
  /\ frames' = NoFrames /\ signals' = 0
  /\ \/ CrashRestart
     \/ client = 0 /\ UNCHANGED store

Boot ==
  /\ mpc = "off" /\ mpc' = "config"
  /\ UNCHANGED <<store, disk, wpc, stop, logging, frames, signals, ended>>

(* A thread runs its own code while no handler runs on top of it. *)
Uninterrupted(t) == frames[t] = <<>>

MGoto(from, to) ==
  /\ mpc = from /\ mpc' = to
  /\ Uninterrupted(Main)
  /\ UNCHANGED <<frames, signals, ended>>

(* load_configuration: the result of Parse() at the end is not looked at. *)
LoadConfiguration ==
  /\ MGoto("config", IF config = "absent" THEN "write" ELSE "logger")
  /\ UNCHANGED <<store, disk, wpc, stop, logging>>

(***************************************************************************)
(* Settings that were not parsed are read from whatever the buffer holds:  *)
(* the process dies of it at once or goes on.                              *)
(***************************************************************************)
UnparsedSettings ==
  /\ mpc = "logger" /\ config = "partial"
  /\ Ends("error")
  /\ UNCHANGED disk

(* SaveFile() creates the file before it writes it. *)
CreateFile ==
  /\ MGoto("write", "write")
  /\ config = "absent" /\ config' = "partial"
  /\ UNCHANGED <<store, platform, wpc, stop, logging>>

(* "A default configuration has been written. ... restart the server." *)
WriteDefault ==
  /\ mpc = "write"
  /\ config = "partial" /\ config' = "whole"
  /\ Ends("error")
  /\ UNCHANGED platform

(* rotating_logger_mt("log", ...) *)
CreateLogger ==
  /\ MGoto("logger", "register")
  /\ registered' = TRUE
  /\ UNCHANGED <<store, disk, wpc, stop, holder>>

RegisterSignalHandlers ==
  /\ MGoto("register", "setup")
  /\ UNCHANGED <<store, disk, wpc, stop, logging>>

(* workers.emplace_back(): main() goes on to its loop after the last one. *)
Spawn(w) ==
  /\ MGoto("setup", IF \A v \in Workers \ {w} : wpc[v] # "none" THEN "run" ELSE "setup")
  /\ wpc[w] = "none" /\ wpc' = [wpc EXCEPT ![w] = "get"]
  /\ UNCHANGED <<store, disk, stop, logging>>

(* No schema, default, log file, signal handler, datastore or host. *)
SetupFails ==
  /\ mpc \in {"config", "write", "logger", "register", "setup"} /\ Uninterrupted(Main)
  /\ \A w \in Workers : wpc[w] = "none"
  /\ Ends("error")
  /\ UNCHANGED disk

MainCheck ==
  /\ MGoto("run", IF stop = 0 THEN "service" ELSE "join")
  /\ UNCHANGED <<store, disk, wpc, stop, logging>>

(* Any event but the connection of a client that gives its identifier. *)
Service ==
  /\ MGoto("service", "run")
  /\ UNCHANGED <<store, disk, wpc, stop, logging>>

ServiceConnect(id) ==
  /\ MGoto("service", "connect")
  /\ BeginConnect(id)
  /\ UNCHANGED <<disk, wpc, stop, logging>>

ServiceCommit ==
  /\ MGoto("connect", "run")
  /\ CommitConnect
  /\ UNCHANGED <<disk, wpc, stop, logging>>

ServiceError ==
  /\ mpc = "service" /\ Uninterrupted(Main)
  /\ Ends("error")
  /\ UNCHANGED disk

(* Mutant: one worker that has ended is enough. *)
OneJoined == \E w \in Workers : wpc[w] = "done"

AllJoined == \A w \in Workers : wpc[w] = "done"

Join ==
  /\ MGoto("join", "drop")
  /\ AllJoined
  /\ UNCHANGED <<store, disk, wpc, stop, logging>>

(* spdlog::drop_all(): the mutex is taken, the loggers go, it is released. *)
DropAll ==
  /\ \/ MGoto("drop", "dropping") /\ holder = NoOne /\ holder' = <<Main, 0>> /\ UNCHANGED registered
     \/ MGoto("dropping", "return") /\ holder' = NoOne /\ registered' = FALSE
  /\ UNCHANGED <<store, disk, wpc, stop>>

Return ==
  /\ mpc = "return" /\ Uninterrupted(Main)
  /\ Ends("clean")
  /\ UNCHANGED disk

MainStep ==
  \/ LoadConfiguration \/ UnparsedSettings \/ CreateFile \/ WriteDefault \/ CreateLogger
  \/ RegisterSignalHandlers \/ SetupFails \/ (\E w \in Workers : Spawn(w))
  \/ MainCheck \/ Service \/ (\E id \in ClientIds : ServiceConnect(id)) \/ ServiceCommit
  \/ ServiceError \/ Join \/ DropAll \/ Return
--------------------------------------------------------------------------------
(***************************************************************************)
(* A worker gets its logger first and then loops while (!stop).            *)
(***************************************************************************)
WGoto(w, from, to) ==
  /\ wpc[w] = from /\ wpc' = [wpc EXCEPT ![w] = to]
  /\ Uninterrupted(w)
  /\ UNCHANGED <<store, disk, mpc, stop, registered, frames, signals, ended>>

WorkerGets(w) == WGoto(w, "get", "getting") /\ holder = NoOne /\ holder' = <<w, 0>>
WorkerGot(w)  == WGoto(w, "getting", "run") /\ holder' = NoOne
WorkerEnds(w) == WGoto(w, "run", "done") /\ stop # 0 /\ UNCHANGED holder

WorkerStep(w) == WorkerGets(w) \/ WorkerGot(w) \/ WorkerEnds(w)
--------------------------------------------------------------------------------
(***************************************************************************)
(* Signals.  Before the handlers are registered a signal ends the process; *)
(* Kill is that, and any other end that the process does not see coming.   *)
(***************************************************************************)
Kill ==
  /\ mpc # "off"
  /\ Ends("killed")
  /\ UNCHANGED disk

HandlersRegistered == mpc \notin {"off", "config", "write", "logger", "register"}

Interruptible(t) ==
  \/ platform = "windows" /\ t = Ctrl /\ frames[Ctrl] = <<>>
  \/ platform = "posix" /\ t = Main
  \/ platform = "posix" /\ t \in Workers /\ wpc[t] \notin {"none", "done"}

(* A signal is blocked in a thread while its own handler runs there. *)
Deliver(t, signal) ==
  /\ HandlersRegistered /\ Interruptible(t)
  /\ signal \in IF platform = "windows" THEN WindowsEvents ELSE PosixSignals
  /\ \A i \in DOMAIN frames[t] : frames[t][i].signal # signal
  /\ signals < MaxSignals /\ signals' = signals + 1
  /\ frames' = [frames EXCEPT ![t] = Append(@, [signal |-> signal, pc |-> "get"])]
  /\ UNCHANGED <<store, disk, mpc, wpc, stop, logging, ended>>

(* The handler that runs on top of t. *)
Depth(t) == Len(frames[t])
InHandler(t, place) == frames[t] # <<>> /\ frames[t][Depth(t)].pc = place
HGoto(t, from, to) ==
  /\ InHandler(t, from)
  /\ frames' = [frames EXCEPT ![t][Depth(t)].pc = to]
  /\ UNCHANGED <<store, disk, mpc, wpc, registered, signals, ended>>

(* spdlog::get("log") *)
HandlerGets(t) ==
  /\ HGoto(t, "get", "getting")
  /\ holder = NoOne /\ holder' = <<t, Depth(t)>>
  /\ UNCHANGED stop

(* ->info() << "The server is going DOWN!" *)
HandlerLogs(t) ==
  /\ registered
  /\ HGoto(t, "getting", "store")
  /\ holder' = NoOne
  /\ UNCHANGED stop

(* ->info() of a null pointer *)
HandlerFaults(t) ==
  /\ ~registered /\ InHandler(t, "getting")
  /\ Ends("fault")
  /\ UNCHANGED disk

(* Mutant: the handler only logs. *)
StopLeft == stop

StopCode == 1

(* stop = 1, and the handler returns. *)
HandlerStores(t) ==
  /\ InHandler(t, "store")
  /\ stop' = StopCode
  /\ LET signal == frames[t][Depth(t)].signal
     IN  frames' = [frames EXCEPT ![t] =
                      IF ReturnsFalse(signal)
                        THEN SubSeq(@, 1, Depth(t) - 1) \o <<[signal |-> signal, pc |-> "default"]>>
                        ELSE SubSeq(@, 1, Depth(t) - 1)]
  /\ UNCHANGED <<store, disk, mpc, wpc, logging, signals, ended>>

(* FALSE: "the next handler" is the system's, which ends the process. *)
DefaultHandler(t) ==
  /\ InHandler(t, "default")
  /\ Ends("killed")
  /\ UNCHANGED disk

HandlerStep(t) ==
  HandlerGets(t) \/ HandlerLogs(t) \/ HandlerFaults(t) \/ HandlerStores(t) \/ DefaultHandler(t)
--------------------------------------------------------------------------------
LifeNext ==
  \/ Boot \/ MainStep \/ Kill
  \/ \E w \in Workers : WorkerStep(w)
  \/ \E t \in Threads \cup {Ctrl} :
       \/ \E signal \in PosixSignals \cup WindowsEvents : Deliver(t, signal)
       \/ HandlerStep(t)

(* The system runs every thread; nothing is assumed of starts and signals. *)
LifeSpec ==
  /\ LifeInit /\ [][LifeNext]_lifevars
  /\ WF_lifevars(MainStep)
  /\ \A w \in Workers : WF_lifevars(WorkerStep(w))
  /\ \A t \in Threads \cup {Ctrl} : WF_lifevars(HandlerStep(t))
--------------------------------------------------------------------------------
(***************************************************************************)
(* A worker that starts late still finds its logger: the registry is       *)
(* emptied only when no worker can ask it any more (server.cpp:189, 315,   *)
(* 320), even if a signal stops the server before the worker has begun.    *)
(***************************************************************************)
WorkersFindLogger == \A w \in Workers : wpc[w] \in {"get", "getting"} => registered

(* The handler waits for the mutex that the thread under it holds. *)
SelfLocked(t) == InHandler(t, "get") /\ holder # NoOne /\ holder[1] = t

(***************************************************************************)
(* A signal whose handler has begun ends the process, from whatever place  *)
(* it finds the threads in, unless the handler waits for the thread that   *)
(* it interrupted (posix.cpp:18-22, windows.cpp:18-36, server.cpp:232).    *)
(***************************************************************************)
SignalEndsServer ==
  (\E t \in Threads \cup {Ctrl} : frames[t] # <<>>)
    ~> (mpc = "off" \/ \E t \in Threads : SelfLocked(t))

(***************************************************************************)
(* "Register signal handlers to allow proper shutdown of the server"       *)
(* (signal_handlers.h:12): a handler always comes to set the stop code.    *)
(***************************************************************************)
HandlersComplete ==
  /\ \A t \in Threads \cup {Ctrl} : ~SelfLocked(t)
  /\ ended # "fault"
================================================================================
