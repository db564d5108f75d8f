-------------------------- MODULE ServerLifecycle ---------------------------
(***************************************************************************)
(* The life of server processes: main(), init_process() and                *)
(* cleanup_process() (main.cpp), the pid file (pidfile.cpp), the signal    *)
(* handler (os.cpp), Server::serve(), start_unix_socket_server() and       *)
(* shutdown() (server.cpp).  Processes of one installation follow each     *)
(* other and share the pid file and the path of the unix socket; a process *)
(* may be killed between any two steps, and every signal runs              *)
(* quit_thread_func() on a thread of its own beside main().                *)
(***************************************************************************)
EXTENDS Naturals

CONSTANTS
  Procs,      \* server processes that may ever be started
  Signals,    \* quit signals that may ever be sent
  Nobody,
  Faults,     \* calls of the start-up that may fail
  Overlap,    \* may a process be started before the previous one is gone?
  CanBeKilled \* may processes die without warning?

ASSUME LifecycleAssumption ==
  /\ Nobody \notin Procs
  /\ Faults \subseteq {"pid", "seda", "base", "socket", "bind", "listen", "event"}
  /\ Overlap \in BOOLEAN /\ CanBeKilled \in BOOLEAN

VARIABLES
  pc,           \* main() of a process
  ended,        \* how it ended: "no", "returned", "exited" (exit()), "killed"
  faulted,      \* did one of its calls fail for an outside reason?
  g_server,     \* the global is set
  event_base,   \* event_base_: "null", "live", "freed" (dangling or reset)
  started,      \* started_
  exit_event,   \* event_base_loopexit() has scheduled the end of the loop
  pid_path,     \* getPidPath() is not empty
  pidfile,      \* the process whose pid the pid file holds
  sockfile,     \* the process whose socket unix_socket_path names
  spc,          \* quit_thread_func() of a signal
  target        \* the process a signal was sent to

procVars == <<pc, ended, faulted, g_server, event_base, started, exit_event, pid_path>>
files == <<pidfile, sockfile>>
signalVars == <<spc, target>>
lifeVars == <<procVars, files, signalVars>>

LifeTypeOK ==
  /\ pc \in [Procs -> {"off", "pid", "handler", "seda", "server", "base", "socket",
                       "unlink", "bind", "listen", "event", "dispatch", "free",
                       "stopped", "remove_pid", "remove_socket", "gone"}]
  /\ ended \in [Procs -> {"no", "returned", "exited", "killed"}]
  /\ faulted \in [Procs -> BOOLEAN] /\ g_server \in [Procs -> BOOLEAN]
  /\ event_base \in [Procs -> {"null", "live", "freed"}]
  /\ started \in [Procs -> BOOLEAN] /\ exit_event \in [Procs -> BOOLEAN]
  /\ pid_path \in [Procs -> BOOLEAN]
  /\ pidfile \in Procs \cup {Nobody} /\ sockfile \in Procs \cup {Nobody}
  /\ spc \in [Signals -> {"unsent", "server", "test_base", "test_started", "clear",
                          "loopexit", "exited", "done"}]
  /\ target \in [Signals -> Procs \cup {Nobody}]

LifeInit ==
  /\ pc = [p \in Procs |-> "off"] /\ ended = [p \in Procs |-> "no"]
  /\ faulted = [p \in Procs |-> FALSE] /\ g_server = [p \in Procs |-> FALSE]
  /\ event_base = [p \in Procs |-> "null"] /\ started = [p \in Procs |-> FALSE]
  /\ exit_event = [p \in Procs |-> FALSE] /\ pid_path = [p \in Procs |-> FALSE]
  /\ pidfile = Nobody /\ sockfile = Nobody
  /\ spc = [s \in Signals |-> "unsent"] /\ target = [s \in Signals |-> Nobody]

Goto(p, label) == pc' = [pc EXCEPT ![p] = label]
Set(field, p, value) == [field EXCEPT ![p] = value]

-----------------------------------------------------------------------------
(* The end of a process takes its threads along; the files stay.           *)
End(p, how) ==
  /\ Goto(p, "gone")
  /\ ended' = Set(ended, p, how)
  /\ spc' = [s \in Signals |-> IF target[s] = p THEN "done" ELSE spc[s]]

(* A call named f fails: the caller exits.  exit() runs no clean-up.       *)
Fails(p, f) ==
  /\ f \in Faults
  /\ End(p, "exited")
  /\ faulted' = Set(faulted, p, TRUE)
  /\ UNCHANGED <<g_server, event_base, started, exit_event, pid_path, files, target>>

-----------------------------------------------------------------------------
(* main(): init_process()                                                  *)

StartProcess(p) ==
  /\ pc[p] = "off"
  /\ Overlap \/ \A q \in Procs : pc[q] \in {"off", "gone"}
  /\ Goto(p, "pid")
  /\ UNCHANGED <<ended, faulted, g_server, event_base, started, exit_event, pid_path,
                 files, signalVars>>

write_pid(p, content) ==
  /\ pc[p] = "pid"
  /\ pid_path' = Set(pid_path, p, TRUE)
  /\ \/ pidfile' = content /\ UNCHANGED faulted
     \/ "pid" \in Faults /\ faulted' = Set(faulted, p, TRUE) /\ UNCHANGED pidfile
  /\ Goto(p, "handler")
  /\ UNCHANGED <<ended, g_server, event_base, started, exit_event, sockfile, signalVars>>

\* Variant: a file that exists is not truncated.
writePidFile_keeps_old(p) == write_pid(p, IF pidfile = Nobody THEN p ELSE pidfile)

\* The path is set even when the file cannot be opened; the result is ignored.
writePidFile(p) == write_pid(p, p)

setSignalHandler(p) ==
  /\ pc[p] = "handler"
  /\ Goto(p, "seda")
  /\ UNCHANGED <<ended, faulted, g_server, event_base, started, exit_event, pid_path,
                 files, signalVars>>

init_seda(p) ==
  /\ pc[p] = "seda"
  /\ \/ Goto(p, "server")
        /\ UNCHANGED <<ended, faulted, g_server, event_base, started, exit_event,
                       pid_path, files, signalVars>>
     \/ Fails(p, "seda")

init_server(p) ==
  /\ pc[p] = "server"
  /\ g_server' = Set(g_server, p, TRUE)
  /\ Goto(p, "base")
  /\ UNCHANGED <<ended, faulted, event_base, started, exit_event, pid_path, files,
                 signalVars>>

-----------------------------------------------------------------------------
(* main(): Server::serve()                                                 *)

event_base_new(p) ==
  /\ pc[p] = "base"
  /\ \/ /\ event_base' = Set(event_base, p, "live")
        /\ Goto(p, "socket")
        /\ UNCHANGED <<ended, faulted, g_server, started, exit_event, pid_path, files,
                       signalVars>>
     \/ Fails(p, "base")

\* socket(), fcntl()
CreateSocket(p) ==
  /\ pc[p] = "socket"
  /\ \/ Goto(p, "unlink")
        /\ UNCHANGED <<ended, faulted, g_server, event_base, started, exit_event,
                       pid_path, files, signalVars>>
     \/ Fails(p, "socket")

unlink_path(p, file) ==
  /\ pc[p] = "unlink"
  /\ sockfile' = file
  /\ Goto(p, "bind")
  /\ UNCHANGED <<ended, faulted, g_server, event_base, started, exit_event, pid_path,
                 pidfile, signalVars>>

\* Variant: a path left behind by an earlier process is not removed.
UnlinkSocket_skipped(p) == unlink_path(p, sockfile)

UnlinkSocket(p) == unlink_path(p, Nobody)

\* bind() creates the path, and fails if there is one.
Bind(p) ==
  /\ pc[p] = "bind"
  /\ \/ /\ sockfile = Nobody
        /\ sockfile' = p
        /\ Goto(p, "listen")
        /\ UNCHANGED <<ended, faulted, g_server, event_base, started, exit_event,
                       pid_path, pidfile, signalVars>>
     \/ /\ sockfile # Nobody
        /\ End(p, "exited")
        /\ UNCHANGED <<faulted, g_server, event_base, started, exit_event, pid_path,
                       files, target>>
     \/ Fails(p, "bind")

Listen(p) ==
  /\ pc[p] = "listen"
  /\ \/ Goto(p, "event")
        /\ UNCHANGED <<ended, faulted, g_server, event_base, started, exit_event,
                       pid_path, files, signalVars>>
     \/ Fails(p, "listen")

\* event_new(), event_add(); from here on shutdown() has an effect.
AddListenEvent(p) ==
  /\ pc[p] = "event"
  /\ \/ /\ started' = Set(started, p, TRUE)
        /\ Goto(p, "dispatch")
        /\ UNCHANGED <<ended, faulted, g_server, event_base, exit_event, pid_path, files,
                       signalVars>>
     \/ Fails(p, "event")

leave_dispatch(p, over) ==
  /\ pc[p] = "dispatch"
  /\ over
  /\ Goto(p, "free")
  /\ UNCHANGED <<ended, faulted, g_server, event_base, started, exit_event, pid_path,
                 files, signalVars>>

\* Variant: the loop watches started_.
Dispatch_polls_started(p) == leave_dispatch(p, ~started[p])

\* event_base_dispatch() returns once the exit event has fired.  The event
\* survives until the loop runs, so it may be scheduled before.
Dispatch(p) == leave_dispatch(p, exit_event[p])

event_base_free(p) ==
  /\ pc[p] = "free"
  /\ event_base' = Set(event_base, p, "freed")
  /\ Goto(p, "stopped")
  /\ UNCHANGED <<ended, faulted, g_server, started, exit_event, pid_path, files,
                 signalVars>>

ServeReturns(p) ==
  /\ pc[p] = "stopped"
  /\ started' = Set(started, p, FALSE)
  /\ Goto(p, "remove_pid")
  /\ UNCHANGED <<ended, faulted, g_server, event_base, exit_event, pid_path, files,
                 signalVars>>

-----------------------------------------------------------------------------
(* main(): cleanup_process()                                               *)

remove_pid(p, file, path) ==
  /\ pc[p] = "remove_pid"
  /\ pidfile' = file
  /\ pid_path' = Set(pid_path, p, path)
  /\ Goto(p, "remove_socket")
  /\ UNCHANGED <<ended, faulted, g_server, event_base, started, exit_event, sockfile,
                 signalVars>>

\* The file at the path goes, whoever wrote it.
removePidFile(p) == remove_pid(p, IF pid_path[p] THEN Nobody ELSE pidfile, FALSE)

RemoveSocketFile(p) ==
  /\ pc[p] = "remove_socket"
  /\ sockfile' = Nobody
  /\ End(p, "returned")
  /\ UNCHANGED <<faulted, g_server, event_base, started, exit_event, pid_path, pidfile,
                 target>>

-----------------------------------------------------------------------------
(* Signals                                                                 *)

\* A quit signal: the default action until the handler is set, then a thread.
Signal(s, p) ==
  /\ spc[s] = "unsent"
  /\ pc[p] \notin {"off", "gone"}
  /\ target' = [target EXCEPT ![s] = p]
  /\ IF pc[p] \in {"pid", "handler"}
       THEN /\ Goto(p, "gone") /\ ended' = Set(ended, p, "killed")
            /\ spc' = [spc EXCEPT ![s] = "done"]
       ELSE /\ spc' = [spc EXCEPT ![s] = "server"]
            /\ UNCHANGED <<pc, ended>>
  /\ UNCHANGED <<faulted, g_server, event_base, started, exit_event, pid_path, files>>

\* kill -9, the machine going down, an abort
Kill(p) ==
  /\ CanBeKilled
  /\ pc[p] \notin {"off", "gone"}
  /\ End(p, "killed")
  /\ UNCHANGED <<faulted, g_server, event_base, started, exit_event, pid_path, files,
                 target>>

Advance(s, from, condition) ==
  /\ spc[s] = from[1]
  /\ spc' = [spc EXCEPT ![s] = IF condition THEN from[2] ELSE "done"]

\* if (g_server)
QuitThread(s) ==
  /\ Advance(s, <<"server", "test_base">>, g_server[target[s]])
  /\ UNCHANGED <<procVars, files, target>>

\* event_base_ != nullptr: null before serve(), dangling or null after it
TestEventBase(s) ==
  /\ \/ Advance(s, <<"test_base", "test_started">>, event_base[target[s]] # "null")
     \/ Advance(s, <<"test_base", "done">>, TRUE) /\ event_base[target[s]] = "freed"
  /\ UNCHANGED <<procVars, files, target>>

TestStarted(s) ==
  /\ Advance(s, <<"test_started", "clear">>, started[target[s]])
  /\ UNCHANGED <<procVars, files, target>>

ClearStarted(s) ==
  /\ Advance(s, <<"clear", "loopexit">>, TRUE)
  /\ started' = Set(started, target[s], FALSE)
  /\ UNCHANGED <<pc, ended, faulted, g_server, event_base, exit_event, pid_path, files,
                 target>>

loop_exit(s, scheduled) ==
  /\ Advance(s, <<"loopexit", "exited">>, TRUE)
  /\ event_base[target[s]] = "live"
  /\ exit_event' = Set(exit_event, target[s], scheduled)
  /\ UNCHANGED <<pc, ended, faulted, g_server, event_base, started, pid_path, files,
                 target>>

\* Variant: an event is scheduled only for a loop that already runs.
LoopExit_running_only(s) ==
  loop_exit(s, pc[target[s]] = "dispatch" /\ started[target[s]])

LoopExit(s) == loop_exit(s, TRUE)

\* The base is gone since shutdown() looked: the call crashes or does nothing.
LoopExitFreed(s) ==
  /\ spc[s] = "loopexit" /\ event_base[target[s]] # "live"
  /\ \/ /\ Advance(s, <<"loopexit", "exited">>, TRUE)
        /\ UNCHANGED <<procVars, files, target>>
     \/ /\ End(target[s], "killed")
        /\ UNCHANGED <<faulted, g_server, event_base, started, exit_event, pid_path,
                       files, target>>

-----------------------------------------------------------------------------
MainStep(p) ==
  \/ writePidFile(p) \/ setSignalHandler(p) \/ init_seda(p) \/ init_server(p)
  \/ event_base_new(p) \/ CreateSocket(p) \/ UnlinkSocket(p) \/ Bind(p) \/ Listen(p)
  \/ AddListenEvent(p) \/ Dispatch(p) \/ event_base_free(p) \/ ServeReturns(p)
  \/ removePidFile(p) \/ RemoveSocketFile(p)
SignalStep(s) ==
  \/ QuitThread(s) \/ TestEventBase(s) \/ TestStarted(s) \/ ClearStarted(s)
  \/ LoopExit(s) \/ LoopExitFreed(s)

LifeNext ==
  \/ \E p \in Procs : StartProcess(p) \/ MainStep(p) \/ Kill(p)
  \/ \E s \in Signals : SignalStep(s) \/ \E p \in Procs : Signal(s, p)

LifeSpec == LifeInit /\ [][LifeNext]_lifeVars

\* Threads that can run do run.
LifeFairness ==
  /\ \A p \in Procs : WF_lifeVars(MainStep(p))
  /\ \A s \in Signals : WF_lifeVars(SignalStep(s))

FairLifeSpec == LifeSpec /\ LifeFairness

-----------------------------------------------------------------------------
(* A process that serves can be found: the path names its socket and the   *)
(* pid file its pid (if it could be written), whatever files earlier       *)
(* processes left behind and wherever they were killed.                    *)
Reachable ==
  \A p \in Procs :
    pc[p] \in {"dispatch", "free", "stopped"} =>
      sockfile = p /\ (pidfile = p \/ faulted[p])

(* What an earlier process left behind, killed at any point, does not keep *)
(* the next one from starting: start_unix_socket_server() fails only when  *)
(* one of its calls fails for a reason of its own.                         *)
RestartSucceeds == \A p \in Procs : ended[p] = "exited" => faulted[p]

(* The event base that shutdown() hands to event_base_loopexit() has not   *)
(* been freed by serve(), unless the thread of another quit signal of the  *)
(* same process got there first: both passed the test of started_ (server. *)
(* cpp:419) before either cleared it.                                      *)
NoUseAfterFree ==
  \A s \in Signals :
    spc[s] = "loopexit" /\ event_base[target[s]] # "live" =>
      \E t \in Signals \ {s} : target[t] = target[s] /\ spc[t] = "exited"

(* removePidFile() removes the pid file of its own process.                *)
RemovesOwnPidFile ==
  \A p \in Procs : pc[p] = "remove_pid" => pidfile \in {p, Nobody}

(* A signal that reaches a server in its event loop ends the process, and  *)
(* through main()'s clean-up unless it is killed.                          *)
SignalStopsServer ==
  \A s \in Signals, p \in Procs :
    (spc[s] = "server" /\ target[s] = p /\ pc[p] = "dispatch")
      ~> ended[p] \in {"returned", "killed"}

(* A signal that quit_thread_func() handles shuts the server down.         *)
SignalShutsDown ==
  \A s \in Signals, p \in Procs :
    (spc[s] = "server" /\ target[s] = p) ~> pc[p] = "gone"

=============================================================================
