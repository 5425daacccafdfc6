----------------------------- MODULE Listeners ------------------------------
(***************************************************************************)
(* Programs that run a generic_server, as registry/src/main.cpp does: they *)
(* bind() it to the addresses of their configuration, run the loop until a *)
(* signal calls stop(), and call stop() once more when main() destroys the *)
(* server.  What they share is the files of UNIX domain sockets and the    *)
(* ports of the host.                                                      *)
(*                                                                         *)
(* Every process is one run of a program; a restart is another process.    *)
(* Between two system calls of one process others may run, so exists() and *)
(* the bind() that relies on it are two steps, and so are the removals of  *)
(* the paths by stop() and the closing of each listener, which unlinks the *)
(* path it was bound to once more, whoever has bound it since.             *)
(***************************************************************************)
CONSTANTS
    Process,
    Path, Port,      \* the addresses, of UNIX sockets and of the network
    None             \* no path, no file

ASSUME ListenersAssumption == None \notin Process \cup Path /\ Path \cap Port = {}

VARIABLES
    phase,
    todo,                   \* addresses it has yet to bind, paths stop() to remove
    checked,                \* the path it found free and has not bound yet
    unix_domain_sockets,    \* paths it will remove
    listening,              \* addresses where it accepts connections
    file,                   \* the process whose bind() made the file of a path
    crashed,                \* history: has a process ended without stop()?
    overlapped,             \* history: has one started while another served?
    raced,                  \* history: has one found a path taken after exists()?
    hasty                   \* history: has one bound a path not yet closed?

historyVars == <<crashed, overlapped, raced, hasty>>
vars == <<phase, todo, checked, unix_domain_sockets, listening, file, historyVars>>

Address == Path \cup Port

Serving(p) == phase[p] \in {"binding", "running", "removing", "closing"}
Alive(p) == Serving(p) \/ phase[p] = "leaving"

(***************************************************************************)
(* Parts of the operations                                                 *)
(***************************************************************************)

(* Fault: the first path that is taken ends the binding. *)
GiveUpAll(p, a) == [todo EXCEPT ![p] = {}]

GiveUp(p, a) == [todo EXCEPT ![p] = @ \ {a}]

(* Fault: the paths are not forgotten. *)
PathsKept(p) == unix_domain_sockets

PathsCleared(p) == [unix_domain_sockets EXCEPT ![p] = {}]

(* Fault: the listeners are not closed. *)
NoneClosable(p) == {}

(* The listeners stop() has yet to close. *)
Closable(p) == listening[p]

Without(P) == [a \in Path |-> IF a \in P THEN None ELSE file[a]]

(* The process ends at once: the system closes its listeners and leaves    *)
(* the files.                                                              *)
Die(p) ==
    /\ phase' = [phase EXCEPT ![p] = "killed"]
    /\ todo' = [todo EXCEPT ![p] = {}] /\ checked' = [checked EXCEPT ![p] = None]
    /\ unix_domain_sockets' = [unix_domain_sockets EXCEPT ![p] = {}]
    /\ listening' = [listening EXCEPT ![p] = {}]
    /\ crashed' = TRUE
    /\ UNCHANGED <<file, overlapped, raced, hasty>>

Init ==
    /\ phase = [p \in Process |-> "down"]
    /\ todo = [p \in Process |-> {}]
    /\ checked = [p \in Process |-> None]
    /\ unix_domain_sockets = [p \in Process |-> {}]
    /\ listening = [p \in Process |-> {}]
    /\ file = [a \in Path |-> None]
    /\ crashed = FALSE /\ overlapped = FALSE /\ raced = FALSE /\ hasty = FALSE

(***************************************************************************)
(* The steps of a process                                                  *)
(***************************************************************************)
Start(p) ==
    /\ phase[p] = "down"
    /\ phase' = [phase EXCEPT ![p] = "binding"]
    /\ todo' = [todo EXCEPT ![p] = Address]
    /\ overlapped' = (overlapped \/ \E q \in Process : Serving(q))
    /\ UNCHANGED <<checked, unix_domain_sockets, listening, file, crashed, raced, hasty>>

(* bind() of a path: if there is a file, the address is given up. *)
Check(p, a) ==
    /\ phase[p] = "binding" /\ checked[p] = None
    /\ a \in todo[p] \cap Path
    /\ IF file[a] # None
       THEN todo' = GiveUp(p, a) /\ UNCHANGED checked
       ELSE checked' = [checked EXCEPT ![p] = a] /\ UNCHANGED todo
    /\ UNCHANGED <<phase, unix_domain_sockets, listening, file, historyVars>>

(* The listener is bound, or its ErrorEvent reports that somebody else was *)
(* faster; the path is recorded either way.                                *)
BindPath(p) ==
    LET a == checked[p] IN
    /\ phase[p] = "binding" /\ a # None
    /\ IF file[a] = None
       THEN /\ file' = [file EXCEPT ![a] = p]
            /\ listening' = [listening EXCEPT ![p] = @ \cup {a}]
            /\ hasty' = (hasty \/ \E q \in Process : a \in listening[q])
            /\ UNCHANGED raced
       ELSE /\ raced' = TRUE
            /\ UNCHANGED <<file, listening, hasty>>
    /\ unix_domain_sockets' = [unix_domain_sockets EXCEPT ![p] = @ \cup {a}]
    /\ todo' = [todo EXCEPT ![p] = @ \ {a}]
    /\ checked' = [checked EXCEPT ![p] = None]
    /\ UNCHANGED <<phase, crashed, overlapped>>

(* bind() of a port, which an ErrorEvent refuses if it is taken. *)
BindPort(p, a) ==
    /\ phase[p] = "binding" /\ checked[p] = None
    /\ a \in todo[p] \cap Port
    /\ IF \E q \in Process : a \in listening[q]
       THEN UNCHANGED listening
       ELSE listening' = [listening EXCEPT ![p] = @ \cup {a}]
    /\ todo' = [todo EXCEPT ![p] = @ \ {a}]
    /\ UNCHANGED <<phase, checked, unix_domain_sockets, file, historyVars>>

(* An address without a port, or a name that does not resolve: bind()      *)
(* throws and main() does not catch it.                                    *)
FailToResolve(p) ==
    /\ phase[p] = "binding" /\ checked[p] = None
    /\ todo[p] \cap Port # {}
    /\ Die(p)

(* The signal handlers are installed and the loop runs. *)
Run(p) ==
    /\ phase[p] = "binding" /\ todo[p] = {}
    /\ phase' = [phase EXCEPT ![p] = "running"]
    /\ UNCHANGED <<todo, checked, unix_domain_sockets, listening, file, historyVars>>

(* SIGINT, SIGHUP or SIGTERM: the signal handles are closed and stop() is  *)
(* called.  It removes every path it recorded, whoever made the file,      *)
OnSignal(p) ==
    /\ phase[p] = "running"
    /\ phase' = [phase EXCEPT ![p] = "removing"]
    /\ todo' = [todo EXCEPT ![p] = unix_domain_sockets[p]]
    /\ UNCHANGED <<checked, unix_domain_sockets, listening, file, historyVars>>

RemovePath(p, a) ==
    /\ phase[p] = "removing" /\ a \in todo[p]
    /\ todo' = [todo EXCEPT ![p] = @ \ {a}]
    /\ file' = Without({a})
    /\ UNCHANGED <<phase, checked, unix_domain_sockets, listening, historyVars>>

(* forgets them, *)
ClearPaths(p) ==
    /\ phase[p] = "removing" /\ todo[p] = {}
    /\ phase' = [phase EXCEPT ![p] = "closing"]
    /\ unix_domain_sockets' = PathsCleared(p)
    /\ UNCHANGED <<todo, checked, listening, file, historyVars>>

(* and closes the listeners, each with the file its path has by then. *)
CloseListener(p, a) ==
    /\ phase[p] = "closing" /\ a \in Closable(p)
    /\ listening' = [listening EXCEPT ![p] = @ \ {a}]
    /\ file' = Without({a})
    /\ UNCHANGED <<phase, todo, checked, unix_domain_sockets, historyVars>>

AllClosed(p) ==
    /\ phase[p] = "closing" /\ Closable(p) = {}
    /\ phase' = [phase EXCEPT ![p] = "leaving"]
    /\ UNCHANGED <<todo, checked, unix_domain_sockets, listening, file, historyVars>>

(* The loop has nothing left and main() returns: ~generic_server() calls   *)
(* stop() again, whose list of listeners is empty by now.                  *)
Exit(p) ==
    /\ phase[p] = "leaving"
    /\ phase' = [phase EXCEPT ![p] = "gone"]
    /\ file' = Without(unix_domain_sockets[p])
    /\ unix_domain_sockets' = PathsCleared(p)
    /\ listening' = [listening EXCEPT ![p] = {}]
    /\ UNCHANGED <<todo, checked, historyVars>>

(* A signal without a handler, or the end of the machine. *)
Kill(p) == Alive(p) /\ Die(p)

Next ==
    \E p \in Process :
        \/ Start(p) \/ BindPath(p) \/ FailToResolve(p) \/ Run(p)
        \/ OnSignal(p) \/ ClearPaths(p) \/ AllClosed(p) \/ Exit(p) \/ Kill(p)
        \/ \E a \in Address :
              Check(p, a) \/ BindPort(p, a) \/ RemovePath(p, a) \/ CloseListener(p, a)

Spec == Init /\ [][Next]_vars

(***************************************************************************)
(* Properties                                                              *)
(***************************************************************************)

(* Every variable has its type; only a process that serves has listeners,  *)
(* and only until it stops has it paths to remove.                         *)
TypeOK ==
    /\ phase \in [Process -> {"down", "binding", "running", "removing", "closing",
                             "leaving", "gone", "killed"}]
    /\ todo \in [Process -> SUBSET Address]
    /\ checked \in [Process -> Path \cup {None}]
    /\ \A p \in Process : checked[p] # None => phase[p] = "binding" /\ checked[p] \in todo[p]
    /\ unix_domain_sockets \in [Process -> SUBSET Path]
    /\ listening \in [Process -> SUBSET Address]
    /\ \A p \in Process :
          /\ phase[p] \notin {"binding", "running", "removing"} => unix_domain_sockets[p] = {}
          /\ phase[p] \notin {"binding", "removing"} => todo[p] = {}
          /\ ~Serving(p) => listening[p] = {}
    /\ file \in [Path -> Process \cup {None}]
    /\ crashed \in BOOLEAN /\ overlapped \in BOOLEAN
    /\ raced \in BOOLEAN /\ hasty \in BOOLEAN

(* Clients find a process that listens on a path: the file is there and is *)
(* that of its own listener.  No other process removes it, be it started,  *)
(* stopped, destroyed or killed meanwhile, with two exceptions: two        *)
(* processes were between exists() and bind() of one path together, or one *)
(* bound a path that a process which was stopping had removed and whose    *)
(* listener it had yet to close.                                           *)
ListenersReachable ==
    ~raced /\ ~hasty =>
        \A p \in Process : phase[p] \in {"binding", "running"} =>
            \A a \in listening[p] \cap Path : file[a] = p

(* A process that was stopped leaves no file behind, in a race or not. *)
StopLeavesNoFile ==
    \A p \in Process :
        phase[p] \in {"closing", "leaving", "gone"} => \A a \in Path : file[a] # p

(* If processes serve one after the other and all were stopped by signals, *)
(* whoever runs listens on all its addresses: no start is refused because  *)
(* of what an earlier process left.                                        *)
CleanRestartListens ==
    ~crashed /\ ~overlapped =>
        \A p \in Process : phase[p] = "running" => listening[p] = Address

(* A process that was killed costs those after it, one at a time, the      *)
(* paths it leaves, and nothing else: whatever address a running process   *)
(* does not serve is a path whose file is still that of a killed one.      *)
CrashCostsItsPaths ==
    ~overlapped =>
        \A p \in Process : phase[p] = "running" =>
            \A a \in Address \ listening[p] :
                a \in Path /\ file[a] # None /\ phase[file[a]] = "killed"
=============================================================================
