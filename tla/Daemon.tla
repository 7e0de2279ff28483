-------------------------------- MODULE Daemon --------------------------------
(***************************************************************************)
(* The life of a daemon: runDaemonStart (commands/daemon.go), Serve and    *)
(* stopGracefullyOrForce (server/serve.go), the admin listener of          *)
(* server/admin.go, with the calls and admin requests that are under way   *)
(* when it stops.  Several daemons may be started on one machine: they     *)
(* share the gRPC port, the path of the admin socket and the files.        *)
(*                                                                         *)
(* The key bundle is several files, which envector.GenerateKeys writes one *)
(* after the other, in an order of its own; each is there as a whole.      *)
(*                                                                         *)
(* The tables and the files are sets of changes; how one persist writes    *)
(* them is module Persistence.  grpc.Server and http.Server are modelled   *)
(* by what their users rely on: GracefulStop waits for every handler, Stop *)
(* also ends the streams, http.Server.Shutdown closes the listener (which  *)
(* unlinks the socket path) and waits for the requests it has accepted.    *)
(***************************************************************************)
EXTENDS Integers, FiniteSetsExt, Config

CONSTANTS
  Daemons,
  Calls,          \* handler goroutines of a gRPC server
  AdminRequests,  \* handler goroutines of an admin server
  Nil,
  MaxChanges      \* bound: changes to the tables in one run

ASSUME ConstantsAssumption ==
  /\ Nil \notin Daemons
  /\ MaxChanges \in Nat

VARIABLES
  pc,             \* daemon -> where its main goroutine is
  open,           \* daemon -> what a deferred call has yet to close
  call,           \* daemon -> handler -> "idle", "work" (with the keys), "log" or "stream"
  admin,          \* daemon -> handler -> "idle", "accepted", "changed" or "scheduled"
  change,         \* daemon -> handler -> the change it made
  mem,            \* daemon -> the changes its tables contain
  pending,        \* daemon -> whether a persist is scheduled
  port,           \* who listens on the gRPC port
  socket,         \* who bound the socket that the path names, perhaps gone by now
  bundle,         \* slot -> which generation of keys its file is of; 0: no file
  writing,        \* daemon -> the generation of keys that it is writing
  disk,           \* the changes the files contain
  clock,          \* number of changes made so far
  abandoned,      \* history: daemon -> whether Serve left its handlers behind
  acknowledged    \* history: changes whose request was answered, since the last crash

handlers == <<call, admin, change>>
tables == <<mem, pending, disk, clock>>
names == <<port, socket>>
keys == <<bundle, writing>>
history == <<abandoned, acknowledged>>
vars == <<pc, open, handlers, tables, names, keys, history>>

Starting == {"loaded", "generating", "generated", "keyed", "audited", "ensured", "bound"}
Stopping == {"draining", "forced", "stopped", "adminStopping"}

\* What runDaemonStart defers to close; v.Close and the deferred keys.Close both
\* release the keys, so they go first.
Resources == {"keys", "audit", "store"}

\* The files of a key bundle.  The EncKey, which only handlers read, is written like
\* these two and left out.
Slots == {"SecKey", "EvalKey"}

Quiet == [c \in Calls |-> "idle"]
Unasked == [a \in AdminRequests |-> "idle"]

Init ==
  /\ pc = [d \in Daemons |-> "down"]
  /\ open = [d \in Daemons |-> {}]
  /\ call = [d \in Daemons |-> Quiet]
  /\ admin = [d \in Daemons |-> Unasked]
  /\ change = [d \in Daemons |-> [a \in AdminRequests |-> 0]]
  /\ mem = [d \in Daemons |-> {}]
  /\ pending = [d \in Daemons |-> FALSE]
  /\ port = Nil /\ socket = Nil
  /\ \E generation \in {0, 1} : bundle = [s \in Slots |-> generation]
  /\ writing = [d \in Daemons |-> 0]
  /\ disk = {} /\ clock = 0
  /\ abandoned = [d \in Daemons |-> FALSE]
  /\ acknowledged = {}

Go(d, from, to) == pc[d] = from /\ pc' = [pc EXCEPT ![d] = to]
Opens(d, resource) == open' = [open EXCEPT ![d] = @ \cup {resource}]
-----------------------------------------------------------------------------
(* Starting.                                                               *)

\* LoadConfig, and LoadFromFiles into a new store.  An error of either ends the
\* process before it has touched anything.
LoadFromFiles(d) ==
  /\ Go(d, "down", "loaded")
  /\ Opens(d, "store")
  /\ mem' = [mem EXCEPT ![d] = disk]
  /\ abandoned' = [abandoned EXCEPT ![d] = FALSE]
  /\ UNCHANGED <<handlers, pending, disk, clock, names, keys, acknowledged>>

\* Mutant: keys are there when all of them are; what is missing is generated.
KeysExistWhole == \A s \in Slots : bundle[s] # 0

\* Any one of the files.
KeysExist == \E s \in Slots : bundle[s] # 0

EnsureKeys(d) ==
  /\ Go(d, "loaded", IF KeysExist THEN "generated" ELSE "generating")
  /\ UNCHANGED <<open, handlers, tables, names, keys, history>>

\* GenerateKeys looks again: ErrKeysAlreadyExist, from a daemon that was faster, is
\* no error.  A new generation begins with its first file; that this is one step with
\* the look is what "never overwrites" is taken to mean.
GenerateKeys(d) ==
  /\ writing[d] = 0
  /\ \/ KeysExist /\ Go(d, "generating", "generated") /\ UNCHANGED keys
     \/ /\ ~KeysExist /\ pc[d] = "generating"
        /\ writing' = [writing EXCEPT ![d] =
                         Max({bundle[s] : s \in Slots} \cup {writing[e] : e \in Daemons}) + 1]
        /\ \E s \in Slots : bundle[s] = 0 /\ bundle' = [bundle EXCEPT ![s] = writing'[d]]
        /\ UNCHANGED pc
  /\ UNCHANGED <<open, handlers, tables, names, history>>

\* It overwrites nothing, and ends when nothing is missing.
WriteKey(d, s) ==
  LET last == \A t \in Slots \ {s} : bundle[t] # 0
  IN  /\ writing[d] # 0 /\ bundle[s] = 0
      /\ bundle' = [bundle EXCEPT ![s] = writing[d]]
      /\ writing' = IF last THEN [writing EXCEPT ![d] = 0] ELSE writing
      /\ pc' = IF last THEN [pc EXCEPT ![d] = "generated"] ELSE pc
      /\ UNCHANGED <<open, handlers, tables, names, history>>

OpenSecretKey(d) ==
  /\ Go(d, "generated", "keyed")
  /\ bundle["SecKey"] # 0
  /\ Opens(d, "keys")
  /\ UNCHANGED <<handlers, tables, names, keys, history>>

NewAuditLogger(d) ==
  /\ Go(d, "keyed", "audited")
  /\ Opens(d, "audit")
  /\ UNCHANGED <<handlers, tables, names, keys, history>>

\* Mutant: offline mode ends the start.
EnsureOffline(d) ==
  /\ Go(d, "audited", "offline")
  /\ UNCHANGED <<open, handlers, tables, names, keys, history>>

\* Offline mode, or the keys are activated and the index created, both of which the
\* cloud may have from before.
EnsureVault(d) ==
  /\ Go(d, "audited", "ensured")
  /\ \E c \in Accepted : Connects(c) => bundle["EvalKey"] # 0
  /\ UNCHANGED <<open, handlers, tables, names, keys, history>>

\* Mutant: the port is shared.
ListenShared(d) ==
  /\ Go(d, "ensured", "bound")
  /\ port' = d
  /\ UNCHANGED <<open, handlers, tables, socket, keys, history>>

Listen(d) ==
  /\ Go(d, "ensured", "bound")
  /\ port = Nil
  /\ port' = d
  /\ UNCHANGED <<open, handlers, tables, socket, keys, history>>

\* The admin factory removes whatever the path names and binds a new socket.
AdminFromConfig(d) ==
  /\ Go(d, "bound", "serving")
  /\ socket' = d
  /\ UNCHANGED <<open, handlers, tables, port, keys, history>>

ReleasePort(d) == port' = IF port = d THEN Nil ELSE port

\* A step that returns an error, for one of many reasons (a port in use or a key
\* that is not there among them): the deferred calls follow.  The admin factory may
\* fail after it has removed the old path.
StartFails(d) ==
  /\ pc[d] \in Starting
  /\ UNCHANGED socket \/ (pc[d] = "bound" /\ socket' = Nil)
  /\ pc' = [pc EXCEPT ![d] = "unwinding"]
  /\ writing' = [writing EXCEPT ![d] = 0]
  /\ ReleasePort(d)
  /\ UNCHANGED <<open, handlers, tables, bundle, history>>
-----------------------------------------------------------------------------
(* Serving.                                                                *)

\* A unary call, or a health or reflection stream that its client may keep open.  A
\* connection still takes calls until it has gone away.
CallArrives(d, c) ==
  /\ pc[d] \in {"serving", "draining"} /\ call[d][c] = "idle"
  /\ call' = [call EXCEPT ![d][c] = "work"] \/ call' = [call EXCEPT ![d][c] = "stream"]
  /\ UNCHANGED <<pc, open, admin, change, tables, names, keys, history>>

CallStep(d, c) ==
  /\ \/ call[d][c] = "work" /\ call' = [call EXCEPT ![d][c] = "log"]
     \/ call[d][c] = "log" /\ call' = [call EXCEPT ![d][c] = "idle"]
  /\ UNCHANGED <<pc, open, admin, change, tables, names, keys, history>>

\* The client closes a stream, or Stop has closed its connection.
StreamEnds(d, c) ==
  /\ call[d][c] = "stream"
  /\ call' = [call EXCEPT ![d][c] = "idle"]
  /\ UNCHANGED <<pc, open, admin, change, tables, names, keys, history>>

\* The listener is open until Shutdown is called on the admin server, if it is; the
\* socket must still be the one the path names.
AdminAccept(d, a) ==
  /\ socket = d
  /\ \/ pc[d] \in {"serving", "draining", "forced", "stopped"}
     \/ pc[d] = "unwinding" /\ abandoned[d]
  /\ admin[d][a] = "idle"
  /\ admin' = [admin EXCEPT ![d][a] = "accepted"]
  /\ UNCHANGED <<pc, open, call, change, tables, names, keys, history>>

AdminChange(d, a) ==
  /\ admin[d][a] = "accepted"
  /\ clock < MaxChanges
  /\ clock' = clock + 1
  /\ mem' = [mem EXCEPT ![d] = @ \cup {clock + 1}]
  /\ change' = [change EXCEPT ![d][a] = clock + 1]
  /\ admin' = [admin EXCEPT ![d][a] = "changed"]
  /\ UNCHANGED <<pc, open, call, pending, disk, names, keys, history>>

\* schedulePersist; a store that has been shut down ignores it.
AdminSchedule(d, a) ==
  /\ admin[d][a] = "changed"
  /\ admin' = [admin EXCEPT ![d][a] = "scheduled"]
  /\ pending' = [pending EXCEPT ![d] = @ \/ "store" \in open[d]]
  /\ UNCHANGED <<pc, open, call, change, mem, disk, clock, names, keys, history>>

AdminRespond(d, a) ==
  /\ admin[d][a] = "scheduled"
  /\ admin' = [admin EXCEPT ![d][a] = "idle"]
  /\ change' = [change EXCEPT ![d][a] = 0]
  /\ acknowledged' = acknowledged \cup {change[d][a]}
  /\ UNCHANGED <<pc, open, call, tables, names, keys, abandoned>>

Persist(d) ==
  /\ pending[d]
  /\ pending' = [pending EXCEPT ![d] = FALSE]
  /\ disk' = mem[d]
  /\ UNCHANGED <<pc, open, handlers, mem, clock, names, keys, history>>

\* gs.Serve returns an error: Serve returns it, and stops nothing.
ServeFails(d) ==
  /\ Go(d, "serving", "unwinding")
  /\ ReleasePort(d)
  /\ abandoned' = [abandoned EXCEPT ![d] = TRUE]
  /\ UNCHANGED <<open, handlers, tables, socket, keys, acknowledged>>
-----------------------------------------------------------------------------
(* Stopping.                                                               *)

\* SIGTERM, SIGINT or a cancelled context: GracefulStop closes the listener.
Signal(d) ==
  /\ Go(d, "serving", "draining")
  /\ ReleasePort(d)
  /\ UNCHANGED <<open, handlers, tables, socket, keys, history>>

\* GracefulStop returns.
Drained(d) ==
  /\ pc[d] \in {"draining", "forced"}
  /\ call[d] = Quiet
  /\ pc' = [pc EXCEPT ![d] = "stopped"]
  /\ UNCHANGED <<open, handlers, tables, names, keys, history>>

\* Mutant: Stop is called and GracefulStop no longer waited for.
ForceAndLeave(d) ==
  /\ Go(d, "draining", "stopped")
  /\ UNCHANGED <<open, handlers, tables, names, keys, history>>

\* Mutant: the grace period is cut short only when nothing is left to wait for.
ForceWhenIdle(d) ==
  /\ Go(d, "draining", "forced")
  /\ call[d] = Quiet
  /\ UNCHANGED <<open, handlers, tables, names, keys, history>>

\* The grace period is over: Stop, then wait for GracefulStop all the same.
ForceStop(d) ==
  /\ Go(d, "draining", "forced")
  /\ call[d] # Quiet
  /\ UNCHANGED <<open, handlers, tables, names, keys, history>>

\* http.Server.Shutdown closes the listener, and with it unlinks the path.
AdminShutdown(d) ==
  /\ Go(d, "stopped", "adminStopping")
  /\ socket' = Nil
  /\ UNCHANGED <<open, handlers, tables, port, keys, history>>

\* It returns when its requests are answered or when its context times out; the
\* path is removed once more.
AdminStopped(d) ==
  /\ Go(d, "adminStopping", "unwinding")
  /\ socket' = Nil
  /\ UNCHANGED <<open, handlers, tables, port, keys, history>>

\* The deferred calls, last one first.  Store.Shutdown cancels a pending persist.
Close(d, resource) ==
  /\ pc[d] = "unwinding" /\ resource \in open[d]
  /\ resource = "audit" => "keys" \notin open[d]
  /\ resource = "store" => open[d] = {"store"}
  /\ open' = [open EXCEPT ![d] = @ \ {resource}]
  /\ pending' = [pending EXCEPT ![d] = @ /\ resource # "store"]
  /\ UNCHANGED <<pc, handlers, mem, disk, clock, names, keys, history>>

\* The end of the process, and of its goroutines.
Ends(d) ==
  /\ pc' = [pc EXCEPT ![d] = "down"]
  /\ open' = [open EXCEPT ![d] = {}]
  /\ call' = [call EXCEPT ![d] = Quiet]
  /\ admin' = [admin EXCEPT ![d] = Unasked]
  /\ change' = [change EXCEPT ![d] = [a \in AdminRequests |-> 0]]
  /\ mem' = [mem EXCEPT ![d] = {}]
  /\ pending' = [pending EXCEPT ![d] = FALSE]
  /\ writing' = [writing EXCEPT ![d] = 0]
  /\ UNCHANGED <<disk, clock, socket, bundle>>

Exit(d) ==
  /\ pc[d] = "unwinding" /\ open[d] = {}
  /\ Ends(d)
  /\ UNCHANGED <<port, history>>

Crash(d) ==
  /\ pc[d] # "down"
  /\ Ends(d)
  /\ ReleasePort(d)
  /\ acknowledged' = {}
  /\ UNCHANGED abandoned
-----------------------------------------------------------------------------
StartStep(d) ==
  \/ LoadFromFiles(d) \/ EnsureKeys(d) \/ GenerateKeys(d)
  \/ \E s \in Slots : WriteKey(d, s)
  \/ OpenSecretKey(d) \/ NewAuditLogger(d) \/ EnsureVault(d)
  \/ Listen(d) \/ AdminFromConfig(d) \/ StartFails(d)

StopStep(d) ==
  \/ Drained(d) \/ ForceStop(d) \/ AdminShutdown(d) \/ AdminStopped(d)
  \/ \E resource \in Resources : Close(d, resource)
  \/ Exit(d)

Next ==
  \E d \in Daemons :
    \/ StartStep(d) \/ StopStep(d) \/ Signal(d) \/ ServeFails(d) \/ Crash(d) \/ Persist(d)
    \/ \E c \in Calls : CallArrives(d, c) \/ CallStep(d, c) \/ StreamEnds(d, c)
    \/ \E a \in AdminRequests :
         AdminAccept(d, a) \/ AdminChange(d, a) \/ AdminSchedule(d, a) \/ AdminRespond(d, a)

Spec == Init /\ [][Next]_vars

\* Unary handlers run to their end, and so does the main goroutine once it stops;
\* the grace period ends, and Stop ends the streams.  Clients need not close a
\* stream, and admin handlers need not ever end.
Fairness ==
  \A d \in Daemons :
    /\ WF_vars(StopStep(d))
    /\ \A c \in Calls :
         /\ WF_vars(CallStep(d, c))
         /\ WF_vars(pc[d] = "forced" /\ StreamEnds(d, c))

FairSpec == Spec /\ Fairness
-----------------------------------------------------------------------------
(* Properties.                                                             *)

TypeOK ==
  /\ pc \in [Daemons -> {"down", "serving", "unwinding"} \cup Starting \cup Stopping]
  /\ open \in [Daemons -> SUBSET Resources]
  /\ call \in [Daemons -> [Calls -> {"idle", "work", "log", "stream"}]]
  /\ admin \in [Daemons -> [AdminRequests -> {"idle", "accepted", "changed", "scheduled"}]]
  /\ change \in [Daemons -> [AdminRequests -> Nat]]
  /\ mem \in [Daemons -> SUBSET Nat] /\ disk \subseteq Nat
  /\ pending \in [Daemons -> BOOLEAN]
  /\ bundle \in [Slots -> Nat] /\ writing \in [Daemons -> Nat]
  /\ port \in Daemons \cup {Nil} /\ socket \in Daemons \cup {Nil}
  /\ clock \in Nat
  /\ abandoned \in [Daemons -> BOOLEAN]
  /\ acknowledged \subseteq Nat

\* However a stop is timed, the keys and the audit log are closed only after the
\* last call that needs them, forced stop included: a call never decrypts with
\* keys that are gone, and its line is never dropped.  (When gs.Serve itself
\* fails, Serve leaves its handlers behind.)
CallsKeepResources ==
  \A d \in Daemons : ~abandoned[d] =>
    \A c \in Calls : /\ call[d][c] = "work" => "keys" \in open[d]
                     /\ call[d][c] \in {"work", "log"} => "audit" \in open[d]

\* The port is bound before the admin socket, so a daemon started beside one that
\* serves fails before it takes over the socket path: while a daemon serves, its
\* path goes only to one that was already stopping when it started.
SocketKept ==
  [][\A d \in Daemons : pc[d] = "serving" /\ socket = d /\ socket' # d =>
       \E e \in Daemons \ {d} : pc[e] \in {"stopped", "adminStopping"}]_vars

\* The files of a key bundle are of one generation, although a crash, a failure or
\* another daemon's start may come between them: what the cloud computes with the
\* EvalKey it was given can be decrypted with the SecKey.  The price is that a bundle
\* which lacks a file is never completed by a later start.
BundleOfOneGeneration ==
  \A s, t \in Slots : bundle[s] # 0 /\ bundle[t] # 0 => bundle[s] = bundle[t]

\* While a daemon serves, a command with the same flags dials the socket it bound, from
\* the daemon's directory or by paths that are absolute.  With a relative --config,
\* --admin-socket or server.admin.socket it may miss it from anywhere else.
ClientFindsDaemon == \A d \in Daemons : pc[d] = "serving" => SameFlagsSameSocket

\* A daemon that is told to stop ends, whatever streams its clients keep open and
\* whatever admin requests hang; so does one whose start or whose gs.Serve failed.
StopEnds == \A d \in Daemons : pc[d] \in Stopping \cup {"unwinding"} ~> pc[d] = "down"

\* "Use Flush instead when you want pending changes to be written before exit"
\* (store.go:454): a change that an operator was told of is in the files once the daemon
\* has been stopped.  The daemon calls Shutdown, which cancels the pending persist.
AcknowledgedIsDurable ==
  (\A d \in Daemons : pc[d] = "down") => acknowledged \subseteq disk
=============================================================================
