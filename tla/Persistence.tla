----------------------------- MODULE Persistence -----------------------------
(***************************************************************************)
(* The durable half of vault/internal/tokens/store.go: schedulePersist,    *)
(* the timer callback, doPersist, Flush and Shutdown, with the admin       *)
(* handlers that change the tables, crashes, and the next start.           *)
(*                                                                         *)
(* The tables are module TokenStore; here a table's content is the number  *)
(* of the last change made to it.  A change to the token table also        *)
(* remembers the content the role table had then (its basis).  A file      *)
(* holds what a table held when a doPersist took its snapshot.             *)
(*                                                                         *)
(* A time.Timer and the goroutine that runs its callback are one process;  *)
(* a Flush that finds a pending timer runs doPersist itself, as the        *)
(* process Caller.  atomicWriteYAML renames a complete temporary file, so  *)
(* a write either replaces the file or, on an error, leaves it alone.      *)
(***************************************************************************)
EXTENDS Integers

CONSTANTS
  Admins,        \* goroutines of admin requests
  Timers,        \* time.Timer objects; bound: so many at once
  Caller,        \* the goroutine that calls Flush and Shutdown
  Nil,           \* no timer; no file
  Flushes,       \* whether Flush is called (the daemon itself never does)
  MaxChanges,    \* bound: changes to the tables in one run
  MaxStops,      \* bound: crashes and exits in one run
  MaxFailures    \* bound: writes that fail in one run

ASSUME ConstantsAssumption ==
  /\ Caller \notin Timers
  /\ Nil \notin Timers
  /\ Nil \notin Nat
  /\ Nil # [at |-> 0, basis |-> 0]
  /\ Flushes \in BOOLEAN
  /\ MaxChanges \in Nat /\ MaxStops \in Nat /\ MaxFailures \in Nat

Writers == Timers \cup {Caller}
RolesContent == Nat
TokensContent == [at : Nat, basis : Nat]
Snapshot == [roles : RolesContent, tokens : TokensContent, at : Nat]

\* A timer, its callback and the doPersist it calls, in program order.
\* "passed": persistMu released, WG.Add not yet reached.
WriterPC == {"free", "armed", "fired", "passed", "counted", "roles", "tokens"}

VARIABLES
  mem,           \* the content of the two tables
  clock,         \* number of changes made so far
  rolesFile, tokensFile,
  up,            \* whether the daemon runs
  persistTimer,  \* the field of that name
  persistClosed, \* the field of that name
  pc,            \* writer -> where it is
  snap,          \* writer -> what doPersist copied under mu.RLock
  admin,         \* admin -> "idle", or "changed": about to call schedulePersist
  flush,         \* "none", "waiting" or "returned"
  shutdown,      \* the same
  stops, failures,
  taken,         \* history: the clock at the last snapshot
  saved,         \* history: the latest snapshot that both files received
  scheduled,     \* history: the latest change that schedulePersist covers
  mark,          \* history: scheduled when Flush was called
  overlapped     \* history: two doPersist were writing at the same time

files == <<rolesFile, tokensFile>>
timing == <<persistTimer, persistClosed, pc, snap>>
calls == <<flush, shutdown>>
bounds == <<stops, failures>>
history == <<taken, saved, scheduled, mark, overlapped>>
vars == <<mem, clock, files, up, timing, admin, calls, bounds, history>>

NoSnap == [roles |-> 0, tokens |-> [at |-> 0, basis |-> 0], at |-> 0]

Writing == {w \in Writers : pc[w] \in {"roles", "tokens"}}

\* persistWG counts the doPersist calls between Add and Done.
WaitGroupZero == \A w \in Writers : pc[w] \notin {"counted", "roles", "tokens"}
-----------------------------------------------------------------------------
(* Starting and stopping the daemon.                                       *)

\* Mutant: a missing file is not replaced by the initial content.
AsRead(file, initial) == file

OrInitial(file, initial) == IF file = Nil THEN initial ELSE file

\* Mutant: a persist is scheduled only when both files are missing.
BothMissing == rolesFile = Nil /\ tokensFile = Nil

FileMissing == rolesFile = Nil \/ tokensFile = Nil

\* LoadFromFiles: a missing file loads as the initial content and schedules a
\* persist, before any other goroutine exists.
Load ==
  /\ mem' = [roles |-> OrInitial(rolesFile, 0),
             tokens |-> OrInitial(tokensFile, NoSnap.tokens)]
  /\ \/ /\ ~FileMissing
        /\ pc' = [w \in Writers |-> "free"]
        /\ persistTimer' = Nil
        /\ taken' = clock
     \/ /\ FileMissing
        /\ \E t \in Timers :
             /\ pc' = [w \in Writers |-> IF w = t THEN "armed" ELSE "free"]
             /\ persistTimer' = t
        /\ taken' = clock - 1
  /\ snap' = [w \in Writers |-> NoSnap]

Start ==
  /\ ~up
  /\ up' = TRUE
  /\ Load
  /\ persistClosed' = FALSE
  /\ flush' = "none" /\ shutdown' = "none"
  /\ admin' = [a \in Admins |-> "idle"]
  /\ saved' = taken' /\ scheduled' = clock /\ mark' = taken'
  /\ UNCHANGED <<clock, files, bounds, overlapped>>

\* What a process that ends leaves behind: the files.
Stop ==
  /\ up
  /\ stops < MaxStops
  /\ stops' = stops + 1
  /\ up' = FALSE
  /\ pc' = [w \in Writers |-> "free"]
  /\ snap' = [w \in Writers |-> NoSnap]
  /\ persistTimer' = Nil
  /\ UNCHANGED <<mem, clock, files, persistClosed, admin, calls, failures, history>>

Crash == shutdown # "returned" /\ Stop

\* runDaemonStart returns after the deferred Shutdown.
Exit == shutdown = "returned" /\ Stop

Init ==
  /\ clock = 0
  /\ rolesFile \in {Nil, 0}
  /\ tokensFile \in {Nil, NoSnap.tokens}
  /\ up = FALSE
  /\ mem = [roles |-> 0, tokens |-> NoSnap.tokens]
  /\ persistTimer = Nil
  /\ persistClosed = FALSE
  /\ pc = [w \in Writers |-> "free"]
  /\ snap = [w \in Writers |-> NoSnap]
  /\ admin = [a \in Admins |-> "idle"]
  /\ flush = "none" /\ shutdown = "none"
  /\ stops = 0 /\ failures = 0
  /\ taken = 0 /\ saved = 0 /\ scheduled = 0 /\ mark = 0
  /\ overlapped = FALSE
-----------------------------------------------------------------------------
(* An admin handler: a change under mu, then schedulePersist.              *)

Change(a) ==
  /\ up /\ admin[a] = "idle"
  /\ clock < MaxChanges
  /\ clock' = clock + 1
  /\ mem' \in {[mem EXCEPT !.roles = clock + 1],
               [mem EXCEPT !.tokens = [at |-> clock + 1, basis |-> mem.roles]]}
  /\ admin' = [admin EXCEPT ![a] = "changed"]
  /\ UNCHANGED <<files, up, timing, calls, bounds, history>>

\* pc once Stop has been called on the timer the field points to: an armed one
\* is cancelled, and a callback that has started runs on.
Stopped ==
  IF persistTimer # Nil /\ pc[persistTimer] = "armed"
  THEN [pc EXCEPT ![persistTimer] = "free"]
  ELSE pc

Arm(t) ==
  /\ Stopped[t] = "free"
  /\ pc' = [Stopped EXCEPT ![t] = "armed"]
  /\ persistTimer' = t

SchedulePersist(a) ==
  /\ up /\ admin[a] = "changed"
  /\ admin' = [admin EXCEPT ![a] = "idle"]
  /\ \/ persistClosed /\ UNCHANGED <<pc, persistTimer, scheduled>>
     \/ /\ ~persistClosed
        /\ \E t \in Timers : Arm(t)
        /\ scheduled' = clock
  /\ UNCHANGED <<mem, clock, files, up, persistClosed, snap, calls, bounds,
                 taken, saved, mark, overlapped>>
-----------------------------------------------------------------------------
(* The timer, its callback and doPersist.                                  *)

Fire(t) ==
  /\ pc[t] = "armed"
  /\ pc' = [pc EXCEPT ![t] = "fired"]
  /\ UNCHANGED <<mem, clock, files, up, persistTimer, persistClosed, snap, admin,
                 calls, bounds, history>>

\* Mutant: a callback does nothing when the field does not point to its timer,
\* but clears the field all the same.
CallbackIfCurrent(t) ==
  /\ pc[t] = "fired"
  /\ persistTimer' = Nil
  /\ pc' = [pc EXCEPT ![t] = IF persistClosed \/ persistTimer # t
                             THEN "free" ELSE "passed"]
  /\ UNCHANGED <<mem, clock, files, up, persistClosed, snap, admin,
                 calls, bounds, history>>

\* Mutant: the callback does not look at persistClosed.
CallbackAlways(t) ==
  /\ pc[t] = "fired"
  /\ persistTimer' = Nil
  /\ pc' = [pc EXCEPT ![t] = "passed"]
  /\ UNCHANGED <<mem, clock, files, up, persistClosed, snap, admin,
                 calls, bounds, history>>

\* The callback clears the field, whichever timer it points to by now.
Callback(t) ==
  /\ pc[t] = "fired"
  /\ persistTimer' = Nil
  /\ pc' = [pc EXCEPT ![t] = IF persistClosed THEN "free" ELSE "passed"]
  /\ UNCHANGED <<mem, clock, files, up, persistClosed, snap, admin,
                 calls, bounds, history>>

WaitGroupAdd(w) ==
  /\ pc[w] = "passed"
  /\ pc' = [pc EXCEPT ![w] = "counted"]
  /\ UNCHANGED <<mem, clock, files, up, persistTimer, persistClosed, snap, admin,
                 calls, bounds, history>>

TakeSnapshot(w) ==
  /\ pc[w] = "counted"
  /\ pc' = [pc EXCEPT ![w] = "roles"]
  /\ snap' = [snap EXCEPT ![w] = [roles |-> mem.roles, tokens |-> mem.tokens,
                                  at |-> clock]]
  /\ taken' = clock
  /\ overlapped' = (overlapped \/ Writing # {})
  /\ UNCHANGED <<mem, clock, files, up, persistTimer, persistClosed, admin,
                 calls, bounds, saved, scheduled, mark>>

\* An error of atomicWriteYAML goes to stderr; doPersist carries on.
WriteFails ==
  /\ failures < MaxFailures
  /\ failures' = failures + 1
  /\ UNCHANGED files

\* Mutant: the roles file is only ever created.
WriteMissingRoles(w) ==
  /\ pc[w] = "roles"
  /\ pc' = [pc EXCEPT ![w] = "tokens"]
  /\ rolesFile' = OrInitial(rolesFile, snap[w].roles)
  /\ UNCHANGED <<tokensFile, failures>>
  /\ UNCHANGED <<mem, clock, up, persistTimer, persistClosed, snap, admin,
                 calls, stops, history>>

WriteRoles(w) ==
  /\ pc[w] = "roles"
  /\ pc' = [pc EXCEPT ![w] = "tokens"]
  /\ \/ rolesFile' = snap[w].roles /\ UNCHANGED <<tokensFile, failures>>
     \/ WriteFails
  /\ UNCHANGED <<mem, clock, up, persistTimer, persistClosed, snap, admin,
                 calls, stops, history>>

\* Mutant: the last write of a doPersist is not followed by WG.Done.
WriteTokensWithoutDone(w) ==
  /\ pc[w] = "tokens"
  /\ tokensFile' = snap[w].tokens
  /\ saved' = snap[w].at
  /\ UNCHANGED <<mem, clock, rolesFile, up, timing, admin, calls, bounds,
                 taken, scheduled, mark, overlapped>>

\* Mutant: the token table is read when its file is written, not with the roles.
WriteTokensFresh(w) ==
  /\ pc[w] = "tokens"
  /\ pc' = [pc EXCEPT ![w] = "free"]
  /\ snap' = [snap EXCEPT ![w] = NoSnap]
  /\ \/ tokensFile' = mem.tokens /\ UNCHANGED <<rolesFile, failures>>
     \/ WriteFails
  /\ saved' = IF snap[w].at > saved THEN snap[w].at ELSE saved
  /\ UNCHANGED <<mem, clock, up, persistTimer, persistClosed, admin,
                 calls, stops, taken, scheduled, mark, overlapped>>

WriteTokens(w) ==
  /\ pc[w] = "tokens"
  /\ pc' = [pc EXCEPT ![w] = "free"]
  /\ snap' = [snap EXCEPT ![w] = NoSnap]
  /\ \/ tokensFile' = snap[w].tokens /\ UNCHANGED <<rolesFile, failures>>
     \/ WriteFails
  /\ saved' = IF snap[w].at > saved THEN snap[w].at ELSE saved
  /\ UNCHANGED <<mem, clock, up, persistTimer, persistClosed, admin,
                 calls, stops, taken, scheduled, mark, overlapped>>
-----------------------------------------------------------------------------
(* Flush and Shutdown.                                                     *)

Flush ==
  /\ Flushes /\ up /\ flush # "waiting" /\ shutdown = "none"
  /\ flush' = "waiting"
  /\ mark' = scheduled
  /\ pc' = [Stopped EXCEPT ![Caller] = IF Stopped # pc THEN "passed" ELSE "free"]
  /\ persistTimer' = Nil
  /\ UNCHANGED <<mem, clock, files, up, persistClosed, snap, admin, shutdown, bounds,
                 taken, saved, scheduled, overlapped>>

FlushReturn ==
  /\ flush = "waiting"
  /\ pc[Caller] = "free"
  /\ WaitGroupZero
  /\ flush' = "returned"
  /\ UNCHANGED <<mem, clock, files, up, timing, admin, shutdown, bounds, history>>

Shutdown ==
  /\ up /\ shutdown = "none" /\ flush # "waiting"
  /\ shutdown' = "waiting"
  /\ persistClosed' = TRUE
  /\ pc' = Stopped
  /\ persistTimer' = Nil
  /\ UNCHANGED <<mem, clock, files, up, snap, admin, flush, bounds, history>>

ShutdownReturn ==
  /\ up /\ shutdown = "waiting"
  /\ WaitGroupZero
  /\ shutdown' = "returned"
  /\ UNCHANGED <<mem, clock, files, up, timing, admin, flush, bounds, history>>

DoPersist(w) == WaitGroupAdd(w) \/ TakeSnapshot(w) \/ WriteRoles(w) \/ WriteTokens(w)

Next ==
  \/ Start \/ Crash \/ Exit
  \/ \E a \in Admins : Change(a) \/ SchedulePersist(a)
  \/ \E t \in Timers : Fire(t) \/ Callback(t)
  \/ \E w \in Writers : DoPersist(w)
  \/ Flush \/ FlushReturn \/ Shutdown \/ ShutdownReturn

Spec == Init /\ [][Next]_vars

\* Every goroutine that can run does, timers expire, and calls end.  Nothing
\* makes an operator change a table, call Flush or stop the daemon.
Fairness ==
  /\ WF_vars(Start)
  /\ \A a \in Admins : WF_vars(SchedulePersist(a))
  /\ \A t \in Timers : WF_vars(Fire(t)) /\ WF_vars(Callback(t))
  /\ \A w \in Writers : WF_vars(DoPersist(w))
  /\ WF_vars(FlushReturn) /\ WF_vars(ShutdownReturn)

FairSpec == Spec /\ Fairness
-----------------------------------------------------------------------------
(* Properties.                                                             *)

TypeOK ==
  /\ mem \in [roles : RolesContent, tokens : TokensContent]
  /\ clock \in Nat
  /\ rolesFile \in RolesContent \cup {Nil}
  /\ tokensFile \in TokensContent \cup {Nil}
  /\ up \in BOOLEAN
  /\ persistTimer \in Timers \cup {Nil}
  /\ persistClosed \in BOOLEAN
  /\ pc \in [Writers -> WriterPC]
  /\ snap \in [Writers -> Snapshot]
  /\ admin \in [Admins -> {"idle", "changed"}]
  /\ flush \in {"none", "waiting", "returned"}
  /\ shutdown \in {"none", "waiting", "returned"}
  /\ stops \in Nat /\ failures \in Nat
  /\ taken \in Int /\ saved \in Int /\ scheduled \in Nat /\ mark \in Int
  /\ overlapped \in BOOLEAN

\* Nobody loses a change between a timer that is stopped, one that has fired and
\* a callback that clears the field of a newer timer: while the daemon runs and
\* has not been shut down, a change that no snapshot contains yet has a handler
\* about to schedule, a timer armed or a callback under way that will take one.
NoLostChange ==
  up /\ ~persistClosed /\ taken < clock =>
    \/ \E a \in Admins : admin[a] = "changed"
    \/ \E w \in Writers : pc[w] \in {"armed", "fired", "passed", "counted"}

\* Nothing is scheduled, pending or being written.
Quiescent ==
  /\ up /\ ~persistClosed
  /\ \A a \in Admins : admin[a] = "idle"
  /\ \A w \in Writers : pc[w] = "free"

FilesHoldTables == rolesFile = mem.roles /\ tokensFile = mem.tokens

\* When nothing is pending the files hold the tables, unless a write failed (it
\* is reported and never retried) or two doPersist overlapped.
QuiescentDisk == Quiescent /\ failures = 0 /\ ~overlapped => FilesHoldTables

\* Roles are written before tokens, so whatever moment the daemon dies at, the
\* roles file has every role change that was made before the last token change
\* of the tokens file: a token on disk never waits for the role it was issued
\* for.  A write error or an overlap may break this.
RolesBeforeTokens ==
  failures = 0 /\ ~overlapped /\ tokensFile # Nil /\ tokensFile.at > 0 =>
    rolesFile # Nil /\ rolesFile >= tokensFile.basis

\* doPersist calls past the check of persistClosed.
PastCheck == {w \in Writers : pc[w] \in {"passed", "counted", "roles", "tokens"}}

\* Once Shutdown has closed the store no further doPersist gets past the check,
\* not even from a timer that the field no longer pointed to when Shutdown
\* stopped it.
ClosedDrains == [][persistClosed /\ persistClosed' => PastCheck' \subseteq PastCheck]_vars

\* Without a crash or a shutdown every change reaches a snapshot once the
\* changes pause: a timer that is reset or forgotten does not strand it.
ChangesAreTaken ==
  \A n \in 1..MaxChanges :
    (up /\ clock = n) ~> (taken >= n \/ persistClosed \/ ~up)

\* Shutdown and Flush return: the WaitGroup they wait on drains.
CallsReturn ==
  /\ shutdown = "waiting" ~> shutdown = "returned" \/ ~up
  /\ flush = "waiting" ~> flush = "returned" \/ ~up

\* What is left of a doPersist for WriteBehind: the copy it writes.
Copies == {[roles |-> snap[w].roles, tokens |-> snap[w].tokens, next |-> pc[w]] : w \in Writing}

Abstract == INSTANCE WriteBehind WITH dirty <- taken < clock, copies <- Copies

\* Timers that are reset, forgotten or late, overlapping and failing writes, Flush,
\* Shutdown and restarts amount to no more than WriteBehind allows: a file only ever
\* receives the tables of one moment, the roles of a copy before its tokens, and a
\* change is taken for copied only by a copy that was made after it.
ImplementsWriteBehind == Abstract!Spec

\* "Flush forces any pending debounced persist to run synchronously, then blocks
\* until in-flight writes complete" (store.go:466): when it returns, what was
\* scheduled before the call has been written.
FlushWrites == up /\ flush = "returned" => saved >= mark

\* TestPersistAndReload (store_test.go:187) reloads from the files what the store
\* held when nothing was left to write.  A slow doPersist may replace the files
\* that a later one has written, and nothing is scheduled to repair it.
SettledDiskIsCurrent == Quiescent /\ failures = 0 => FilesHoldTables
=============================================================================
