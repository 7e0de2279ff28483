------------------------- MODULE Persistence_proofs -------------------------
(***************************************************************************)
(* For any number of admin requests, timers, changes, crashes and failed   *)
(* writes: no change is lost on its way to a snapshot, the files hold the  *)
(* tables when nothing is pending (unless writes failed or overlapped),    *)
(* roles are never behind tokens, and a closed store drains.               *)
(***************************************************************************)
EXTENDS Persistence, TLAPS

\* The call of Shutdown closes the store.
ClosedByShutdown == up /\ shutdown = "none" => ~persistClosed

\* A daemon that is down has no goroutines.
DownIsIdle == ~up => \A w \in Writers : pc[w] = "free"

Undisturbed == failures = 0 /\ ~overlapped

\* Only a Flush in progress runs doPersist itself.
CallerInFlush == flush # "waiting" => pc[Caller] = "free"

\* One doPersist at a time has a snapshot that it has not written.
OneWriter ==
  ~overlapped => \A v, w \in Writing : v = w

\* While the last snapshot is current, what is left to write of it is the
\* tables, and once it is written the files are the tables.
CurrentSnapshot ==
  Undisturbed /\ up /\ taken = clock =>
    /\ \A w \in Writing : /\ snap[w].roles = mem.roles
                          /\ snap[w].tokens = mem.tokens
    /\ \A w \in Writers : pc[w] = "tokens" => rolesFile = mem.roles
    /\ Writing = {} => FilesHoldTables

\* Nothing is from the future, and role contents only grow while the daemon runs.
RolesGrow ==
  /\ taken <= clock
  /\ mem.roles <= clock
  /\ rolesFile # Nil => rolesFile <= mem.roles
  /\ \A w \in Writing : snap[w].roles <= mem.roles

\* The roles that the tokens file builds on are in every later source of a roles
\* file: the table, a snapshot, the file itself.
BasisKept ==
  Undisturbed =>
    /\ up => mem.tokens.basis <= mem.roles
    /\ \A w \in Writing : snap[w].tokens.basis <= snap[w].roles
    /\ \A w \in Writers : pc[w] = "tokens" => rolesFile = snap[w].roles
    /\ tokensFile # Nil =>
         /\ \A w \in Writing : tokensFile.basis <= snap[w].roles
         /\ IF rolesFile = Nil THEN tokensFile.basis = 0 /\ tokensFile.at = 0
            ELSE tokensFile.basis <= rolesFile

DataInv == OneWriter /\ CurrentSnapshot /\ RolesGrow /\ BasisKept

IInv ==
  /\ TypeOK
  /\ ClosedByShutdown
  /\ DownIsIdle
  /\ CallerInFlush
  /\ NoLostChange
  /\ DataInv

USE DEF RolesContent
-----------------------------------------------------------------------------
\* Records of the two kinds of content.
LEMMA ContentFacts ==
  /\ NoSnap \in Snapshot /\ NoSnap.tokens \in TokensContent
  /\ NoSnap.tokens = [at |-> 0, basis |-> 0]
  /\ \A s \in Snapshot : s.roles \in Nat /\ s.tokens \in TokensContent /\ s.at \in Nat
  /\ \A t \in TokensContent : t.at \in Nat /\ t.basis \in Nat
  /\ \A r \in Nat, t \in TokensContent, n \in Nat :
       [roles |-> r, tokens |-> t, at |-> n] \in Snapshot
BY DEF NoSnap, Snapshot, TokensContent

LEMMA InitIInv == Init => IInv
<1>. SUFFICES ASSUME Init PROVE IInv
  OBVIOUS
<1>1. TypeOK
  <2>1. mem \in [roles : Nat, tokens : TokensContent]
    BY ContentFacts DEF Init
  <2>2. snap \in [Writers -> Snapshot] /\ pc \in [Writers -> WriterPC]
    BY ContentFacts DEF Init, WriterPC
  <2>3. rolesFile \in Nat \cup {Nil} /\ tokensFile \in TokensContent \cup {Nil}
    BY ContentFacts DEF Init
  <2>4. up \in BOOLEAN /\ persistClosed \in BOOLEAN /\ overlapped \in BOOLEAN
    BY DEF Init
  <2>5. admin \in [Admins -> {"idle", "changed"}]
    BY DEF Init
  <2>6. clock \in Nat /\ stops \in Nat /\ failures \in Nat /\ scheduled \in Nat
        /\ taken \in Int /\ saved \in Int /\ mark \in Int
    BY DEF Init
  <2>. QED
    BY <2>1, <2>2, <2>3, <2>4, <2>5, <2>6 DEF Init, TypeOK
<1>2. ClosedByShutdown /\ DownIsIdle /\ CallerInFlush /\ NoLostChange /\ CurrentSnapshot
  BY DEF Init, ClosedByShutdown, DownIsIdle, CallerInFlush, Writers, NoLostChange, CurrentSnapshot
<1>3. Writing = {}
  BY DEF Init, Writing
<1>4. OneWriter
  BY <1>3 DEF OneWriter
<1>5. RolesGrow /\ BasisKept
  BY <1>3, ContentFacts, ConstantsAssumption DEF Init, RolesGrow, BasisKept
<1>. QED
  BY <1>1, <1>2, <1>4, <1>5 DEF IInv, DataInv

\* Timer.Stop changes the timer in the field, from armed to free.
LEMMA StoppedFacts ==
  ASSUME TypeOK
  PROVE  /\ Stopped \in [Writers -> WriterPC]
         /\ \A w \in Writers : \/ Stopped[w] = pc[w]
                               \/ /\ w = persistTimer
                                  /\ pc[w] = "armed" /\ Stopped[w] = "free"
BY ConstantsAssumption DEF TypeOK, Stopped, WriterPC, Writers

LEMMA TypeOKStep ==
  ASSUME TypeOK, [Next]_vars
  PROVE  TypeOK'
<1>1. CASE Start
  <2>1. mem' \in [roles : Nat, tokens : TokensContent]
    BY <1>1, ContentFacts DEF Start, Load, OrInitial, FileMissing, TypeOK
  <2>2. /\ snap' \in [Writers -> Snapshot]
        /\ pc' \in [Writers -> WriterPC]
        /\ persistTimer' \in Timers \cup {Nil}
        /\ taken' \in Int
    BY <1>1, ContentFacts DEF Start, Load, OrInitial, FileMissing, TypeOK, WriterPC
  <2>. QED
    BY <1>1, <2>1, <2>2 DEF Start, TypeOK, files, bounds
<1>2. CASE Crash \/ Exit
  <2>1. snap' \in [Writers -> Snapshot] /\ pc' \in [Writers -> WriterPC]
    BY <1>2, ContentFacts DEF Crash, Exit, Stop, WriterPC
  <2>2. up' \in BOOLEAN
    BY <1>2 DEF Crash, Exit, Stop
  <2>. QED
    BY <1>2, <2>1, <2>2 DEF Crash, Exit, Stop, TypeOK, files, calls, history
<1>3. ASSUME NEW a \in Admins, Change(a) PROVE TypeOK'
  <2>1. [at |-> clock + 1, basis |-> mem.roles] \in TokensContent
    BY DEF TypeOK, TokensContent
  <2>2. mem' \in [roles : Nat, tokens : TokensContent]
    BY <1>3, <2>1 DEF Change, TypeOK
  <2>. QED
    BY <1>3, <2>2 DEF Change, TypeOK, files, timing, calls, bounds, history
<1>4. ASSUME NEW a \in Admins, SchedulePersist(a) PROVE TypeOK'
  BY <1>4, StoppedFacts DEF SchedulePersist, Arm, TypeOK, WriterPC, Writers, files, calls, bounds
<1>5. ASSUME NEW t \in Timers, Fire(t) \/ Callback(t) PROVE TypeOK'
  BY <1>5 DEF Fire, Callback, TypeOK, WriterPC, Writers, files, calls, bounds, history
<1>6. ASSUME NEW w \in Writers, WaitGroupAdd(w) PROVE TypeOK'
  BY <1>6 DEF WaitGroupAdd, TypeOK, WriterPC, files, calls, bounds, history
<1>13. ASSUME NEW w \in Writers, TakeSnapshot(w) PROVE TypeOK'
  <2>1. [roles |-> mem.roles, tokens |-> mem.tokens, at |-> clock] \in Snapshot
    BY ContentFacts DEF TypeOK
  <2>2. snap' \in [Writers -> Snapshot] /\ pc' \in [Writers -> WriterPC]
    BY <1>13, <2>1 DEF TakeSnapshot, TypeOK, WriterPC
  <2>. QED
    BY <1>13, <2>2 DEF TakeSnapshot, TypeOK, files, calls, bounds
<1>7. ASSUME NEW w \in Writers, WriteRoles(w) PROVE TypeOK'
  BY <1>7, ContentFacts DEF WriteRoles, WriteFails, TypeOK, WriterPC, files, calls, history
<1>8. ASSUME NEW w \in Writers, WriteTokens(w) PROVE TypeOK'
  BY <1>8, ContentFacts DEF WriteTokens, WriteFails, TypeOK, WriterPC, files, calls
<1>9. CASE Flush
  <2>1. pc' \in [Writers -> WriterPC]
    BY <1>9, StoppedFacts DEF Flush, WriterPC
  <2>. QED
    BY <1>9, <2>1 DEF Flush, TypeOK, files, bounds
<1>10. CASE Shutdown
  BY <1>10, StoppedFacts DEF Shutdown, TypeOK, files, bounds, history
<1>11. CASE FlushReturn \/ ShutdownReturn
  BY <1>11 DEF FlushReturn, ShutdownReturn, TypeOK, files, timing, bounds, history
<1>12. CASE UNCHANGED vars
  BY <1>12 DEF vars, TypeOK, files, timing, calls, bounds, history
<1>. QED
  BY <1>1, <1>2, <1>3, <1>4, <1>5, <1>6, <1>7, <1>8, <1>9, <1>10, <1>11, <1>12, <1>13
     DEF Next, DoPersist
-----------------------------------------------------------------------------
(* One lemma for each part of the invariant.                               *)

\* What SchedulePersist does to the timers of a store that is open.
LEMMA ArmFacts ==
  ASSUME TypeOK, NEW t \in Timers, Arm(t)
  PROVE  /\ pc'[t] = "armed"
         /\ \A w \in Writers \ {t} : pc'[w] = pc[w] \/ (pc[w] = "armed" /\ pc'[w] = "free")
         /\ pc[t] \in {"free", "armed"}
<1>1. t \in Writers /\ Stopped[t] = "free" /\ pc' = [Stopped EXCEPT ![t] = "armed"]
  BY DEF Arm, Writers
<1>2. pc'[t] = "armed" /\ \A w \in Writers \ {t} : pc'[w] = Stopped[w]
  BY <1>1, StoppedFacts
<1>3. pc[t] \in {"free", "armed"}
  BY <1>1, StoppedFacts
<1>4. \A w \in Writers : Stopped[w] = pc[w] \/ (pc[w] = "armed" /\ Stopped[w] = "free")
  BY StoppedFacts
<1>5. \A w \in Writers \ {t} : pc'[w] = pc[w] \/ (pc[w] = "armed" /\ pc'[w] = "free")
  BY <1>2, <1>4
<1>. QED
  BY <1>2, <1>3, <1>5

\* What Flush does: a timer that it stops becomes its own doPersist.
LEMMA FlushFacts ==
  ASSUME TypeOK, Flush
  PROVE  /\ \A w \in Writers \ {Caller} :
              \/ pc'[w] = pc[w]
              \/ pc[w] = "armed" /\ pc'[w] = "free" /\ pc'[Caller] = "passed"
         /\ pc'[Caller] \in {"passed", "free"}
<1>1. /\ pc' = [Stopped EXCEPT ![Caller] = IF Stopped # pc THEN "passed" ELSE "free"]
      /\ Caller \in Writers
  BY DEF Flush, Writers
<1>2. CASE Stopped = pc
  BY <1>1, <1>2, StoppedFacts
<1>3. CASE Stopped # pc
  BY <1>1, <1>3, StoppedFacts
<1>. QED
  BY <1>2, <1>3

LEMMA ControlStep ==
  ASSUME TypeOK, ClosedByShutdown, DownIsIdle, [Next]_vars
  PROVE  ClosedByShutdown' /\ DownIsIdle'
<1>1. CASE Start
  BY <1>1 DEF Start, ClosedByShutdown, DownIsIdle
<1>2. CASE Crash \/ Exit
  BY <1>2 DEF Crash, Exit, Stop, ClosedByShutdown, DownIsIdle
<1>3. ASSUME NEW a \in Admins, Change(a) \/ SchedulePersist(a)
      PROVE  ClosedByShutdown' /\ DownIsIdle'
  BY <1>3 DEF Change, SchedulePersist, timing, calls, ClosedByShutdown, DownIsIdle
<1>4. ASSUME NEW t \in Timers, Fire(t) \/ Callback(t)
      PROVE  ClosedByShutdown' /\ DownIsIdle'
  BY <1>4 DEF Fire, Callback, calls, ClosedByShutdown, DownIsIdle, Writers
<1>5. ASSUME NEW w \in Writers, DoPersist(w)
      PROVE  ClosedByShutdown' /\ DownIsIdle'
  BY <1>5 DEF DoPersist, WaitGroupAdd, TakeSnapshot, WriteRoles, WriteTokens, calls,
              ClosedByShutdown, DownIsIdle
<1>6. CASE Flush \/ Shutdown
  BY <1>6 DEF Flush, Shutdown, ClosedByShutdown, DownIsIdle
<1>7. CASE FlushReturn \/ ShutdownReturn \/ UNCHANGED vars
  BY <1>7 DEF FlushReturn, ShutdownReturn, vars, timing, calls,
              ClosedByShutdown, DownIsIdle
<1>. QED
  BY <1>1, <1>2, <1>3, <1>4, <1>5, <1>6, <1>7 DEF Next

LEMMA CallerStep ==
  ASSUME TypeOK, CallerInFlush, [Next]_vars
  PROVE  CallerInFlush'
<1>. Caller \in Writers /\ Caller \notin Timers
  BY ConstantsAssumption DEF Writers
<1>1. CASE Start \/ Crash \/ Exit
  BY <1>1 DEF Start, Load, OrInitial, FileMissing, Crash, Exit, Stop, CallerInFlush, Writers
<1>2. ASSUME NEW a \in Admins, Change(a) PROVE CallerInFlush'
  BY <1>2 DEF Change, timing, calls, CallerInFlush
<1>3. ASSUME NEW a \in Admins, SchedulePersist(a) PROVE CallerInFlush'
  <2>1. flush' = flush /\ (pc' = pc \/ \E t \in Timers : Arm(t))
    BY <1>3 DEF SchedulePersist, calls
  <2>. QED
    BY <2>1, ArmFacts DEF CallerInFlush
<1>4. ASSUME NEW t \in Timers, Fire(t) \/ Callback(t) PROVE CallerInFlush'
  BY <1>4 DEF Fire, Callback, calls, CallerInFlush, TypeOK
<1>5. ASSUME NEW w \in Writers, DoPersist(w) PROVE CallerInFlush'
  BY <1>5 DEF DoPersist, WaitGroupAdd, TakeSnapshot, WriteRoles, WriteTokens, calls,
              CallerInFlush, TypeOK
<1>6. CASE Flush
  BY <1>6 DEF Flush, CallerInFlush
<1>7. CASE Shutdown
  BY <1>7, StoppedFacts DEF Shutdown, CallerInFlush
<1>8. CASE FlushReturn \/ ShutdownReturn \/ UNCHANGED vars
  BY <1>8 DEF FlushReturn, ShutdownReturn, vars, timing, calls, CallerInFlush
<1>. QED
  BY <1>1, <1>2, <1>3, <1>4, <1>5, <1>6, <1>7, <1>8 DEF Next

LEMMA NoLostChangeStep ==
  ASSUME TypeOK, CallerInFlush, NoLostChange, [Next]_vars
  PROVE  NoLostChange'
<1>1. CASE Start
  BY <1>1 DEF Start, Load, OrInitial, FileMissing, NoLostChange, TypeOK, Writers
<1>2. CASE Crash \/ Exit
  BY <1>2 DEF Crash, Exit, Stop, NoLostChange
<1>3. ASSUME NEW a \in Admins, Change(a) PROVE NoLostChange'
  <2>1. admin'[a] = "changed"
    BY <1>3 DEF Change, TypeOK
  <2>. QED
    BY <2>1 DEF NoLostChange
<1>4. ASSUME NEW a \in Admins, SchedulePersist(a) PROVE NoLostChange'
  <2>1. CASE persistClosed
    BY <1>4, <2>1 DEF SchedulePersist, NoLostChange
  <2>2. CASE ~persistClosed
    <3>1. \E t \in Writers : pc'[t] = "armed"
      BY <1>4, <2>2, ArmFacts DEF SchedulePersist, Writers
    <3>. QED
      BY <3>1 DEF NoLostChange
  <2>. QED
    BY <2>1, <2>2
<1>5. ASSUME NEW t \in Timers, Fire(t) PROVE NoLostChange'
  <2>1. t \in Writers /\ pc'[t] = "fired"
    BY <1>5 DEF Fire, TypeOK, Writers
  <2>. QED
    BY <2>1 DEF NoLostChange
<1>6. ASSUME NEW t \in Timers, Callback(t) PROVE NoLostChange'
  <2>1. t \in Writers /\ (~persistClosed => pc'[t] = "passed")
        /\ persistClosed' = persistClosed
    BY <1>6 DEF Callback, TypeOK, Writers
  <2>. QED
    BY <2>1 DEF NoLostChange
<1>7. ASSUME NEW w \in Writers, WaitGroupAdd(w) PROVE NoLostChange'
  <2>1. pc'[w] = "counted"
    BY <1>7 DEF WaitGroupAdd, TypeOK
  <2>. QED
    BY <2>1 DEF NoLostChange
<1>8. ASSUME NEW w \in Writers, TakeSnapshot(w) PROVE NoLostChange'
  BY <1>8 DEF TakeSnapshot, NoLostChange, TypeOK
<1>9. ASSUME NEW w \in Writers, WriteRoles(w) \/ WriteTokens(w) PROVE NoLostChange'
  <2>1. /\ pc[w] \in {"roles", "tokens"}
        /\ \A v \in Writers : v # w => pc'[v] = pc[v]
        /\ UNCHANGED <<up, persistClosed, taken, clock, admin>>
    BY <1>9 DEF WriteRoles, WriteTokens, history, TypeOK
  <2>. QED
    BY <2>1 DEF NoLostChange
<1>10. CASE Flush
  <2>1. UNCHANGED <<up, persistClosed, taken, clock, admin>>
    BY <1>10 DEF Flush
  <2>2. ASSUME NEW w \in Writers, pc[w] \in {"armed", "fired", "passed", "counted"}
        PROVE  \E v \in Writers : pc'[v] \in {"armed", "fired", "passed", "counted"}
    <3>1. w # Caller
      BY <1>10, <2>2 DEF Flush, CallerInFlush
    <3>. QED
      BY <1>10, <2>2, <3>1, FlushFacts DEF Writers
  <2>. QED
    BY <2>1, <2>2 DEF NoLostChange
<1>11. CASE Shutdown
  BY <1>11 DEF Shutdown, NoLostChange
<1>12. CASE FlushReturn \/ ShutdownReturn \/ UNCHANGED vars
  BY <1>12 DEF FlushReturn, ShutdownReturn, vars, timing, history, NoLostChange
<1>. QED
  BY <1>1, <1>2, <1>3, <1>4, <1>5, <1>6, <1>7, <1>8, <1>9, <1>10, <1>11, <1>12
     DEF Next, DoPersist
-----------------------------------------------------------------------------
(* The tables, the snapshots and the files.                                *)

\* Steps that only move timers and calls: no snapshot, no write, no change.
Quiet ==
  /\ UNCHANGED <<mem, clock, rolesFile, tokensFile, up, snap, failures, taken, overlapped>>
  /\ \A w \in Writers : /\ pc'[w] = "roles" <=> pc[w] = "roles"
                        /\ pc'[w] = "tokens" <=> pc[w] = "tokens"

LEMMA QuietActions ==
  ASSUME TypeOK, CallerInFlush,
         \/ \E a \in Admins : SchedulePersist(a)
         \/ \E t \in Timers : Fire(t) \/ Callback(t)
         \/ \E w \in Writers : WaitGroupAdd(w)
         \/ Flush \/ FlushReturn \/ Shutdown \/ ShutdownReturn
         \/ UNCHANGED vars
  PROVE  Quiet
<1>1. ASSUME NEW a \in Admins, SchedulePersist(a) PROVE Quiet
  <2>1. CASE pc' = pc
    BY <1>1, <2>1 DEF SchedulePersist, Quiet, files, bounds
  <2>2. ASSUME NEW t \in Timers, Arm(t) PROVE Quiet
    BY <1>1, <2>2, ArmFacts DEF SchedulePersist, Quiet, files, bounds
  <2>. QED
    BY <1>1, <2>1, <2>2 DEF SchedulePersist
<1>2. ASSUME NEW t \in Timers, Fire(t) \/ Callback(t) PROVE Quiet
  BY <1>2 DEF Fire, Callback, Quiet, files, bounds, history, TypeOK
<1>3. ASSUME NEW w \in Writers, WaitGroupAdd(w) PROVE Quiet
  BY <1>3 DEF WaitGroupAdd, Quiet, files, bounds, history, TypeOK
<1>4. CASE Flush
  <2>1. Caller \in Writers /\ pc[Caller] = "free"
    BY <1>4 DEF Flush, CallerInFlush, Writers
  <2>. QED
    BY <1>4, <2>1, FlushFacts DEF Flush, Quiet, files, bounds
<1>5. CASE Shutdown
  BY <1>5, StoppedFacts DEF Shutdown, Quiet, files, bounds, history
<1>6. CASE FlushReturn \/ ShutdownReturn \/ UNCHANGED vars
  BY <1>6 DEF FlushReturn, ShutdownReturn, vars, Quiet, files, timing, bounds, history
<1>. QED
  BY <1>1, <1>2, <1>3, <1>4, <1>5, <1>6

LEMMA QuietStep ==
  ASSUME DataInv, Quiet
  PROVE  DataInv'
<1>1. Writing' = Writing
  BY DEF Quiet, Writing
<1>2. OneWriter' /\ RolesGrow'
  BY <1>1 DEF Quiet, DataInv, OneWriter, RolesGrow
<1>3. CurrentSnapshot'
  BY <1>1 DEF Quiet, DataInv, CurrentSnapshot, Undisturbed, FilesHoldTables
<1>4. BasisKept'
  BY <1>1 DEF Quiet, DataInv, BasisKept, Undisturbed
<1>. QED
  BY <1>2, <1>3, <1>4 DEF DataInv

LEMMA StartStep ==
  ASSUME TypeOK, DataInv, Start
  PROVE  DataInv'
<1>1. Writing' = {}
  BY DEF Start, Load, OrInitial, FileMissing, Writing
<1>2. /\ mem'.roles = IF rolesFile = Nil THEN 0 ELSE rolesFile
      /\ mem'.tokens = IF tokensFile = Nil THEN NoSnap.tokens ELSE tokensFile
      /\ UNCHANGED <<clock, rolesFile, tokensFile, failures, overlapped>>
      /\ \A w \in Writers : pc'[w] # "tokens"
      /\ \/ taken' = clock /\ rolesFile # Nil /\ tokensFile # Nil
         \/ taken' = clock - 1
  BY DEF Start, Load, OrInitial, FileMissing, files, bounds
<1>3. OneWriter' /\ CurrentSnapshot'
  BY <1>1, <1>2 DEF OneWriter, CurrentSnapshot, FilesHoldTables, TypeOK
<1>4. RolesGrow'
  BY <1>1, <1>2 DEF RolesGrow, DataInv, TypeOK
<1>5. BasisKept'
  <2>1. NoSnap.tokens.basis = 0
    BY ContentFacts
  <2>. QED
    BY <1>1, <1>2, <2>1 DEF BasisKept, DataInv, Undisturbed, TypeOK
<1>. QED
  BY <1>3, <1>4, <1>5 DEF DataInv

LEMMA StopStep ==
  ASSUME TypeOK, DataInv, Stop
  PROVE  DataInv'
<1>1. Writing' = {} /\ ~up' /\ \A w \in Writers : pc'[w] # "tokens"
  BY DEF Stop, Writing
<1>2. UNCHANGED <<mem, clock, rolesFile, tokensFile, failures, taken, overlapped>>
  BY DEF Stop, files, history
<1>. QED
  BY <1>1, <1>2 DEF DataInv, OneWriter, CurrentSnapshot, RolesGrow, BasisKept, Undisturbed

LEMMA ChangeStep ==
  ASSUME TypeOK, DataInv, NEW a \in Admins, Change(a)
  PROVE  DataInv'
<1>1. UNCHANGED <<rolesFile, tokensFile, up, pc, snap, failures, taken, overlapped>>
      /\ clock' = clock + 1 /\ Writing' = Writing
  BY DEF Change, files, timing, bounds, history, Writing
<1>2. /\ mem.roles \in Nat /\ mem'.roles \in Nat
      /\ mem.roles <= mem'.roles /\ mem'.roles <= clock'
      /\ \/ mem'.tokens = mem.tokens
         \/ mem'.tokens.basis = mem.roles
  BY <1>1 DEF Change, TypeOK, DataInv, RolesGrow
<1>3. OneWriter' /\ CurrentSnapshot'
  BY <1>1 DEF DataInv, OneWriter, CurrentSnapshot, RolesGrow, TypeOK
<1>4. RolesGrow'
  <2>1. \A w \in Writing : snap[w].roles \in Nat
    BY ContentFacts DEF TypeOK, Writing
  <2>. QED
    BY <1>1, <1>2, <2>1 DEF DataInv, RolesGrow, TypeOK, Writing
<1>5. BasisKept'
  <2>1. mem.tokens.basis \in Nat /\ mem'.roles \in Nat
    BY <1>2, ContentFacts DEF TypeOK, Change
  <2>. QED
    BY <1>1, <1>2, <2>1 DEF DataInv, BasisKept, Undisturbed
<1>. QED
  BY <1>3, <1>4, <1>5 DEF DataInv

LEMMA TakeSnapshotStep ==
  ASSUME TypeOK, DownIsIdle, DataInv, NEW w \in Writers, TakeSnapshot(w)
  PROVE  DataInv'
<1>1. /\ UNCHANGED <<mem, clock, rolesFile, tokensFile, up, failures>>
      /\ up /\ taken' = clock
      /\ overlapped' = (overlapped \/ Writing # {})
  BY DEF TakeSnapshot, files, bounds, DownIsIdle
<1>2. /\ pc'[w] = "roles" /\ \A v \in Writers \ {w} : pc'[v] = pc[v]
      /\ Writing' = Writing \cup {w}
  BY DEF TakeSnapshot, TypeOK, Writing
<1>3. /\ snap'[w].roles = mem.roles /\ snap'[w].tokens = mem.tokens
      /\ \A v \in Writers \ {w} : snap'[v] = snap[v]
  BY DEF TakeSnapshot, TypeOK
<1>4. w \notin Writing
  BY DEF TakeSnapshot, Writing
<1>5. ~overlapped' => Writing = {} /\ Writing' = {w} /\ ~overlapped
  BY <1>1, <1>2 DEF TypeOK
<1>6. \A v \in Writers : pc'[v] = "tokens" => v \in Writing
  BY <1>2 DEF Writing
<1>7. OneWriter'
  BY <1>5 DEF OneWriter
<1>8. CurrentSnapshot'
  <2>1. ASSUME Undisturbed' PROVE Writing = {} /\ Writing' = {w}
    BY <1>5, <2>1 DEF Undisturbed
  <2>. QED
    BY <1>1, <1>3, <1>6, <2>1 DEF CurrentSnapshot
<1>9. RolesGrow'
  <2>1. \A v \in Writing' : snap'[v].roles <= mem.roles
    BY <1>2, <1>3, <1>4 DEF DataInv, RolesGrow, Writing, TypeOK
  <2>. QED
    BY <1>1, <2>1 DEF DataInv, RolesGrow, TypeOK
<1>10. BasisKept'
  <2>1. SUFFICES ASSUME Undisturbed' PROVE BasisKept'
    BY DEF BasisKept
  <2>2. Undisturbed /\ Writing = {} /\ Writing' = {w}
    BY <1>1, <1>5, <2>1 DEF Undisturbed
  <2>3. mem.tokens.basis <= mem.roles
    BY <1>1, <2>2 DEF DataInv, BasisKept
  <2>4. tokensFile # Nil => tokensFile.basis <= mem.roles
    BY <2>2, ContentFacts DEF DataInv, BasisKept, RolesGrow, TypeOK
  <2>. QED
    BY <1>1, <1>3, <1>6, <2>2, <2>3, <2>4 DEF DataInv, BasisKept
<1>. QED
  BY <1>7, <1>8, <1>9, <1>10 DEF DataInv

LEMMA WriteRolesStep ==
  ASSUME TypeOK, DownIsIdle, DataInv, NEW w \in Writers, WriteRoles(w)
  PROVE  DataInv'
<1>1. UNCHANGED <<mem, clock, tokensFile, up, snap, taken, overlapped>>
      /\ \/ rolesFile' = snap[w].roles /\ failures' = failures
         \/ rolesFile' = rolesFile /\ failures' = failures + 1
  BY DEF WriteRoles, WriteFails, files, history
<1>2. /\ w \in Writing /\ pc[w] = "roles" /\ pc'[w] = "tokens"
      /\ \A v \in Writers \ {w} : pc'[v] = pc[v]
      /\ Writing' = Writing
  BY DEF WriteRoles, TypeOK, Writing
<1>3. snap[w].roles \in Nat
  BY ContentFacts DEF TypeOK
<1>4. OneWriter'
  BY <1>1, <1>2 DEF DataInv, OneWriter
<1>5. RolesGrow'
  BY <1>1, <1>2 DEF DataInv, RolesGrow
<1>6. ASSUME Undisturbed'
      PROVE  /\ Undisturbed /\ rolesFile' = snap[w].roles /\ Writing = {w}
             /\ \A v \in Writers : pc'[v] = "tokens" => v = w
  BY <1>1, <1>2, <1>6 DEF Undisturbed, TypeOK, DataInv, OneWriter, Writing
<1>7. CurrentSnapshot'
  BY <1>1, <1>2, <1>6 DEF DataInv, CurrentSnapshot
<1>8. BasisKept'
  BY <1>1, <1>2, <1>3, <1>6, ConstantsAssumption DEF DataInv, BasisKept
<1>. QED
  BY <1>4, <1>5, <1>7, <1>8 DEF DataInv

LEMMA WriteTokensStep ==
  ASSUME TypeOK, DownIsIdle, DataInv, NEW w \in Writers, WriteTokens(w)
  PROVE  DataInv'
<1>1. UNCHANGED <<mem, clock, rolesFile, up, taken, overlapped>>
      /\ \/ tokensFile' = snap[w].tokens /\ failures' = failures
         \/ tokensFile' = tokensFile /\ failures' = failures + 1
  BY DEF WriteTokens, WriteFails, files
<1>2. /\ w \in Writing /\ pc[w] = "tokens" /\ pc'[w] = "free"
      /\ \A v \in Writers \ {w} : pc'[v] = pc[v] /\ snap'[v] = snap[v]
      /\ Writing' = Writing \ {w}
  BY DEF WriteTokens, TypeOK, Writing
<1>3. OneWriter'
  BY <1>1, <1>2 DEF DataInv, OneWriter
<1>4. RolesGrow'
  BY <1>1, <1>2 DEF DataInv, RolesGrow, Writing
<1>5. ASSUME Undisturbed'
      PROVE  /\ Undisturbed /\ tokensFile' = snap[w].tokens /\ Writing = {w} /\ Writing' = {}
             /\ \A v \in Writers : pc'[v] # "tokens"
  BY <1>1, <1>2, <1>5 DEF Undisturbed, TypeOK, DataInv, OneWriter, Writing
<1>6. CurrentSnapshot'
  BY <1>1, <1>2, <1>5 DEF DataInv, CurrentSnapshot, FilesHoldTables
<1>7. BasisKept'
  <2>1. ASSUME Undisturbed' PROVE rolesFile # Nil
    <3>1. rolesFile = snap[w].roles
      BY <1>2, <1>5, <2>1 DEF BasisKept, DataInv
    <3>. QED
      BY <3>1, ConstantsAssumption, ContentFacts DEF TypeOK
  <2>. QED
    BY <1>1, <1>2, <1>5, <2>1 DEF DataInv, BasisKept
<1>. QED
  BY <1>3, <1>4, <1>6, <1>7 DEF DataInv

LEMMA DataStep ==
  ASSUME TypeOK, DownIsIdle, CallerInFlush, DataInv, [Next]_vars
  PROVE  DataInv'
<1>1. CASE Quiet
  BY <1>1, QuietStep
<1>2. CASE Start
  BY <1>2, StartStep
<1>3. CASE Crash \/ Exit
  BY <1>3, StopStep DEF Crash, Exit
<1>4. ASSUME NEW a \in Admins, Change(a) PROVE DataInv'
  BY <1>4, ChangeStep
<1>5. ASSUME NEW w \in Writers, TakeSnapshot(w) PROVE DataInv'
  BY <1>5, TakeSnapshotStep
<1>6. ASSUME NEW w \in Writers, WriteRoles(w) PROVE DataInv'
  BY <1>6, WriteRolesStep
<1>7. ASSUME NEW w \in Writers, WriteTokens(w) PROVE DataInv'
  BY <1>7, WriteTokensStep
<1>. QED
  BY <1>1, <1>2, <1>3, <1>4, <1>5, <1>6, <1>7, QuietActions DEF Next, DoPersist
-----------------------------------------------------------------------------
(* The theorems.                                                           *)

LEMMA NextIInv == IInv /\ [Next]_vars => IInv'
BY TypeOKStep, ControlStep, CallerStep, NoLostChangeStep, DataStep DEF IInv

\* The inductive invariant holds throughout.
THEOREM Invariance == Spec => []IInv
BY InitIInv, NextIInv, PTL DEF Spec

\* Type correctness of the persistence layer.
THEOREM TypeCorrect == Spec => []TypeOK
BY Invariance, PTL DEF IInv

\* However timers, callbacks, handlers and Flush interleave, a change that no
\* snapshot contains yet always has something under way that will take one.
THEOREM ChangesArePending == Spec => []NoLostChange
BY Invariance, PTL DEF IInv

\* When nothing is pending the files hold the tables, unless a write failed or
\* two doPersist overlapped.
THEOREM QuiescentDiskHolds == Spec => []QuiescentDisk
<1>1. IInv => QuiescentDisk
  <2>1. SUFFICES ASSUME IInv, Quiescent, failures = 0, ~overlapped PROVE FilesHoldTables
    BY DEF QuiescentDisk
  <2>2. taken = clock
    BY <2>1 DEF IInv, Quiescent, NoLostChange, DataInv, RolesGrow, TypeOK
  <2>3. Writing = {}
    BY <2>1 DEF Quiescent, Writing
  <2>. QED
    BY <2>1, <2>2, <2>3 DEF IInv, DataInv, CurrentSnapshot, Undisturbed, Quiescent
<1>. QED
  BY <1>1, Invariance, PTL

\* The roles file is never behind the roles a token on disk was issued under, at
\* whatever step the daemon dies, unless a write failed or two doPersist
\* overlapped.
THEOREM RolesReachDiskFirst == Spec => []RolesBeforeTokens
<1>1. IInv => RolesBeforeTokens
  <2>1. SUFFICES ASSUME IInv, failures = 0, ~overlapped,
                        tokensFile # Nil, tokensFile.at > 0
                 PROVE  rolesFile # Nil /\ rolesFile >= tokensFile.basis
    BY DEF RolesBeforeTokens
  <2>2. IF rolesFile = Nil THEN tokensFile.basis = 0 /\ tokensFile.at = 0
        ELSE tokensFile.basis <= rolesFile
    BY <2>1 DEF IInv, DataInv, BasisKept, Undisturbed
  <2>3. tokensFile.basis \in Nat /\ rolesFile \in Nat \cup {Nil}
    BY <2>1, ContentFacts DEF IInv, TypeOK
  <2>. QED
    BY <2>1, <2>2, <2>3
<1>. QED
  BY <1>1, Invariance, PTL

\* After Shutdown has closed the store no further doPersist gets past the check.
THEOREM ClosedStoreDrains == Spec => ClosedDrains
<1>1. ASSUME IInv, [Next]_vars, persistClosed, persistClosed'
      PROVE  PastCheck' \subseteq PastCheck
  <2>. TypeOK /\ ClosedByShutdown
    BY <1>1 DEF IInv
  <2>1. ~Start /\ ~Flush
    BY <1>1 DEF Start, Flush, ClosedByShutdown
  <2>2. CASE Crash \/ Exit
    BY <2>2 DEF Crash, Exit, Stop, PastCheck
  <2>3. ASSUME NEW a \in Admins, Change(a) \/ SchedulePersist(a)
        PROVE  PastCheck' \subseteq PastCheck
    BY <1>1, <2>3 DEF Change, SchedulePersist, timing, PastCheck
  <2>4. ASSUME NEW t \in Timers, Fire(t) \/ Callback(t)
        PROVE  PastCheck' \subseteq PastCheck
    BY <1>1, <2>4 DEF Fire, Callback, PastCheck, TypeOK
  <2>5. ASSUME NEW w \in Writers, DoPersist(w)
        PROVE  PastCheck' \subseteq PastCheck
    BY <2>5 DEF DoPersist, WaitGroupAdd, TakeSnapshot, WriteRoles, WriteTokens,
                PastCheck, TypeOK
  <2>6. CASE Shutdown
    BY <2>6, StoppedFacts DEF Shutdown, PastCheck
  <2>7. CASE FlushReturn \/ ShutdownReturn \/ UNCHANGED vars
    BY <2>7 DEF FlushReturn, ShutdownReturn, vars, timing, PastCheck
  <2>. QED
    BY <1>1, <2>1, <2>2, <2>3, <2>4, <2>5, <2>6, <2>7 DEF Next
<1>2. IInv /\ [Next]_vars =>
        [persistClosed /\ persistClosed' => PastCheck' \subseteq PastCheck]_vars
  BY <1>1
<1>. QED
  BY <1>2, Invariance, PTL DEF Spec, ClosedDrains
-----------------------------------------------------------------------------
(* Persistence implements WriteBehind.                                     *)

\* The copy that a writer's doPersist still has to write.
CopyAt(w) == [roles |-> snap[w].roles, tokens |-> snap[w].tokens, next |-> pc[w]]

LEMMA CopiesAt == Copies = {CopyAt(w) : w \in Writing} /\ Copies' = {CopyAt(w)' : w \in Writing'}
BY DEF Copies, CopyAt

LEMMA AbstractInit == Init => Abstract!Init
<1>. SUFFICES ASSUME Init PROVE Abstract!Init
  OBVIOUS
<1>1. Copies = {}
  BY DEF Init, Copies, Writing
<1>. QED
  BY <1>1, ContentFacts DEF Init, Abstract!Init, Abstract!Empty

LEMMA QuietIsStutter ==
  ASSUME TypeOK, Quiet
  PROVE  UNCHANGED <<up, mem, clock, taken < clock, Copies, rolesFile, tokensFile>>
<1>1. Writing' = Writing
  BY DEF Quiet, Writing
<1>2. \A w \in Writing : CopyAt(w)' = CopyAt(w)
  BY DEF Quiet, Writing, CopyAt, TypeOK
<1>3. Copies' = Copies
  BY <1>1, <1>2, CopiesAt
<1>. QED
  BY <1>3 DEF Quiet

LEMMA StartIsStart == TypeOK /\ DownIsIdle /\ Start => Abstract!Start
<1>. SUFFICES ASSUME TypeOK, DownIsIdle, Start PROVE Abstract!Start
  OBVIOUS
<1>1. Copies' = {}
  BY DEF Start, Load, Writing, Copies
<1>2. mem' = [roles |-> IF rolesFile = Nil THEN 0 ELSE rolesFile,
              tokens |-> IF tokensFile = Nil THEN [at |-> 0, basis |-> 0] ELSE tokensFile]
  BY ContentFacts DEF Start, Load, OrInitial
<1>3. (taken' < clock') = (rolesFile = Nil \/ tokensFile = Nil)
  BY DEF Start, Load, FileMissing, TypeOK
<1>. QED
  BY <1>1, <1>2, <1>3 DEF Start, Abstract!Start, Abstract!OrInitial, Abstract!Empty,
                          files, Abstract!files

LEMMA StopIsStop == Stop => Abstract!Stop
<1>. SUFFICES ASSUME Stop PROVE Abstract!Stop
  OBVIOUS
<1>1. Copies' = {}
  BY DEF Stop, Writing, Copies
<1>. QED
  BY <1>1 DEF Stop, Abstract!Stop, files, Abstract!files, history

LEMMA ChangeIsChange ==
  ASSUME TypeOK, RolesGrow, NEW a \in Admins, Change(a)
  PROVE  Abstract!Change
<1>1. Copies' = Copies
  BY DEF Change, timing, Copies, Writing
<1>2. taken' < clock'
  BY DEF Change, history, RolesGrow, TypeOK
<1>. QED
  BY <1>1, <1>2 DEF Change, Abstract!Change, files, Abstract!files

LEMMA TakeSnapshotIsCopy ==
  ASSUME TypeOK, DownIsIdle, NEW w \in Writers, TakeSnapshot(w)
  PROVE  Abstract!Copy
<1>1. w \notin Writing /\ Writing' = Writing \cup {w}
  BY DEF TakeSnapshot, TypeOK, Writing
<1>2. CopyAt(w)' = [roles |-> mem.roles, tokens |-> mem.tokens, next |-> "roles"]
  BY DEF TakeSnapshot, TypeOK, CopyAt
<1>3. \A v \in Writing : CopyAt(v)' = CopyAt(v)
  BY <1>1 DEF TakeSnapshot, TypeOK, CopyAt, Writing
<1>4. Copies' = Copies \cup {CopyAt(w)'}
  BY <1>1, <1>3, CopiesAt
<1>5. up /\ ~(taken' < clock')
  BY DEF TakeSnapshot, DownIsIdle, TypeOK
<1>. QED
  BY <1>2, <1>4, <1>5 DEF TakeSnapshot, Abstract!Copy, Abstract!CopyOf, files, Abstract!files

LEMMA WriteRolesIsPut ==
  ASSUME TypeOK, NEW w \in Writers, WriteRoles(w)
  PROVE  CopyAt(w) \in Copies /\ Abstract!PutRoles(CopyAt(w))
<1>. DEFINE c == CopyAt(w)
            d == CopyAt(w)'
<1>1. w \in Writing /\ Writing' = Writing
  BY DEF WriteRoles, TypeOK, Writing
<1>2. c.next = "roles" /\ c.roles = snap[w].roles
      /\ d = [roles |-> c.roles, tokens |-> c.tokens, next |-> "tokens"] /\ d # c
  BY DEF WriteRoles, TypeOK, CopyAt
<1>3. \A v \in Writing \ {w} : CopyAt(v)' = CopyAt(v)
  BY DEF WriteRoles, TypeOK, CopyAt, Writing
<1>4. Copies' = {CopyAt(v) : v \in Writing \ {w}} \cup {d}
  <2>. HIDE DEF d
  <2>. QED
    BY <1>1, <1>3, CopiesAt DEF d
<1>5. Copies = {CopyAt(v) : v \in Writing \ {w}} \cup {c}
  BY <1>1, CopiesAt
<1>6. Copies' \ {c} = (Copies \ {c}) \cup {d}
  <2>. HIDE DEF c, d
  <2>. QED
    BY <1>2, <1>4, <1>5
<1>7. rolesFile' \in {rolesFile, c.roles}
  BY <1>2 DEF WriteRoles, WriteFails, files
<1>8. UNCHANGED <<up, mem, clock, taken < clock, tokensFile>>
  BY DEF WriteRoles, WriteFails, files, history
<1>9. c \in Copies
  BY <1>1, CopiesAt
<1>. QED
  BY <1>2, <1>6, <1>7, <1>8, <1>9 DEF Abstract!PutRoles, Abstract!CopyOf

LEMMA WriteTokensIsPut ==
  ASSUME TypeOK, NEW w \in Writers, WriteTokens(w)
  PROVE  CopyAt(w) \in Copies /\ Abstract!PutTokens(CopyAt(w))
<1>. DEFINE c == CopyAt(w)
<1>1. w \in Writing /\ Writing' = Writing \ {w}
  BY DEF WriteTokens, TypeOK, Writing
<1>2. c.next = "tokens" /\ c.tokens = snap[w].tokens
  BY DEF WriteTokens, CopyAt
<1>3. \A v \in Writing \ {w} : CopyAt(v)' = CopyAt(v)
  BY DEF WriteTokens, TypeOK, CopyAt, Writing
<1>4. Copies' = {CopyAt(v) : v \in Writing \ {w}}
  BY <1>1, <1>3, CopiesAt
<1>5. Copies = {CopyAt(v) : v \in Writing \ {w}} \cup {c}
  BY <1>1, CopiesAt
<1>6. Copies' \cup {c} = Copies /\ c \in Copies
  <2>. HIDE DEF c
  <2>. QED
    BY <1>4, <1>5
<1>7. tokensFile' \in {tokensFile, c.tokens}
  BY <1>2 DEF WriteTokens, WriteFails, files
<1>8. UNCHANGED <<up, mem, clock, taken < clock, rolesFile>>
  BY DEF WriteTokens, WriteFails, files
<1>. QED
  BY <1>2, <1>6, <1>7, <1>8 DEF Abstract!PutTokens

LEMMA StepImplements == IInv /\ [Next]_vars => [Abstract!Next]_(Abstract!vars)
<1>. SUFFICES ASSUME IInv, [Next]_vars PROVE [Abstract!Next]_(Abstract!vars)
  OBVIOUS
<1>. TypeOK /\ DownIsIdle /\ CallerInFlush /\ RolesGrow
  BY DEF IInv, DataInv
<1>1. CASE Quiet
  BY <1>1, QuietIsStutter DEF Abstract!vars, Abstract!files
<1>2. CASE Start \/ Crash \/ Exit
  BY <1>2, StartIsStart, StopIsStop DEF Crash, Exit, Abstract!Next
<1>3. ASSUME NEW a \in Admins, Change(a) PROVE Abstract!Next
  BY <1>3, ChangeIsChange DEF Abstract!Next
<1>4. ASSUME NEW w \in Writers, TakeSnapshot(w) PROVE Abstract!Next
  BY <1>4, TakeSnapshotIsCopy DEF Abstract!Next
<1>5. ASSUME NEW w \in Writers, WriteRoles(w) \/ WriteTokens(w) PROVE Abstract!Next
  BY <1>5, WriteRolesIsPut, WriteTokensIsPut DEF Abstract!Next
<1>. QED
  BY <1>1, <1>2, <1>3, <1>4, <1>5, QuietActions DEF Next, DoPersist

\* Whatever the timers, callbacks, flushes, shutdowns, failed writes and restarts
\* of store.go do, the files and tables change as WriteBehind allows: the detailed
\* specification implements the abstract one.
THEOREM Implementation == Spec => ImplementsWriteBehind
<1>1. Init => Abstract!Init
  BY AbstractInit
<1>2. IInv /\ [Next]_vars => [Abstract!Next]_(Abstract!vars)
  BY StepImplements
<1>. QED
  BY <1>1, <1>2, Invariance, PTL DEF Spec, ImplementsWriteBehind, Abstract!Spec
=============================================================================
