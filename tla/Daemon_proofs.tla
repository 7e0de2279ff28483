---------------------------- MODULE Daemon_proofs ----------------------------
(***************************************************************************)
(* Theorems of Daemon, for any number of daemons, calls and admin          *)
(* requests, any configurations, and any number of crashes and failures.   *)
(***************************************************************************)
EXTENDS Daemon, Config_proofs, TLAPS

-----------------------------------------------------------------------------
(* The inductive invariant.                                                *)

\* Who writes keys is at it, has begun, and found no others.
WritersAlone ==
  \A d \in Daemons : writing[d] # 0 =>
    /\ pc[d] = "generating"
    /\ \E s \in Slots : bundle[s] # 0
    /\ \A s \in Slots : bundle[s] \in {0, writing[d]}

\* What a daemon has open at each point of its life.
OpenInOrder ==
  \A d \in Daemons :
    /\ pc[d] = "down" => open[d] = {}
    /\ pc[d] \in {"audited", "ensured", "bound", "serving"} \cup Stopping =>
         open[d] = Resources
    /\ pc[d] = "keyed" => {"store", "keys"} \subseteq open[d]
    /\ pc[d] \in {"loaded", "generating", "generated"} => "store" \in open[d]

\* Calls are under way only while a daemon serves or drains, unless abandoned.
CallsWhileServing ==
  \A d \in Daemons :
    \/ pc[d] \in {"serving", "draining", "forced"}
    \/ pc[d] = "unwinding" /\ abandoned[d]
    \/ call[d] = Quiet

PortHeld == \A d \in Daemons : pc[d] \in {"bound", "serving"} => port = d

IInv ==
  /\ TypeOK
  /\ WritersAlone /\ BundleOfOneGeneration
  /\ OpenInOrder /\ CallsWhileServing
  /\ PortHeld

\* At boot no daemon runs and nothing is open, so the invariant holds.
LEMMA InitIInv == Init => IInv
<1>. SUFFICES ASSUME Init PROVE IInv
  OBVIOUS
<1>1. TypeOK
  BY DEF Init, TypeOK, Quiet, Unasked
<1>2. WritersAlone /\ BundleOfOneGeneration
  BY DEF Init, WritersAlone, BundleOfOneGeneration
<1>3. OpenInOrder /\ CallsWhileServing
  BY DEF Init, OpenInOrder, CallsWhileServing, Stopping
<1>4. PortHeld
  BY DEF Init, PortHeld
<1>. QED
  BY <1>1, <1>2, <1>3, <1>4 DEF IInv
-----------------------------------------------------------------------------
(* Starting.                                                               *)

\* Loading the token files puts the store among the resources and nothing else.
LEMMA LoadFromFilesIInv ==
  ASSUME IInv, NEW d \in Daemons, LoadFromFiles(d)
  PROVE  IInv'
<1>. USE DEF IInv, LoadFromFiles, Go, Opens, handlers, names, keys
<1>1. TypeOK'
  BY DEF TypeOK, Starting, Resources
<1>2. WritersAlone' /\ BundleOfOneGeneration'
  BY DEF TypeOK, WritersAlone, BundleOfOneGeneration
<1>3. OpenInOrder' /\ CallsWhileServing'
  BY DEF TypeOK, OpenInOrder, CallsWhileServing, Stopping
<1>4. PortHeld'
  BY DEF TypeOK, PortHeld
<1>. QED
  BY <1>1, <1>2, <1>3, <1>4

\* Looking for a bundle only decides whether one is generated or taken as it is.
LEMMA EnsureKeysIInv ==
  ASSUME IInv, NEW d \in Daemons, EnsureKeys(d)
  PROVE  IInv'
<1>. USE DEF IInv, EnsureKeys, Go, handlers, tables, names, keys, history
<1>1. TypeOK'
  BY DEF TypeOK, Starting
<1>2. WritersAlone' /\ BundleOfOneGeneration'
  BY DEF TypeOK, WritersAlone, BundleOfOneGeneration
<1>3. OpenInOrder' /\ CallsWhileServing'
  BY DEF TypeOK, OpenInOrder, CallsWhileServing, Stopping
<1>4. PortHeld'
  BY DEF TypeOK, PortHeld
<1>. QED
  BY <1>1, <1>2, <1>3, <1>4

\* While no file is there nobody writes one, so the new generation is the first.
LEMMA FirstGeneration ==
  ASSUME IInv, ~KeysExist
  PROVE  /\ \A s \in Slots : bundle[s] = 0
         /\ \A e \in Daemons : writing[e] = 0
         /\ Max({bundle[s] : s \in Slots} \cup {writing[e] : e \in Daemons}) = 0
<1>1. \A s \in Slots : bundle[s] = 0
  BY DEF KeysExist
<1>2. \A e \in Daemons : writing[e] = 0
  BY <1>1 DEF IInv, WritersAlone
<1>3. {bundle[s] : s \in Slots} \cup {writing[e] : e \in Daemons} = {0}
  BY <1>1, <1>2 DEF Slots
<1>4. Max({0}) = 0
  BY DEF Max
<1>. QED
  BY <1>1, <1>2, <1>3, <1>4

\* The first file of a bundle is written when no other daemon writes one: WritersAlone.
LEMMA GenerateKeysIInv ==
  ASSUME IInv, NEW d \in Daemons, GenerateKeys(d)
  PROVE  IInv'
<1>. USE DEF IInv
<1>0. UNCHANGED <<open, handlers, tables, names, history>>
  BY DEF GenerateKeys
<1>1. CASE KeysExist /\ Go(d, "generating", "generated") /\ UNCHANGED keys
  <2>. USE DEF Go, handlers, tables, names, keys, history
  <2>1. TypeOK'
    BY <1>0, <1>1 DEF TypeOK, Starting
  <2>2. WritersAlone' /\ BundleOfOneGeneration'
    BY <1>0, <1>1 DEF TypeOK, WritersAlone, BundleOfOneGeneration, GenerateKeys
  <2>3. OpenInOrder' /\ CallsWhileServing'
    BY <1>0, <1>1 DEF TypeOK, OpenInOrder, CallsWhileServing, Stopping
  <2>4. PortHeld'
    BY <1>0, <1>1 DEF TypeOK, PortHeld
  <2>. QED
    BY <2>1, <2>2, <2>3, <2>4
<1>2. CASE ~KeysExist
  <2>1. PICK s \in Slots :
          /\ pc[d] = "generating" /\ UNCHANGED pc
          /\ writing' = [writing EXCEPT ![d] = 1]
          /\ bundle' = [bundle EXCEPT ![s] = writing'[d]]
    BY <1>2, FirstGeneration DEF GenerateKeys, Go
  <2>2. writing' \in [Daemons -> Nat] /\ writing'[d] = 1
    BY <2>1 DEF TypeOK
  <2>3. bundle' \in [Slots -> Nat] /\ bundle' = [bundle EXCEPT ![s] = 1]
    BY <2>1, <2>2 DEF TypeOK
  <2>4. TypeOK'
    BY <1>0, <2>1, <2>2, <2>3 DEF TypeOK, handlers, tables, names, history
  <2>5. WritersAlone' /\ BundleOfOneGeneration'
    BY <1>2, <2>1, <2>2, <2>3, FirstGeneration DEF TypeOK, WritersAlone, BundleOfOneGeneration
  <2>6. OpenInOrder' /\ CallsWhileServing' /\ PortHeld'
    BY <1>0, <2>1 DEF OpenInOrder, CallsWhileServing, PortHeld, handlers, names, history
  <2>. QED
    BY <2>4, <2>5, <2>6
<1>. QED
  BY <1>1, <1>2 DEF GenerateKeys

\* A further file gets the writer's generation, which all present files have.
LEMMA WriteKeyIInv ==
  ASSUME IInv, NEW d \in Daemons, NEW s \in Slots, WriteKey(d, s)
  PROVE  IInv'
<1>. USE DEF IInv
<1>1. /\ writing[d] # 0 /\ pc[d] = "generating" /\ bundle[s] = 0
      /\ \A t \in Slots : bundle[t] \in {0, writing[d]}
      /\ \E t \in Slots : bundle[t] # 0
  BY DEF WriteKey, WritersAlone
<1>2. /\ bundle' = [bundle EXCEPT ![s] = writing[d]]
      /\ UNCHANGED <<open, handlers, tables, names, history>>
  BY DEF WriteKey
<1>3. \/ pc' = pc /\ writing' = writing
      \/ /\ pc' = [pc EXCEPT ![d] = "generated"]
         /\ writing' = [writing EXCEPT ![d] = 0]
  BY DEF WriteKey
<1>4. TypeOK'
  BY <1>1, <1>2, <1>3 DEF TypeOK, Starting, handlers, tables, names, history
<1>5. WritersAlone'
  BY <1>1, <1>2, <1>3 DEF TypeOK, WritersAlone
<1>6. BundleOfOneGeneration'
  BY <1>1, <1>2 DEF TypeOK, BundleOfOneGeneration
<1>7. OpenInOrder'
  BY <1>1, <1>2, <1>3 DEF TypeOK, OpenInOrder, Stopping
<1>8. CallsWhileServing'
  BY <1>1, <1>2, <1>3 DEF TypeOK, CallsWhileServing, handlers, history
<1>9. PortHeld'
  BY <1>1, <1>2, <1>3 DEF TypeOK, PortHeld, names
<1>. QED
  BY <1>4, <1>5, <1>6, <1>7, <1>8, <1>9

\* Opening the secret key adds the keys to the store, in the order of OpenInOrder.
LEMMA OpenSecretKeyIInv ==
  ASSUME IInv, NEW d \in Daemons, OpenSecretKey(d)
  PROVE  IInv'
<1>. USE DEF IInv, OpenSecretKey, Go, Opens, handlers, tables, names, keys, history
<1>1. TypeOK'
  BY DEF TypeOK, Starting, Stopping, Resources
<1>2. WritersAlone' /\ BundleOfOneGeneration'
  BY DEF TypeOK, WritersAlone, BundleOfOneGeneration, Starting
<1>3. OpenInOrder' /\ CallsWhileServing'
  BY DEF TypeOK, OpenInOrder, CallsWhileServing, Starting, Stopping, Resources
<1>4. PortHeld'
  BY ConstantsAssumption DEF TypeOK, PortHeld
<1>. QED
  BY <1>1, <1>2, <1>3, <1>4

\* Opening the audit log adds it to the store and the keys.
LEMMA NewAuditLoggerIInv ==
  ASSUME IInv, NEW d \in Daemons, NewAuditLogger(d)
  PROVE  IInv'
<1>. USE DEF IInv, NewAuditLogger, Go, Opens, handlers, tables, names, keys, history
<1>1. TypeOK'
  BY DEF TypeOK, Starting, Stopping, Resources
<1>2. WritersAlone' /\ BundleOfOneGeneration'
  BY DEF TypeOK, WritersAlone, BundleOfOneGeneration, Starting
<1>3. OpenInOrder' /\ CallsWhileServing'
  BY DEF TypeOK, OpenInOrder, CallsWhileServing, Starting, Stopping, Resources
<1>4. PortHeld'
  BY ConstantsAssumption DEF TypeOK, PortHeld
<1>. QED
  BY <1>1, <1>2, <1>3, <1>4

\* EnsureVault opens nothing and moves the start along.
LEMMA EnsureVaultIInv ==
  ASSUME IInv, NEW d \in Daemons, EnsureVault(d)
  PROVE  IInv'
<1>. USE DEF IInv, EnsureVault, Go, Opens, handlers, tables, names, keys, history
<1>1. TypeOK'
  BY DEF TypeOK, Starting, Stopping, Resources
<1>2. WritersAlone' /\ BundleOfOneGeneration'
  BY DEF TypeOK, WritersAlone, BundleOfOneGeneration, Starting
<1>3. OpenInOrder' /\ CallsWhileServing'
  BY DEF TypeOK, OpenInOrder, CallsWhileServing, Starting, Stopping, Resources
<1>4. PortHeld'
  BY ConstantsAssumption DEF TypeOK, PortHeld
<1>. QED
  BY <1>1, <1>2, <1>3, <1>4

\* Only a free port is taken, so PortHeld names one daemon.
LEMMA ListenIInv ==
  ASSUME IInv, NEW d \in Daemons, Listen(d)
  PROVE  IInv'
<1>. USE DEF IInv, Listen, Go, Opens, handlers, tables, names, keys, history
<1>1. TypeOK'
  BY DEF TypeOK, Starting, Stopping, Resources
<1>2. WritersAlone' /\ BundleOfOneGeneration'
  BY DEF TypeOK, WritersAlone, BundleOfOneGeneration, Starting
<1>3. OpenInOrder' /\ CallsWhileServing'
  BY DEF TypeOK, OpenInOrder, CallsWhileServing, Starting, Stopping, Resources
<1>4. PortHeld'
  BY ConstantsAssumption DEF TypeOK, PortHeld
<1>. QED
  BY <1>1, <1>2, <1>3, <1>4

\* The admin server's socket is opened when all the other resources are.
LEMMA AdminFromConfigIInv ==
  ASSUME IInv, NEW d \in Daemons, AdminFromConfig(d)
  PROVE  IInv'
<1>. USE DEF IInv, AdminFromConfig, Go, Opens, handlers, tables, names, keys, history
<1>1. TypeOK'
  BY DEF TypeOK, Starting, Stopping, Resources
<1>2. WritersAlone' /\ BundleOfOneGeneration'
  BY DEF TypeOK, WritersAlone, BundleOfOneGeneration, Starting
<1>3. OpenInOrder' /\ CallsWhileServing'
  BY DEF TypeOK, OpenInOrder, CallsWhileServing, Starting, Stopping, Resources
<1>4. PortHeld'
  BY ConstantsAssumption DEF TypeOK, PortHeld
<1>. QED
  BY <1>1, <1>2, <1>3, <1>4

\* A start that fails unwinds with what it has opened, and gives a port back.
LEMMA StartFailsIInv ==
  ASSUME IInv, NEW d \in Daemons, StartFails(d)
  PROVE  IInv'
<1>. USE DEF IInv, StartFails, ReleasePort, handlers, tables, names, keys, history
<1>1. TypeOK'
  BY DEF TypeOK, Starting, Stopping, Resources
<1>2. WritersAlone' /\ BundleOfOneGeneration'
  BY DEF TypeOK, WritersAlone, BundleOfOneGeneration, Starting
<1>3. OpenInOrder' /\ CallsWhileServing'
  BY DEF TypeOK, OpenInOrder, CallsWhileServing, Starting, Stopping, Resources
<1>4. PortHeld'
  BY ConstantsAssumption DEF TypeOK, PortHeld
<1>. QED
  BY <1>1, <1>2, <1>3, <1>4
-----------------------------------------------------------------------------
(* Serving and stopping.                                                   *)

\* A call is accepted by a serving daemon only, which has all resources open.
LEMMA CallArrivesIInv ==
  ASSUME IInv, NEW d \in Daemons, NEW c \in Calls, CallArrives(d, c)
  PROVE  IInv'
<1>. USE DEF IInv, CallArrives, tables, names, keys, history
<1>1. PICK phase \in {"work", "stream"} : call' = [call EXCEPT ![d][c] = phase]
  OBVIOUS
<1>2. TypeOK'
  BY <1>1 DEF TypeOK
<1>3. WritersAlone' /\ BundleOfOneGeneration' /\ OpenInOrder' /\ PortHeld'
  BY DEF WritersAlone, BundleOfOneGeneration, OpenInOrder, PortHeld
<1>4. CallsWhileServing'
  BY <1>1 DEF TypeOK, CallsWhileServing
<1>. QED
  BY <1>2, <1>3, <1>4

\* A handler that works on changes nothing that the main goroutines rely on.
LEMMA CallStepIInv ==
  ASSUME IInv, NEW d \in Daemons, NEW c \in Calls, CallStep(d, c) \/ StreamEnds(d, c)
  PROVE  IInv'
<1>. USE DEF IInv, CallStep, StreamEnds, tables, names, keys, history
<1>1. PICK phase \in {"log", "idle"} : call' = [call EXCEPT ![d][c] = phase]
  OBVIOUS
<1>2. call[d][c] # "idle" /\ UNCHANGED <<pc, open, admin, change, tables, names, keys, history>>
  OBVIOUS
<1>3. TypeOK'
  BY <1>1, <1>2 DEF TypeOK
<1>4. WritersAlone' /\ BundleOfOneGeneration' /\ OpenInOrder' /\ PortHeld'
  BY <1>2 DEF WritersAlone, BundleOfOneGeneration, OpenInOrder, PortHeld
<1>5. call[d] # Quiet
  BY <1>2 DEF Quiet
<1>6. CallsWhileServing'
  BY <1>1, <1>2, <1>5 DEF TypeOK, CallsWhileServing
<1>. QED
  BY <1>3, <1>4, <1>6

\* Admin requests change tables and their own progress, and no resource.
LEMMA AdminIInv ==
  ASSUME IInv, NEW d \in Daemons, NEW a \in AdminRequests,
         \/ AdminAccept(d, a) \/ AdminChange(d, a)
         \/ AdminSchedule(d, a) \/ AdminRespond(d, a)
  PROVE  IInv'
<1>. USE DEF IInv
<1>1. UNCHANGED <<pc, open, call, names, keys, abandoned>>
  BY DEF AdminAccept, AdminChange, AdminSchedule, AdminRespond, history
<1>2. TypeOK'
  <2>1. CASE AdminAccept(d, a)
    BY <1>1, <2>1 DEF AdminAccept, TypeOK, tables, names, keys, history
  <2>2. CASE AdminChange(d, a)
    <3>1. clock' \in Nat /\ clock + 1 \in Nat
      BY <2>2 DEF AdminChange, TypeOK
    <3>2. mem' \in [Daemons -> SUBSET Nat]
      BY <2>2, <3>1 DEF AdminChange, TypeOK
    <3>3. change' \in [Daemons -> [AdminRequests -> Nat]]
      BY <2>2, <3>1 DEF AdminChange, TypeOK
    <3>4. admin' \in [Daemons -> [AdminRequests ->
                      {"idle", "accepted", "changed", "scheduled"}]]
      BY <2>2 DEF AdminChange, TypeOK
    <3>. QED
      BY <1>1, <2>2, <3>1, <3>2, <3>3, <3>4 DEF AdminChange, TypeOK, names, keys, history
  <2>3. CASE AdminSchedule(d, a)
    BY <1>1, <2>3 DEF AdminSchedule, TypeOK, names, keys, history
  <2>4. CASE AdminRespond(d, a)
    <3>1. admin' \in [Daemons -> [AdminRequests ->
                      {"idle", "accepted", "changed", "scheduled"}]]
      BY <2>4 DEF AdminRespond, TypeOK
    <3>2. change' \in [Daemons -> [AdminRequests -> Nat]]
      BY <2>4 DEF AdminRespond, TypeOK
    <3>3. change[d][a] \in Nat
      BY DEF TypeOK
    <3>4. acknowledged' \subseteq Nat
      BY <2>4, <3>3 DEF AdminRespond, TypeOK
    <3>. QED
      BY <1>1, <2>4, <3>1, <3>2, <3>4 DEF AdminRespond, TypeOK, tables, names, keys
  <2>. QED
    BY <2>1, <2>2, <2>3, <2>4
<1>3. WritersAlone' /\ BundleOfOneGeneration' /\ OpenInOrder' /\ PortHeld'
  BY <1>1 DEF WritersAlone, BundleOfOneGeneration, OpenInOrder, PortHeld, names, keys
<1>4. CallsWhileServing'
  BY <1>1 DEF CallsWhileServing
<1>. QED
  BY <1>2, <1>3, <1>4

\* A write of the files leaves the phases of the daemons alone.
LEMMA PersistIInv ==
  ASSUME IInv, NEW d \in Daemons, Persist(d)
  PROVE  IInv'
<1>. USE DEF IInv, Persist, handlers, names, keys, history
<1>1. TypeOK'
  BY DEF TypeOK
<1>2. WritersAlone' /\ BundleOfOneGeneration' /\ OpenInOrder' /\ PortHeld'
  BY DEF WritersAlone, BundleOfOneGeneration, OpenInOrder, PortHeld
<1>3. CallsWhileServing'
  BY DEF CallsWhileServing
<1>. QED
  BY <1>1, <1>2, <1>3

\* When gs.Serve fails, Serve returns and the deferred closers run.
LEMMA ServeFailsIInv ==
  ASSUME IInv, NEW d \in Daemons, ServeFails(d)
  PROVE  IInv'
<1>. USE DEF IInv, ServeFails, Go, ReleasePort, handlers, tables, names, keys, history
<1>1. TypeOK'
  BY DEF TypeOK, Starting, Stopping, Resources
<1>2. WritersAlone' /\ BundleOfOneGeneration'
  BY DEF TypeOK, WritersAlone, BundleOfOneGeneration, Starting
<1>3. OpenInOrder' /\ CallsWhileServing'
  BY DEF TypeOK, OpenInOrder, CallsWhileServing, Starting, Stopping, Resources
<1>4. PortHeld'
  BY ConstantsAssumption DEF TypeOK, PortHeld
<1>. QED
  BY <1>1, <1>2, <1>3, <1>4

\* The first signal makes a serving daemon drain; its port is released.
LEMMA SignalIInv ==
  ASSUME IInv, NEW d \in Daemons, Signal(d)
  PROVE  IInv'
<1>. USE DEF IInv, Signal, Go, ReleasePort, handlers, tables, names, keys, history
<1>1. TypeOK'
  BY DEF TypeOK, Starting, Stopping, Resources
<1>2. WritersAlone' /\ BundleOfOneGeneration'
  BY DEF TypeOK, WritersAlone, BundleOfOneGeneration, Starting
<1>3. OpenInOrder' /\ CallsWhileServing'
  BY DEF TypeOK, OpenInOrder, CallsWhileServing, Starting, Stopping, Resources
<1>4. PortHeld'
  BY ConstantsAssumption DEF TypeOK, PortHeld
<1>. QED
  BY <1>1, <1>2, <1>3, <1>4

\* GracefulStop returns when every call has ended, so the closers find none.
LEMMA DrainedIInv ==
  ASSUME IInv, NEW d \in Daemons, Drained(d)
  PROVE  IInv'
<1>. USE DEF IInv, Drained, handlers, tables, names, keys, history
<1>1. TypeOK'
  BY DEF TypeOK, Starting, Stopping, Resources
<1>2. WritersAlone' /\ BundleOfOneGeneration'
  BY DEF TypeOK, WritersAlone, BundleOfOneGeneration, Starting
<1>3. OpenInOrder' /\ CallsWhileServing'
  BY DEF TypeOK, OpenInOrder, CallsWhileServing, Starting, Stopping, Resources
<1>4. PortHeld'
  BY ConstantsAssumption DEF TypeOK, PortHeld
<1>. QED
  BY <1>1, <1>2, <1>3, <1>4

\* After the grace period Stop waits for the same handlers as before.
LEMMA ForceStopIInv ==
  ASSUME IInv, NEW d \in Daemons, ForceStop(d)
  PROVE  IInv'
<1>. USE DEF IInv, ForceStop, Go, handlers, tables, names, keys, history
<1>1. TypeOK'
  BY DEF TypeOK, Starting, Stopping, Resources
<1>2. WritersAlone' /\ BundleOfOneGeneration'
  BY DEF TypeOK, WritersAlone, BundleOfOneGeneration, Starting
<1>3. OpenInOrder' /\ CallsWhileServing'
  BY DEF TypeOK, OpenInOrder, CallsWhileServing, Starting, Stopping, Resources
<1>4. PortHeld'
  BY ConstantsAssumption DEF TypeOK, PortHeld
<1>. QED
  BY <1>1, <1>2, <1>3, <1>4

\* Closing the admin listener may remove the path of the socket.
LEMMA AdminShutdownIInv ==
  ASSUME IInv, NEW d \in Daemons, AdminShutdown(d)
  PROVE  IInv'
<1>. USE DEF IInv, AdminShutdown, Go, handlers, tables, names, keys, history
<1>1. TypeOK'
  BY DEF TypeOK, Starting, Stopping, Resources
<1>2. WritersAlone' /\ BundleOfOneGeneration'
  BY DEF TypeOK, WritersAlone, BundleOfOneGeneration, Starting
<1>3. OpenInOrder' /\ CallsWhileServing'
  BY DEF TypeOK, OpenInOrder, CallsWhileServing, Starting, Stopping, Resources
<1>4. PortHeld'
  BY ConstantsAssumption DEF TypeOK, PortHeld
<1>. QED
  BY <1>1, <1>2, <1>3, <1>4

\* Serve returns when the admin server has stopped: the closers are next.
LEMMA AdminStoppedIInv ==
  ASSUME IInv, NEW d \in Daemons, AdminStopped(d)
  PROVE  IInv'
<1>. USE DEF IInv, AdminStopped, Go, handlers, tables, names, keys, history
<1>1. TypeOK'
  BY DEF TypeOK, Starting, Stopping, Resources
<1>2. WritersAlone' /\ BundleOfOneGeneration'
  BY DEF TypeOK, WritersAlone, BundleOfOneGeneration, Starting
<1>3. OpenInOrder' /\ CallsWhileServing'
  BY DEF TypeOK, OpenInOrder, CallsWhileServing, Starting, Stopping, Resources
<1>4. PortHeld'
  BY ConstantsAssumption DEF TypeOK, PortHeld
<1>. QED
  BY <1>1, <1>2, <1>3, <1>4

\* Each deferred closer takes the resource that was opened last.
LEMMA CloseIInv ==
  ASSUME IInv, NEW d \in Daemons, NEW resource \in Resources, Close(d, resource)
  PROVE  IInv'
<1>. USE DEF IInv, Close, handlers, tables, names, keys, history
<1>1. TypeOK'
  BY DEF TypeOK, Starting, Stopping, Resources
<1>2. WritersAlone' /\ BundleOfOneGeneration'
  BY DEF TypeOK, WritersAlone, BundleOfOneGeneration, Starting
<1>3. OpenInOrder' /\ CallsWhileServing'
  BY DEF TypeOK, OpenInOrder, CallsWhileServing, Starting, Stopping, Resources
<1>4. PortHeld'
  BY ConstantsAssumption DEF TypeOK, PortHeld
<1>. QED
  BY <1>1, <1>2, <1>3, <1>4

\* A process ends with nothing open and no call.
LEMMA ExitIInv ==
  ASSUME IInv, NEW d \in Daemons, Exit(d)
  PROVE  IInv'
<1>. USE DEF IInv, Exit, Ends, Quiet, Unasked, handlers, tables, names, keys, history
<1>1. TypeOK'
  BY DEF TypeOK, Starting, Stopping, Resources
<1>2. WritersAlone' /\ BundleOfOneGeneration'
  BY DEF TypeOK, WritersAlone, BundleOfOneGeneration, Starting
<1>3. OpenInOrder' /\ CallsWhileServing'
  BY DEF TypeOK, OpenInOrder, CallsWhileServing, Starting, Stopping, Resources
<1>4. PortHeld'
  BY ConstantsAssumption DEF TypeOK, PortHeld
<1>. QED
  BY <1>1, <1>2, <1>3, <1>4

\* A crash at any time frees the port; files keep the generation they have.
LEMMA CrashIInv ==
  ASSUME IInv, NEW d \in Daemons, Crash(d)
  PROVE  IInv'
<1>. USE DEF IInv, Crash, Ends, ReleasePort, Quiet, Unasked, handlers, tables, names, keys, history
<1>1. TypeOK'
  BY DEF TypeOK, Starting, Stopping, Resources
<1>2. WritersAlone' /\ BundleOfOneGeneration'
  BY DEF TypeOK, WritersAlone, BundleOfOneGeneration, Starting
<1>3. OpenInOrder' /\ CallsWhileServing'
  BY DEF TypeOK, OpenInOrder, CallsWhileServing, Starting, Stopping, Resources
<1>4. PortHeld'
  BY ConstantsAssumption DEF TypeOK, PortHeld
<1>. QED
  BY <1>1, <1>2, <1>3, <1>4
-----------------------------------------------------------------------------
(* The theorems.                                                           *)

\* Every step of Next preserves the invariant, one action after the other.
LEMMA NextIInv ==
  ASSUME IInv, [Next]_vars
  PROVE  IInv'
<1>1. CASE UNCHANGED vars
  BY <1>1 DEF IInv, TypeOK, WritersAlone, BundleOfOneGeneration, OpenInOrder,
              CallsWhileServing, PortHeld, vars, handlers, tables, names, keys, history
<1>2. ASSUME NEW d \in Daemons, StartStep(d)
      PROVE  IInv'
  BY <1>2, LoadFromFilesIInv, EnsureKeysIInv, GenerateKeysIInv, WriteKeyIInv,
     OpenSecretKeyIInv, NewAuditLoggerIInv, EnsureVaultIInv, ListenIInv,
     AdminFromConfigIInv, StartFailsIInv
     DEF StartStep
<1>3. ASSUME NEW d \in Daemons, StopStep(d)
      PROVE  IInv'
  BY <1>3, DrainedIInv, ForceStopIInv, AdminShutdownIInv, AdminStoppedIInv, CloseIInv,
     ExitIInv
     DEF StopStep
<1>4. ASSUME NEW d \in Daemons, Signal(d) \/ ServeFails(d) \/ Crash(d) \/ Persist(d)
      PROVE  IInv'
  BY <1>4, SignalIInv, ServeFailsIInv, CrashIInv, PersistIInv
<1>5. ASSUME NEW d \in Daemons, NEW c \in Calls,
             CallArrives(d, c) \/ CallStep(d, c) \/ StreamEnds(d, c)
      PROVE  IInv'
  BY <1>5, CallArrivesIInv, CallStepIInv
<1>6. ASSUME NEW d \in Daemons, NEW a \in AdminRequests,
             \/ AdminAccept(d, a) \/ AdminChange(d, a)
             \/ AdminSchedule(d, a) \/ AdminRespond(d, a)
      PROVE  IInv'
  BY <1>6, AdminIInv
<1>. QED
  BY <1>1, <1>2, <1>3, <1>4, <1>5, <1>6 DEF Next

\* The inductive invariant holds in every state of every execution of Daemon.
THEOREM Invariance == Spec => []IInv
BY InitIInv, NextIInv, PTL DEF Spec

\* Every variable keeps its type, however many daemons start, fail and crash.
THEOREM TypeCorrect == Spec => []TypeOK
<1>1. IInv => TypeOK
  BY DEF IInv
<1>. QED
  BY <1>1, Invariance, PTL

\* No call uses keys or an audit log that a stop has closed.
THEOREM ResourcesOutliveCalls == Spec => []CallsKeepResources
<1>1. ASSUME IInv PROVE CallsKeepResources
  <2>. SUFFICES ASSUME NEW d \in Daemons, ~abandoned[d], NEW c \in Calls,
                       call[d][c] \in {"work", "log"}
                PROVE  open[d] = Resources
    BY DEF CallsKeepResources, Resources
  <2>1. call[d] # Quiet
    BY DEF Quiet
  <2>2. pc[d] \in {"serving", "draining", "forced"}
    BY <1>1, <2>1 DEF IInv, CallsWhileServing
  <2>. QED
    BY <1>1, <2>2 DEF IInv, OpenInOrder, Stopping
<1>. QED
  BY <1>1, Invariance, PTL

\* The files of a bundle belong together, whatever comes between their writes.
THEOREM BundlesAreWhole == Spec => []BundleOfOneGeneration
<1>1. IInv => BundleOfOneGeneration
  BY DEF IInv
<1>. QED
  BY <1>1, Invariance, PTL

\* Only a daemon that was already stopping can take the path of one that serves.
THEOREM ServingKeepsSocket == Spec => SocketKept
<1>1. ASSUME IInv, Next,
             NEW d \in Daemons, pc[d] = "serving", socket = d, socket' # d
      PROVE  \E e \in Daemons \ {d} : pc[e] \in {"stopped", "adminStopping"}
  <2>1. PICK e \in Daemons :
          AdminFromConfig(e) \/ StartFails(e) \/ AdminShutdown(e) \/ AdminStopped(e)
    BY <1>1 DEF Next, StartStep, StopStep, names,
          LoadFromFiles, EnsureKeys, GenerateKeys, WriteKey, OpenSecretKey,
          NewAuditLogger, EnsureVault, Listen, Drained, ForceStop, Close, Exit, Ends,
          Signal, ServeFails, Crash, Persist, CallArrives, CallStep, StreamEnds,
          AdminAccept, AdminChange, AdminSchedule, AdminRespond
  <2>2. CASE pc[e] = "bound"
    BY <1>1, <2>2 DEF IInv, PortHeld
  <2>3. CASE pc[e] # "bound"
    <3>1. AdminShutdown(e) \/ AdminStopped(e)
      BY <1>1, <2>1, <2>3 DEF AdminFromConfig, StartFails, Go
    <3>. QED
      BY <1>1, <3>1 DEF AdminShutdown, AdminStopped, Go
  <2>. QED
    BY <2>2, <2>3
<1>2. IInv /\ [Next]_vars =>
        [\A d \in Daemons : pc[d] = "serving" /\ socket = d /\ socket' # d =>
           \E e \in Daemons \ {d} : pc[e] \in {"stopped", "adminStopping"}]_vars
  BY <1>1
<1>. QED
  BY <1>2, Invariance, PTL DEF Spec, SocketKept

\* While a daemon serves, a command with the same flags dials the socket it bound, from
\* the daemon's directory or by paths that are absolute.
THEOREM ClientsFindTheDaemon == Spec => []ClientFindsDaemon
<1>1. ClientFindsDaemon
  BY CommandsDialTheDaemon DEF ClientFindsDaemon
<1>2. ClientFindsDaemon'
  BY CommandsDialTheDaemon DEF ClientFindsDaemon
<1>3. [Next]_vars => ClientFindsDaemon'
  BY <1>2
<1>. QED
  BY <1>1, <1>3, PTL DEF Spec
=============================================================================
