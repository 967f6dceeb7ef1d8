-------------------------- MODULE MonitoringProofs --------------------------
(***************************************************************************)
(* Proofs about the Monitoring controller, for any lag of the caches and   *)
(* any number of edits, failures and crashes.                              *)
(***************************************************************************)
EXTENDS MonitoringProperties, TLAPS

-----------------------------------------------------------------------------
(* What the operators return                                                *)

ObjectType == [st: {"absent", "live"}, owner: Nat,
               spec: URLs \cup {"none", "desired", "other"}]

PassType == [mode: {"idle", "reconcile", "remove"},
             step: Kinds \cup {"Secrets", "none"}, uid: Nat,
             url: URLs \cup {NoEntry}]

LEMMA AbsentType == Absent \in ObjectType /\ ~Present(Absent) /\ Absent.owner = 0
  BY DEF Absent, ObjectType, Present

LEMMA IdlePassType == IdlePass \in PassType
  BY DEF IdlePass, PassType, NoEntry

\* Objects: one of them changes to o.
LEMMA WriteType ==
    ASSUME TypeOK, NEW new \in StackType, NEW retry \in BOOLEAN, Write(new, retry)
    PROVE  /\ obj' \in StackType /\ seen' \in StackType /\ news' \subseteq Kinds
           /\ queue' \in BOOLEAN
<1>1. obj' = new
  BY DEF Write
<1>2. seen' \in StackType /\ news' \subseteq Kinds
  BY DEF Write, TypeOK, StackType
<1>3. queue' \in BOOLEAN
  BY DEF Write, TypeOK
<1>. QED  BY <1>1, <1>2, <1>3

LEMMA ErasingType ==
    ASSUME TypeOK, NEW k \in Kinds
    PROVE  Erasing(k) \in StackType
  BY AbsentType DEF Erasing, TypeOK, StackType, ObjectType

LEMMA AppliedType ==
    ASSUME TypeOK, NEW k \in Kinds
    PROVE  Applied(k) \in ObjectType
<1>1. /\ obj[k] \in ObjectType /\ pass.uid \in Nat
      /\ pass.url \in URLs \cup {NoEntry}
  BY DEF TypeOK, StackType, ObjectType
<1>2. Desired(k) \in URLs \cup {"none", "desired", "other"}
  BY <1>1 DEF Desired, NoEntry
<1>3. [st |-> "live", owner |-> Owner, spec |-> Desired(k)] \in ObjectType
  BY <1>1, <1>2 DEF Owner, ObjectType
<1>. HIDE DEF Desired
<1>4. [obj[k] EXCEPT
         !.spec  = IF seen[k].spec # Desired(k) THEN Desired(k) ELSE @,
         !.owner = IF seen[k].owner # Owner THEN Owner ELSE @] \in ObjectType
  BY <1>1, <1>2 DEF Owner, ObjectType
<1>. QED  BY <1>1, <1>3, <1>4 DEF Applied

LEMMA ApplyingType ==
    ASSUME TypeOK, NEW k \in Kinds
    PROVE  Applying(k) \in StackType
  BY AppliedType DEF Applying, TypeOK, StackType, ObjectType

LEMMA GotoType ==
    ASSUME TypeOK, NEW s \in Kinds \cup {"Secrets", "end"}, Goto(s)
    PROVE  pass' \in PassType
  BY IdlePassType DEF Goto, TypeOK, PassType

LEMMA StepTypes ==
    \A k \in Kinds : /\ After[k] \in Kinds \cup {"Secrets", "end"}
                     /\ AfterRemoved[k] \in Kinds \cup {"Secrets", "end"}
  BY DEF After, AfterRemoved, Kinds

LEMMA FaultType ==
    ASSUME TypeOK, Fault \/ NoFault PROVE faults' \in 0..MaxFaults
  BY MonitoringAssumption DEF TypeOK, Fault, NoFault

-----------------------------------------------------------------------------
(* Type correctness                                                         *)

LEMMA InitType == Init => TypeOK
<1>. SUFFICES ASSUME Init PROVE TypeOK
  OBVIOUS
<1>1. mon \in ResourceType /\ monSeen \in ResourceType
  BY DEF Init, ResourceType
<1>2. obj \in StackType /\ seen \in StackType
  BY AbsentType DEF Init, StackType, ObjectType
<1>3. pass \in PassType
  BY IdlePassType DEF Init
<1>4. edits \in 0..MaxEdits /\ faults \in 0..MaxFaults /\ crashes \in 0..MaxCrashes
  BY MonitoringAssumption DEF Init
<1>. QED  BY <1>1, <1>2, <1>3, <1>4 DEF Init, TypeOK, PassType

LEMMA ReconcileObjectType ==
    ASSUME TypeOK, NEW k \in Kinds, ReconcileObject(k)
    PROVE  TypeOK'
<1>1. obj \in StackType
  BY DEF TypeOK
<1>2. \E new \in StackType, retry \in BOOLEAN : Write(new, retry)
  BY <1>1, ApplyingType DEF ReconcileObject
<1>3. /\ obj' \in StackType /\ seen' \in StackType /\ news' \subseteq Kinds
      /\ queue' \in BOOLEAN
  BY <1>2, WriteType
<1>4. pass' \in PassType
  BY GotoType, StepTypes DEF ReconcileObject
<1>5. faults' \in 0..MaxFaults
  BY FaultType DEF ReconcileObject
<1>. QED
  BY <1>3, <1>4, <1>5 DEF ReconcileObject, TypeOK, PassType, resource

LEMMA RemoveObjectType ==
    ASSUME TypeOK, NEW k \in Kinds, RemoveObject(k)
    PROVE  TypeOK'
<1>1. obj \in StackType
  BY DEF TypeOK
<1>2. \E new \in StackType, retry \in BOOLEAN : Write(new, retry)
  BY <1>1, ErasingType DEF RemoveObject
<1>3. /\ obj' \in StackType /\ seen' \in StackType /\ news' \subseteq Kinds
      /\ queue' \in BOOLEAN
  BY <1>2, WriteType
<1>4. pass' \in PassType
  BY GotoType, StepTypes DEF RemoveObject
<1>5. faults' \in 0..MaxFaults
  BY FaultType DEF RemoveObject
<1>. QED
  BY <1>3, <1>4, <1>5 DEF RemoveObject, TypeOK, PassType, resource

LEMMA ReadSecretsType ==
    ASSUME TypeOK, ReadSecrets
    PROVE  TypeOK'
<1>1. pass' \in PassType /\ queue' \in BOOLEAN
  BY IdlePassType DEF ReadSecrets, Goto, TypeOK, PassType, Kinds
<1>2. faults' \in 0..MaxFaults
  BY FaultType DEF ReadSecrets
<1>. QED  BY <1>1, <1>2 DEF ReadSecrets, TypeOK, PassType, resource, stack

LEMMA DequeueType ==
    ASSUME TypeOK, Start \/ NotFound \/ GetFails
    PROVE  TypeOK'
<1>1. CASE Start
  <2>1. monSeen.st \in {"live", "terminating"} /\ monSeen.uid \in Nat
    BY <1>1 DEF Start, Present, TypeOK, ResourceType
  <2>2. FirstStep[monSeen.st] \in Kinds
    BY <2>1 DEF FirstStep, Kinds
  <2>3. pass' \in PassType
    BY <1>1, <2>1, <2>2 DEF Start, PassType
  <2>. QED  BY <1>1, <2>3 DEF Start, Take, TypeOK, PassType, resource, stack
<1>2. CASE NotFound
  BY <1>2 DEF NotFound, Take, TypeOK, resource, stack
<1>3. CASE GetFails
  BY <1>3, FaultType DEF GetFails, TypeOK, resource, stack
<1>. QED  BY <1>1, <1>2, <1>3

LEMMA InformersType ==
    ASSUME TypeOK, Informers
    PROVE  TypeOK'
<1>1. CASE SyncMonitoring
  BY <1>1 DEF SyncMonitoring, TypeOK, stack, bounds
<1>2. ASSUME NEW k \in Kinds, SyncObject(k) PROVE TypeOK'
  <2>1. seen' \in StackType
    BY <1>2 DEF SyncObject, TypeOK, StackType
  <2>2. news' \subseteq Kinds /\ queue' \in BOOLEAN
    BY <1>2 DEF SyncObject, TypeOK
  <2>. QED  BY <1>2, <2>1, <2>2 DEF SyncObject, TypeOK, resource, bounds
<1>3. CASE Resync
  BY <1>3 DEF Resync, TypeOK, resource, stack, bounds
<1>. QED  BY <1>1, <1>2, <1>3 DEF Informers

LEMMA CreatedType == TypeOK => Created \in ResourceType
  BY DEF TypeOK, ResourceType, Created

LEMMA ProcessType ==
    ASSUME TypeOK, Process
    PROVE  TypeOK'
<1>1. CASE Jumpstart
  <2>1. mon' \in ResourceType
    BY <1>1, CreatedType DEF Jumpstart, TypeOK
  <2>. QED  BY <1>1, <2>1 DEF Jumpstart, TypeOK, stack, bounds
<1>2. CASE StartManager
  <2>1. queue' \in BOOLEAN
    BY <1>2 DEF StartManager
  <2>. QED  BY <1>2, <2>1 DEF StartManager, TypeOK, bounds
<1>3. CASE Crash
  <2>1. crashes' \in 0..MaxCrashes
    BY <1>3, MonitoringAssumption DEF Crash, TypeOK
  <2>2. pass' \in PassType
    BY <1>3, IdlePassType DEF Crash
  <2>. QED  BY <1>3, <2>1, <2>2 DEF Crash, TypeOK, PassType, resource, stack
<1>. QED  BY <1>1, <1>2, <1>3 DEF Process

\* Garbage collection and edits change one object of the stack.
LEMMA StackWriteType ==
    ASSUME TypeOK, NEW new \in StackType, Write(new, FALSE),
           UNCHANGED <<resource, secrets, pass, pod, faults, crashes>>,
           edits' \in 0..MaxEdits
    PROVE  TypeOK'
<1>1. /\ obj' \in StackType /\ seen' \in StackType /\ news' \subseteq Kinds
      /\ queue' \in BOOLEAN
  BY WriteType
<1>. QED  BY <1>1 DEF TypeOK, resource, bounds

LEMMA MonitoringWriteType ==
    ASSUME TypeOK, NEW new \in ResourceType, WriteMonitoring(new),
           UNCHANGED <<stack, secrets, pass, pod, faults, crashes>>,
           edits' \in 0..MaxEdits
    PROVE  TypeOK'
<1>1. /\ mon' \in ResourceType /\ monSeen' \in ResourceType
      /\ monNews' \in BOOLEAN /\ queue' \in BOOLEAN
  BY DEF WriteMonitoring, TypeOK
<1>. QED  BY <1>1 DEF TypeOK, stack, bounds

LEMMA ClusterType ==
    ASSUME TypeOK, Cluster
    PROVE  TypeOK'
<1>1. edits \in 0..MaxEdits
  BY DEF TypeOK
<1>2. ASSUME NEW k \in Kinds, Collect(k) PROVE TypeOK'
  BY <1>1, <1>2, ErasingType, StackWriteType DEF Collect, bounds
<1>3. CASE FinishDeletion
  <2>1. [mon EXCEPT !.st = "absent"] \in ResourceType
    BY DEF TypeOK, ResourceType
  <2>. QED  BY <1>1, <1>3, <2>1, MonitoringWriteType DEF FinishDeletion, bounds
<1>. QED  BY <1>2, <1>3 DEF Cluster

LEMMA UsersType ==
    ASSUME TypeOK, Users
    PROVE  TypeOK'
<1>1. Edit /\ edits' \in 0..MaxEdits
  <2>1. Edit
    BY Zenon DEF Users, UserDeletes, UserCreates, SecretsChange, Drift, ExternalDelete
  <2>2. edits \in 0..MaxEdits /\ edits < MaxEdits /\ edits' = edits + 1
    BY <2>1 DEF Edit, TypeOK
  <2>. QED  BY <2>1, <2>2, MonitoringAssumption
<1>2. CASE UserDeletes
  <2>1. \A st \in {"absent", "terminating"} :
          [mon EXCEPT !.st = st] \in ResourceType
    BY DEF TypeOK, ResourceType
  <2>. QED  BY <1>1, <1>2, <2>1, MonitoringWriteType DEF UserDeletes, Edit
<1>3. CASE UserCreates
  BY <1>1, <1>3, CreatedType, MonitoringWriteType DEF UserCreates, Edit
<1>4. CASE SecretsChange
  BY <1>1, <1>4 DEF SecretsChange, Edit, TypeOK, resource, stack
<1>5. ASSUME NEW k \in Contended, Drift(k) PROVE TypeOK'
  <2>1. k \in Kinds /\ obj \in StackType /\ obj[k] \in ObjectType
    BY MonitoringAssumption DEF TypeOK, StackType, ObjectType
  <2>2. \A o \in {obj[k].owner, 0} :
          [obj EXCEPT ![k] = [st |-> "live", owner |-> o, spec |-> "other"]]
            \in StackType
    BY <2>1 DEF StackType, ObjectType
  <2>. QED  BY <1>1, <1>5, <2>2, StackWriteType DEF Drift, Edit
<1>6. ASSUME NEW k \in Contended, ExternalDelete(k) PROVE TypeOK'
  BY <1>1, <1>6, MonitoringAssumption, ErasingType, StackWriteType
     DEF ExternalDelete, Edit
<1>. QED  BY <1>2, <1>3, <1>4, <1>5, <1>6 DEF Users

LEMMA TypeStep == TypeOK /\ [Next]_vars => TypeOK'
<1>. SUFFICES ASSUME TypeOK, [Next]_vars PROVE TypeOK'
  OBVIOUS
<1>1. CASE Worker
  BY <1>1, ReconcileObjectType, RemoveObjectType, ReadSecretsType, DequeueType
     DEF Worker, PassStep
<1>2. CASE Informers \/ Process \/ Cluster \/ Users
  BY <1>2, InformersType, ProcessType, ClusterType, UsersType
<1>3. CASE UNCHANGED vars
  BY <1>3 DEF vars, resource, stack, bounds, TypeOK
<1>. QED  BY <1>1, <1>2, <1>3 DEF Next

\* Every variable of the Monitoring controller keeps its type.
THEOREM MonitoringTypeCorrect == Spec => []TypeOK
  BY InitType, TypeStep, PTL DEF Spec

-----------------------------------------------------------------------------
(* What a step does to the objects and to the pass                          *)

\* The four things that may happen to an object.
LEMMA WhoWrites ==
    ASSUME TypeOK, [Next]_vars, NEW k \in Kinds
    PROVE  \/ obj'[k] = obj[k]
           \/ obj'[k] = Absent
           \/ ReconcileObject(k) /\ obj'[k] = Applied(k)
           \/ /\ k \in Contended
              /\ obj'[k].owner \in {obj[k].owner, 0} /\ obj'[k].spec = "other"
<1>0. obj \in StackType /\ Contended \subseteq Kinds
  BY MonitoringAssumption DEF TypeOK
<1>1. ASSUME NEW j \in Kinds PROVE Erasing(j)[k] \in {obj[k], Absent}
  BY <1>0 DEF Erasing, StackType
<1>2. ASSUME NEW j \in Kinds, ReconcileObject(j)
      PROVE  obj'[k] = obj[k] \/ (j = k /\ obj'[k] = Applied(k))
  <2>1. obj' = obj \/ obj' = Applying(j)
    BY <1>2 DEF ReconcileObject, Write
  <2>. QED  BY <1>0, <2>1 DEF Applying, StackType
<1>3. ASSUME NEW j \in Kinds, RemoveObject(j) PROVE obj'[k] \in {obj[k], Absent}
  <2>1. obj' = obj \/ obj' = Erasing(j)
    BY <1>3 DEF RemoveObject, Write
  <2>. QED  BY <1>1, <2>1
<1>4. ASSUME NEW j \in Kinds, Collect(j) \/ ExternalDelete(j)
      PROVE  obj'[k] \in {obj[k], Absent}
  BY <1>1, <1>4 DEF Collect, ExternalDelete, Write
<1>5. ASSUME NEW j \in Contended, Drift(j)
      PROVE  \/ obj'[k] = obj[k]
             \/ /\ j = k
                /\ obj'[k].owner \in {obj[k].owner, 0} /\ obj'[k].spec = "other"
  <2>1. \E o \in {obj[j].owner, 0} :
          obj' = [obj EXCEPT ![j] = [st |-> "live", owner |-> o, spec |-> "other"]]
    BY <1>5 DEF Drift, Write
  <2>. QED  BY <1>0, <2>1 DEF StackType
<1>6. CASE \/ ReadSecrets \/ Start \/ NotFound \/ GetFails \/ Informers
           \/ Process \/ FinishDeletion \/ UserDeletes \/ UserCreates
           \/ SecretsChange \/ UNCHANGED vars
  <2>1. obj' = obj
    BY <1>6 DEF ReadSecrets, Start, NotFound, Take, GetFails, Informers,
       SyncMonitoring, SyncObject, Resync, Process, Jumpstart, StartManager, Crash,
       FinishDeletion, UserDeletes, UserCreates, SecretsChange, stack, vars
  <2>. QED  BY <2>1
<1>. QED
  BY <1>0, <1>2, <1>3, <1>4, <1>5, <1>6 DEF Next, Worker, PassStep, Cluster, Users

\* A pass keeps what it works for until it ends.
LEMMA WhoSteps ==
    ASSUME TypeOK, [Next]_vars
    PROVE  \/ pass' = IdlePass
           \/ Start
           \/ ReadSecrets /\ pass' = [pass EXCEPT !.step = "AlertmanagerConfig",
                                                 !.url = secrets]
                          /\ Usable(secrets)
           \/ /\ pass'.mode = pass.mode /\ pass'.uid = pass.uid
              /\ pass'.url = pass.url
              /\ At("reconcile", "AlertmanagerConfig")'
                   => At("reconcile", "AlertmanagerConfig")
<1>0. pass \in PassType
  BY DEF TypeOK, PassType
<1>1. ASSUME NEW k \in Kinds, ReconcileObject(k)
      PROVE  \/ pass' = IdlePass
             \/ pass' = [pass EXCEPT !.step = After[k]]
  BY <1>1 DEF ReconcileObject, Goto
<1>2. ASSUME NEW k \in Kinds, RemoveObject(k)
      PROVE  /\ pass.mode = "remove"
             /\ \/ pass' = IdlePass
                \/ pass' = [pass EXCEPT !.step = AfterRemoved[k]]
  BY <1>2 DEF RemoveObject, Goto, At
<1>3. \A k \in Kinds : After[k] # "AlertmanagerConfig"
  BY DEF After, Kinds
<1>4. CASE ReadSecrets
  BY <1>4 DEF ReadSecrets, Goto
<1>5. CASE Worker
  BY <1>0, <1>1, <1>2, <1>3, <1>4, <1>5 DEF Worker, PassStep, NotFound, GetFails, At, PassType
<1>6. CASE Informers \/ Process \/ Cluster \/ Users \/ UNCHANGED vars
  <2>1. pass' = pass \/ pass' = IdlePass
    BY <1>6 DEF Informers, SyncMonitoring, SyncObject, Resync, Process, Jumpstart,
       StartManager, Crash, Cluster, Collect, FinishDeletion, Users, UserDeletes,
       UserCreates, SecretsChange, Drift, ExternalDelete, Edit, vars
  <2>. QED  BY <2>1 DEF At
<1>. QED  BY <1>5, <1>6 DEF Next

-----------------------------------------------------------------------------
(* The controller never works for a later resource than the last it saw, nor *)
(* does an object have a later owner than the one worked for now              *)

\* The Monitoring resource and its copy in the cache only grow younger.
LEMMA UIDsGrow ==
    ASSUME TypeOK, ErasOK, [Next]_vars
    PROVE  monSeen.uid <= monSeen'.uid /\ monSeen'.uid <= mon'.uid
<1>0. mon \in ResourceType /\ monSeen \in ResourceType
  BY DEF TypeOK
<1>1. mon.uid \in Nat /\ monSeen.uid \in Nat /\ monSeen.uid <= mon.uid
  BY <1>0 DEF ResourceType, ErasOK
<1>2. Created.uid = mon.uid + 1
  BY DEF Created
<1>3. ASSUME monSeen' \in {monSeen, mon'}, mon'.uid \in {mon.uid, mon.uid + 1}
      PROVE  monSeen.uid <= monSeen'.uid /\ monSeen'.uid <= mon'.uid
  BY <1>1, <1>3
<1>4. ASSUME UNCHANGED <<mon, monSeen>>
      PROVE  monSeen.uid <= monSeen'.uid /\ monSeen'.uid <= mon'.uid
  BY <1>1, <1>4
<1>5. CASE SyncMonitoring \/ StartManager
  BY <1>1, <1>5 DEF SyncMonitoring, StartManager
<1>6. CASE Jumpstart
  BY <1>1, <1>2, <1>6 DEF Jumpstart
<1>7. CASE UserCreates
  BY <1>2, <1>3, <1>7 DEF UserCreates, WriteMonitoring
<1>8. CASE FinishDeletion
  <2>1. mon' = [mon EXCEPT !.st = "absent"] /\ monSeen' \in {monSeen, mon'}
    BY <1>8 DEF FinishDeletion, WriteMonitoring
  <2>. QED  BY <1>0, <1>3, <2>1 DEF ResourceType
<1>9. CASE UserDeletes
  <2>1. PICK st \in {"absent", "terminating"} : mon' = [mon EXCEPT !.st = st]
    BY <1>9 DEF UserDeletes, WriteMonitoring
  <2>2. monSeen' \in {monSeen, mon'}
    BY <1>9 DEF UserDeletes, WriteMonitoring
  <2>. QED  BY <1>0, <1>3, <2>1, <2>2 DEF ResourceType
<1>10. CASE Worker
  BY <1>4, <1>10 DEF Worker, PassStep, ReconcileObject, RemoveObject, ReadSecrets,
     Start, NotFound, Take, GetFails, resource
<1>11. ASSUME NEW k \in Kinds,
              SyncObject(k) \/ Collect(k) \/ Drift(k) \/ ExternalDelete(k)
       PROVE  UNCHANGED <<mon, monSeen>>
  BY <1>11 DEF SyncObject, Collect, Drift, ExternalDelete, resource
<1>12. CASE Resync \/ Crash \/ SecretsChange \/ UNCHANGED vars
  BY <1>4, <1>12 DEF Resync, Crash, SecretsChange, resource, vars
<1>. QED
  BY <1>4, <1>5, <1>6, <1>7, <1>8, <1>9, <1>10, <1>11, <1>12, MonitoringAssumption
     DEF Next, Informers, Process, Cluster, Users

LEMMA ErasStep ==
    ASSUME TypeOK, TypeOK', ErasOK, [Next]_vars
    PROVE  ErasOK'
<1>1. /\ monSeen.uid \in Nat /\ monSeen'.uid \in Nat
      /\ pass.uid \in Nat /\ pass'.uid \in Nat /\ Era \in Nat /\ Era' \in Nat
      /\ \A k \in Kinds : obj[k].owner \in Nat
  BY DEF TypeOK, ResourceType, StackType, Era
<1>2. monSeen.uid <= monSeen'.uid /\ monSeen'.uid <= mon'.uid
  BY UIDsGrow
<1>3. pass.uid <= monSeen.uid /\ Era <= monSeen.uid
  BY <1>1 DEF ErasOK, Era
<1>4. pass'.uid <= monSeen'.uid /\ Era <= Era'
  <2>1. CASE pass' = IdlePass
    BY <1>1, <1>2, <1>3, <2>1 DEF IdlePass, Era, Idle
  <2>2. CASE Start
    <3>1. UNCHANGED monSeen /\ pass'.uid = monSeen.uid
      BY <2>2 DEF Start, Take, resource
    <3>. QED  BY <1>1, <1>3, <3>1 DEF Era
  <2>3. CASE pass'.mode = pass.mode /\ pass'.uid = pass.uid
    BY <1>1, <1>2, <1>3, <2>3 DEF Era, Idle
  <2>4. CASE pass' = [pass EXCEPT !.step = "AlertmanagerConfig", !.url = secrets]
    <3>1. pass'.mode = pass.mode /\ pass'.uid = pass.uid
      BY <2>4 DEF TypeOK
    <3>. QED  BY <3>1, <2>3
  <2>. QED  BY <2>1, <2>2, <2>3, <2>4, WhoSteps
<1>5. ASSUME NEW k \in Kinds PROVE obj'[k].owner <= Era'
  <2>1. obj[k].owner <= Era
    BY DEF ErasOK
  <2>2. CASE ReconcileObject(k) /\ obj'[k] = Applied(k)
    <3>1. Era = pass.uid
      BY <2>2 DEF ReconcileObject, At, Era, Idle
    <3>2. Applied(k).owner \in {obj[k].owner, pass.uid}
      BY DEF Applied, Owner, TypeOK, StackType
    <3>. QED  BY <1>1, <1>4, <2>1, <2>2, <3>1, <3>2
  <2>. QED  BY <1>1, <1>4, <2>1, <2>2, WhoWrites, AbsentType
<1>. QED  BY <1>2, <1>4, <1>5 DEF ErasOK

LEMMA URLStep ==
    ASSUME TypeOK, TypeOK', URLChecked, [Next]_vars
    PROVE  URLChecked'
<1>1. CASE pass' = IdlePass
  BY <1>1 DEF IdlePass, URLChecked, At
<1>2. CASE Start
  <2>1. pass'.step # "AlertmanagerConfig" \/ pass'.mode = "remove"
    BY <1>2 DEF Start, FirstStep, TypeOK, ResourceType, Present
  <2>. QED  BY <2>1 DEF URLChecked, At
<1>3. CASE /\ Usable(secrets)
           /\ pass' = [pass EXCEPT !.step = "AlertmanagerConfig", !.url = secrets]
  <2>1. pass'.url = secrets /\ secrets \in URLs
    BY <1>3 DEF TypeOK, Usable
  <2>. QED  BY <2>1 DEF URLChecked
<1>4. CASE /\ pass'.url = pass.url
           /\ At("reconcile", "AlertmanagerConfig")'
                => At("reconcile", "AlertmanagerConfig")
  BY <1>4 DEF URLChecked
<1>. QED  BY <1>1, <1>2, <1>3, <1>4, WhoSteps

LEMMA SnitchStep ==
    ASSUME TypeOK, URLChecked, SnitchHasURL, [Next]_vars
    PROVE  SnitchHasURL'
<1>. DEFINE k == "AlertmanagerConfig"
<1>1. k \in Kinds /\ obj[k] \in ObjectType
  BY DEF Kinds, TypeOK, StackType, ObjectType
<1>2. CASE ReconcileObject(k) /\ obj'[k] = Applied(k)
  <2>1. Desired(k) = pass.url /\ pass.url \in URLs
    BY <1>2 DEF ReconcileObject, URLChecked, Desired
  <2>2. Present(Applied(k)) => Applied(k).spec \in URLs \cup {"other"}
    BY <1>1, <2>1 DEF Applied, SnitchHasURL, ObjectType, Present
  <2>. QED  BY <1>2, <2>2 DEF SnitchHasURL
<1>3. CASE obj'[k] = obj[k]
  BY <1>3 DEF SnitchHasURL
<1>4. CASE obj'[k] = Absent
  BY <1>4, AbsentType DEF SnitchHasURL
<1>5. CASE obj'[k].spec = "other"
  BY <1>5 DEF SnitchHasURL
<1>. QED  BY <1>1, <1>2, <1>3, <1>4, <1>5, WhoWrites

-----------------------------------------------------------------------------
(* No wake-up is lost: what a step does to requests, events and copies       *)

\* The stack is written; the Monitoring resource is.
Writing ==
    /\ \E new \in StackType, retry \in BOOLEAN : Write(new, retry)
    /\ UNCHANGED <<resource, pod>>

Requesting == (\E new : WriteMonitoring(new)) /\ UNCHANGED <<stack, pass, pod>>

LEMMA StepKinds ==
    ASSUME TypeOK, [Next]_vars
    PROVE  \/ Writing \/ Requesting
           \/ SyncMonitoring \/ (\E k \in Kinds : SyncObject(k))
           \/ Start \/ NotFound
           \/ UNCHANGED <<resource, stack, pod>> /\ (queue => queue')
           \/ pod' # "running"
           \/ StartManager
<1>0. obj \in StackType /\ Contended \subseteq Kinds
  BY MonitoringAssumption DEF TypeOK
<1>1. ASSUME NEW k \in Kinds, ReconcileObject(k) PROVE Writing
  BY <1>0, <1>1, ApplyingType DEF ReconcileObject, Writing
<1>2. ASSUME NEW k \in Kinds, RemoveObject(k) PROVE Writing
  BY <1>0, <1>2, ErasingType DEF RemoveObject, Writing
<1>3. ASSUME NEW k \in Kinds, Collect(k) \/ ExternalDelete(k) PROVE Writing
  BY <1>3, ErasingType DEF Collect, ExternalDelete, Edit, Writing
<1>4. ASSUME NEW k \in Kinds, Drift(k) PROVE Writing
  <2>1. \A o \in {obj[k].owner, 0} :
          [obj EXCEPT ![k] = [st |-> "live", owner |-> o, spec |-> "other"]]
            \in StackType
    BY <1>0 DEF StackType
  <2>. QED  BY <1>4, <2>1 DEF Drift, Edit, Writing
<1>5. CASE FinishDeletion \/ UserDeletes \/ UserCreates
  BY <1>5 DEF FinishDeletion, UserDeletes, UserCreates, Edit, Requesting
<1>6. CASE ReadSecrets \/ GetFails \/ Resync \/ SecretsChange \/ UNCHANGED vars
  BY <1>6 DEF ReadSecrets, GetFails, Resync, SecretsChange, Edit, vars
<1>7. CASE Jumpstart \/ Crash
  BY <1>7 DEF Jumpstart, Crash
<1>. QED
  BY <1>0, <1>1, <1>2, <1>3, <1>4, <1>5, <1>6, <1>7
     DEF Next, Worker, PassStep, Informers, Process, Cluster, Users

\* A write that concerns the controller is an event, or a request already.
LEMMA WriteWakes ==
    ASSUME TypeOK, CopiesKnown, pod = "running",
           NEW new \in StackType, NEW retry \in BOOLEAN, Write(new, retry),
           NEW k \in Kinds
    PROVE  /\ obj'[k] # obj[k] /\ (obj[k].owner # 0 \/ obj'[k].owner # 0)
                => k \in news' \/ queue'
           /\ seen'[k] # obj'[k] =>
                /\ k \in Lagging
                /\ k \in news' \/ (seen'[k].owner = 0 /\ obj'[k].owner = 0)
           /\ k \in news => k \in news'
           /\ queue => queue'
<1>1. obj' = new /\ seen'[k] = (IF k \in Lagging THEN seen[k] ELSE new[k])
  BY DEF Write
<1>2. news' = news \cup {j \in Lagging \cap Kinds : Wakes(j, new)}
  BY DEF Write
<1>3. queue' = (queue \/ retry \/ \E j \in Kinds \ Lagging : Wakes(j, new))
  BY DEF Write
<1>4. ASSUME obj'[k] # obj[k], obj[k].owner # 0 \/ obj'[k].owner # 0
      PROVE  Wakes(k, new)
  BY <1>1, <1>4 DEF Wakes, OwnsKinds
<1>5. Wakes(k, new) => k \in news' \/ queue'
  BY <1>2, <1>3
<1>6. Wakes(k, new) /\ k \in Lagging => k \in news'
  BY <1>2
<1>7. ASSUME seen'[k] # obj'[k]
      PROVE  /\ k \in Lagging
             /\ k \in news' \/ (seen'[k].owner = 0 /\ obj'[k].owner = 0)
  <2>1. k \in Lagging /\ seen'[k] = seen[k]
    BY <1>1, <1>7
  <2>2. CASE obj'[k] = obj[k]
    BY <1>2, <1>7, <2>1, <2>2 DEF CopiesKnown
  <2>3. CASE obj'[k] # obj[k]
    <3>1. CASE obj[k].owner # 0 \/ obj'[k].owner # 0
      BY <1>4, <1>6, <2>1, <2>3, <3>1
    <3>2. CASE obj[k].owner = 0 /\ obj'[k].owner = 0
      BY <1>2, <2>1, <3>2 DEF CopiesKnown
    <3>. QED  BY <3>1, <3>2
  <2>. QED  BY <2>2, <2>3
<1>. QED  BY <1>2, <1>3, <1>4, <1>5, <1>7

\* What wakes the controller stays until it is awake.
WakingKept ==
    /\ queue => queue' \/ Start \/ NotFound
    /\ monNews => monNews' \/ queue'
    /\ \A k \in Kinds : k \in news => k \in news' \/ queue'
    /\ mon' # mon => monNews' \/ queue'
    /\ \A k \in Kinds :
         obj'[k] # obj[k] /\ (obj[k].owner # 0 \/ obj'[k].owner # 0)
           => k \in news' \/ queue'

LEMMA WakingStep ==
    ASSUME TypeOK, CopiesKnown, [Next]_vars, pod' = "running"
    PROVE  CopiesKnown' /\ (StartManager \/ (pod = "running" /\ WakingKept))
<1>1. CASE Writing
  <2>1. PICK new \in StackType, retry \in BOOLEAN : Write(new, retry)
    BY <1>1 DEF Writing
  <2>2. pod = "running" /\ UNCHANGED <<mon, monSeen, monNews>>
    BY <1>1 DEF Writing, resource
  <2>3. ASSUME NEW k \in Kinds
        PROVE  /\ obj'[k] # obj[k] /\ (obj[k].owner # 0 \/ obj'[k].owner # 0)
                    => k \in news' \/ queue'
               /\ seen'[k] # obj'[k] =>
                    /\ k \in Lagging
                    /\ k \in news' \/ (seen'[k].owner = 0 /\ obj'[k].owner = 0)
               /\ k \in news => k \in news'
    BY <2>1, <2>2, WriteWakes
  <2>4. CopiesKnown'
    BY <2>2, <2>3 DEF CopiesKnown
  <2>5. queue => queue'
    BY <2>1, <2>2 DEF Write
  <2>6. WakingKept
    BY <2>2, <2>3, <2>5 DEF WakingKept
  <2>. QED  BY <2>2, <2>4, <2>6
<1>2. CASE Requesting
  <2>1. pod = "running" /\ UNCHANGED <<obj, seen, news>>
    BY <1>2 DEF Requesting, stack
  <2>2. PICK new : WriteMonitoring(new)
    BY <1>2 DEF Requesting
  <2>. QED  BY <2>1, <2>2 DEF WriteMonitoring, CopiesKnown, WakingKept
<1>3. CASE SyncMonitoring
  BY <1>3 DEF SyncMonitoring, stack, CopiesKnown, WakingKept
<1>4. ASSUME NEW j \in Kinds, SyncObject(j)
      PROVE  CopiesKnown' /\ pod = "running" /\ WakingKept
  <2>1. /\ pod = "running" /\ UNCHANGED <<mon, monSeen, monNews, obj>>
        /\ seen' = [seen EXCEPT ![j] = obj[j]] /\ news' = news \ {j}
        /\ queue' = (queue \/ j \in news)
    BY <1>4 DEF SyncObject, resource
  <2>2. \A k \in Kinds : k # j => seen'[k] = seen[k]
    BY <2>1 DEF TypeOK, StackType
  <2>3. seen'[j] = obj[j]
    BY <2>1 DEF TypeOK, StackType
  <2>4. CopiesKnown'
    BY <2>1, <2>2, <2>3 DEF CopiesKnown
  <2>. QED  BY <2>1, <2>4 DEF WakingKept
<1>5. CASE Start \/ NotFound
  BY <1>5 DEF Start, NotFound, Take, resource, stack, CopiesKnown, WakingKept
<1>6. CASE UNCHANGED <<resource, stack, pod>> /\ (queue => queue')
  BY <1>6 DEF resource, stack, CopiesKnown, WakingKept
<1>7. CASE StartManager
  BY <1>7 DEF StartManager, CopiesKnown
<1>. QED  BY <1>1, <1>2, <1>3, <1>4, <1>5, <1>6, <1>7, StepKinds

LEMMA CopiesStep ==
    ASSUME TypeOK, CopiesKnown, [Next]_vars
    PROVE  CopiesKnown'
<1>1. CASE pod' = "running"
  BY <1>1, WakingStep
<1>2. CASE pod' # "running"
  BY <1>2 DEF CopiesKnown
<1>. QED  BY <1>1, <1>2

LEMMA UIDsStep ==
    ASSUME TypeOK, TypeOK', UIDsPositive, [Next]_vars
    PROVE  UIDsPositive'
<1>1. mon.uid \in Nat /\ Created.uid = mon.uid + 1 /\ Created.uid # 0
  BY DEF Created, TypeOK, ResourceType
<1>2. Present(mon') => mon'.uid # 0
  <2>1. \/ mon' = mon \/ mon' = Created
        \/ /\ mon.st = "live" \/ mon.st = "terminating"
           /\ \E st : mon' = [mon EXCEPT !.st = st]
    BY Zenon DEF Next, Worker, PassStep, ReconcileObject, RemoveObject, ReadSecrets,
       Start, NotFound, Take, GetFails, Informers, SyncMonitoring, SyncObject, Resync,
       Process, Jumpstart, StartManager, Crash, Cluster, Collect, FinishDeletion,
       Users, UserDeletes, UserCreates, SecretsChange, Drift, ExternalDelete,
       WriteMonitoring, resource, vars
  <2>. QED  BY <1>1, <2>1 DEF TypeOK, ResourceType, UIDsPositive, Present
<1>3. Present(monSeen') => monSeen'.uid # 0
  <2>1. monSeen' = monSeen \/ monSeen' = mon \/ monSeen' = mon'
    BY Zenon DEF Next, Worker, PassStep, ReconcileObject, RemoveObject, ReadSecrets,
       Start, NotFound, Take, GetFails, Informers, SyncMonitoring, SyncObject, Resync,
       Process, Jumpstart, StartManager, Crash, Cluster, Collect, FinishDeletion,
       Users, UserDeletes, UserCreates, SecretsChange, Drift, ExternalDelete,
       WriteMonitoring, resource, vars
  <2>. QED  BY <1>2, <2>1 DEF UIDsPositive
<1>4. ~Idle' => pass'.uid # 0 /\ pod' = "running"
  <2>1. CASE pass' = IdlePass
    BY <2>1 DEF IdlePass, Idle
  <2>2. CASE Start
    BY <2>2 DEF Start, Take, UIDsPositive
  <2>3. CASE pass' # IdlePass /\ ~Start
    <3>1. pass'.mode = pass.mode /\ pass'.uid = pass.uid
      BY <2>3, WhoSteps DEF TypeOK
    <3>2. pod' = pod \/ pod = "down" \/ pod' = "running"
      BY <2>3, Zenon DEF Next, Worker, PassStep, ReconcileObject, RemoveObject, ReadSecrets,
       Start, NotFound, Take, GetFails, Informers, SyncMonitoring, SyncObject, Resync,
       Process, Jumpstart, StartManager, Crash, Cluster, Collect, FinishDeletion,
       Users, UserDeletes, UserCreates, SecretsChange, Drift, ExternalDelete, Edit, vars
    <3>. QED  BY <3>1, <3>2 DEF UIDsPositive, Idle
  <2>. QED  BY <2>1, <2>2, <2>3
<1>. QED  BY <1>2, <1>3, <1>4 DEF UIDsPositive

LEMMA LooseStep ==
    ASSUME TypeOK, TypeOK', UIDsPositive, CopiesKnown, LooseByOthers, [Next]_vars
    PROVE  LooseByOthers'
<1>. SUFFICES ASSUME NEW k \in Kinds, Present(obj'[k]), obj'[k].owner = 0
              PROVE  k \in Contended /\ (obj'[k].spec = "other" \/ k \in Lagging)
  BY DEF LooseByOthers
<1>1. CASE obj'[k] = obj[k]
  BY <1>1 DEF LooseByOthers
<1>2. CASE ReconcileObject(k) /\ obj'[k] = Applied(k)
  <2>1. pod = "running" /\ Owner # 0
    BY <1>2 DEF ReconcileObject, At, Idle, UIDsPositive, Owner
  <2>2. obj[k] \in ObjectType
    BY DEF TypeOK, StackType, ObjectType
  <2>3. Present(obj[k]) /\ obj[k].owner = 0 /\ seen[k].owner = Owner
    BY <1>2, <2>1, <2>2 DEF Applied, ObjectType, Present
  <2>. QED  BY <2>1, <2>3 DEF CopiesKnown, LooseByOthers
<1>. QED  BY <1>1, <1>2, WhoWrites, AbsentType

LEMMA WhoMoves ==
    ASSUME TypeOK, [Next]_vars
    PROVE  \/ pass' = pass \/ Start \/ pod' # "running" \/ ReadSecrets
           \/ \E k \in Kinds : ReconcileObject(k) \/ RemoveObject(k)
  BY DEF Next, Worker, PassStep, NotFound, GetFails, Informers, SyncMonitoring,
     SyncObject, Resync, Process, Jumpstart, StartManager, Crash, Cluster, Collect,
     FinishDeletion, Users, UserDeletes, UserCreates, SecretsChange, Drift,
     ExternalDelete, Edit, vars

\* A write that makes no event has found, or made, everything as desired.
LEMMA QuietWrite ==
    ASSUME TypeOK, URLChecked, UIDsPositive, CopiesKnown,
           NEW k \in Kinds, At("reconcile", k), Accepted(k),
           k \notin news, obj'[k] = Applied(k), pass.uid = mon.uid, mon' = mon,
           obj'[k] # obj[k] => obj[k].owner = 0 /\ obj'[k].owner = 0
    PROVE  Settled(k)'
<1>1. /\ pod = "running" /\ Owner # 0 /\ Owner = mon'.uid
      /\ obj[k] \in ObjectType /\ seen[k] \in ObjectType
  BY DEF UIDsPositive, At, Idle, Owner, TypeOK, StackType, ObjectType
<1>2. Desired(k) \in (IF k = "AlertmanagerConfig" THEN URLs ELSE {"desired"})
  BY DEF Desired, URLChecked
<1>3. seen[k] # obj[k] => seen[k].owner = 0 /\ obj[k].owner = 0
  BY <1>1 DEF CopiesKnown
<1>4. CASE ~Present(seen[k])
  BY <1>1, <1>2, <1>4 DEF Applied, Settled, Present
<1>5. CASE Present(seen[k]) /\ ~Present(obj[k])
  <2>1. seen[k].owner = Owner
    BY <1>5 DEF Accepted, Differs
  <2>. QED  BY <1>1, <1>3, <1>5, <2>1
<1>6. CASE Present(seen[k]) /\ Present(obj[k])
  <2>1. seen[k].owner # Owner => obj'[k].owner = Owner
    BY <1>1, <1>6 DEF Applied, ObjectType
  <2>2. seen[k] = obj[k]
    BY <1>1, <1>3, <2>1
  <2>. QED  BY <1>1, <1>2, <1>6, <2>2 DEF Applied, Settled, Present, ObjectType
<1>. QED  BY <1>4, <1>5, <1>6

LEMMA ToComeNext ==
    \A j, k \in Kinds : k \in ToCome[j] /\ k # j =>
        After[j] # "end" /\ k \in ToCome[After[j]]
  BY DEF ToCome, After, Kinds

LEMMA ForgottenStep ==
    ASSUME TypeOK, TypeOK', URLChecked, UIDsPositive, CopiesKnown, NoneForgotten,
           [Next]_vars
    PROVE  NoneForgotten'
<1>. DEFINE Pending(k) == /\ pass.mode = "reconcile" /\ pass.uid = mon.uid
                          /\ k \in ToCome[pass.step]
<1>. SUFFICES ASSUME pod' = "running", mon'.st = "live", NEW k \in Kinds,
                     ~queue', ~monNews', k \notin news'
              PROVE  Settled(k)' \/ Pending(k)'
  BY DEF NoneForgotten
<1>1. pod = "running" /\ WakingKept
  BY WakingStep DEF StartManager, Present
<1>2. mon' = mon /\ monSeen = mon /\ k \notin news /\ ~monNews
  BY <1>1 DEF WakingKept, CopiesKnown
<1>3. obj'[k] # obj[k] => obj[k].owner = 0 /\ obj'[k].owner = 0
  BY <1>1 DEF WakingKept
<1>4. ~NotFound
  BY <1>2 DEF NotFound, Present
<1>5. CASE Start
  <2>1. pass'.mode = "reconcile" /\ pass'.step = "ConfigMap" /\ pass'.uid = mon.uid
    BY <1>2, <1>5 DEF Start, FirstStep
  <2>. QED  BY <1>2, <2>1 DEF ToCome
<1>6. CASE ~Start
  <2>1. ~queue
    BY <1>1, <1>4, <1>6 DEF WakingKept
  <2>2. CASE Settled(k)
    <3>1. obj[k].owner # 0
      BY <1>2, <2>2 DEF Settled, UIDsPositive, Present
    <3>. QED  BY <1>2, <1>3, <2>2, <3>1 DEF Settled
  <2>3. CASE Pending(k) /\ pass' = pass
    BY <1>2, <2>3
  <2>4. CASE Pending(k) /\ ReadSecrets
    <3>1. pass' = [pass EXCEPT !.step = "AlertmanagerConfig", !.url = secrets]
      BY <2>4 DEF ReadSecrets
    <3>2. k = "AlertmanagerConfig"
      BY <2>4 DEF ReadSecrets, At, ToCome
    <3>. QED  BY <1>2, <2>4, <3>1, <3>2 DEF ToCome, TypeOK
  <2>5. ASSUME NEW j \in Kinds, ReconcileObject(j), Pending(k)
        PROVE  Settled(k)' \/ Pending(k)'
    <3>1. At("reconcile", j) /\ Accepted(j) /\ obj' = Applying(j) /\ Goto(After[j])
      BY <2>5 DEF ReconcileObject, Write
    <3>2. CASE k = j
      <4>1. obj'[k] = Applied(k)
        BY <3>1, <3>2 DEF Applying, TypeOK, StackType
      <4>. QED  BY <1>2, <1>3, <2>5, <3>1, <3>2, <4>1, QuietWrite
    <3>3. CASE k # j
      <4>1. k \in ToCome[j]
        BY <2>5, <3>1 DEF At
      <4>2. pass' = [pass EXCEPT !.step = After[j]]
        BY <3>1, <3>3, <4>1, ToComeNext DEF Goto
      <4>. QED  BY <1>2, <2>5, <3>3, <4>1, <4>2, ToComeNext DEF TypeOK
    <3>. QED  BY <3>2, <3>3
  <2>6. ASSUME NEW j \in Kinds, RemoveObject(j) PROVE ~Pending(k)
    BY <2>6 DEF RemoveObject, At
  <2>7. Settled(k) \/ Pending(k)
    BY <1>1, <1>2, <2>1 DEF NoneForgotten
  <2>. QED  BY <1>6, <2>2, <2>3, <2>4, <2>5, <2>6, <2>7, WhoMoves
<1>. QED  BY <1>5, <1>6

LEMMA InitInv == Init => IInv
<1>. SUFFICES ASSUME Init PROVE IInv
  OBVIOUS
<1>1. ErasOK
  BY DEF Init, ErasOK, Era, Idle, IdlePass, Absent
<1>2. URLChecked
  BY DEF Init, URLChecked, At, IdlePass
<1>3. SnitchHasURL
  BY DEF Init, SnitchHasURL, Absent, Present, Kinds
<1>4. UIDsPositive /\ CopiesKnown /\ NoneForgotten
  BY DEF Init, UIDsPositive, CopiesKnown, NoneForgotten, Present, Idle, IdlePass
<1>5. LooseByOthers
  BY DEF Init, LooseByOthers, Absent, Present
<1>. QED  BY <1>1, <1>2, <1>3, <1>4, <1>5, InitType DEF IInv

LEMMA InvStep == IInv /\ [Next]_vars => IInv'
  BY TypeStep, ErasStep, URLStep, SnitchStep, UIDsStep, CopiesStep, ForgottenStep,
     LooseStep DEF IInv

\* The inductive invariant of the Monitoring controller.
THEOREM MonitoringInvariant == Spec => []IInv
  BY InitInv, InvStep, PTL DEF Spec

\* The alerting configuration is only ever written with the entry the Secret
\* has for the URL of the snitch: checkPagerDutyServiceKey and
\* getDeadMansSnitchURL end the pass where the entry is missing.
THEOREM SnitchAlwaysHasURL == Spec => []SnitchHasURL
<1>1. IInv => SnitchHasURL
  BY DEF IInv
<1>. QED  BY <1>1, MonitoringInvariant, PTL

\* No object goes back to a Monitoring resource that was deleted before the
\* one it belongs to was created.
THEOREM OwnersGoForward == Spec => OwnerNeverGoesBack
<1>1. IInv /\ [Next]_vars =>
        [\A k \in Kinds :
           obj'[k].owner # 0 /\ Present(obj[k]) => obj'[k].owner >= obj[k].owner]_vars
  <2>. SUFFICES ASSUME IInv, [Next]_vars, NEW k \in Kinds,
                       obj'[k].owner # 0, Present(obj[k])
                PROVE  obj'[k].owner >= obj[k].owner
    OBVIOUS
  <2>1. TypeOK /\ obj[k].owner \in Nat /\ pass.uid \in Nat /\ obj[k].owner <= Era
    BY DEF IInv, TypeOK, StackType, ErasOK
  <2>2. CASE ReconcileObject(k) /\ obj'[k] = Applied(k)
    <3>1. Era = pass.uid
      BY <2>2 DEF ReconcileObject, At, Era, Idle
    <3>2. Applied(k).owner \in {obj[k].owner, pass.uid}
      BY <2>1 DEF Applied, Owner, TypeOK, StackType
    <3>. QED  BY <2>1, <2>2, <3>1, <3>2
  <2>. QED  BY <2>1, <2>2, WhoWrites, AbsentType
<1>. QED  BY <1>1, MonitoringInvariant, PTL DEF Spec, OwnerNeverGoesBack

-----------------------------------------------------------------------------
(* At rest                                                                  *)

\* No wake-up is lost: whatever was edited, deleted, collected, crashed or failed
\* before, at rest the stack of a Monitoring resource is whole and its own.
THEOREM StackAlwaysRestored == Spec => []StackRestored
<1>1. IInv => StackRestored
  <2>. SUFFICES ASSUME IInv, AtRest, mon.st = "live", NEW k \in Kinds
                PROVE  Settled(k)
    BY DEF StackRestored
  <2>. QED  BY DEF IInv, AtRest, Idle, NoneForgotten
<1>. QED  BY <1>1, MonitoringInvariant, PTL

\* Although the Monitoring resource has no finalizer, at rest nothing of the
\* stack outlives it but what someone cut loose.
THEOREM NothingStays == Spec => []NothingLeft
<1>1. IInv => NothingLeft
  <2>. SUFFICES ASSUME IInv, AtRest, mon.st = "absent", NEW k \in Kinds,
                       Present(obj[k])
                PROVE  k \in Contended /\ (obj[k].spec = "other" \/ k \in Lagging)
    BY DEF NothingLeft
  <2>1. obj[k].owner = 0
    BY DEF AtRest, Garbage
  <2>. QED  BY <2>1 DEF IInv, LooseByOthers
<1>. QED  BY <1>1, MonitoringInvariant, PTL
=============================================================================
