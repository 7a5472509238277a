------------------------- MODULE CertificatesProofs -------------------------
(***************************************************************************)
(* Proofs of the safety properties of Certificates for every set of hosts,  *)
(* configurations, control plane hosts and number of runs and faults.       *)
(***************************************************************************)
EXTENDS Certificates, TLAPS, WellFoundedInduction

Cert == [crt : Nat, at : Nat, pub : Nat, key : Nat]
Stages == {"idle", "state", "auth", "generate", "reconcile", "backup", "members",
           "hosts", "control", "save_certs", "save_state"}

\* Stages in which a run holds certificates for all of its etcd hosts, ...
Equipped == {"backup", "members", "hosts", "control", "save_certs", "save_state"}
\* ... in which it holds some, and in which every host has been served.
Holding == Equipped \cup {"reconcile"}
Served == {"control", "save_certs", "save_state"}

Whole(x) == x.crt # 0 /\ x.key # 0
CertWriter(w) == w.obj # "state"

TypeInv ==
    /\ tmp \in [Hosts -> [Names -> Cert]]
    /\ ssl \in [Hosts -> [Names -> Cert]]
    /\ deployer \in [Hosts -> [st : {"absent", "running", "exited"},
                               env : [Names -> Cert], dest : {"tmp", "ssl"}]]
    /\ secrets \in [Names -> Cert] /\ certs \in [Names -> Cert]
    /\ state \in SUBSET Hosts /\ conf \in SUBSET Hosts /\ cur \in SUBSET Hosts
    /\ pc \in Stages
    /\ pc # "idle" => conf \in Configs /\ result = "none" /\ runs # 0
    /\ made \in Nat /\ runs \in Nat
    /\ embedded \in BOOLEAN /\ torn \in BOOLEAN /\ reissued \in BOOLEAN

\* Goroutines write whole certificates, or a state of a configuration.
WriterInv ==
    /\ \A w \in writers \cup leaked :
          /\ CertWriter(w) => w.obj \in Names /\ w.val \in Cert /\ Whole(w.val)
          /\ ~CertWriter(w) => w.etcd \in SUBSET Hosts
    /\ pc = "save_certs" => \A w \in writers : CertWriter(w)
    /\ pc = "save_state" => \A w \in writers : ~CertWriter(w) /\ w.etcd = conf
    /\ pc \notin {"save_certs", "save_state"} => writers = {}
    /\ ~embedded => leaked = {}

\* What a run holds and what is saved is whole; a run holds every certificate
\* of its configuration, and when it has none left to save all are saved.
CoverInv ==
    /\ \A n \in Names : secrets[n] = None \/ Whole(secrets[n])
    /\ \A n \in Names : certs[n] = None \/ Whole(certs[n])
    /\ pc \in Equipped => \A n \in CertNames(conf) : certs[n] # None
    /\ pc = "reconcile" => \A n \in CertNames(cur) : certs[n] # None
    /\ pc = "save_certs" =>
          \A n \in CertNames(conf) :
             secrets[n] # None \/ \E w \in writers : w.obj = n
    /\ pc = "save_state" => \A n \in CertNames(conf) : secrets[n] # None
    /\ \A w \in writers \cup leaked :
          ~CertWriter(w) => \A n \in CertNames(w.etcd) : secrets[n] # None
    /\ state # {} => \A n \in CertNames(state) : secrets[n] # None

\* What a run has written is in place, unless a goroutine of an earlier run
\* wrote over it.
LatestInv ==
    /\ pc = "save_certs" => \A w \in writers : w.val = certs[w.obj]
    /\ pc = "save_certs" => \A n \in Names : certs[n] # None =>
          n \in late \/ secrets[n] = certs[n] \/ \E w \in writers : w.obj = n
    /\ pc = "save_state" => \A n \in Names : certs[n] # None =>
          n \in late \/ secrets[n] = certs[n]
    /\ pc = "save_state" /\ writers = {} => state = conf \/ "state" \in late
    /\ result = "up" => pc = "idle"
    /\ result = "up" => state = conf \/ "state" \in late

BaseInv == TypeInv /\ WriterInv /\ CoverInv /\ LatestInv

-----------------------------------------------------------------------------
\* All certificates there are have their keys and are of one CA.
Uniform(f) == \A n \in Names : f[n] # None => Signed(f[n], f["ca"].crt)

\* A deployer is about to write the backup.
BacksUp(h) == deployer[h].st = "running" /\ deployer[h].dest = "tmp"

\* A run is about to start such a deployer.
NextBackup(h) ==
    (pc = "generate" /\ h = FirstOf(conf)) \/ (pc = "backup" /\ h \in group)

\* The backups are of one CA each, also when their deployers will have written;
\* a host that is about to get a backup has none that it would mix with.
BackupInv ==
    \A h \in Hosts :
        /\ Uniform(tmp[h])
        /\ BacksUp(h) =>
              /\ Uniform(deployer[h].env) /\ deployer[h].env["ca"] # None
              /\ \A n \in Names : deployer[h].env[n] = None => tmp[h][n] = None
        /\ BacksUp(h) /\ NextBackup(h) =>
              \A n \in Names :
                 deployer[h].env[n] # None => deployer[h].env[n] = tmp[h][n]
        /\ pc = "backup" /\ h \in group =>
              \A n \in Names \ CertNames(conf) : tmp[h][n] = None

\* What is saved is of one CA, which is the one a run works with.
SavedInv ==
    /\ \A x, y \in Saved : Signed(x, y.crt)
    /\ pc \in Holding => Uniform(certs) /\ \A x \in Saved : Signed(x, certs["ca"].crt)
    /\ \A w \in writers : CertWriter(w) => Signed(w.val, certs["ca"].crt)

OneCAInv == ~torn /\ ~reissued => BackupInv /\ SavedInv

-----------------------------------------------------------------------------
\* A host has what its roles need.
Provided(h) == \A n \in PlaneNames(h) : ssl[h][n] = certs[n]

\* Every host has been provided, is being provided by its deployer, or is still
\* to come; and no deployer is left once all have been.
DeployInv ==
    /\ pc \notin {"backup", "members", "hosts"} => group = {} /\ waiting = {}
    /\ ~torn => \A h \in Hosts :
          /\ pc = "hosts" /\ h \in waiting /\ deployer[h].st = "running" =>
                /\ deployer[h].dest = "ssl"
                /\ \A n \in PlaneNames(h) : deployer[h].env[n] = certs[n]
          /\ pc = "hosts" /\ h \in waiting /\ deployer[h].st # "running" => Provided(h)
          /\ pc = "hosts" /\ h \notin group \cup waiting =>
                deployer[h].st # "running" /\ Provided(h)
          /\ pc \in Served => deployer[h].st # "running" /\ Provided(h)
          /\ result = "up" => deployer[h].st # "running"

UpInv ==
    ~torn /\ ~reissued /\ result = "up" =>
        \A h \in Hosts : \A n \in PlaneNames(h) :
            /\ Signed(secrets[n], ssl[h]["ca"].crt)
            /\ n \in late \/ ssl[h][n] = secrets[n]

CertInv == BaseInv /\ OneCAInv /\ DeployInv /\ UpInv

-----------------------------------------------------------------------------
(* Lemmas about the operators.                                              *)

\* Every non-empty set of natural numbers has a least one.
LEMMA LeastNatural ==
  ASSUME NEW T \in SUBSET Nat, T # {}
  PROVE  \E x \in T : \A y \in T : x <= y
<1> DEFINE R == OpToRel(<, Nat)
<1>1. IsWellFoundedOn(R, Nat)
  BY NatLessThanWellFounded
<1>2. \A x, y \in Nat : x < y => <<x, y>> \in R
  BY DEF OpToRel
<1> HIDE DEF R
<1>3. PICK x \in T : \A y \in T : ~(<<y, x>> \in R)
  BY <1>1, WFMin
<1>4. \A y \in T : ~(y < x)
  BY <1>2, <1>3
<1>5. \A y \in T : y \in Nat /\ x \in Nat
  OBVIOUS
<1>6. \A y \in T : x <= y
  BY <1>4, <1>5
<1> QED BY <1>6

\* A configuration has a first etcd host, and it is one of its hosts.
LEMMA FirstOfFacts ==
  ASSUME NEW c \in Configs
  PROVE  FirstOf(c) \in c /\ FirstOf(c) \in Hosts
<1> DEFINE T == {i \in DOMAIN HostOrder : HostOrder[i] \in c}
<1>1. c \subseteq Hosts /\ c # {}
  BY CertificatesAssumption
<1>2. DOMAIN HostOrder = 1..Len(HostOrder) /\ Len(HostOrder) \in Nat
  BY CertificatesAssumption
<1>3. T \in SUBSET Nat /\ T # {}
  BY <1>1, <1>2, CertificatesAssumption
<1>4. PICK x \in T : \A y \in T : x <= y
  BY <1>3, LeastNatural
<1>5. \A j \in 1..(x - 1) : HostOrder[j] \notin c
  BY <1>2, <1>4
<1>6. \E i \in DOMAIN HostOrder :
         HostOrder[i] \in c /\ \A j \in 1..(i - 1) : HostOrder[j] \notin c
  BY <1>4, <1>5
<1>7. FirstOf(c) \in c
  BY <1>6 DEF FirstOf
<1> QED BY <1>1, <1>7

\* None is not whole; a saved state is not one of the certificates.
LEMMA NameFacts ==
  /\ "ca" \in Names /\ "api" \in Names /\ "client" \in Names /\ Hosts \subseteq Names
  /\ "state" \notin Names
  /\ None \in Cert /\ NoCerts \in [Names -> Cert]
  /\ \A x \in Cert : Whole(x) => x # None
  /\ \A c \in Configs : c \subseteq Hosts /\ c # {}
  /\ \A e \in SUBSET Hosts : CertNames(e) \subseteq Names /\ e \subseteq CertNames(e)
<1>1. "ca" \in Names /\ "api" \in Names /\ "client" \in Names /\ Hosts \subseteq Names
  BY DEF Names
<1>2. "state" \notin Names /\ \A c \in Configs : c \subseteq Hosts /\ c # {}
  BY CertificatesAssumption DEF Names
<1>3. None \in Cert /\ NoCerts \in [Names -> Cert]
  BY DEF Cert, None, NoCerts
<1>4. \A x \in Cert : Whole(x) => x # None
  BY DEF Cert, Whole, None
<1>5. \A e \in SUBSET Hosts : CertNames(e) \subseteq Names /\ e \subseteq CertNames(e)
  BY DEF Names, CertNames
<1> QED BY <1>1, <1>2, <1>3, <1>4, <1>5

\* What a deployer leaves in a directory, in whichever one it writes to.
LEMMA WrittenType ==
  ASSUME TypeInv, NEW h \in Hosts, NEW names, NEW env \in [Names -> Cert]
  PROVE  /\ Target(h) \in [Names -> Cert]
         /\ Written(Target(h), env, names) \in [Names -> Cert]
         /\ \A old \in [Names -> Cert] : \A n \in Names :
               HalfWritten(old, env, n) \in [Names -> Cert]
         /\ \A new \in [Names -> Cert] : Into(h, new) =>
               tmp' \in [Hosts -> [Names -> Cert]] /\ ssl' \in [Hosts -> [Names -> Cert]]
<1>1. Target(h) \in [Names -> Cert]
  BY DEF TypeInv, Target
<1>2. Written(Target(h), env, names) \in [Names -> Cert]
  BY <1>1 DEF Written
<1>3. \A old \in [Names -> Cert] : \A n \in Names :
         HalfWritten(old, env, n) \in [Names -> Cert]
  BY DEF HalfWritten, Cert
<1>4. \A new \in [Names -> Cert] : Into(h, new) =>
         tmp' \in [Hosts -> [Names -> Cert]] /\ ssl' \in [Hosts -> [Names -> Cert]]
  BY DEF TypeInv, Into
<1> QED BY <1>1, <1>2, <1>3, <1>4

\* A write of a goroutine puts a certificate or a configuration in its place.
LEMMA WriteType ==
  ASSUME TypeInv, WriterInv, NEW w \in writers \cup leaked, Write(w)
  PROVE  secrets' \in [Names -> Cert] /\ state' \in SUBSET Hosts
  BY DEF TypeInv, WriterInv, CertWriter, Write

\* A write takes nothing away, and adds something whole.
LEMMA WriteCovers ==
  ASSUME TypeInv, WriterInv, CoverInv, NEW w \in writers \cup leaked, Write(w)
  PROVE  /\ \A n \in Names : secrets'[n] = None \/ Whole(secrets'[n])
         /\ \A n \in Names : secrets[n] # None => secrets'[n] # None
         /\ CertWriter(w) => secrets'[w.obj] # None
         /\ state' # state => ~CertWriter(w) /\ state' = w.etcd
<1>1. CASE CertWriter(w)
  <2>1. w.obj \in Names /\ Whole(w.val) /\ w.val # None
    BY <1>1, NameFacts DEF WriterInv
  <2> QED BY <1>1, <2>1 DEF TypeInv, CoverInv, CertWriter, Write
<1>2. CASE ~CertWriter(w)
  BY <1>2 DEF CoverInv, CertWriter, Write
<1> QED BY <1>1, <1>2

\* A host gets some of the certificates of its configuration.
LEMMA PlaneFacts ==
  ASSUME TypeInv, NEW h
  PROVE  PlaneNames(h) \subseteq CertNames(conf) /\ CertNames(conf) \subseteq Names
  BY NameFacts DEF PlaneNames, CertNames, TypeInv

\* What a signed certificate looks like.
LEMMA SignedFacts ==
  \A ca, run, key \in Nat :
      /\ SignedBy(ca, run, key) \in Cert
      /\ SignedBy(ca, run, key).crt = ca
      /\ ca # 0 /\ key # 0 => /\ Whole(SignedBy(ca, run, key))
                             /\ Signed(SignedBy(ca, run, key), ca)
  BY DEF SignedBy, Cert, None, Whole, Signed

-----------------------------------------------------------------------------
(* Types.                                                                   *)

LEMMA TypeInvInit == Init => TypeInv
<1> SUFFICES ASSUME Init PROVE TypeInv
  OBVIOUS
<1>1. NoDeployer \in [st : {"absent", "running", "exited"}, env : [Names -> Cert],
                      dest : {"tmp", "ssl"}]
  BY NameFacts DEF NoDeployer
<1>2. /\ tmp \in [Hosts -> [Names -> Cert]] /\ ssl \in [Hosts -> [Names -> Cert]]
      /\ secrets \in [Names -> Cert] /\ certs \in [Names -> Cert]
  BY NameFacts DEF Init
<1> QED BY <1>1, <1>2 DEF Init, TypeInv, Stages

LEMMA TypeInvStep == TypeInv /\ WriterInv /\ [Next]_vars => TypeInv'
<1> SUFFICES ASSUME TypeInv, WriterInv, [Next]_vars PROVE TypeInv'
  OBVIOUS
<1> USE DEF TypeInv, Stages, hostVars, savedVars, procVars, envVars, Goto,
   Fail, Return
<1>1. ASSUME NEW c \in Configs, StartUp(c) PROVE TypeInv'
  BY <1>1, NameFacts DEF StartUp
<1>2. CASE NoState
  BY <1>2 DEF NoState
<1>3. CASE GetClusterState
  <2>1. CASE \A n \in CertNames(state) : secrets[n] # None
    <3> DEFINE f == [n \in Names |-> IF n \in CertNames(state) THEN secrets[n] ELSE None]
    <3>1. f \in [Names -> Cert]
      BY NameFacts
    <3>2. RegenerateAPICertificate(f) \in [Names -> Cert]
      <4>1. SignedBy(f["ca"].crt, runs, f["api"].key) \in Cert
        BY <3>1, NameFacts, SignedFacts DEF Cert
      <4> QED BY <3>1, <4>1, NameFacts DEF RegenerateAPICertificate
    <3>3. /\ certs' = RegenerateAPICertificate(f) /\ cur' = state
          /\ pc = "state" /\ pc' = "reconcile"
          /\ UNCHANGED <<hostVars, savedVars, result, conf, envVars>>
      BY <1>3, <2>1 DEF GetClusterState
    <3> HIDE DEF f
    <3>4. certs' \in [Names -> Cert]
      BY <3>2, <3>3
    <3> QED BY <3>3, <3>4
  <2>2. CASE \E n \in CertNames(state) : secrets[n] = None
    BY <1>3, <2>2, NameFacts DEF GetClusterState
  <2> QED BY <2>1, <2>2
<1>4. CASE RecoverBackup
  <2> DEFINE first == FirstOf(conf)
  <2>1. first \in Hosts
    BY <1>4, FirstOfFacts DEF RecoverBackup
  <2>2. \A n \in Names : Readable(first)[n] \subseteq Cert
    BY <2>1 DEF Readable
  <2>3. PICK found \in [Names -> UNION {Readable(first)[n] : n \in Names}] :
           /\ \A n \in Names : found[n] \in Readable(first)[n]
           /\ torn' = (torn \/ Overwritten(first))
           /\ \/ /\ certs' = [n \in Names |-> IF n \in CertNames(conf)
                                              THEN found[n] ELSE None]
                 /\ reissued' = (reissued \/ Clash(found["ca"].crt))
                 /\ pc' = "hosts"
                 /\ UNCHANGED <<result, conf, cur, embedded, made, runs>>
              \/ /\ pc' = "generate"
                 /\ UNCHANGED <<result, conf, cur, certs, embedded, made, runs, reissued>>
              \/ Fail
    BY <1>4 DEF RecoverBackup
  <2>4. found \in [Names -> Cert]
    BY <2>2, <2>3
  <2>5. certs' \in [Names -> Cert]
    BY <2>3, <2>4, NameFacts
  <2>6. torn' \in BOOLEAN /\ reissued' \in BOOLEAN
    BY <2>3
  <2>7. /\ conf' \in SUBSET Hosts /\ cur' \in SUBSET Hosts /\ pc' \in Stages
        /\ pc' # "idle" => conf' \in Configs /\ result' = "none" /\ runs' # 0
        /\ made' \in Nat /\ runs' \in Nat /\ embedded' \in BOOLEAN
    BY <1>4, <2>3 DEF RecoverBackup
  <2>8. UNCHANGED <<hostVars, savedVars>>
    BY <1>4 DEF RecoverBackup
  <2> QED BY <2>5, <2>6, <2>7, <2>8
<1>5. CASE GenerateCerts
  <2>1. made' \in Nat /\ SignedBy(made', runs, runs) \in Cert
    BY <1>5, SignedFacts DEF GenerateCerts
  <2> QED BY <1>5, <2>1, NameFacts DEF GenerateCerts
<1>6. CASE ReconcileEtcdCerts
  <2>1. \A n \in Names : RegenerateEtcdCertificate(certs, n)[n] \in Cert
    BY NameFacts DEF RegenerateEtcdCertificate, SignedBy, Cert
  <2> QED BY <1>6, <2>1 DEF ReconcileEtcdCerts
<1>7. ASSUME NEW h \in Hosts, StartDeployer(h) PROVE TypeInv'
  <2>1. EnvFor(h) \in [Names -> Cert]
    BY NameFacts DEF EnvFor
  <2>2. [st |-> "running", env |-> EnvFor(h),
         dest |-> IF pc = "backup" THEN "tmp" ELSE "ssl"]
        \in [st : {"absent", "running", "exited"}, env : [Names -> Cert],
            dest : {"tmp", "ssl"}]
    BY <2>1
  <2>3. deployer' \in [Hosts -> [st : {"absent", "running", "exited"},
                                 env : [Names -> Cert], dest : {"tmp", "ssl"}]]
    BY <1>7, <2>2 DEF StartDeployer
  <2> QED BY <1>7, <2>3, NameFacts DEF StartDeployer
<1>8. ASSUME NEW h \in Hosts, DeployerDone(h) PROVE TypeInv'
  BY <1>8, NameFacts DEF DeployerDone, NoDeployer
<1>9. CASE BackedUp
  BY <1>9 DEF BackedUp
<1>10. CASE DeployAdminConfig
  BY <1>10 DEF DeployAdminConfig
<1>11. CASE DeployControlPlane
  BY <1>11 DEF DeployControlPlane
<1>12. ASSUME NEW w \in writers, WriterSucceeds(w) PROVE TypeInv'
  BY <1>12, WriteType DEF WriterSucceeds
<1>13. CASE SaveClusterCerts
  BY <1>13 DEF SaveClusterCerts
<1>14. CASE SaveState
  BY <1>14, NameFacts DEF SaveState
<1>15. CASE SaveTimeout
  BY <1>15, NameFacts DEF SaveTimeout, Fault
<1>16. CASE Abort
  BY <1>16, NameFacts DEF Abort, Fault
<1>17. ASSUME NEW w \in leaked, LeakedWriterSucceeds(w) PROVE TypeInv'
  BY <1>17, WriteType DEF LeakedWriterSucceeds
<1>18. ASSUME NEW h \in Hosts, DeployerExits(h) PROVE TypeInv'
  <2>1. tmp' \in [Hosts -> [Names -> Cert]] /\ ssl' \in [Hosts -> [Names -> Cert]]
    BY <1>18, WrittenType DEF DeployerExits
  <2>2. deployer' \in [Hosts -> [st : {"absent", "running", "exited"},
                                 env : [Names -> Cert], dest : {"tmp", "ssl"}]]
    BY <1>18 DEF DeployerExits
  <2> QED BY <1>18, <2>1, <2>2 DEF DeployerExits
<1>19. ASSUME NEW h \in Hosts, DeployerKilled(h) PROVE TypeInv'
  <2>1. tmp' \in [Hosts -> [Names -> Cert]] /\ ssl' \in [Hosts -> [Names -> Cert]]
    <3>1. PICK k \in DOMAIN EnvOrder, names \in SUBSET Names :
             /\ EnvOrder[k] \in Payload(h)
             /\ LET new == Written(Target(h), deployer[h].env, names)
                IN  Into(h, new) \/ Into(h, HalfWritten(new, deployer[h].env, EnvOrder[k]))
      BY <1>19 DEF DeployerKilled, Payload
    <3>2. EnvOrder[k] \in Names /\ deployer[h].env \in [Names -> Cert]
      BY <3>1 DEF Payload
    <3> QED BY <3>1, <3>2, WrittenType
  <2>2. deployer' \in [Hosts -> [st : {"absent", "running", "exited"},
                                 env : [Names -> Cert], dest : {"tmp", "ssl"}]]
    BY <1>19 DEF DeployerKilled
  <2> QED BY <1>19, <2>1, <2>2 DEF DeployerKilled, Fault
<1>20. CASE ApiRestarts
  BY <1>20 DEF ApiRestarts
<1>21. CASE UNCHANGED vars
  BY <1>21 DEF vars
<1> QED
  BY <1>1, <1>2, <1>3, <1>4, <1>5, <1>6, <1>7, <1>8, <1>9, <1>10, <1>11,
     <1>12, <1>13, <1>14, <1>15, <1>16, <1>17, <1>18, <1>19, <1>20, <1>21
     DEF Next, RkeStep

-----------------------------------------------------------------------------
(* Writers, and what they and the run cover.                                *)

LEMMA WriterInvStep == TypeInv /\ WriterInv /\ CoverInv /\ [Next]_vars => WriterInv'
<1> SUFFICES ASSUME TypeInv, WriterInv, CoverInv, [Next]_vars PROVE WriterInv'
  OBVIOUS
<1> USE DEF WriterInv, CertWriter, hostVars, savedVars, procVars, envVars,
   Goto, Fail, Return
<1>1. ASSUME NEW c \in Configs, StartUp(c) PROVE WriterInv'
  BY <1>1 DEF StartUp
<1>2. CASE NoState
  BY <1>2 DEF NoState, TypeInv
<1>3. CASE GetClusterState
  BY <1>3 DEF GetClusterState, TypeInv
<1>4. CASE RecoverBackup
  BY <1>4 DEF RecoverBackup
<1>5. CASE GenerateCerts
  BY <1>5 DEF GenerateCerts
<1>6. CASE ReconcileEtcdCerts
  BY <1>6 DEF ReconcileEtcdCerts
<1>7. ASSUME NEW h \in Hosts, StartDeployer(h) PROVE WriterInv'
  BY <1>7 DEF StartDeployer
<1>8. ASSUME NEW h \in Hosts, DeployerDone(h) PROVE WriterInv'
  BY <1>8 DEF DeployerDone
<1>9. CASE BackedUp
  BY <1>9 DEF BackedUp
<1>10. CASE DeployAdminConfig
  BY <1>10 DEF DeployAdminConfig
<1>11. CASE DeployControlPlane
  <2>1. \A w \in writers' : \E n \in Names :
           certs[n] # None /\ w.obj = n /\ w.val = certs[n]
    BY <1>11 DEF DeployControlPlane, WritersFor
  <2>2. \A w \in writers' :
           w.obj \in Names /\ w.obj # "state" /\ w.val \in Cert /\ Whole(w.val)
    BY <2>1, NameFacts DEF CoverInv, TypeInv
  <2> QED BY <1>11, <2>2 DEF DeployControlPlane
<1>12. ASSUME NEW w \in writers, WriterSucceeds(w) PROVE WriterInv'
  BY <1>12 DEF WriterSucceeds
<1>13. CASE SaveClusterCerts
  BY <1>13 DEF SaveClusterCerts, StateWriter, TypeInv
<1>14. CASE SaveState
  BY <1>14 DEF SaveState
<1>15. CASE SaveTimeout
  BY <1>15 DEF SaveTimeout
<1>16. CASE Abort
  BY <1>16 DEF Abort
<1>17. ASSUME NEW w \in leaked, LeakedWriterSucceeds(w) PROVE WriterInv'
  BY <1>17 DEF LeakedWriterSucceeds
<1>18. ASSUME NEW h \in Hosts, DeployerExits(h) PROVE WriterInv'
  BY <1>18 DEF DeployerExits
<1>19. ASSUME NEW h \in Hosts, DeployerKilled(h) PROVE WriterInv'
  BY <1>19 DEF DeployerKilled
<1>20. CASE ApiRestarts
  BY <1>20 DEF ApiRestarts
<1>21. CASE UNCHANGED vars
  BY <1>21 DEF vars
<1> QED
  BY <1>1, <1>2, <1>3, <1>4, <1>5, <1>6, <1>7, <1>8, <1>9, <1>10, <1>11,
     <1>12, <1>13, <1>14, <1>15, <1>16, <1>17, <1>18, <1>19, <1>20, <1>21
     DEF Next, RkeStep

LEMMA CoverInvStep == TypeInv /\ WriterInv /\ CoverInv /\ [Next]_vars => CoverInv'
<1> SUFFICES ASSUME TypeInv, WriterInv, CoverInv, [Next]_vars PROVE CoverInv'
  OBVIOUS
<1> USE DEF CoverInv, Equipped, CertWriter, hostVars, savedVars, procVars,
   envVars, Goto, Fail, Return
<1>1. ASSUME NEW c \in Configs, StartUp(c) PROVE CoverInv'
  BY <1>1 DEF StartUp
<1>2. CASE NoState
  BY <1>2 DEF NoState
<1>3. CASE GetClusterState
  <2>1. CASE \A n \in CertNames(state) : secrets[n] # None
    <3> DEFINE f == [n \in Names |-> IF n \in CertNames(state) THEN secrets[n] ELSE None]
    <3>1. certs' = RegenerateAPICertificate(f) /\ cur' = state /\ pc' = "reconcile"
      BY <1>3, <2>1 DEF GetClusterState
    <3>2. "ca" \in CertNames(state) /\ "api" \in CertNames(state)
      BY DEF CertNames
    <3>3. f \in [Names -> Cert] /\ Whole(f["ca"]) /\ Whole(f["api"])
      BY <2>1, <3>2, NameFacts DEF TypeInv
    <3>4. certs'["api"] = SignedBy(f["ca"].crt, runs, f["api"].key)
      BY <3>1, <3>3, NameFacts DEF RegenerateAPICertificate
    <3>5. Whole(certs'["api"]) /\ certs'["api"] # None
      BY <3>3, <3>4 DEF Whole, None, SignedBy
    <3>6. \A n \in Names \ {"api"} : certs'[n] = f[n]
      BY <3>1, <3>3 DEF RegenerateAPICertificate
    <3>7. \A n \in Names : certs'[n] = None \/ Whole(certs'[n])
      BY <3>5, <3>6
    <3>8. \A n \in CertNames(state) : certs'[n] # None
      BY <2>1, <3>5, <3>6, NameFacts DEF TypeInv
    <3> HIDE DEF f
    <3>9. UNCHANGED <<savedVars, writers, leaked, conf>>
      BY <1>3, <2>1 DEF GetClusterState
    <3> QED BY <3>1, <3>7, <3>8, <3>9
  <2>2. CASE \E n \in CertNames(state) : secrets[n] = None
    BY <1>3, <2>2 DEF GetClusterState, NoCerts
  <2> QED BY <2>1, <2>2
<1>4. CASE RecoverBackup
  <2>1. CASE pc' = "hosts"
    <3>1. PICK found :
             /\ "ok" \in FetchCertificatesFromHost(found)
             /\ certs' = [n \in Names |-> IF n \in CertNames(conf) THEN found[n] ELSE None]
      BY <1>4, <2>1 DEF RecoverBackup
    <3>2. \A n \in CertNames(conf) : Whole(found[n])
      BY <3>1 DEF FetchCertificatesFromHost, Whole
    <3>3. \A n \in CertNames(conf) : found[n] # None
      BY <3>2 DEF Whole, None
    <3>4. \A n \in CertNames(conf) : certs'[n] # None
      BY <3>1, <3>3, NameFacts DEF TypeInv
    <3>5. \A n \in Names : certs'[n] = None \/ Whole(certs'[n])
      BY <3>1, <3>2
    <3>6. UNCHANGED <<savedVars, writers, leaked, conf>>
      BY <1>4, <2>1 DEF RecoverBackup
    <3> QED BY <2>1, <3>4, <3>5, <3>6
  <2>2. CASE pc' = "generate"
    BY <1>4, <2>2 DEF RecoverBackup
  <2>3. CASE pc' = "idle"
    BY <1>4, <2>3 DEF RecoverBackup, NoCerts
  <2> QED BY <1>4, <2>1, <2>2, <2>3 DEF RecoverBackup
<1>5. CASE GenerateCerts
  <2>1. made' \in Nat /\ made' # 0 /\ runs \in Nat /\ runs # 0
    BY <1>5 DEF GenerateCerts, TypeInv
  <2>2. Whole(SignedBy(made', runs, runs)) /\ SignedBy(made', runs, runs) # None
    BY <2>1, SignedFacts DEF Signed
  <2>3. certs' = [n \in Names |-> IF n \in CertNames(conf)
                                  THEN SignedBy(made', runs, runs) ELSE None]
    BY <1>5 DEF GenerateCerts
  <2>4. \A n \in Names : certs'[n] = None \/ Whole(certs'[n])
    BY <2>2, <2>3
  <2>5. \A n \in CertNames(conf) : certs'[n] # None
    BY <2>2, <2>3, NameFacts DEF TypeInv
  <2> QED BY <1>5, <2>4, <2>5 DEF GenerateCerts
<1>6. CASE ReconcileEtcdCerts
  <2>1. Whole(certs["ca"]) /\ certs["ca"].crt \in Nat /\ runs \in Nat /\ runs # 0
    BY <1>6, NameFacts DEF ReconcileEtcdCerts, CertNames, TypeInv, Cert
  <2>2. \A n \in Names : Whole(RegenerateEtcdCertificate(certs, n)[n])
                         /\ RegenerateEtcdCertificate(certs, n)[n] # None
    <3> TAKE n \in Names
    <3>1. RegenerateEtcdCertificate(certs, n)[n] = SignedBy(certs["ca"].crt, runs, runs)
      BY DEF RegenerateEtcdCertificate, TypeInv
    <3> QED BY <2>1, <3>1, SignedFacts DEF Whole, Signed
  <2>3. \A n \in Names : certs'[n] = None \/ Whole(certs'[n])
    BY <1>6, <2>2 DEF ReconcileEtcdCerts
  <2>4. \A n \in CertNames(conf) : n \in Names /\ (n \in conf \ cur \/ n \in CertNames(cur))
    BY NameFacts DEF CertNames, TypeInv
  <2>5. \A n \in CertNames(conf) : certs'[n] # None
    BY <1>6, <2>2, <2>4 DEF ReconcileEtcdCerts
  <2> QED BY <1>6, <2>3, <2>5 DEF ReconcileEtcdCerts
<1>7. ASSUME NEW h \in Hosts, StartDeployer(h) PROVE CoverInv'
  BY <1>7 DEF StartDeployer, NoCerts
<1>8. ASSUME NEW h \in Hosts, DeployerDone(h) PROVE CoverInv'
  BY <1>8 DEF DeployerDone
<1>9. CASE BackedUp
  BY <1>9 DEF BackedUp
<1>10. CASE DeployAdminConfig
  BY <1>10 DEF DeployAdminConfig
<1>11. CASE DeployControlPlane
  <2>1. \A n \in CertNames(conf) : certs[n] # None /\ n \in Names
    BY <1>11, NameFacts DEF DeployControlPlane, TypeInv
  <2>2. \A n \in CertNames(conf) : \E w \in writers' : w.obj = n
    <3> TAKE n \in CertNames(conf)
    <3>1. [obj |-> n, val |-> certs[n], ca |-> kube] \in writers'
      BY <1>11, <2>1 DEF DeployControlPlane, WritersFor
    <3> QED BY <3>1
  <2>3. \A w \in writers' : w.obj \in Names
    BY <1>11 DEF DeployControlPlane, WritersFor
  <2> QED BY <1>11, <2>2, <2>3, NameFacts DEF DeployControlPlane
<1>12. ASSUME NEW w \in writers, WriterSucceeds(w) PROVE CoverInv'
  <2>1. /\ \A n \in Names : secrets'[n] = None \/ Whole(secrets'[n])
        /\ \A n \in Names : secrets[n] # None => secrets'[n] # None
        /\ CertWriter(w) => secrets'[w.obj] # None
        /\ state' # state => ~CertWriter(w) /\ state' = w.etcd
    BY <1>12, WriteCovers DEF WriterSucceeds
  <2>2. \A n \in CertNames(conf) : n \in Names
    BY NameFacts DEF TypeInv
  <2>3. \A x \in writers \cup leaked : ~CertWriter(x) => CertNames(x.etcd) \subseteq Names
    BY NameFacts DEF WriterInv
  <2>4. CertNames(state) \subseteq Names
    BY NameFacts DEF TypeInv
  <2> QED BY <1>12, <2>1, <2>2, <2>3, <2>4 DEF WriterSucceeds, WriterInv
<1>13. CASE SaveClusterCerts
  BY <1>13 DEF SaveClusterCerts, StateWriter
<1>14. CASE SaveState
  BY <1>14 DEF SaveState, NoCerts
<1>15. CASE SaveTimeout
  BY <1>15 DEF SaveTimeout, NoCerts
<1>16. CASE Abort
  BY <1>16 DEF Abort, NoCerts
<1>17. ASSUME NEW w \in leaked, LeakedWriterSucceeds(w) PROVE CoverInv'
  <2>1. /\ \A n \in Names : secrets'[n] = None \/ Whole(secrets'[n])
        /\ \A n \in Names : secrets[n] # None => secrets'[n] # None
        /\ state' # state => ~CertWriter(w) /\ state' = w.etcd
    BY <1>17, WriteCovers DEF LeakedWriterSucceeds
  <2>2. \A n \in CertNames(conf) : n \in Names
    BY NameFacts DEF TypeInv
  <2>3. \A x \in writers \cup leaked : ~CertWriter(x) => CertNames(x.etcd) \subseteq Names
    BY NameFacts DEF WriterInv
  <2>4. CertNames(state) \subseteq Names
    BY NameFacts DEF TypeInv
  <2> QED BY <1>17, <2>1, <2>2, <2>3, <2>4 DEF LeakedWriterSucceeds
<1>18. ASSUME NEW h \in Hosts, DeployerExits(h) PROVE CoverInv'
  BY <1>18 DEF DeployerExits
<1>19. ASSUME NEW h \in Hosts, DeployerKilled(h) PROVE CoverInv'
  BY <1>19 DEF DeployerKilled
<1>20. CASE ApiRestarts
  BY <1>20 DEF ApiRestarts
<1>21. CASE UNCHANGED vars
  BY <1>21 DEF vars
<1> QED
  BY <1>1, <1>2, <1>3, <1>4, <1>5, <1>6, <1>7, <1>8, <1>9, <1>10, <1>11,
     <1>12, <1>13, <1>14, <1>15, <1>16, <1>17, <1>18, <1>19, <1>20, <1>21
     DEF Next, RkeStep

LEMMA LatestInvStep == TypeInv /\ WriterInv /\ LatestInv /\ [Next]_vars => LatestInv'
<1> SUFFICES ASSUME TypeInv, WriterInv, LatestInv, [Next]_vars PROVE LatestInv'
  OBVIOUS
<1> USE DEF LatestInv, CertWriter, hostVars, savedVars, procVars, envVars,
   Goto, Fail, Return
<1>1. ASSUME NEW c \in Configs, StartUp(c) PROVE LatestInv'
  BY <1>1 DEF StartUp
<1>2. CASE NoState
  BY <1>2 DEF NoState
<1>3. CASE GetClusterState
  BY <1>3 DEF GetClusterState, TypeInv
<1>4. CASE RecoverBackup
  BY <1>4 DEF RecoverBackup, TypeInv
<1>5. CASE GenerateCerts
  BY <1>5 DEF GenerateCerts
<1>6. CASE ReconcileEtcdCerts
  BY <1>6 DEF ReconcileEtcdCerts
<1>7. ASSUME NEW h \in Hosts, StartDeployer(h) PROVE LatestInv'
  BY <1>7 DEF StartDeployer
<1>8. ASSUME NEW h \in Hosts, DeployerDone(h) PROVE LatestInv'
  BY <1>8 DEF DeployerDone
<1>9. CASE BackedUp
  BY <1>9 DEF BackedUp
<1>10. CASE DeployAdminConfig
  BY <1>10 DEF DeployAdminConfig
<1>11. CASE DeployControlPlane
  <2>1. pc' = "save_certs" /\ UNCHANGED <<certs, result, state, late>> /\ result # "up"
    BY <1>11 DEF DeployControlPlane
  <2>2. writers' = {[obj |-> n, val |-> certs[n], ca |-> kube] :
                       n \in {m \in Names : certs[m] # None}}
    BY <1>11 DEF DeployControlPlane, WritersFor
  <2>3. \A w \in writers' : w.val = certs[w.obj]
    BY <2>2
  <2>4. \A n \in Names : certs[n] # None => \E w \in writers' : w.obj = n
    <3> TAKE n \in Names
    <3> HAVE certs[n] # None
    <3>1. [obj |-> n, val |-> certs[n], ca |-> kube] \in writers'
      BY <2>2
    <3> QED BY <3>1
  <2> QED BY <2>1, <2>3, <2>4
<1>12. ASSUME NEW w \in writers, WriterSucceeds(w) PROVE LatestInv'
  <2>1. /\ UNCHANGED <<pc, certs, conf, result>> /\ result # "up" /\ Write(w)
        /\ writers' = writers \ {w} /\ late' = late \ {w.obj}
        /\ pc \in {"save_certs", "save_state"}
    BY <1>12 DEF WriterSucceeds, WriterInv, TypeInv
  <2>2. CASE pc = "save_certs"
    <3>1. w.obj \in Names /\ w.obj # "state" /\ w.val = certs[w.obj]
      BY <2>2 DEF WriterInv
    <3>2. \A n \in Names : secrets'[n] = IF n = w.obj THEN certs[n] ELSE secrets[n]
      BY <2>1, <3>1 DEF Write, TypeInv
    <3> QED BY <2>1, <2>2, <3>1, <3>2
  <2>3. CASE pc = "save_state"
    <3>1. w.obj = "state" /\ w.etcd = conf /\ "state" \notin Names
      BY <2>3, NameFacts DEF WriterInv
    <3>2. state' = conf /\ UNCHANGED secrets
      BY <2>1, <3>1 DEF Write
    <3> QED BY <2>1, <2>3, <3>1, <3>2
  <2> QED BY <2>1, <2>2, <2>3
<1>13. CASE SaveClusterCerts
  BY <1>13 DEF SaveClusterCerts, StateWriter, TypeInv
<1>14. CASE SaveState
  BY <1>14 DEF SaveState
<1>15. CASE SaveTimeout
  BY <1>15 DEF SaveTimeout
<1>16. CASE Abort
  BY <1>16 DEF Abort
<1>17. ASSUME NEW w \in leaked, LeakedWriterSucceeds(w) PROVE LatestInv'
  BY <1>17 DEF LeakedWriterSucceeds, Write, WriterInv, TypeInv
<1>18. ASSUME NEW h \in Hosts, DeployerExits(h) PROVE LatestInv'
  BY <1>18 DEF DeployerExits
<1>19. ASSUME NEW h \in Hosts, DeployerKilled(h) PROVE LatestInv'
  BY <1>19 DEF DeployerKilled
<1>20. CASE ApiRestarts
  BY <1>20 DEF ApiRestarts
<1>21. CASE UNCHANGED vars
  BY <1>21 DEF vars
<1> QED
  BY <1>1, <1>2, <1>3, <1>4, <1>5, <1>6, <1>7, <1>8, <1>9, <1>10, <1>11,
     <1>12, <1>13, <1>14, <1>15, <1>16, <1>17, <1>18, <1>19, <1>20, <1>21
     DEF Next, RkeStep

LEMMA BaseInvariant == CertSpec => []BaseInv
<1>1. Init => BaseInv
  <2> SUFFICES ASSUME Init PROVE WriterInv /\ CoverInv /\ LatestInv
    BY TypeInvInit DEF BaseInv
  <2> QED
    BY NameFacts DEF Init, WriterInv, CoverInv, LatestInv, NoCerts, Equipped
<1>2. BaseInv /\ [Next]_vars => BaseInv'
  BY TypeInvStep, WriterInvStep, CoverInvStep, LatestInvStep DEF BaseInv
<1> QED BY <1>1, <1>2, PTL DEF CertSpec

\* However the goroutines of a run and those that earlier runs left behind are
\* interleaved, killed or delayed, a saved state never names a certificate
\* that is not saved.
THEOREM SecretsCoverStateHolds == CertSpec => []SecretsCoverState
<1>1. BaseInv => SecretsCoverState
  BY DEF BaseInv, CoverInv, SecretsCoverState
<1> QED BY <1>1, BaseInvariant, PTL

-----------------------------------------------------------------------------
(* One CA.                                                                  *)

\* An excuse, once there, stays.
LEMMA ExcusesStay ==
  ASSUME TypeInv, [Next]_vars, ~torn', ~reissued'
  PROVE  ~torn /\ ~reissued
<1> USE DEF TypeInv, hostVars, savedVars, procVars, envVars, Fail, Return
<1>1. CASE RkeStep
  <2>1. CASE RecoverBackup
    BY <2>1 DEF RecoverBackup
  <2>2. CASE GenerateCerts
    BY <2>2 DEF GenerateCerts
  <2>3. CASE NoState \/ GetClusterState \/ ReconcileEtcdCerts
    BY <2>3 DEF NoState, GetClusterState, ReconcileEtcdCerts
  <2>4. ASSUME NEW h \in Hosts, StartDeployer(h) \/ DeployerDone(h)
        PROVE  ~torn /\ ~reissued
    BY <2>4 DEF StartDeployer, DeployerDone
  <2>5. CASE BackedUp \/ DeployAdminConfig \/ DeployControlPlane
    BY <2>5 DEF BackedUp, DeployAdminConfig, DeployControlPlane
  <2>6. ASSUME NEW w \in writers, WriterSucceeds(w) PROVE ~torn /\ ~reissued
    BY <2>6 DEF WriterSucceeds
  <2>7. CASE SaveClusterCerts \/ SaveState \/ SaveTimeout
    BY <2>7 DEF SaveClusterCerts, SaveState, SaveTimeout
  <2> QED BY <1>1, <2>1, <2>2, <2>3, <2>4, <2>5, <2>6, <2>7 DEF RkeStep
<1>2. CASE \E c \in Configs : StartUp(c)
  BY <1>2 DEF StartUp
<1>3. CASE Abort
  BY <1>3 DEF Abort
<1>4. CASE \E w \in leaked : LeakedWriterSucceeds(w)
  BY <1>4 DEF LeakedWriterSucceeds
<1>5. CASE \E h \in Hosts : DeployerExits(h) \/ DeployerKilled(h)
  BY <1>5 DEF DeployerExits, DeployerKilled
<1>6. CASE ApiRestarts \/ UNCHANGED vars
  BY <1>6 DEF ApiRestarts, vars
<1> QED BY <1>1, <1>2, <1>3, <1>4, <1>5, <1>6 DEF Next

\* A step that touches no backup and starts no new one.
LEMMA BackupStays ==
  ASSUME BackupInv, UNCHANGED <<tmp, deployer>>,
         pc' \notin {"generate", "backup"} \/ UNCHANGED <<pc, conf, group>>
  PROVE  BackupInv'
<1>1. \A h \in Hosts : (BacksUp(h)' <=> BacksUp(h)) /\ (NextBackup(h)' => NextBackup(h))
  BY DEF BacksUp, NextBackup
<1>2. \A h \in Hosts : (Uniform(tmp[h]))' <=> Uniform(tmp[h])
  BY DEF Uniform
<1>3. \A h \in Hosts : (Uniform(deployer[h].env))' <=> Uniform(deployer[h].env)
  BY DEF Uniform
<1> QED BY <1>1, <1>2, <1>3 DEF BackupInv

LEMMA BackupInvStep ==
  BaseInv /\ OneCAInv /\ ~torn' /\ ~reissued' /\ [Next]_vars => BackupInv'
<1> SUFFICES ASSUME BaseInv, OneCAInv, ~torn', ~reissued', [Next]_vars PROVE BackupInv'
  OBVIOUS
<1>0. ~torn /\ ~reissued /\ TypeInv /\ BackupInv /\ SavedInv
  BY ExcusesStay DEF BaseInv, OneCAInv
<1> USE DEF hostVars, savedVars, procVars, envVars, Goto, Fail, Return
<1>1. ASSUME NEW c \in Configs, StartUp(c) PROVE BackupInv'
  BY <1>1, <1>0, BackupStays DEF StartUp
<1>2. CASE NoState
  BY <1>2, <1>0, BackupStays DEF NoState
<1>3. CASE GetClusterState
  <2>1. pc' \notin {"generate", "backup"}
    BY <1>3 DEF GetClusterState
  <2> QED BY <1>0, <1>3, <2>1, BackupStays DEF GetClusterState
<1>4. CASE RecoverBackup
  <2> DEFINE first == FirstOf(conf)
  <2>1. UNCHANGED <<tmp, deployer>>
    BY <1>4 DEF RecoverBackup
  <2>2. CASE pc' # "generate"
    BY <1>0, <1>4, <2>1, <2>2, BackupStays DEF RecoverBackup
  <2>3. CASE pc' = "generate"
    <3>1. ~Overwritten(first) /\ conf' = conf
      BY <1>4, <2>3 DEF RecoverBackup
    <3>2. \A n \in Names : BacksUp(first) /\ deployer[first].env[n] # None =>
             deployer[first].env[n] = tmp[first][n]
      BY <3>1 DEF Overwritten, Readable, BacksUp
    <3>3. \A h \in Hosts : (BacksUp(h)' <=> BacksUp(h))
                           /\ (NextBackup(h)' => h = first)
      BY <2>1, <2>3, <3>1 DEF BacksUp, NextBackup
    <3> QED BY <1>0, <2>1, <2>3, <3>2, <3>3 DEF BackupInv, Uniform
  <2> QED BY <2>2, <2>3
<1>5. CASE GenerateCerts
  <2> DEFINE first == FirstOf(conf)
  <2>1. UNCHANGED <<tmp, deployer, conf>> /\ group' = {first} /\ pc' = "backup"
    BY <1>5 DEF GenerateCerts
  <2>2. \A n \in Names \ CertNames(conf) : tmp[first][n] = None
    BY <1>5 DEF GenerateCerts
  <2>3. \A h \in Hosts : /\ BacksUp(h)' <=> BacksUp(h)
                         /\ NextBackup(h)' => h = first /\ NextBackup(h)
    BY <1>5, <2>1 DEF GenerateCerts, BacksUp, NextBackup
  <2> QED BY <1>0, <2>1, <2>2, <2>3 DEF BackupInv, Uniform, CertNames
<1>6. CASE ReconcileEtcdCerts
  BY <1>6, <1>0, BackupStays DEF ReconcileEtcdCerts
<1>7. ASSUME NEW h \in Hosts, StartDeployer(h) PROVE BackupInv'
  <2>1. CASE deployer[h].st = "running"
    BY <1>0, <1>7, <2>1, BackupStays DEF StartDeployer
  <2>2. CASE deployer[h].st # "running"
    <3>1. /\ UNCHANGED <<tmp, pc, conf>> /\ group' = group \ {h} /\ h \in group
          /\ deployer' = [deployer EXCEPT ![h] =
                [st |-> "running", env |-> EnvFor(h),
                 dest |-> IF pc = "backup" THEN "tmp" ELSE "ssl"]]
      BY <1>7, <2>2 DEF StartDeployer
    <3>2. deployer'[h].dest = (IF pc = "backup" THEN "tmp" ELSE "ssl")
          /\ deployer'[h].env = EnvFor(h)
      BY <1>0, <3>1 DEF TypeInv
    <3>3. \A g \in Hosts \ {h} : deployer'[g] = deployer[g]
      BY <1>0, <3>1 DEF TypeInv
    <3>4. \A g \in Hosts \ {h} : (BacksUp(g)' <=> BacksUp(g))
                                 /\ (NextBackup(g)' => NextBackup(g))
      BY <3>1, <3>3 DEF BacksUp, NextBackup
    <3>5. CASE pc = "backup"
      <4>1. /\ Uniform(certs) /\ certs["ca"] # None
            /\ \A n \in CertNames(conf) : certs[n] # None
        BY <1>0, <3>5 DEF SavedInv, Holding, Equipped, BaseInv, CoverInv,
           CertNames
      <4>2. \A n \in Names : EnvFor(h)[n] = IF n \in CertNames(conf) THEN certs[n] ELSE None
        BY <3>5 DEF EnvFor, DeployNames
      <4>3. EnvFor(h)["ca"] = certs["ca"]
        BY <4>2, NameFacts DEF CertNames
      <4>4. Uniform(EnvFor(h)) /\ EnvFor(h)["ca"] # None
        BY <4>1, <4>2, <4>3 DEF Uniform
      <4>5. \A n \in Names : EnvFor(h)[n] = None => tmp[h][n] = None
        BY <1>0, <3>1, <3>5, <4>1, <4>2 DEF BackupInv
      <4>6. ~NextBackup(h)'
        BY <3>1, <3>5 DEF NextBackup
      <4>7. (Uniform(deployer[h].env))' /\ deployer'[h].env["ca"] # None
        BY <3>2, <4>4 DEF Uniform
      <4> QED
        BY <1>0, <3>1, <3>2, <3>3, <3>4, <4>5, <4>6, <4>7
           DEF BackupInv, Uniform, CertNames
    <3>6. CASE pc # "backup"
      <4>1. ~BacksUp(h)'
        BY <3>2, <3>6 DEF BacksUp
      <4> QED
        BY <1>0, <3>1, <3>3, <3>4, <3>6, <4>1 DEF BackupInv, Uniform
    <3> QED BY <3>5, <3>6
  <2> QED BY <2>1, <2>2
<1>8. ASSUME NEW h \in Hosts, DeployerDone(h) PROVE BackupInv'
  <2>1. UNCHANGED <<tmp, pc, conf, group>>
    BY <1>8 DEF DeployerDone
  <2>2. \A g \in Hosts \ {h} : deployer'[g] = deployer[g]
    BY <1>0, <1>8 DEF DeployerDone, TypeInv
  <2>3. ~BacksUp(h)'
    BY <1>0, <1>8 DEF DeployerDone, BacksUp, NoDeployer, TypeInv
  <2>4. \A g \in Hosts \ {h} : (BacksUp(g)' <=> BacksUp(g))
                               /\ (NextBackup(g)' => NextBackup(g))
    BY <2>1, <2>2 DEF BacksUp, NextBackup
  <2> QED BY <1>0, <2>1, <2>2, <2>3, <2>4 DEF BackupInv, Uniform
<1>9. CASE BackedUp
  BY <1>9, <1>0, BackupStays DEF BackedUp
<1>10. CASE DeployAdminConfig
  BY <1>10, <1>0, BackupStays DEF DeployAdminConfig
<1>11. CASE DeployControlPlane
  BY <1>11, <1>0, BackupStays DEF DeployControlPlane
<1>12. ASSUME NEW w \in writers, WriterSucceeds(w) PROVE BackupInv'
  BY <1>12, <1>0, BackupStays DEF WriterSucceeds
<1>13. CASE SaveClusterCerts
  BY <1>13, <1>0, BackupStays DEF SaveClusterCerts
<1>14. CASE SaveState
  BY <1>14, <1>0, BackupStays DEF SaveState
<1>15. CASE SaveTimeout
  BY <1>15, <1>0, BackupStays DEF SaveTimeout
<1>16. CASE Abort
  BY <1>16, <1>0, BackupStays DEF Abort
<1>17. ASSUME NEW w \in leaked, LeakedWriterSucceeds(w) PROVE BackupInv'
  BY <1>17, <1>0, BackupStays DEF LeakedWriterSucceeds
<1>18. ASSUME NEW h \in Hosts, DeployerExits(h) PROVE BackupInv'
  <2>1. UNCHANGED <<pc, conf, group>>
    BY <1>18 DEF DeployerExits
  <2>2. \A g \in Hosts \ {h} : deployer'[g] = deployer[g] /\ tmp'[g] = tmp[g]
    BY <1>0, <1>18 DEF DeployerExits, Into, TypeInv
  <2>3. ~BacksUp(h)'
    BY <1>0, <1>18 DEF DeployerExits, BacksUp, TypeInv
  <2>4. \A g \in Hosts \ {h} : (BacksUp(g)' <=> BacksUp(g))
                               /\ (NextBackup(g)' => NextBackup(g))
    BY <2>1, <2>2 DEF BacksUp, NextBackup
  <2>5. CASE deployer[h].dest = "tmp"
    <3>1. BacksUp(h)
      BY <1>18, <2>5 DEF DeployerExits, BacksUp
    <3>2. tmp'[h] = Written(tmp[h], deployer[h].env, Payload(h))
      BY <1>0, <1>18, <2>5 DEF DeployerExits, Into, Target, TypeInv
    <3>3. \A n \in Names : tmp'[h][n] = deployer[h].env[n]
      BY <1>0, <3>1, <3>2 DEF BackupInv, Written, Payload
    <3>4. (Uniform(tmp[h]))'
      BY <1>0, <3>1, <3>3, NameFacts DEF BackupInv, Uniform
    <3>5. NextBackup(h) => \A n \in Names : tmp'[h][n] = tmp[h][n]
      BY <1>0, <3>1, <3>3 DEF BackupInv
    <3>6. pc = "backup" /\ h \in group =>
             \A n \in Names \ CertNames(conf) : tmp'[h][n] = None
      BY <1>0, <3>5 DEF BackupInv, NextBackup
    <3> QED
      BY <1>0, <2>1, <2>2, <2>3, <2>4, <3>4, <3>6 DEF BackupInv, Uniform,
         CertNames
  <2>6. CASE deployer[h].dest # "tmp"
    <3>1. UNCHANGED tmp
      BY <1>18, <2>6 DEF DeployerExits, Into
    <3> QED
      BY <1>0, <2>1, <2>2, <2>3, <2>4, <3>1 DEF BackupInv, Uniform, CertNames
  <2> QED BY <2>5, <2>6
<1>19. ASSUME NEW h \in Hosts, DeployerKilled(h) PROVE BackupInv'
  BY <1>19 DEF DeployerKilled
<1>20. CASE ApiRestarts
  BY <1>20, <1>0, BackupStays DEF ApiRestarts
<1>21. CASE UNCHANGED vars
  BY <1>21, <1>0, BackupStays DEF vars
<1> QED
  BY <1>1, <1>2, <1>3, <1>4, <1>5, <1>6, <1>7, <1>8, <1>9, <1>10, <1>11,
     <1>12, <1>13, <1>14, <1>15, <1>16, <1>17, <1>18, <1>19, <1>20, <1>21
     DEF Next, RkeStep

\* What is saved after a write of a goroutine was saved before, or is written.
LEMMA SavedAfterWrite ==
  ASSUME BaseInv, NEW w \in writers \cup leaked, Write(w), leaked' \subseteq leaked
  PROVE  \A x \in Saved' : x \in Saved \/ (CertWriter(w) /\ x = w.val)
<1>1. CASE CertWriter(w)
  <2>1. w.obj \in Names /\ secrets' = [secrets EXCEPT ![w.obj] = w.val]
    BY <1>1 DEF BaseInv, WriterInv, CertWriter, Write
  <2>2. \A n \in Names : secrets'[n] = secrets[n] \/ secrets'[n] = w.val
    BY <2>1 DEF BaseInv, TypeInv
  <2> QED BY <1>1, <2>2 DEF Saved, CertWriter
<1>2. CASE ~CertWriter(w)
  BY <1>2 DEF Saved, CertWriter, Write
<1> QED BY <1>1, <1>2

\* What a run may leave behind is of the CA it works with.
LEMMA SavedAfterReturn ==
  ASSUME BaseInv, SavedInv, UNCHANGED secrets, pc' = "idle", writers' = {},
         leaked' = IF embedded THEN leaked \cup writers ELSE {}
  PROVE  SavedInv'
<1>1. \A x \in Saved' : x \in Saved \/ \E w \in writers : CertWriter(w) /\ x = w.val
  BY DEF Saved, CertWriter
<1>2. writers # {} => pc \in Holding /\ pc \in Equipped
  BY DEF BaseInv, WriterInv, Holding, Equipped
<1>4. CASE writers = {}
  BY <1>1, <1>4 DEF SavedInv, Holding, Equipped
<1>5. CASE writers # {}
  <2>1. \A x \in Saved' : Signed(x, certs["ca"].crt)
    BY <1>1, <1>2, <1>5 DEF SavedInv
  <2>2. \A x, y \in Saved' : Signed(x, y.crt)
    BY <2>1 DEF Signed
  <2> QED BY <1>5, <2>2 DEF SavedInv, Holding, Equipped
<1> QED BY <1>4, <1>5

LEMMA SavedInvStep ==
  BaseInv /\ OneCAInv /\ ~torn' /\ ~reissued' /\ [Next]_vars => SavedInv'
<1> SUFFICES ASSUME BaseInv, OneCAInv, ~torn', ~reissued', [Next]_vars PROVE SavedInv'
  OBVIOUS
<1>0. ~torn /\ ~reissued /\ TypeInv /\ BackupInv /\ SavedInv
  BY ExcusesStay DEF BaseInv, OneCAInv
<1> USE DEF hostVars, savedVars, procVars, envVars, Goto, Fail, Return,
   CertWriter
<1>1. ASSUME NEW c \in Configs, StartUp(c) PROVE SavedInv'
  BY <1>1, <1>0 DEF StartUp, SavedInv, Saved, Holding, Equipped
<1>2. CASE NoState
  BY <1>2, <1>0 DEF NoState, SavedInv, Saved, Holding, Equipped
<1>3. CASE GetClusterState
  <2>1. CASE \A n \in CertNames(state) : secrets[n] # None
    <3> DEFINE f == [n \in Names |-> IF n \in CertNames(state) THEN secrets[n] ELSE None]
               x == secrets["ca"]
    <3>1. certs' = RegenerateAPICertificate(f) /\ UNCHANGED <<secrets, leaked, writers>>
      BY <1>3, <2>1 DEF GetClusterState
    <3>2. {"ca", "api"} \subseteq CertNames(state) /\ CertNames(state) \subseteq Names
      BY <1>0, NameFacts DEF CertNames, TypeInv
    <3>3. \A n \in CertNames(state) : secrets[n] \in Saved
      BY <2>1, <3>2 DEF Saved
    <3>4. \A n \in CertNames(state) : Signed(secrets[n], x.crt)
      BY <1>0, <3>2, <3>3 DEF SavedInv
    <3>5. f \in [Names -> Cert] /\ f["ca"] = x /\ f["api"] = secrets["api"] /\ x \in Cert
      BY <1>0, <3>2, NameFacts DEF TypeInv
    <3>6. certs'["api"] = SignedBy(x.crt, runs, secrets["api"].key)
      BY <3>1, <3>5, NameFacts DEF RegenerateAPICertificate
    <3>7. Signed(certs'["api"], x.crt)
      <4>1. Whole(x) /\ Whole(secrets["api"]) /\ x \in Cert /\ secrets["api"] \in Cert
        BY <1>0, <2>1, <3>2, NameFacts DEF BaseInv, CoverInv, TypeInv
      <4>2. /\ x.crt \in Nat /\ x.crt # 0 /\ runs \in Nat
            /\ secrets["api"].key \in Nat /\ secrets["api"].key # 0
        BY <1>0, <4>1 DEF Whole, Cert, TypeInv
      <4> HIDE DEF x
      <4> QED BY <3>6, <4>2, SignedFacts
    <3>8. \A n \in Names \ {"api"} : certs'[n] = f[n]
      BY <3>1, <3>5 DEF RegenerateAPICertificate
    <3>9. certs'["ca"] = x /\ \A n \in Names : certs'[n] = None \/ Signed(certs'[n], x.crt)
      BY <3>2, <3>4, <3>5, <3>7, <3>8, NameFacts
    <3>10. (Uniform(certs))'
      BY <3>9 DEF Uniform
    <3>11. Saved' = Saved /\ \A y \in Saved : Signed(y, x.crt)
      BY <1>0, <3>1, <3>2, <3>3 DEF Saved, SavedInv
    <3>12. writers' = {}
      BY <1>3, <3>1 DEF GetClusterState, BaseInv, WriterInv
    <3> HIDE DEF f, x
    <3> QED BY <1>0, <3>9, <3>10, <3>11, <3>12 DEF SavedInv
  <2>2. CASE \E n \in CertNames(state) : secrets[n] = None
    BY <1>0, <1>3, <2>2, SavedAfterReturn DEF GetClusterState
  <2> QED BY <2>1, <2>2
<1>4. CASE RecoverBackup
  <2> DEFINE first == FirstOf(conf)
  <2>1. CASE pc' = "hosts"
    <3>1. PICK found :
             /\ \A n \in Names : found[n] \in Readable(first)[n]
             /\ torn' = (torn \/ Overwritten(first))
             /\ "ok" \in FetchCertificatesFromHost(found)
             /\ certs' = [n \in Names |-> IF n \in CertNames(conf) THEN found[n] ELSE None]
             /\ reissued' = (reissued \/ Clash(found["ca"].crt))
      BY <1>4, <2>1 DEF RecoverBackup
    <3>2. first \in Hosts /\ "ca" \in CertNames(conf) /\ CertNames(conf) \subseteq Names
      BY <1>0, <1>4, FirstOfFacts, NameFacts DEF RecoverBackup, TypeInv,
         CertNames
    <3>3. \A n \in Names : found[n] = tmp[first][n]
      BY <3>1 DEF Overwritten
    <3>4. \A n \in CertNames(conf) : found[n] # None
      BY <3>1 DEF FetchCertificatesFromHost, None
    <3>5. \A n \in CertNames(conf) : Signed(found[n], found["ca"].crt)
      BY <1>0, <3>2, <3>3, <3>4, NameFacts DEF BackupInv, Uniform
    <3>6. certs'["ca"] = found["ca"]
      BY <3>1, <3>2, NameFacts
    <3>7. (Uniform(certs))'
      BY <3>1, <3>5, <3>6 DEF Uniform
    <3>8. \A x \in Saved : Signed(x, found["ca"].crt)
      BY <1>0, <3>1 DEF Clash, SavedInv
    <3>9. UNCHANGED <<secrets, leaked, writers>>
      BY <1>4, <2>1 DEF RecoverBackup
    <3>10. writers' = {}
      BY <1>4, <3>9 DEF RecoverBackup, BaseInv, WriterInv
    <3>11. Saved' = Saved
      BY <3>9 DEF Saved
    <3> QED BY <1>0, <3>6, <3>7, <3>8, <3>10, <3>11 DEF SavedInv
  <2>2. CASE pc' = "generate"
    BY <1>0, <1>4, <2>2 DEF RecoverBackup, SavedInv, Saved, Holding, Equipped
  <2>3. CASE pc' = "idle"
    BY <1>0, <1>4, <2>3, SavedAfterReturn DEF RecoverBackup
  <2> QED BY <1>4, <2>1, <2>2, <2>3 DEF RecoverBackup
<1>5. CASE GenerateCerts
  <2> DEFINE new == SignedBy(made', runs, runs)
  <2>1. /\ certs' = [n \in Names |-> IF n \in CertNames(conf) THEN new ELSE None]
        /\ UNCHANGED <<secrets, leaked, writers>> /\ ~Clash(made')
        /\ made' \in Nat /\ made' # 0 /\ runs \in Nat /\ runs # 0
    BY <1>0, <1>5 DEF GenerateCerts, TypeInv
  <2>2. certs'["ca"] = new /\ new.crt = made' /\ Signed(new, made')
    BY <2>1, SignedFacts, NameFacts DEF CertNames
  <2> HIDE DEF new
  <2>3. (Uniform(certs))'
    BY <2>1, <2>2 DEF Uniform
  <2>4. \A x \in Saved : Signed(x, made')
    BY <1>0, <2>1 DEF Clash, SavedInv
  <2>5. writers' = {} /\ Saved' = Saved
    BY <1>5, <2>1 DEF GenerateCerts, BaseInv, WriterInv, Saved
  <2> QED BY <1>0, <2>2, <2>3, <2>4, <2>5 DEF SavedInv
<1>6. CASE ReconcileEtcdCerts
  <2>1. \A n \in Names : Signed(RegenerateEtcdCertificate(certs, n)[n], certs["ca"].crt)
    <3> TAKE n \in Names
    <3>1. RegenerateEtcdCertificate(certs, n)[n] = SignedBy(certs["ca"].crt, runs, runs)
      BY <1>0 DEF RegenerateEtcdCertificate, TypeInv
    <3>2. certs["ca"].crt \in Nat /\ certs["ca"].crt # 0 /\ runs \in Nat /\ runs # 0
      BY <1>0, <1>6, NameFacts
         DEF ReconcileEtcdCerts, CertNames, BaseInv, CoverInv, TypeInv, Cert, Whole
    <3> QED BY <3>1, <3>2, SignedFacts
  <2>2. "ca" \notin conf
    BY <1>0, CertificatesAssumption DEF TypeInv
  <2>3. certs'["ca"] = certs["ca"]
    BY <1>6, <2>2, NameFacts DEF ReconcileEtcdCerts
  <2>4. Uniform(certs) /\ \A x \in Saved : Signed(x, certs["ca"].crt)
    BY <1>0, <1>6 DEF ReconcileEtcdCerts, SavedInv, Holding
  <2>5. (Uniform(certs))'
    BY <1>6, <2>1, <2>3, <2>4 DEF ReconcileEtcdCerts, Uniform
  <2>6. Saved' = Saved /\ UNCHANGED writers
    BY <1>6 DEF ReconcileEtcdCerts, Saved
  <2> QED BY <1>0, <2>3, <2>4, <2>5, <2>6 DEF SavedInv
<1>7. ASSUME NEW h \in Hosts, StartDeployer(h) PROVE SavedInv'
  <2>1. CASE deployer[h].st = "running"
    BY <1>0, <1>7, <2>1, SavedAfterReturn DEF StartDeployer
  <2>2. CASE deployer[h].st # "running"
    BY <1>0, <1>7, <2>2 DEF StartDeployer, SavedInv, Saved, Uniform
  <2> QED BY <2>1, <2>2
<1>8. ASSUME NEW h \in Hosts, DeployerDone(h) PROVE SavedInv'
  BY <1>8, <1>0 DEF DeployerDone, SavedInv, Saved, Uniform
<1>9. CASE BackedUp
  BY <1>9, <1>0 DEF BackedUp, SavedInv, Saved, Uniform, Holding, Equipped
<1>10. CASE DeployAdminConfig
  BY <1>10, <1>0 DEF DeployAdminConfig, SavedInv, Saved, Uniform, Holding,
     Equipped
<1>11. CASE DeployControlPlane
  <2>1. Uniform(certs) /\ (\A x \in Saved : Signed(x, certs["ca"].crt))
    BY <1>0, <1>11
       DEF DeployControlPlane, SavedInv, Holding, Equipped, BaseInv, CoverInv,
          CertNames
  <2>2. \A n \in Names : certs[n] # None => Signed(certs[n], certs["ca"].crt)
    BY <2>1, NameFacts DEF Uniform
  <2>3. \A w \in writers' : Signed(w.val, certs["ca"].crt)
    BY <1>11, <2>2 DEF DeployControlPlane, WritersFor
  <2>4. Saved' = Saved /\ UNCHANGED certs
    BY <1>11 DEF DeployControlPlane, Saved
  <2> QED BY <1>0, <2>1, <2>3, <2>4 DEF SavedInv, Uniform
<1>12. ASSUME NEW w \in writers, WriterSucceeds(w) PROVE SavedInv'
  <2>1. pc \in Holding
    BY <1>12 DEF BaseInv, WriterInv, Holding, Equipped
  <2>2. \A x \in Saved' : x \in Saved \/ (CertWriter(w) /\ x = w.val)
    BY <1>12, SavedAfterWrite DEF WriterSucceeds
  <2>3. \A x \in Saved' : Signed(x, certs["ca"].crt)
    BY <1>0, <2>1, <2>2 DEF SavedInv
  <2>4. \A x, y \in Saved' : Signed(x, y.crt)
    BY <2>3 DEF Signed
  <2>5. UNCHANGED <<pc, certs>> /\ writers' \subseteq writers
    BY <1>12 DEF WriterSucceeds
  <2> QED BY <1>0, <2>3, <2>4, <2>5 DEF SavedInv, Uniform
<1>13. CASE SaveClusterCerts
  BY <1>13, <1>0 DEF SaveClusterCerts, StateWriter, SavedInv, Saved, Uniform,
     Holding, Equipped
<1>14. CASE SaveState
  BY <1>14, <1>0, SavedAfterReturn DEF SaveState
<1>15. CASE SaveTimeout
  BY <1>15, <1>0, SavedAfterReturn DEF SaveTimeout
<1>16. CASE Abort
  BY <1>16, <1>0, SavedAfterReturn DEF Abort
<1>17. ASSUME NEW w \in leaked, LeakedWriterSucceeds(w) PROVE SavedInv'
  <2>1. \A x \in Saved' : x \in Saved
    <3>1. \A x \in Saved' : x \in Saved \/ (CertWriter(w) /\ x = w.val)
      BY <1>17, SavedAfterWrite DEF LeakedWriterSucceeds
    <3>2. CertWriter(w) => w.val \in Saved
      BY DEF Saved
    <3> QED BY <3>1, <3>2
  <2>2. UNCHANGED <<pc, certs, writers>>
    BY <1>17 DEF LeakedWriterSucceeds
  <2> QED BY <1>0, <2>1, <2>2 DEF SavedInv, Uniform
<1>18. ASSUME NEW h \in Hosts, DeployerExits(h) PROVE SavedInv'
  BY <1>18, <1>0 DEF DeployerExits, SavedInv, Saved, Uniform
<1>19. ASSUME NEW h \in Hosts, DeployerKilled(h) PROVE SavedInv'
  BY <1>19, <1>0 DEF DeployerKilled, SavedInv, Saved, Holding, Equipped
<1>20. CASE ApiRestarts
  BY <1>20, <1>0 DEF ApiRestarts, SavedInv, Saved, Uniform
<1>21. CASE UNCHANGED vars
  BY <1>21, <1>0 DEF vars, SavedInv, Saved, Uniform
<1> QED
  BY <1>1, <1>2, <1>3, <1>4, <1>5, <1>6, <1>7, <1>8, <1>9, <1>10, <1>11,
     <1>12, <1>13, <1>14, <1>15, <1>16, <1>17, <1>18, <1>19, <1>20, <1>21
     DEF Next, RkeStep

-----------------------------------------------------------------------------
(* What is deployed.                                                        *)

LEMMA DeployInvStep == BaseInv /\ DeployInv /\ [Next]_vars => DeployInv'
<1> SUFFICES ASSUME BaseInv, DeployInv, [Next]_vars PROVE DeployInv'
  OBVIOUS
<1> USE DEF hostVars, savedVars, procVars, envVars, Goto, Fail, Return
<1>1. ASSUME NEW c \in Configs, StartUp(c) PROVE DeployInv'
  BY <1>1 DEF StartUp, DeployInv, Provided, PlaneNames, Served, BaseInv,
     TypeInv
<1>2. CASE NoState
  BY <1>2 DEF NoState, DeployInv, Provided, PlaneNames, Served, BaseInv,
     TypeInv
<1>3. CASE GetClusterState
  BY <1>3 DEF GetClusterState, DeployInv, Provided, PlaneNames, Served,
     BaseInv, TypeInv
<1>4. CASE RecoverBackup
  BY <1>4 DEF RecoverBackup, DeployInv, Provided, PlaneNames, Served, BaseInv,
     TypeInv
<1>5. CASE GenerateCerts
  BY <1>5 DEF GenerateCerts, DeployInv, Provided, PlaneNames, Served, BaseInv,
     TypeInv
<1>6. CASE ReconcileEtcdCerts
  BY <1>6 DEF ReconcileEtcdCerts, DeployInv, Provided, PlaneNames, Served,
     BaseInv, TypeInv
<1>7. ASSUME NEW h \in Hosts, StartDeployer(h) PROVE DeployInv'
  <2>1. CASE deployer[h].st = "running"
    BY <1>7, <2>1 DEF StartDeployer, DeployInv, Served, BaseInv, TypeInv
  <2>2. CASE deployer[h].st # "running"
    <3>1. /\ UNCHANGED <<ssl, pc, conf, certs, result, torn>>
          /\ h \in group /\ group' = group \ {h} /\ waiting' = waiting \cup {h}
          /\ pc \in {"backup", "members", "hosts"} /\ result # "up"
      BY <1>7, <2>2 DEF StartDeployer, DeployInv, BaseInv, TypeInv
    <3>2. \A g \in Hosts \ {h} : deployer'[g] = deployer[g]
      BY <1>7, <2>2 DEF StartDeployer, BaseInv, TypeInv
    <3>3. pc = "hosts" =>
             /\ deployer'[h].dest = "ssl" /\ deployer'[h].st = "running"
             /\ \A n \in PlaneNames(h) : deployer'[h].env[n] = certs[n]
      <4>1. ASSUME pc = "hosts"
            PROVE  deployer'[h] = [st |-> "running", env |-> EnvFor(h), dest |-> "ssl"]
        BY <1>7, <2>2, <4>1 DEF StartDeployer, BaseInv, TypeInv
      <4>2. ASSUME pc = "hosts", NEW n \in PlaneNames(h) PROVE EnvFor(h)[n] = certs[n]
        BY <4>2, PlaneFacts DEF EnvFor, DeployNames, BaseInv
      <4> QED BY <4>1, <4>2
    <3>4. \A g : PlaneNames(g)' = PlaneNames(g)
      BY <3>1 DEF PlaneNames
    <3> QED BY <3>1, <3>2, <3>3, <3>4 DEF DeployInv, Provided, Served
  <2> QED BY <2>1, <2>2
<1>8. ASSUME NEW h \in Hosts, DeployerDone(h) PROVE DeployInv'
  <2>1. /\ UNCHANGED <<ssl, pc, conf, certs, group, result, torn>>
        /\ h \in waiting /\ waiting' = waiting \ {h} /\ deployer[h].st = "exited"
    BY <1>8 DEF DeployerDone
  <2>2. /\ \A g \in Hosts \ {h} : deployer'[g] = deployer[g]
        /\ deployer'[h].st = "absent"
    BY <1>8 DEF DeployerDone, NoDeployer, BaseInv, TypeInv
  <2>3. \A g : PlaneNames(g)' = PlaneNames(g)
    BY <2>1 DEF PlaneNames
  <2> QED BY <2>1, <2>2, <2>3 DEF DeployInv, Provided, Served
<1>9. CASE BackedUp
  BY <1>9 DEF BackedUp, Deployed, DeployInv, Provided, PlaneNames, Served,
     BaseInv, TypeInv
<1>10. CASE DeployAdminConfig
  BY <1>10 DEF DeployAdminConfig, Deployed, DeployInv, Provided, PlaneNames,
     Served, BaseInv, TypeInv
<1>11. CASE DeployControlPlane
  BY <1>11 DEF DeployControlPlane, DeployInv, Provided, PlaneNames, Served,
     BaseInv, TypeInv
<1>12. ASSUME NEW w \in writers, WriterSucceeds(w) PROVE DeployInv'
  BY <1>12 DEF WriterSucceeds, DeployInv, Provided, PlaneNames, Served
<1>13. CASE SaveClusterCerts
  BY <1>13 DEF SaveClusterCerts, DeployInv, Provided, PlaneNames, Served,
     BaseInv, TypeInv
<1>14. CASE SaveState
  BY <1>14 DEF SaveState, DeployInv, Served, BaseInv, TypeInv
<1>15. CASE SaveTimeout
  BY <1>15 DEF SaveTimeout, DeployInv, Provided, PlaneNames, Served, BaseInv,
     TypeInv
<1>16. CASE Abort
  BY <1>16 DEF Abort, DeployInv, Provided, PlaneNames, Served, BaseInv, TypeInv
<1>17. ASSUME NEW w \in leaked, LeakedWriterSucceeds(w) PROVE DeployInv'
  BY <1>17 DEF LeakedWriterSucceeds, DeployInv, Provided, PlaneNames, Served,
     BaseInv, TypeInv
<1>18. ASSUME NEW h \in Hosts, DeployerExits(h) PROVE DeployInv'
  <2>1. UNCHANGED <<pc, conf, certs, group, waiting, result, torn>>
    BY <1>18 DEF DeployerExits
  <2>2. \A g \in Hosts \ {h} : deployer'[g] = deployer[g] /\ ssl'[g] = ssl[g]
    BY <1>18 DEF DeployerExits, Into, BaseInv, TypeInv
  <2>3. deployer[h].st = "running" /\ deployer'[h].st = "exited"
    BY <1>18 DEF DeployerExits, BaseInv, TypeInv
  <2>4. \A g : PlaneNames(g)' = PlaneNames(g)
    BY <2>1 DEF PlaneNames
  <2>5. ~torn /\ pc = "hosts" /\ h \in waiting =>
           \A n \in PlaneNames(h) : ssl'[h][n] = certs[n]
    <3> SUFFICES ASSUME ~torn, pc = "hosts", h \in waiting, NEW n \in PlaneNames(h)
                 PROVE  ssl'[h][n] = certs[n]
      OBVIOUS
    <3>1. deployer[h].dest = "ssl" /\ deployer[h].env[n] = certs[n]
      BY <2>3 DEF DeployInv
    <3>2. n \in Names /\ certs[n] # None
      BY PlaneFacts DEF BaseInv, CoverInv, Equipped
    <3>3. ssl'[h] = Written(ssl[h], deployer[h].env, Payload(h))
      BY <1>18, <3>1 DEF DeployerExits, Into, Target, BaseInv, TypeInv
    <3> QED BY <3>1, <3>2, <3>3 DEF Written, Payload
  <2> QED BY <2>1, <2>2, <2>3, <2>4, <2>5 DEF DeployInv, Provided, Served
<1>19. ASSUME NEW h \in Hosts, DeployerKilled(h) PROVE DeployInv'
  BY <1>19 DEF DeployerKilled, DeployInv, BaseInv, TypeInv
<1>20. CASE ApiRestarts
  BY <1>20 DEF ApiRestarts, DeployInv, Provided, PlaneNames, Served, BaseInv,
     TypeInv
<1>21. CASE UNCHANGED vars
  BY <1>21 DEF vars, DeployInv, Provided, PlaneNames, Served, BaseInv, TypeInv
<1> QED
  BY <1>1, <1>2, <1>3, <1>4, <1>5, <1>6, <1>7, <1>8, <1>9, <1>10, <1>11,
     <1>12, <1>13, <1>14, <1>15, <1>16, <1>17, <1>18, <1>19, <1>20, <1>21
     DEF Next, RkeStep

LEMMA UpInvStep ==
  BaseInv /\ OneCAInv /\ DeployInv /\ UpInv /\ [Next]_vars => UpInv'
<1> SUFFICES ASSUME BaseInv, OneCAInv, DeployInv, UpInv, [Next]_vars,
                    ~torn', ~reissued', result' = "up"
             PROVE  \A h \in Hosts : \A n \in (PlaneNames(h))' :
                       /\ Signed(secrets'[n], ssl'[h]["ca"].crt)
                       /\ n \in late' \/ ssl'[h][n] = secrets'[n]
  BY DEF UpInv
<1> USE DEF hostVars, savedVars, procVars, envVars, Goto, Fail, Return
<1>0. ~torn /\ ~reissued /\ TypeInv /\ SavedInv
  BY ExcusesStay DEF BaseInv, OneCAInv
<1>1. CASE SaveState
  <2>1. pc = "save_state" /\ UNCHANGED <<ssl, secrets, late, conf>>
    BY <1>1 DEF SaveState
  <2>2. \A h \in Hosts : Provided(h)
    BY <1>0, <2>1 DEF DeployInv, Served
  <2>3. \A n \in CertNames(conf) :
           n \in Names /\ secrets[n] # None /\ certs[n] # None
    BY <1>0, <2>1, NameFacts DEF BaseInv, CoverInv, Equipped, TypeInv
  <2>4. \A n \in CertNames(conf) : secrets[n] \in Saved
    BY <2>3 DEF Saved
  <2>5. \A n \in CertNames(conf) : Signed(secrets[n], certs["ca"].crt)
    BY <1>0, <2>1, <2>4 DEF SavedInv, Holding, Equipped
  <2>6. \A n \in CertNames(conf) : n \in late \/ secrets[n] = certs[n]
    BY <2>1, <2>3 DEF BaseInv, LatestInv
  <2>7. \A h : PlaneNames(h)' = PlaneNames(h) /\ "ca" \in PlaneNames(h)
    BY <2>1 DEF PlaneNames
  <2>8. \A h \in Hosts : ssl[h]["ca"] = certs["ca"]
    BY <2>2, <2>7 DEF Provided
  <2>9. \A h \in Hosts : \A n \in PlaneNames(h) :
           /\ Signed(secrets[n], ssl[h]["ca"].crt)
           /\ n \in late \/ ssl[h][n] = secrets[n]
    BY <1>0, <2>2, <2>5, <2>6, <2>8, PlaneFacts DEF Provided
  <2> QED BY <2>1, <2>7, <2>9
<1>2. ASSUME NEW w \in leaked, LeakedWriterSucceeds(w)
      PROVE  \A h \in Hosts : \A n \in (PlaneNames(h))' :
                /\ Signed(secrets'[n], ssl'[h]["ca"].crt)
                /\ n \in late' \/ ssl'[h][n] = secrets'[n]
  <2>1. UNCHANGED <<ssl, conf, result>> /\ Write(w)
    BY <1>2 DEF LeakedWriterSucceeds
  <2>2. \A h \in Hosts : \A n \in PlaneNames(h) :
           /\ n \in Names /\ Signed(secrets[n], ssl[h]["ca"].crt)
           /\ n \in late \/ ssl[h][n] = secrets[n]
    BY <1>0, <2>1, PlaneFacts, NameFacts DEF UpInv, TypeInv
  <2>3. \A h : PlaneNames(h)' = PlaneNames(h) /\ "ca" \in PlaneNames(h)
    BY <2>1 DEF PlaneNames
  <2>4. CASE CertWriter(w)
    <3>1. w.val \in Saved
      BY <2>4 DEF Saved, CertWriter
    <3>2. \A h \in Hosts : secrets["ca"] \in Saved /\ secrets["ca"].crt = ssl[h]["ca"].crt
      BY <2>2, <2>3 DEF Saved, Signed
    <3>3. \A h \in Hosts : Signed(w.val, ssl[h]["ca"].crt)
      BY <1>0, <3>1, <3>2 DEF SavedInv
    <3>4. secrets' = [secrets EXCEPT ![w.obj] = w.val] /\ w.obj \in Names
      BY <2>1, <2>4 DEF Write, CertWriter, BaseInv, WriterInv
    <3>5. \A n \in Names : secrets'[n] = IF n = w.obj THEN w.val ELSE secrets[n]
      BY <1>0, <3>4 DEF TypeInv
    <3>6. late \subseteq late' /\ (secrets' = secrets \/ w.obj \in late')
      BY <1>2, <2>1, <2>4 DEF LeakedWriterSucceeds, Write, CertWriter
    <3> QED BY <2>1, <2>2, <2>3, <3>3, <3>5, <3>6
  <2>5. CASE ~CertWriter(w)
    <3>1. secrets' = secrets /\ late \subseteq late'
      BY <1>2, <2>1, <2>5 DEF Write, CertWriter, LeakedWriterSucceeds
    <3> QED BY <2>1, <2>2, <2>3, <3>1
  <2> QED BY <2>4, <2>5
<1>3. ASSUME NEW h \in Hosts, DeployerExits(h) \/ DeployerKilled(h) PROVE FALSE
  BY <1>0, <1>3 DEF DeployerExits, DeployerKilled, DeployInv
<1>4. CASE ApiRestarts \/ UNCHANGED vars
  BY <1>0, <1>4 DEF ApiRestarts, vars, UpInv, PlaneNames
\* Every other step belongs to a run, whose result is not known yet.
<1>5. CASE \/ \E c \in Configs : StartUp(c)
           \/ Abort
           \/ RkeStep /\ ~SaveState
  <2>1. pc # "idle" => result = "none"
    BY <1>0 DEF TypeInv
  <2>2. CASE Abort \/ \E c \in Configs : StartUp(c)
    BY <2>2 DEF Abort, StartUp
  <2>3. CASE NoState \/ GetClusterState \/ GenerateCerts
    BY <2>1, <2>3 DEF NoState, GetClusterState, GenerateCerts
  <2>4. CASE RecoverBackup
    BY <2>1, <2>4 DEF RecoverBackup
  <2>5. CASE ReconcileEtcdCerts \/ BackedUp \/ DeployAdminConfig \/ DeployControlPlane
             \/ SaveClusterCerts \/ SaveTimeout
    BY <2>1, <2>5 DEF ReconcileEtcdCerts, BackedUp, DeployAdminConfig,
                      DeployControlPlane, SaveClusterCerts, SaveTimeout
  <2>6. ASSUME NEW h \in Hosts, StartDeployer(h) \/ DeployerDone(h) PROVE FALSE
    BY <2>1, <2>6 DEF StartDeployer, DeployerDone, DeployInv
  <2>7. ASSUME NEW w \in writers, WriterSucceeds(w) PROVE FALSE
    BY <2>1, <2>7 DEF WriterSucceeds, BaseInv, WriterInv
  <2> QED BY <1>5, <2>2, <2>3, <2>4, <2>5, <2>6, <2>7 DEF RkeStep
<1> QED BY <1>1, <1>2, <1>3, <1>4, <1>5 DEF Next, RkeStep

LEMMA CertInvariant == CertSpec => []CertInv
<1>1. Init => OneCAInv /\ DeployInv /\ UpInv
  <2> SUFFICES ASSUME Init PROVE OneCAInv /\ DeployInv /\ UpInv
    OBVIOUS
  <2>1. BackupInv
    BY NameFacts DEF Init, BackupInv, Uniform, BacksUp, NoDeployer, NoCerts
  <2>2. SavedInv
    BY DEF Init, SavedInv, Saved, NoCerts, Holding, Equipped
  <2>3. DeployInv /\ UpInv
    BY DEF Init, DeployInv, UpInv, Served
  <2> QED BY <2>1, <2>2, <2>3 DEF OneCAInv
<1>2. BaseInv /\ OneCAInv /\ [Next]_vars => OneCAInv'
  BY BackupInvStep, SavedInvStep DEF OneCAInv
<1>3. BaseInv /\ OneCAInv /\ DeployInv /\ UpInv /\ [Next]_vars => (OneCAInv /\ DeployInv /\ UpInv)'
  BY <1>2, DeployInvStep, UpInvStep
<1> QED BY <1>1, <1>3, BaseInvariant, PTL DEF CertSpec, CertInv

\* Whatever runs crashed before, and whatever they left to be written later,
\* the certificates a run is about to deploy are complete and of one CA, with
\* their keys, but for the two excuses.
THEOREM OneCAHolds == CertSpec => []OneCA
<1>1. CertInv => OneCA
  <2> SUFFICES ASSUME CertInv, pc \in {"backup", "members", "hosts", "control"},
                      ~torn, ~reissued, NEW n \in CertNames(conf)
               PROVE  Signed(certs[n], certs["ca"].crt)
    BY DEF OneCA, Consistent
  <2> QED
    BY NameFacts DEF CertInv, BaseInv, TypeInv, CoverInv, OneCAInv, SavedInv,
       Uniform,
                     Holding, Equipped
<1> QED BY <1>1, CertInvariant, PTL

\* After a successful run every host holds the certificates of its roles that
\* are saved in the cluster, the renewed one of the API server included, and the
\* saved state is the run's, whatever failed in earlier runs; what a goroutine
\* of an earlier run wrote over is still of the same CA, with its own key.
THEOREM DeployedIsSavedHolds == CertSpec => []DeployedIsSaved
<1>1. CertInv => DeployedIsSaved
  BY DEF CertInv, UpInv, BaseInv, LatestInv, DeployedIsSaved
<1> QED BY <1>1, CertInvariant, PTL

=============================================================================
